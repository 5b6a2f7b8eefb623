-------------------------------- MODULE Tape --------------------------------
(***************************************************************************)
(* What is read back from the tape of one connection: the baker's          *)
(* interpreter (src/tape/bake/interpret.py), its table writers (spill.py), *)
(* the day's uptime (manifest.py) and the books that the catalog rebuilds  *)
(* (src/tape/store/catalog.py), against what really happened.              *)
(*                                                                         *)
(* Every action is something that happens at the recorder and the records  *)
(* that it tapes; they are interpreted as they are written, in the order   *)
(* of the files, which is when a bake would read them.  A book is a count  *)
(* that deltas raise by one.  Time passes with each action.                *)
(***************************************************************************)
EXTENDS Integers, Sequences, FiniteSets, FiniteSetsExt, SequencesExt

CONSTANTS
  Markets,      \* the markets of the connection
  HourLength,   \* instants of an hour
  SleepLength,  \* how long the host sleeps
  StepLength,   \* how far the wall clock steps back
  MonoStart,    \* the monotonic clock at first
  MonoRestart,  \* _MONO_RESTART_NS
  FlushRows,    \* flush_rows
  MaxPartRows,  \* max_part_rows
  MaxWall,      \* bound: the wall clock
  MaxTroubles   \* bound: events other than the recording of books

None == -1

ASSUME TapeAssumption ==
  /\ IsFiniteSet(Markets) /\ None \notin Markets
  /\ {HourLength, SleepLength, StepLength, FlushRows, MaxPartRows} \subseteq Nat \ {0}
  /\ {MonoStart, MonoRestart, MaxWall, MaxTroubles} \subseteq Nat
  /\ MonoStart > MonoRestart + MaxWall + SleepLength + MaxTroubles * StepLength
  /\ MonoRestart > MaxWall + SleepLength + MaxTroubles * StepLength

VARIABLES
  wall, mono, \* the clocks
  conn,       \* "down" | "open"
  sid,        \* the orderbook subscription
  exch,       \* the exchange's books
  live,       \* the recorder's books
  awaited,    \* markets the exchange owes a snapshot
  resyncing,  \* of those asked for with get_snapshot
  hole,       \* subscriptions with a frame lost since the last one that arrived
  rotated,    \* the next record opens a file
  seg,        \* _Segment: the file being interpreted
  hours,      \* HourInterpreter and its tables, for each hour
  keyframes,  \* the keyframe written, if there is one
  truth,      \* history: what really happened
  troubles    \* how much of MaxTroubles is used

tapeVars == <<wall, mono, conn, sid, exch, live, awaited, resyncing, hole, rotated, seg, hours, keyframes,
              truth, troubles>>

TradeSid == 0
Hours == 0 .. (MaxWall + SleepLength) \div HourLength
HourOf(w) == w \div HourLength
Tables == {"deltas", "snapshots", "gaps", "trades", "audits"}

-----------------------------------------------------------------------------
(* spill.py: rows go to a bucket by market, gaps by connection. *)

Buckets == Markets \cup {None}

(* The order of the markets' buckets is that of a hash: any. *)
BucketOrders == {<<None>> \o order : order \in SetToSeqs(Markets)}

(* bucket_of *)
BucketOf(row) == IF row.table = "gaps" THEN None ELSE row.market

NewTable == [buffer |-> << >>, spilled |-> [b \in Buckets |-> << >>]]

(* The rows of a bucket, in the order they were added. *)
RowsIn(rows, b) ==
  FoldLeft(LAMBDA q, row : IF BucketOf(row) = b THEN Append(q, row) ELSE q, << >>, rows)

(* TableWriter._spill *)
Spilled(t) ==
  [buffer |-> << >>, spilled |-> [b \in Buckets |-> t.spilled[b] \o RowsIn(t.buffer, b)]]

(* TableWriter.add *)
Added(t, row) ==
  LET u == [t EXCEPT !.buffer = Append(@, row)]
  IN IF Len(u.buffer) >= FlushRows THEN Spilled(u) ELSE u

(* plan_parts: the parts closed, and the rows of the one being filled. *)
NoParts == [parts |-> << >>, current |-> << >>]

Cut(plan) ==
  IF plan.current = << >> THEN plan
  ELSE [parts |-> Append(plan.parts, plan.current), current |-> << >>]

(* Mutant: a bucket joins the part being filled whether there is room or not. *)
PlanBucketJoinsAnyway(plan, rows) ==
  LET cut == (Len(rows) - 1) \div MaxPartRows
  IN IF rows = << >> THEN plan
     ELSE [parts   |-> plan.parts \o
                         [k \in 1 .. cut |-> SubSeq(rows, (k - 1) * MaxPartRows + 1, k * MaxPartRows)],
           current |-> plan.current \o SubSeq(rows, cut * MaxPartRows + 1, Len(rows))]

(* plan_parts, one bucket: it starts a part unless there is room for it; it is cut into
   parts of its own while it is too large, and what is left of it is shared with the next. *)
PlanBucket(plan, rows) ==
  LET room == Len(plan.current) + Len(rows) <= MaxPartRows
      open == IF room THEN plan ELSE Cut(plan)
      cut  == (Len(rows) - 1) \div MaxPartRows
  IN IF rows = << >> THEN plan
     ELSE [parts   |-> open.parts \o
                         [k \in 1 .. cut |-> SubSeq(rows, (k - 1) * MaxPartRows + 1, k * MaxPartRows)],
           current |-> open.current \o SubSeq(rows, cut * MaxPartRows + 1, Len(rows))]

(* plan_parts *)
PlanParts(spilled, order) ==
  Cut(FoldLeft(LAMBDA plan, b : PlanBucket(plan, spilled[b]), NoParts, order)).parts

(* TableWriter.finish, _write_part, _batches: the rows of each part; their order is
   not modelled. *)
Parts(t, order) == PlanParts(Spilled(t).spilled, order)
-----------------------------------------------------------------------------
(* interpret.py.  An interpretation is the hour's accumulated facts with the segment
   being read. *)

NewHour ==
  [records |-> 0, baked |-> [t \in Tables |-> 0], notBaked |-> 0, failures |-> 0, spans |-> << >>, sleeps |-> {},
   stale |-> 0, observed |-> 0, tables |-> [t \in Tables |-> NewTable]]

NoMarket == [on |-> FALSE, sid |-> 0, since |-> 0, stale |-> None]
NoSegment ==
  [hour |-> None, first |-> None, last |-> None, start |-> None, opened |-> FALSE,
   sids |-> {}, markets |-> [m \in Markets |-> NoMarket], pending |-> << >>]

Bump(i, counter) == [i EXCEPT !.hour[counter] = @ + 1]
BumpBaked(i, table) == [i EXCEPT !.hour.baked[table] = @ + 1]
Emit(i, row) == [i EXCEPT !.hour.tables[row.table] = Added(@, row)]

Row(table, market, r, n) ==
  [table |-> table, market |-> market, sid |-> r.sid, wall |-> r.wall, mono |-> r.mono, n |-> n]

(* add_book_time *)
BookTime(i, observed, stale) ==
  [i EXCEPT !.hour.observed = @ + observed, !.hour.stale = @ + stale]

(* _end_market *)
EndMarket(i, m, end) ==
  LET market == i.seg.markets[m]
  IN BookTime(i, Max({0, end - market.since}),
              IF market.stale = None THEN 0 ELSE Max({0, end - market.stale}))

(* _leave *)
Leave(i, m, w) ==
  IF i.seg.markets[m].on
  THEN [EndMarket(i, m, w) EXCEPT !.seg.markets[m] = NoMarket]
  ELSE i

LeaveAll(i, ms, w) == FoldLeft(LAMBDA j, m : Leave(j, m, w), i, SetToSeq(ms))

(* _observe *)
Observe(i, r) ==
  IF i.seg.markets[r.market].on THEN i
  ELSE [i EXCEPT !.seg.markets[r.market] =
          [on |-> TRUE, sid |-> r.sid, since |-> r.wall, stale |-> None]]

(* _close_span *)
CloseSpan(i, end, closed) ==
  IF i.seg.start = None THEN i
  ELSE [i EXCEPT !.hour.spans = Append(@, [start |-> i.seg.start, end |-> Max({i.seg.start, end}),
                                           opened |-> i.seg.opened, closed |-> closed]),
                 !.seg.start = None]

(* Mutant: a file that does not begin with open shows no open connection. *)
BegunClosed(i, r) == [i EXCEPT !.seg.first = r.wall]

(* feed, _begin: what the first record says of the connection. *)
Begun(i, r) ==
  IF i.seg.first # None THEN i
  ELSE IF r.kind \in {"open", "error"} THEN [i EXCEPT !.seg.first = r.wall]
  ELSE [i EXCEPT !.seg.first = r.wall, !.seg.start = i.seg.hour * HourLength,
                 !.seg.opened = FALSE]

(* _delta *)
Delta(i, r) ==
  BumpBaked(Emit(Observe([i EXCEPT !.seg.sids = @ \cup {r.sid}], r), Row("deltas", r.market, r, 1)),
            "deltas")

Postpone(i, p) == [i EXCEPT !.seg.pending = Append(@, p)]

(* Mutant: a gap is over when any of its books has its snapshot. *)
ResolveAny(i, p, r) ==
  IF p.row.sid = r.sid THEN Emit(i, [p.row EXCEPT !.n = r.wall]) ELSE Postpone(i, p)

(* _resolve_gaps, one of them: it is over when the last of its books has its snapshot. *)
ResolveGap(i, p, r) ==
  IF p.row.sid # r.sid THEN Postpone(i, p)
  ELSE IF p.waiting \subseteq {r.market} THEN Emit(i, [p.row EXCEPT !.n = r.wall])
  ELSE Postpone(i, [p EXCEPT !.waiting = @ \ {r.market}])

(* _resolve_gaps *)
ResolveGaps(i, r) ==
  FoldLeft(LAMBDA j, p : ResolveGap(j, p, r), [i EXCEPT !.seg.pending = << >>], i.seg.pending)

(* _snapshot *)
Snapshot(i, r) ==
  LET j == Observe([i EXCEPT !.seg.sids = @ \cup {r.sid}], r)
      since == j.seg.markets[r.market].stale
      k == IF since = None THEN j
           ELSE [BookTime(j, 0, r.wall - since) EXCEPT !.seg.markets[r.market].stale = None]
  IN BumpBaked(ResolveGaps(Emit(k, Row("snapshots", r.market, r, r.n)), r), "snapshots")

(* _gap: a gap on a book subscription stales every book it carries. *)
Gap(i, r) ==
  LET hit == IF r.sid \in i.seg.sids
             THEN {m \in Markets : i.seg.markets[m].on /\ i.seg.markets[m].sid = r.sid} ELSE {}
      row == Row("gaps", None, r, None)
      staled == [m \in Markets |->
                   IF m \in hit /\ i.seg.markets[m].stale = None
                   THEN [i.seg.markets[m] EXCEPT !.stale = r.wall] ELSE i.seg.markets[m]]
      j == BumpBaked(i, "gaps")
  IN IF hit = {} THEN Emit(j, row)
     ELSE [j EXCEPT !.seg.markets = staled,
                    !.seg.pending = Append(@, [row |-> row, waiting |-> hit])]

(* _connection *)
Connection(i, r) ==
  LET j == Bump(i, "notBaked")
  IN CASE r.kind = "open" ->
            [CloseSpan(j, r.wall, FALSE) EXCEPT !.seg.start = r.wall, !.seg.opened = TRUE]
       [] r.kind = "close" -> CloseSpan(j, r.wall, TRUE)
       [] r.kind = "clock_jump" -> [j EXCEPT !.hour.sleeps = @ \cup {<<r.wall - r.n, r.wall>>}]
       [] OTHER -> j

(* _command *)
Command(i, r) ==
  LET j == Bump(i, "notBaked")
  IN CASE r.kind = "delete_markets" -> Leave(j, r.market, r.wall)
       [] r.kind = "unsubscribe" ->
            LeaveAll(j, {m \in Markets : j.seg.markets[m].on /\ j.seg.markets[m].sid = r.sid}, r.wall)
       [] OTHER -> j

(* _reply *)
Reply(i, r) == Bump([i EXCEPT !.seg.sids = @ \cup {r.sid}], "notBaked")

Interpreted(i, r) ==
  CASE r.kind = "delta" -> Delta(i, r)
    [] r.kind = "snapshot" -> Snapshot(i, r)
    [] r.kind = "trade" -> BumpBaked(Emit(i, Row("trades", r.market, r, 0)), "trades")
    [] r.kind = "audit" -> BumpBaked(Emit(i, Row("audits", r.market, r, 0)), "audits")
    [] r.kind = "gap" -> Gap(i, r)
    [] r.kind = "subscribed" -> Reply(i, r)
    [] r.kind = "undecodable" -> Bump(i, "failures")
    [] r.kind \in {"open", "close", "error", "clock_jump"} -> Connection(i, r)
    [] r.kind \in {"subscribe", "get_snapshot", "delete_markets", "unsubscribe"} -> Command(i, r)

(* _Segment.feed *)
Feed(i, r) ==
  LET j == Bump(Begun(i, r), "records")
  IN Interpreted([j EXCEPT !.seg.last = r.wall], r)

(* _Segment.finish *)
FinishSegment(i) ==
  LET on == {m \in Markets : i.seg.markets[m].on}
      j  == IF i.seg.last = None THEN i
            ELSE CloseSpan(FoldLeft(LAMBDA k, m : EndMarket(k, m, i.seg.last), i, SetToSeq(on)),
                           i.seg.last, FALSE)
  IN FoldLeft(LAMBDA k, p : Emit(k, p.row), j, i.seg.pending)

(* The hours as a bake would find them now: the file being written ends here. *)
Baked ==
  IF seg.hour = None THEN hours
  ELSE [hours EXCEPT ![seg.hour] = FinishSegment([hour |-> @, seg |-> seg]).hour]

(* The segment of the hour of the clock, which may be a new one. *)
Opened(w) ==
  IF ~rotated /\ seg.hour = HourOf(w) THEN [hour |-> hours[seg.hour], seg |-> seg]
  ELSE [hour |-> Baked[HourOf(w)], seg |-> [NoSegment EXCEPT !.hour = HourOf(w)]]

(* The recorder writes records of one instant. *)
Tapes(w, records) ==
  LET i == FoldLeft(Feed, Opened(w), records)
  IN /\ hours' = [(IF rotated \/ seg.hour # HourOf(w) THEN Baked ELSE hours) EXCEPT ![HourOf(w)] = i.hour]
     /\ seg' = i.seg
     /\ rotated' = (records[Len(records)].kind = "close")
-----------------------------------------------------------------------------
(* What happens at the recorder. *)

NoBook == [on |-> FALSE, fresh |-> FALSE, n |-> 0]

TapeInit ==
  /\ wall = 0 /\ mono = MonoStart
  /\ conn = "down" /\ sid = 1 /\ awaited = {} /\ resyncing = {} /\ hole = {} /\ rotated = TRUE
  /\ exch = [m \in Markets |-> 0] /\ live = [m \in Markets |-> NoBook]
  /\ seg = NoSegment /\ hours = [h \in Hours |-> NewHour] /\ keyframes = {}
  /\ truth = [up |-> {}, misled |-> FALSE, stepped |-> FALSE, restarted |-> FALSE, gaps |-> {}, heard |-> {}]
  /\ troubles = 0

Record(kind, m, n) ==
  [kind |-> kind, market |-> m, sid |-> CASE kind = "trade" -> TradeSid [] kind = "undecodable" -> None [] OTHER -> sid,
   wall |-> wall + 1, mono |-> mono + 1, n |-> n]

GapRecord(s) == [Record("gap", None, 0) EXCEPT !.sid = s]

Trouble == troubles < MaxTroubles /\ troubles' = troubles + 1
NoTrouble == UNCHANGED troubles

(* An instant passes, in which the connection stays as it is. *)
Instant ==
  /\ wall < MaxWall /\ wall' = wall + 1 /\ mono' = mono + 1

NewFile == rotated \/ seg.hour # HourOf(wall')

(* The markets with a book message in the file. *)
Heard == IF NewFile THEN {} ELSE truth.heard

(* A file that begins with a note of a connection that is down reads as if it went on
   with an open one. *)
Told(kind, gaps, heard) ==
  truth' = [truth EXCEPT !.up = IF conn = "open" THEN @ \cup {wall} ELSE @,
                         !.misled = @ \/ (conn = "down" /\ kind \notin {"open", "error"} /\ NewFile),
                         !.gaps = gaps, !.heard = heard]

(* Mutant: the books of a closed connection stay as they are. *)
StaledNot(books) == books

Staled(books) == [m \in Markets |-> [books[m] EXCEPT !.fresh = FALSE]]
On == {m \in Markets : live[m].on}

(* The snapshot of a book ends its part in the gaps before it. *)
GapsAfter(m) == {[g EXCEPT !.left = @ \ {m}] : g \in truth.gaps}

(* A gap after a frame of m stales the books that have been heard of. *)
GapAt(m) == [mono |-> mono', left |-> On \cap (Heard \cup {m})]

(* supervisor.py: an attempt succeeds, and the connection is subscribed. *)
Connect ==
  /\ conn = "down" /\ Instant /\ NoTrouble
  /\ conn' = "open" /\ sid' = 1 /\ awaited' = Markets /\ resyncing' = {} /\ hole' = {}
  /\ live' = [m \in Markets |-> [NoBook EXCEPT !.on = TRUE, !.n = live[m].n]]
  /\ Tapes(wall', <<Record("open", None, 0), [Record("subscribe", None, 0) EXCEPT !.sid = 1],
                    [Record("subscribed", None, 0) EXCEPT !.sid = 1]>>)
  /\ Told("open", {}, {})
  /\ UNCHANGED <<exch, keyframes>>

AttemptFails ==
  /\ conn = "down" /\ Instant /\ Trouble
  /\ Tapes(wall', <<Record("error", None, 0)>>) /\ Told("error", truth.gaps, Heard)
  /\ UNCHANGED <<conn, sid, exch, live, awaited, resyncing, hole, keyframes>>

(* _end_connection *)
Close ==
  /\ conn = "open" /\ Instant /\ Trouble
  /\ conn' = "down" /\ live' = Staled(live) /\ awaited' = {} /\ resyncing' = {} /\ hole' = {}
  /\ Tapes(wall', <<Record("close", None, 0)>>) /\ Told("close", {}, {})
  /\ UNCHANGED <<sid, exch, keyframes>>

(* _on_frame, _on_gap: the records of a frame on a subscription that lost one. *)
FrameAndGap(frame) ==
  IF frame.sid \in hole
  THEN <<frame, GapRecord(frame.sid)>> \o
       (IF frame.sid = sid THEN <<Record("get_snapshot", None, 0)>> ELSE << >>)
  ELSE <<frame>>

BookGap == sid \in hole

(* _on_snapshot, of a market that is awaited.  While the subscription resyncs, the
   snapshot is a new baseline and shows no gap. *)
SnapshotArrives(m) ==
  /\ conn = "open" /\ m \in awaited /\ Instant /\ NoTrouble
  /\ LET frame == Record("snapshot", m, exch[m])
         gap   == BookGap /\ resyncing = {}
         books == IF gap THEN Staled(live) ELSE live
     IN /\ live' = [books EXCEPT ![m] = [on |-> TRUE, fresh |-> TRUE, n |-> exch[m]]]
        /\ awaited' = IF gap THEN On ELSE awaited \ {m}
        /\ resyncing' = (IF gap THEN On ELSE resyncing) \ {m}
        /\ Tapes(wall', IF gap THEN FrameAndGap(frame) ELSE <<frame>>)
        /\ Told("frame", GapsAfter(m) \cup (IF gap THEN {GapAt(m)} ELSE {}), Heard \cup {m})
  /\ hole' = hole \ {sid}
  /\ UNCHANGED <<conn, sid, exch, keyframes>>

(* _on_delta *)
DeltaArrives(m) ==
  /\ conn = "open" /\ live[m].on /\ Instant /\ NoTrouble
  /\ exch' = [exch EXCEPT ![m] = @ + 1]
  /\ LET books == IF BookGap THEN Staled(live) ELSE live
     IN live' = IF books[m].fresh THEN [books EXCEPT ![m].n = @ + 1] ELSE books
  /\ awaited' = IF BookGap THEN On ELSE awaited
  /\ resyncing' = IF BookGap THEN On ELSE resyncing
  /\ Tapes(wall', FrameAndGap(Record("delta", m, 1)))
  /\ Told("frame", truth.gaps \cup (IF BookGap THEN {GapAt(m)} ELSE {}), Heard \cup {m})
  /\ hole' = hole \ {sid}
  /\ UNCHANGED <<conn, sid, keyframes>>

(* A delta or a trade is lost. *)
FrameLost ==
  /\ conn = "open" /\ Trouble
  /\ \/ \E m \in On : exch' = [exch EXCEPT ![m] = @ + 1] /\ hole' = hole \cup {sid}
     \/ UNCHANGED exch /\ hole' = hole \cup {TradeSid}
  /\ UNCHANGED <<wall, mono, conn, sid, live, awaited, resyncing, rotated, seg, hours, keyframes, truth>>

(* _on_duplicate: a delta comes twice and stales the books without a gap. *)
DeltaRepeated(m) ==
  /\ conn = "open" /\ live[m].on /\ ~BookGap /\ exch[m] > 0 /\ Instant /\ Trouble
  /\ live' = Staled(live) /\ awaited' = awaited \cup (On \ resyncing) /\ resyncing' = resyncing \cup On
  /\ Tapes(wall', <<Record("delta", m, 1)>> \o
                  (IF On \subseteq resyncing THEN << >> ELSE <<Record("get_snapshot", None, 0)>>))
  /\ Told("frame", truth.gaps, Heard \cup {m})
  /\ UNCHANGED <<conn, sid, exch, hole, keyframes>>

(* A frame of another channel, or one that does not decode. *)
TradeArrives(m) ==
  /\ conn = "open" /\ Instant /\ Trouble
  /\ Tapes(wall', FrameAndGap(Record("trade", m, 0))) /\ hole' = hole \ {TradeSid}
  /\ Told("frame", truth.gaps, Heard)
  /\ UNCHANGED <<conn, sid, exch, live, awaited, resyncing, keyframes>>

UndecodableArrives ==
  /\ conn = "open" /\ Instant /\ Trouble
  /\ Tapes(wall', <<Record("undecodable", None, 0)>>) /\ UNCHANGED hole
  /\ Told("frame", truth.gaps, Heard)
  /\ UNCHANGED <<conn, sid, exch, live, awaited, resyncing, keyframes>>

(* set_group: a market leaves; deltas of it may still come. *)
MarketLeaves(m) ==
  /\ conn = "open" /\ On # {m} /\ live[m].on /\ Instant /\ Trouble
  /\ live' = [live EXCEPT ![m] = NoBook] /\ awaited' = awaited \ {m}
  /\ Tapes(wall', <<Record("delete_markets", m, 0)>>)
  /\ Told("command", GapsAfter(m), Heard \ {m})
  /\ UNCHANGED <<conn, sid, exch, resyncing, hole, keyframes>>

Straggler(m) ==
  /\ conn = "open" /\ ~live[m].on /\ ~BookGap /\ Instant /\ Trouble
  /\ exch' = [exch EXCEPT ![m] = @ + 1]
  /\ Tapes(wall', <<Record("delta", m, 1)>>)
  /\ Told("frame", truth.gaps, Heard \cup {m})
  /\ UNCHANGED <<conn, sid, live, awaited, resyncing, hole, keyframes>>

(* The subscription is replaced by another one of the same markets. *)
Resubscribe ==
  /\ conn = "open" /\ sid = 1 /\ Instant /\ Trouble
  /\ sid' = 2 /\ awaited' = Markets /\ resyncing' = {} /\ hole' = hole \ {sid}
  /\ live' = [m \in Markets |-> [NoBook EXCEPT !.on = TRUE]]
  /\ Tapes(wall', <<Record("unsubscribe", None, 0), [Record("subscribe", None, 0) EXCEPT !.sid = 2],
                    [Record("subscribed", None, 0) EXCEPT !.sid = 2]>>)
  /\ Told("command", {}, {})
  /\ UNCHANGED <<conn, exch, keyframes>>

(* auditor.py, _write_record: an audit ends, whatever the connection does by now. *)
AuditEnds(m) ==
  /\ Instant /\ Trouble
  /\ Tapes(wall', <<Record("audit", m, 0)>>) /\ Told("audit", truth.gaps, Heard)
  /\ UNCHANGED <<conn, sid, exch, live, awaited, resyncing, hole, keyframes>>

(* recorder.py, _note_clock_jump: the host slept and the recorder notes it at once. *)
HostSleeps ==
  /\ wall < MaxWall /\ Trouble
  /\ wall' = wall + 1 + SleepLength /\ mono' = mono + 1
  /\ Tapes(wall', <<[Record("clock_jump", None, SleepLength) EXCEPT !.wall = wall']>>)
  /\ Told("clock_jump", truth.gaps, Heard)
  /\ UNCHANGED <<conn, sid, exch, live, awaited, resyncing, hole, keyframes>>

ClockStepsBack ==
  /\ wall >= StepLength /\ Trouble
  /\ wall' = wall - StepLength /\ truth' = [truth EXCEPT !.stepped = TRUE]
  /\ UNCHANGED <<mono, conn, sid, exch, live, awaited, resyncing, hole, rotated, seg, hours, keyframes>>

(* The host restarts: the file ends as it is and the monotonic clock starts anew. *)
HostRestarts ==
  /\ wall < MaxWall /\ ~truth.restarted /\ Trouble
  /\ wall' = wall + 1 /\ mono' = 0
  /\ conn' = "down" /\ awaited' = {} /\ resyncing' = {} /\ hole' = {} /\ rotated' = TRUE
  /\ live' = [m \in Markets |-> NoBook]
  /\ truth' = [truth EXCEPT !.restarted = TRUE, !.gaps = {}]
  /\ UNCHANGED <<sid, exch, seg, hours, keyframes>>

(* recorder.py, _write_keyframe *)
KeyframeWritten ==
  /\ On # {} /\ keyframes = {} /\ Trouble
  /\ keyframes' = keyframes \cup {[wall |-> wall, mono |-> mono, since |-> truth.restarted, books |-> live]}
  /\ UNCHANGED <<wall, mono, conn, sid, exch, live, awaited, resyncing, hole, rotated, seg, hours, truth>>

TapeNext ==
  \/ Connect \/ AttemptFails \/ Close \/ FrameLost \/ Resubscribe \/ UndecodableArrives
  \/ HostSleeps \/ ClockStepsBack \/ HostRestarts \/ KeyframeWritten
  \/ \E m \in Markets :
       \/ SnapshotArrives(m) \/ DeltaArrives(m) \/ DeltaRepeated(m)
       \/ MarketLeaves(m) \/ Straggler(m) \/ AuditEnds(m) \/ TradeArrives(m)

TapeSpec == TapeInit /\ [][TapeNext]_tapeVars
-----------------------------------------------------------------------------
(* catalog.py *)

RowsOf(parts) == UNION {Range(part) : part \in Range(parts)}

(* _scan *)
Changes ==
  LET final == Baked
      order == CHOOSE order \in BucketOrders : TRUE
  IN UNION {RowsOf(Parts(final[h].tables[t], order)) : h \in Hours, t \in {"deltas", "snapshots", "gaps"}}

(* Mutant: gaps come after the frame that revealed them. *)
GapsLast(e) == IF e.table = "gaps" THEN 2 ELSE 1

(* _GAP_ORDER, _CHANGE_ORDER *)
ChangeOrder(e) == IF e.table = "gaps" THEN 0 ELSE 1

Before(a, b) == \E k \in DOMAIN a : a[k] < b[k] /\ \A j \in 1 .. k - 1 : a[j] = b[j]

(* sorted(): a set of keyed values, in the order of their keys. *)
Sorted(S) ==
  FoldSet(LAMBDA e, s : SelectSeq(s, LAMBDA x : Before(x.key, e.key)) \o <<e>> \o
                        SelectSeq(s, LAMBDA x : ~Before(x.key, e.key)), << >>, S)

(* _delta_events, _snapshot_events, _gap_events: rows with the times that order them. *)
Stamped(changes) == {[key |-> <<e.wall, e.mono, ChangeOrder(e)>>, change |-> e] : e \in changes}

(* replay: the changes in wall order, each with the stretch of one monotonic clock it
   belongs to. *)
Stretches(changes) ==
  LET Take(s, e) ==
        LET restarts == s.highest # None /\ e.mono < s.highest - MonoRestart
            stretch  == IF restarts THEN s.stretch + 1 ELSE s.stretch
        IN [stretch |-> stretch,
            highest |-> IF restarts THEN e.mono ELSE Max({s.highest, e.mono}),
            keyed   |-> s.keyed \cup {[key |-> <<stretch, e.mono, ChangeOrder(e)>>, change |-> e]}]
  IN FoldLeft(LAMBDA s, stamped : Take(s, stamped.change),
              [stretch |-> 0, highest |-> None, keyed |-> {}], Sorted(Stamped(changes))).keyed

(* _apply *)
Applied(b, e) ==
  IF e.table = "gaps"
  THEN [b EXCEPT !.books = [m \in Markets |-> IF b.last[m] = e.sid THEN [@[m] EXCEPT !.fresh = FALSE] ELSE @[m]]]
  ELSE LET book == b.books[e.market]
           after == CASE e.table = "snapshots" -> [fresh |-> TRUE, n |-> e.n]
                      [] e.table = "deltas" -> IF book.fresh THEN [book EXCEPT !.n = @ + 1] ELSE book
       IN [b EXCEPT !.last[e.market] = e.sid, !.books[e.market] = after]

(* replay *)
Replayed(books, changes) ==
  LET ordered == Sorted(Stretches(changes))
  IN FoldLeft(LAMBDA b, k : Applied(b, k.change),
              [books |-> books, last |-> [m \in Markets |-> None]], ordered).books

(* books_at, from the keyframe given and up to the latest change. *)
BooksAt(keyframe, changes) ==
  Replayed([m \in Markets |-> [fresh |-> keyframe.books[m].fresh, n |-> keyframe.books[m].n]],
           {e \in changes : e.wall > keyframe.wall})

NoKeyframe == [wall |-> None, mono |-> None, since |-> FALSE, books |-> [m \in Markets |-> NoBook]]

-----------------------------------------------------------------------------
(* manifest.py *)

Instants(start, end) == start .. end - 1

(* _joined_spans, _union, _clip *)
Covered(final) ==
  LET spans == UNION {Range(final[h].spans) : h \in Hours}
      Join(j, s) ==
        IF j.start # None /\ ~j.closed /\ ~s.opened
        THEN [j EXCEPT !.end = Max({@, s.end}), !.closed = s.closed]
        ELSE [covered |-> j.covered \cup Instants(j.start, j.end),
              start |-> s.start, end |-> s.end, closed |-> s.closed]
      joined == FoldLeft(LAMBDA j, keyed : Join(j, keyed.span),
                         [covered |-> {}, start |-> None, end |-> None, closed |-> TRUE],
                         Sorted({[key |-> <<s.start, s.end>>, span |-> s] : s \in spans}))
  IN joined.covered \cup Instants(joined.start, joined.end)

(* summarize_uptime *)
Uptime(final) ==
  Covered(final) \ UNION {Instants(s[1], s[2]) : s \in UNION {final[h].sleeps : h \in Hours}}
-----------------------------------------------------------------------------
(* Every variable holds a value of its kind, and nothing is awaited of a connection that
   is down. *)
TapeTypeOK ==
  /\ wall \in 0 .. MaxWall + SleepLength /\ mono \in 0 .. MonoStart + MaxWall + SleepLength + MaxTroubles * StepLength
  /\ conn \in {"down", "open"} /\ sid \in {1, 2} /\ hole \subseteq {TradeSid, sid}
  /\ live \in [Markets -> [on : BOOLEAN, fresh : BOOLEAN, n : Nat]]
  /\ awaited \subseteq On /\ (conn = "down" => awaited = {} /\ \A m \in Markets : ~live[m].fresh)
  /\ \A m \in Markets : live[m].fresh => conn = "open" /\ live[m].on
  /\ seg.hour \in Hours \cup {None} /\ DOMAIN hours = Hours

Total(n) == n["deltas"] + n["snapshots"] + n["gaps"] + n["trades"] + n["audits"]

(* RecordAccounting, TableWriter: every record of the hour is counted once, and every one
   that is baked has its row in exactly one part, none of which is too large. *)
AccountedOnce ==
  LET final == Baked
  IN \A h \in Hours :
       LET hour == final[h]
       IN /\ hour.records = Total(hour.baked) + hour.notBaked + hour.failures
          /\ \A t \in Tables, order \in BucketOrders :
               LET parts == Parts(hour.tables[t], order)
               IN /\ Cardinality(RowsOf(parts)) = hour.baked[t]
                  /\ FoldLeft(LAMBDA n, part : n + Len(part), 0, parts) = hour.baked[t]
                  /\ \A part \in Range(parts) : Len(part) <= MaxPartRows

(* _resolve_gaps: a row says that a gap is over only when every book it staled, of those
   with a message in the file, has had its snapshot since or has left. *)
GapsResolved ==
  LET changes == Changes
  IN \A g \in truth.gaps : \A e \in changes :
       e.table = "gaps" /\ e.mono = g.mono /\ e.sid = sid => (e.n # None => g.left = {})

(* summarize_uptime, summarize_gaps: unless the wall clock steps back, the uptime is the
   instants when the connection was open and the host awake, and the stale time of the
   books is part of the time they were observed.  Uptime is not true when a file begins
   with a note of a connection that is down, which the interpreter takes for one that is
   open; and a step back can make a stale time negative. *)
TimesTrue ==
  ~truth.stepped =>
    LET final == Baked
    IN /\ truth.misled \/ Uptime(final) = truth.up
       /\ \A h \in Hours : 0 <= final[h].stale /\ final[h].stale <= final[h].observed

(* The wall clock tells the changes after a keyframe from those before. *)
Separated(k, changes) ==
  \A e \in changes : (e.mono > k.mono \/ truth.restarted # k.since) <=> e.wall > k.wall

(* replay: a book rebuilt from any keyframe is the recorder's whenever that one is
   fresh, although the wall clock steps back or the host restarts.  Not so when the clock
   steps back over the keyframe itself, or both happen. *)
ReplayTrue ==
  LET changes == Changes
  IN \A k \in keyframes \cup {NoKeyframe} :
       Separated(k, changes) /\ ~(truth.stepped /\ truth.restarted)
       => \A m \in Markets :
            live[m].fresh => BooksAt(k, changes)[m] = [fresh |-> TRUE, n |-> live[m].n]
=============================================================================
