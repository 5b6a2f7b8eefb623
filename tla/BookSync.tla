------------------------------ MODULE BookSync ------------------------------
(***************************************************************************)
(* How one connection keeps its books true to the exchange                 *)
(* (src/tape/recorder/supervisor.py, gaps.py, book/book.py): sequence      *)
(* checks, gaps and replays, resnapshots, membership changes that          *)
(* interleave with the frame stream, and lost connections.  Subscriptions  *)
(* with several channels are not modelled here.                            *)
(*                                                                         *)
(* A book is one level: its resting count.  A delta adds 1 or -1 to it, so *)
(* a book that missed a delta stays wrong until a snapshot, or until its   *)
(* count would go negative.  The exchange is external: it numbers its      *)
(* messages, may lose or replay them, and answers commands in order.       *)
(***************************************************************************)
EXTENDS Integers, Sequences, FiniteSets

CONSTANTS
  Markets,
  Backpressure, \* a send may suspend its task while frames are handled
  MaxPerCommand, \* max_markets_per_command
  Faults,       \* what may go wrong at the exchange, of FaultKinds
  MaxCount,     \* bound: resting count of a level
  MaxDeltas,    \* bound: changes at the exchange
  MaxFaults,    \* bound: how often something does
  MaxGroups,    \* bound: set_group calls
  MaxConns      \* bound: connections

FaultKinds == {"lost delta", "lost snapshot", "replay", "refusal", "crossed snapshot"}

ASSUME SyncAssumption ==
  /\ IsFiniteSet(Markets) /\ Markets # {}
  /\ Backpressure \in BOOLEAN
  /\ Faults \subseteq FaultKinds
  /\ MaxPerCommand \in Nat \ {0} /\ MaxCount \in Nat \ {0}
  /\ {MaxDeltas, MaxFaults, MaxGroups, MaxConns} \subseteq Nat

VARIABLES
  x,        \* the exchange and the wire
  conn,     \* "down" | "up" | "lost": lost until _end_connection has run
  sid,      \* the orderbook sid is in _subscriptions
  pending,  \* a subscribe is in _pending
  desired,  \* tickers of _desired; {} for None
  applied,  \* tickers of _applied; {} for None
  deferred, \* _reconcile_deferred
  lock,     \* the command lock: "free", or held across a send by "group" | "frame"
  todo,     \* the changes the lock's owner has left to send
  waiting,  \* a set_group waits for the lock
  c,        \* what a frame changes: baseline, _resyncing[sid], books
  held,     \* << >>, or the frame whose handler awaits a send
  g,        \* history, see Ghost
  used      \* counts against the bounds

subs == <<sid, pending, desired, applied, deferred, lock, todo, waiting>>

vars == <<x, conn, subs, c, held, g, used>>

None == -1

-----------------------------------------------------------------------------
(* The exchange.  sub is the subscription's membership, live the members   *)
(* whose first snapshot was sent, owed the snapshots still to send.        *)

NoExchange(count) ==
  [count |-> count, sub |-> {}, live |-> {}, owed |-> {}, seq |-> 0, ord |-> 0,
   wire |-> << >>, cmds |-> << >>]

(* seq is None on replies.  ord, truth, covers and first are history: the place
   of the message in the stream, every count and the live markets when it was
   sent, and whether it is the snapshot that answers m joining. *)
Message(y, kind, m, n, seq, first) ==
  [kind |-> kind, m |-> m, n |-> n, seq |-> seq, ord |-> y.ord, truth |-> y.count,
   covers |-> y.live, first |-> first]

Emit(y, kind, m, n) ==
  LET z == [y EXCEPT !.seq = @ + 1, !.ord = @ + 1, !.live = @ \cup {m},
                     !.owed = IF kind = "snapshot" THEN @ \ {m} ELSE @]
  IN [z EXCEPT !.wire = Append(@, Message(z, kind, m, n, z.seq, m \notin y.live))]

Reply(y, kind) == [y EXCEPT !.wire = Append(@, Message(y, kind, None, None, None, FALSE))]

ExchangeDoes(y, cmd) ==
  CASE cmd.op = "subscribe"    -> Reply([y EXCEPT !.sub = cmd.ms, !.owed = cmd.ms, !.live = {}],
                                        "subscribed")
    [] cmd.op = "unsubscribe"  -> Reply([y EXCEPT !.sub = {}, !.owed = {}, !.live = {}, !.seq = 0],
                                        "unsubscribed")
    [] cmd.op = "add"          -> [y EXCEPT !.sub = @ \cup cmd.ms, !.owed = @ \cup cmd.ms]
    [] cmd.op = "delete"       -> [y EXCEPT !.sub = @ \ cmd.ms, !.owed = @ \ cmd.ms,
                                            !.live = @ \ cmd.ms]
    [] cmd.op = "get_snapshot" -> [y EXCEPT !.owed = @ \cup (cmd.ms \cap y.sub)]

Sent(y, op, ms) == [y EXCEPT !.cmds = Append(@, [op |-> op, ms |-> ms])]

-----------------------------------------------------------------------------
(* Books and the tracker. *)

NoBook == [held |-> FALSE, stale |-> TRUE, n |-> 0]

Stale(b) == [b EXCEPT !.stale = TRUE]

Fresh(b) == b.held /\ ~b.stale

(* GapTracker.observe *)
Verdict(base, seq) ==
  IF seq = None THEN "ok"
  ELSE IF base = None THEN "first"
  ELSE CASE seq = base + 1 -> "ok"
         [] seq > base + 1 -> "gap"
         [] OTHER          -> "duplicate"

Observed(base, seq) == IF seq = None \/ Verdict(base, seq) = "duplicate" THEN base ELSE seq

(* _on_frame: a snapshot on a sid that is resyncing resets the baseline first. *)
Resets(s, msg) == msg.kind = "snapshot" /\ s.resyncing

Baseline(s, msg) == IF Resets(s, msg) THEN None ELSE s.base

VerdictOn(s, msg) == Verdict(Baseline(s, msg), msg.seq)

Checked(s, msg) == [s EXCEPT !.base = Observed(Baseline(s, msg), msg.seq)]

(* _request_snapshot: what it asks for, and the table after it. *)
Wanted(s, ms) == ms \ s.awaiting

Requested(s, ms) == [s EXCEPT !.resyncing = TRUE, !.awaiting = @ \cup ms]

(* Mutant: the markets are marked as awaiting before the request is made up. *)
ResyncedMarksFirst(s, again) ==
  [s EXCEPT !.book = [m \in Markets |-> IF m \in applied THEN Stale(@[m]) ELSE @[m]],
            !.resyncing = TRUE, !.awaiting = applied]

(* _resync_connection before its request: stale every carried book; after a gap
   the snapshots already asked for are asked for again. *)
Resynced(s, again) ==
  [s EXCEPT !.book = [m \in Markets |-> IF m \in applied THEN Stale(@[m]) ELSE @[m]],
            !.resyncing = @ /\ ~again,
            !.awaiting = IF again THEN {} ELSE @]

(* _finish_resync *)
FinishResync(s, m) ==
  [s EXCEPT !.awaiting = @ \ {m}, !.resyncing = @ /\ s.awaiting \ {m} # {}]

(* _book_for: a book message may touch the book of a market of the applied set. *)
Touchable(m) == sid /\ m \in applied

(* _on_snapshot; a crossed snapshot (n = None) leaves the book stale. *)
OnSnapshot(s, msg) ==
  LET t == FinishResync(s, msg.m)
  IN IF ~Touchable(msg.m) THEN t
     ELSE IF msg.n = None
          THEN [t EXCEPT !.book[msg.m] = [held |-> TRUE, stale |-> TRUE, n |-> t.book[msg.m].n]]
     ELSE [t EXCEPT !.book[msg.m] = [held |-> TRUE, stale |-> FALSE, n |-> msg.n]]

(* _on_delta: a fresh book takes the delta, unless its level would go negative;
   then it is stale and asked for. *)
Applies(s, msg) == msg.kind = "delta" /\ Touchable(msg.m) /\ Fresh(s.book[msg.m])

(* Mutant: no check for a level that goes negative. *)
BreaksNever(s, msg) == FALSE

Breaks(s, msg) == Applies(s, msg) /\ s.book[msg.m].n + msg.n < 0

OnDelta(s, msg) ==
  IF ~Applies(s, msg) THEN s
  ELSE IF Breaks(s, msg) THEN Requested([s EXCEPT !.book[msg.m].stale = TRUE], {msg.m})
  ELSE [s EXCEPT !.book[msg.m].n = @ + msg.n]

(* _dispatch; an error on the sid lets the next trigger ask again. *)
Dispatched(s, msg) ==
  CASE msg.kind = "snapshot"     -> OnSnapshot(s, msg)
    [] msg.kind = "delta"        -> OnDelta(s, msg)
    [] msg.kind = "error"        -> [s EXCEPT !.resyncing = FALSE, !.awaiting = {}]
    [] msg.kind = "unsubscribed" -> [s EXCEPT !.base = None]
    [] OTHER                     -> s

(* A send on a lost connection raises, which ends the frame stream. *)
Request(y, ms) == IF conn = "up" THEN Sent(y, "get_snapshot", ms) ELSE [y EXCEPT !.wire = << >>]

DispatchSends(y, s, msg) ==
  IF Breaks(s, msg) /\ Wanted(s, {msg.m}) # {} THEN Request(y, {msg.m}) ELSE y

-----------------------------------------------------------------------------
(* History.  ord, truth and covers are those of the latest numbered message   *)
(* handled; tainted holds the markets whose fresh book was outrun by a hole    *)
(* that a reset baseline hid, or rebuilt from a replayed snapshot, or fresh    *)
(* while one set the baseline back; silent says that such a hole passed;       *)
(* dropped that the snapshot that answers a market joining the subscription    *)
(* was ignored.                                                                *)

NoGhost ==
  [ord |-> 0, truth |-> [m \in Markets |-> 0], covers |-> {}, tainted |-> {},
   silent |-> FALSE, dropped |-> FALSE]

Hole(msg) == msg.seq # None /\ msg.ord > g.ord + 1

Replay(msg) == msg.seq # None /\ msg.ord <= g.ord

(* No other snapshot of m is to come. *)
LastWord(m) ==
  /\ m \in x.sub \ x.owed
  /\ \A i \in DOMAIN x.cmds : m \notin x.cmds[i].ms
  /\ \A i \in 2 .. Len(x.wire) : x.wire[i].kind = "snapshot" => x.wire[i].m # m

Ghost(resets, t, msg) ==
  LET freshNow == {m \in Markets : Fresh(t.book[m])}
      hidden == resets /\ Hole(msg)
      healed == IF msg.kind = "snapshot" /\ ~Replay(msg) THEN {msg.m} ELSE {}
      revived == IF msg.kind # "snapshot" \/ ~Replay(msg) THEN {}
                 ELSE IF resets THEN freshNow ELSE {msg.m}
      outrun == IF hidden THEN freshNow \ healed ELSE {}
  IN [ord |-> IF msg.seq = None \/ Replay(msg) THEN g.ord ELSE msg.ord,
      truth |-> IF msg.seq = None \/ Replay(msg) THEN g.truth ELSE msg.truth,
      covers |-> IF msg.seq = None \/ Replay(msg) THEN g.covers ELSE msg.covers,
      tainted |-> (((g.tainted \ healed) \cup revived) \cap freshNow) \cup outrun,
      silent |-> g.silent \/ outrun # {},
      dropped |-> g.dropped \/ (/\ msg.kind = "snapshot" /\ msg.first /\ ~Replay(msg)
                                /\ msg.m \in desired /\ ~Touchable(msg.m) /\ LastWord(msg.m))]

-----------------------------------------------------------------------------
NoClient == [base |-> None, resyncing |-> FALSE, awaiting |-> {},
             book |-> [m \in Markets |-> NoBook]]

Init ==
  /\ x = NoExchange([m \in Markets |-> 0])
  /\ conn = "down" /\ sid = FALSE /\ pending = FALSE
  /\ desired \in SUBSET Markets
  /\ applied = {} /\ deferred = FALSE /\ lock = "free" /\ todo = << >> /\ waiting = FALSE
  /\ c = NoClient /\ held = << >> /\ g = NoGhost
  /\ used = [deltas |-> 0, faults |-> 0, groups |-> 0, conns |-> 0]

Spend(what) == used' = [used EXCEPT ![what] = @ + 1]

Fault(kind) == kind \in Faults /\ used.faults < MaxFaults /\ Spend("faults")

(* Exchange steps. *)

Trade(m, d) ==
  /\ used.deltas < MaxDeltas
  /\ x.count[m] + d \in 0 .. MaxCount
  /\ LET y == [x EXCEPT !.count[m] = @ + d]
     IN x' = IF conn = "up" /\ m \in x.live THEN Emit(y, "delta", m, d) ELSE y
  /\ Spend("deltas")
  /\ UNCHANGED <<conn, subs, c, held, g>>

ExchangeAnswers ==
  /\ conn = "up" /\ x.cmds # << >>
  /\ x' = ExchangeDoes([x EXCEPT !.cmds = Tail(@)], Head(x.cmds))
  /\ UNCHANGED <<conn, subs, c, held, g, used>>

ExchangeRefuses ==
  /\ conn = "up" /\ x.cmds # << >> /\ Head(x.cmds).op = "get_snapshot"
  /\ Fault("refusal")
  /\ x' = Reply([x EXCEPT !.cmds = Tail(@)], "error")
  /\ UNCHANGED <<conn, subs, c, held, g>>

SendSnapshot(m) ==
  /\ conn = "up" /\ m \in x.owed
  /\ x' = Emit(x, "snapshot", m, x.count[m])
  /\ UNCHANGED <<conn, subs, c, held, g, used>>

SendCrossed(m) ==
  /\ conn = "up" /\ m \in x.owed
  /\ Fault("crossed snapshot")
  /\ x' = Emit(x, "snapshot", m, None)
  /\ UNCHANGED <<conn, subs, c, held, g>>

(* A sequenced message that another one follows is dropped: one that none
   follows cannot be missed. *)
LoseMessage ==
  /\ conn = "up"
  /\ \E i \in 1 .. Len(x.wire) - 1 :
       /\ x.wire[i].seq # None /\ x.wire[i + 1].seq # None
       /\ Fault(IF x.wire[i].kind = "delta" THEN "lost delta" ELSE "lost snapshot")
       /\ x' = [x EXCEPT !.wire = SubSeq(@, 1, i - 1) \o SubSeq(@, i + 1, Len(@))]
  /\ UNCHANGED <<conn, subs, c, held, g>>

ReplayMessage ==
  /\ conn = "up"
  /\ Fault("replay")
  /\ \E i \in DOMAIN x.wire :
       /\ x.wire[i].seq # None
       /\ \A j \in i .. Len(x.wire) : x.wire[j].kind # "unsubscribed"
       /\ x' = [x EXCEPT !.wire = Append(@, x.wire[i])]
  /\ UNCHANGED <<conn, subs, c, held, g>>

-----------------------------------------------------------------------------
(* Frames, one at a time.  A closed session still yields those it buffered. *)

Handling ==
  /\ conn # "down" /\ held = << >> /\ lock # "frame" /\ x.wire # << >>

(* Mutant: a replay is counted but not repaired. *)
FaultedGapOnly(s, msg) == VerdictOn(s, msg) = "gap" /\ sid /\ applied # {}

Faulted(s, msg) == VerdictOn(s, msg) \in {"gap", "duplicate"} /\ sid /\ applied # {}

Again(s, msg) == VerdictOn(s, msg) = "gap"

FaultSends(msg) == Faulted(c, msg) /\ Wanted(Resynced(c, Again(c, msg)), applied) # {}

(* A frame handled without suspending on a resync. *)
Deliver ==
  /\ Handling
  /\ LET msg == Head(x.wire)
         s == Checked(c, msg)
         t == IF Faulted(c, msg) THEN Requested(Resynced(s, Again(c, msg)), applied) ELSE s
     IN /\ msg.kind # "subscribed"
        /\ ~FaultSends(msg)
        /\ c' = Dispatched(t, msg)
        /\ x' = DispatchSends([x EXCEPT !.wire = Tail(@)], t, msg)
        /\ g' = Ghost(Resets(c, msg), c', msg)
  /\ UNCHANGED <<conn, subs, held, used>>

(* _on_gap and _on_duplicate: the resync request is sent before the frame is
   interpreted, and other tasks may run in between. *)
DeliverFaulted ==
  /\ Handling
  /\ LET msg == Head(x.wire)
         s == Resynced(Checked(c, msg), Again(c, msg))
     IN /\ FaultSends(msg)
        /\ c' = Requested(s, applied)
        /\ x' = Request([x EXCEPT !.wire = Tail(@)], Wanted(s, applied))
        /\ held' = IF conn = "up" THEN <<msg>> ELSE << >>
  /\ UNCHANGED <<conn, subs, g, used>>

DeliverHeld ==
  /\ held # << >>
  /\ LET msg == Head(held)
     IN /\ c' = Dispatched(c, msg)
        /\ x' = DispatchSends(x, c, msg)
        /\ g' = Ghost(FALSE, c', msg)
  /\ held' = << >>
  /\ UNCHANGED <<conn, subs, used>>

-----------------------------------------------------------------------------
(* Subscriptions. *)

Piece(op, ms) == [op |-> op, ms |-> ms, sent |-> FALSE]

(* split_change: a change is cut into full commands and a last one; which markets
   share a command is ticker order, here any. *)
Batches(ms) ==
  LET size == Cardinality(ms)
      k == (size + MaxPerCommand - 1) \div MaxPerCommand
  IN {s \in [1 .. k -> (SUBSET ms) \ {{}}] :
        /\ UNION {s[i] : i \in 1 .. k} = ms
        /\ \A i \in 1 .. k : Cardinality(s[i]) = IF i < k THEN MaxPerCommand
                                                 ELSE size - (k - 1) * MaxPerCommand}

Split(op, ms) == {[i \in DOMAIN s |-> Piece(op, s[i])] : s \in Batches(ms)}

(* A group too large for one subscribe is subscribed with a first batch; the rest
   joins it. *)
SplitGroup(ms) ==
  {[i \in DOMAIN s |-> Piece(IF i = 1 THEN "subscribe" ELSE "add", s[i])] : s \in Batches(ms)}

(* unsubscribe names sids, not markets. *)
RemoveGroup(ms) == IF ms = {} THEN << >> ELSE <<Piece("unsubscribe", ms)>>

(* diff and _must_rebuild: removals before additions; a set that keeps no market
   is unsubscribed and subscribed afresh. *)
Pieces(have, want) ==
  IF have \cap want = {}
  THEN {RemoveGroup(have) \o s : s \in SplitGroup(want)}
  ELSE UNION {{d \o s : s \in Split("add", want \ have)} : d \in Split("delete", have \ want)}

Pruned(s, keep) == [s EXCEPT !.book = [m \in Markets |-> IF m \in keep THEN @[m] ELSE NoBook]]

(* _reconcile_locked up to its first send, by the task who holds the lock; ready
   says that no subscribe awaits a reply. *)
Reconciled(who, ready) ==
  /\ todo' \in IF conn = "up" /\ ready THEN Pieces(applied, desired) ELSE {<< >>}
  /\ lock' = IF todo' = << >> THEN "free" ELSE who

(* _on_subscribed, then _resume_reconcile. *)
DeliverSubscribed ==
  /\ Handling /\ lock = "free" /\ Head(x.wire).kind = "subscribed"
  /\ x' = [x EXCEPT !.wire = Tail(@)]
  /\ sid' = TRUE /\ pending' = FALSE /\ deferred' = FALSE
  /\ Reconciled("frame", deferred)
  /\ UNCHANGED <<conn, desired, applied, waiting, c, held, g, used>>

(* set_group: the desired group changes at once, the rest needs the lock. *)
SetGroup ==
  /\ used.groups < MaxGroups
  /\ \E ms \in (SUBSET Markets) \ {desired} : desired' = ms
  /\ waiting' = TRUE
  /\ Spend("groups")
  /\ UNCHANGED <<x, conn, sid, pending, applied, deferred, lock, todo, c, held, g>>

(* set_group with the lock; with nothing to send it prunes and is done. *)
Reconcile ==
  /\ waiting /\ lock = "free"
  /\ waiting' = FALSE
  /\ deferred' = (deferred \/ (conn = "up" /\ pending))
  /\ Reconciled("group", ~pending)
  /\ c' = IF lock' = "free" THEN Pruned(c, desired \cup applied) ELSE c
  /\ UNCHANGED <<x, conn, sid, pending, desired, applied, held, g, used>>

(* _release_books *)
Released(s, ms) ==
  [s EXCEPT !.book = [m \in Markets |-> CASE m \notin ms           -> @[m]
                                          [] m \in ms \cap desired -> Stale(@[m])
                                          [] OTHER                 -> NoBook]]

(* _record_change; set_group prunes after the last change. *)
NowApplied(p) == IF p.op \in {"subscribe", "add"} THEN applied \cup p.ms ELSE applied \ p.ms

AfterChange(p) ==
  CASE p.op \in {"subscribe", "add"} -> c
    [] p.op = "delete"               -> Released(c, p.ms)
    [] p.op = "unsubscribe"          -> [Released(c, p.ms) EXCEPT !.resyncing = FALSE,
                                                                  !.awaiting = {}]

(* Mutant: the markets a subscribe left out are not taken up again. *)
DefersNever(p) == FALSE

(* A membership change behind a subscribe waits for its reply. *)
Defers(p) == p.op = "subscribe" /\ Len(todo) > 1

RecordChange(p) ==
  /\ applied' = NowApplied(p)
  /\ pending' = (p.op = "subscribe")
  /\ sid' = (sid /\ p.op # "unsubscribe")
  /\ deferred' = (deferred \/ Defers(p))
  /\ todo' = IF p.op = "subscribe" THEN << >> ELSE Tail(todo)
  /\ lock' = IF todo' = << >> THEN "free" ELSE lock
  /\ c' = IF todo' = << >> /\ lock = "group" THEN Pruned(AfterChange(p), desired \cup applied')
                                             ELSE AfterChange(p)

(* The send may complete at once or suspend the lock's owner. *)
SendChange ==
  /\ conn = "up" /\ todo # << >> /\ ~Head(todo).sent
  /\ x' = Sent(x, Head(todo).op, Head(todo).ms)
  /\ \/ RecordChange(Head(todo))
     \/ /\ Backpressure
        /\ todo' = [todo EXCEPT ![1].sent = TRUE]
        /\ UNCHANGED <<applied, pending, sid, deferred, lock, c>>
  /\ UNCHANGED <<conn, desired, waiting, held, g, used>>

ChangeSent ==
  /\ conn = "up" /\ todo # << >> /\ Head(todo).sent
  /\ RecordChange(Head(todo))
  /\ UNCHANGED <<x, conn, desired, waiting, held, g, used>>

-----------------------------------------------------------------------------
(* Connections. *)

(* _begin_connection, connect, and the first reconciliation up to its send; no
   frame is handled until that one is done. *)
Connect ==
  /\ conn = "down" /\ lock = "free" /\ used.conns < MaxConns
  /\ conn' = "up"
  /\ todo' \in Pieces({}, desired)
  /\ lock' = IF desired = {} THEN "free" ELSE "frame"
  /\ x' = NoExchange(x.count)
  /\ g' = [NoGhost EXCEPT !.silent = g.silent, !.dropped = g.dropped]
  /\ Spend("conns")
  /\ UNCHANGED <<sid, pending, desired, applied, deferred, waiting, c, held>>

(* The socket fails or a deadline passes: every send under way raises.  Frames
   the session has buffered are still handled, unless their task was sending. *)
ConnectionLost ==
  /\ conn = "up"
  /\ conn' = "lost"
  /\ x' = [NoExchange(x.count) EXCEPT !.wire = IF held # << >> \/ lock = "frame" THEN << >> ELSE x.wire]
  /\ held' = << >> /\ todo' = << >> /\ lock' = "free"
  /\ c' = IF lock = "group" THEN Pruned(c, desired \cup applied) ELSE c
  /\ UNCHANGED <<sid, pending, desired, applied, deferred, waiting, g, used>>

(* Mutant: the books are not marked stale. *)
EndConnectionFresh ==
  /\ conn = "lost"
  /\ conn' = "down"
  /\ sid' = FALSE /\ pending' = FALSE /\ applied' = {} /\ deferred' = FALSE
  /\ c' = [NoClient EXCEPT !.book = c.book]
  /\ x' = NoExchange(x.count)
  /\ UNCHANGED <<desired, lock, todo, waiting, held, g, used>>

(* _end_connection: after session.close and the lock, forget and stale. *)
EndConnection ==
  /\ conn = "lost"
  /\ conn' = "down"
  /\ sid' = FALSE /\ pending' = FALSE /\ applied' = {} /\ deferred' = FALSE
  /\ c' = [NoClient EXCEPT !.book = [m \in Markets |-> Stale(c.book[m])]]
  /\ x' = NoExchange(x.count)
  /\ UNCHANGED <<desired, lock, todo, waiting, held, g, used>>

Exchange ==
  \/ \E m \in Markets : SendSnapshot(m) \/ SendCrossed(m) \/ Trade(m, 1) \/ Trade(m, -1)
  \/ ExchangeAnswers \/ ExchangeRefuses \/ LoseMessage \/ ReplayMessage

Frames == Deliver \/ DeliverFaulted \/ DeliverHeld \/ DeliverSubscribed

Groups == SetGroup \/ Reconcile \/ SendChange \/ ChangeSent

Next == Exchange \/ Frames \/ Groups \/ Connect \/ ConnectionLost \/ EndConnection

Spec == Init /\ [][Next]_vars

(* The exchange answers, frames are handled, the lock's owner goes on, and a
   connection is ended and, while the bound lasts, made again. *)
Fairness ==
  /\ WF_vars(ExchangeAnswers) /\ \A m \in Markets : WF_vars(SendSnapshot(m))
  /\ WF_vars(Frames)
  /\ WF_vars(Reconcile) /\ WF_vars(SendChange \/ ChangeSent)
  /\ WF_vars(Connect) /\ WF_vars(EndConnection)

FairSpec == Spec /\ Fairness

-----------------------------------------------------------------------------
(* Every variable holds a value of its kind; the lock's owner has work left, the
   exchange owes and streams members only, and a count is never negative. *)
TypeOK ==
  /\ conn \in {"down", "up", "lost"} /\ lock \in {"free", "group", "frame"}
  /\ {sid, pending, deferred, waiting} \subseteq BOOLEAN
  /\ desired \in SUBSET Markets /\ applied \in SUBSET Markets
  /\ lock = "free" <=> todo = << >>
  /\ c.base \in Nat \cup {None} /\ c.resyncing \in BOOLEAN /\ c.awaiting \in SUBSET Markets
  /\ c.book \in [Markets -> [held : BOOLEAN, stale : BOOLEAN, n : Nat]]
  /\ x.owed \cup x.live \subseteq x.sub

(* _on_frame, _on_gap and _on_duplicate: a fresh book of a live market shows what
   the exchange had when it sent the latest numbered message handled, unless a hole
   was hidden from the tracker by a baseline reset while other books were fresh, or
   a replayed snapshot was taken for a new one, which during a resync also sets the
   baseline back for every book. *)
FreshBooksTrue ==
  conn # "down" =>
    \A m \in (applied \cap g.covers) \ g.tainted :
      Fresh(c.book[m]) => c.book[m].n = g.truth[m]

(* _release_books, _record_change and _end_connection: a fresh book is one of a
   market the connection carries on a live subscription; nothing outlives its
   membership or its connection as fresh. *)
FreshMeansCarried == \A m \in Markets : Fresh(c.book[m]) => sid /\ m \in applied

(* _reconcile_locked and _resume_reconcile: once a connection is idle its applied
   group is the desired one, whatever set_group calls raced with sends and
   replies; and what is to be sent next is a subscribe exactly when no sid is held,
   so that no membership change lacks the sid it goes by (planner.to_commands). *)
IdleMeansApplied ==
  conn = "up" =>
    /\ ~pending /\ lock = "free" /\ ~waiting => applied = desired
    /\ todo # << >> => (Head(todo).op = "subscribe" <=> ~sid)

(* _on_gap, _on_duplicate, _on_delta: a market that stays on a live connection
   does not stay without a fresh book, whatever deltas were lost or messages
   replayed. *)
BooksRecover ==
  \A m \in Markets :
    (conn = "up" /\ m \in applied) ~> (Fresh(c.book[m]) \/ m \notin applied \/ conn # "up")

(* docs/ARCHITECTURE.md 7.1: every gap writes a GAP record and marks every book on
   the connection stale; no hole passes while a book stays fresh. *)
GapStalesEveryBook == ~g.silent

(* _book_for: a message that touches no book is a straggler from a subscription
   or market already retired, never the first snapshot of a market that joins. *)
OnlyStragglersIgnored == ~g.dropped
=============================================================================
