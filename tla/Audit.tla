-------------------------------- MODULE Audit --------------------------------
(***************************************************************************)
(* The audit of one market's book: the auditor (src/tape/recorder/         *)
(* auditor.py), the tap through which a supervisor tells it of every       *)
(* change (tap.py) and the rate limiter its request waits in               *)
(* (src/tape/client/ratelimit.py, rest.py), while the exchange's book      *)
(* moves, frames are under way and the book goes stale and comes back.     *)
(* A book is a count that deltas move by one.                              *)
(***************************************************************************)
EXTENDS Integers, Sequences, FiniteSets, FiniteSetsExt, SequencesExt

CONSTANTS
  Lead, Settle, \* lead_ns, settle_ns
  MaxEvents,    \* tap_max_events
  Second,       \* NS_PER_S: instants of a second
  Refill,       \* refill_per_s
  Capacity,     \* capacity
  Cost,         \* DEFAULT_TOKEN_COST
  MaxNow,       \* bound: the clock
  MaxValue,     \* bound: the count of a book
  MaxWire,      \* bound: frames under way
  MaxChanges,   \* bound: changes at the exchange
  MaxFaults,    \* bound: lost frames, connections and markets
  MaxRequests,  \* bound: requests of others in the limiter
  MaxAudits     \* bound: audits

ASSUME AuditAssumption ==
  /\ {Lead, Settle, MaxNow, MaxValue, MaxWire, MaxChanges, MaxFaults, MaxRequests, MaxAudits}
       \subseteq Nat
  /\ {MaxEvents, Second, Refill, Capacity, Cost} \subseteq Nat \ {0}
  /\ Capacity >= Refill /\ Capacity >= Cost

VARIABLES
  now,      \* the monotonic clock
  exch,     \* the exchange's book
  wire,     \* frames under way to the recorder
  stamped,  \* when the last frame applied was received
  hole,     \* a frame has been lost since the last one that arrived
  asked,    \* the exchange owes a snapshot
  resync,   \* one was asked for with get_snapshot and has not come
  carried,  \* the market is one of the connection's
  book,     \* the supervisor's book
  tap,      \* LiveBookTap and its recording of the market
  audit,    \* the audit under way
  limiter,  \* BucketRateLimiter: the read bucket
  others,   \* requests of other callers so far
  sends,    \* history: when requests were sent
  verdict,  \* the verdict of the last audit
  truth,    \* history: the states held since the tap opened, and the frames
  spent     \* how much of the bounds is used

net == <<exch, wire, stamped, hole, asked, resync, carried, book>>
vars == <<now, net, tap, audit, limiter, others, sends, verdict, truth, spent>>

None == -1
Auditor == "auditor"
Other == "other"

NoTap == [open |-> FALSE, gen |-> 0, start |-> None, events |-> << >>, fault |-> "no_book"]
NoAudit == [phase |-> "idle", at |-> None, reply |-> None, value |-> None]
NoVerdict == [outcome |-> "none", index |-> None, value |-> None, reply |-> None]
NoTruth == [held |-> << >>, whole |-> FALSE, arrived |-> 0, read |-> 0]

Init ==
  /\ now = 0 /\ exch = 0 /\ wire = << >> /\ stamped = 0 /\ hole = FALSE /\ asked = FALSE
  /\ resync = FALSE /\ carried = TRUE /\ book = [gen |-> 0, on |-> TRUE, fresh |-> TRUE, n |-> 0]
  /\ tap = NoTap /\ audit = NoAudit /\ verdict = NoVerdict /\ truth = NoTruth
  /\ limiter = [tokens |-> Capacity * Second, last |-> 0, queue |-> << >>, until |-> None]
  /\ others = 0 /\ sends = << >> /\ spent = [changes |-> 0, faults |-> 0, audits |-> 0]

Tick ==
  /\ now < MaxNow /\ now' = now + 1
  /\ UNCHANGED <<net, tap, audit, limiter, others, sends, verdict, truth, spent>>
-----------------------------------------------------------------------------
(* The exchange and the wire. *)

Fault == spent.faults < MaxFaults /\ spent' = [spent EXCEPT !.faults = @ + 1]
Frame(kind, n) == [kind |-> kind, n |-> n, gap |-> hole]

ExchangeChanges(d) ==
  /\ spent.changes < MaxChanges /\ exch + d \in 0 .. MaxValue /\ exch' = exch + d
  /\ spent' = [spent EXCEPT !.changes = @ + 1]
  /\ IF carried
     THEN Len(wire) < MaxWire /\ wire' = Append(wire, Frame("delta", d)) /\ hole' = FALSE
     ELSE UNCHANGED <<wire, hole>>
  /\ UNCHANGED <<now, stamped, asked, resync, carried, book, tap, audit, limiter, others, sends,
                 verdict, truth>>

FrameLost(d) ==
  /\ carried /\ exch + d \in 0 .. MaxValue /\ exch' = exch + d /\ hole' = TRUE /\ Fault
  /\ UNCHANGED <<now, wire, stamped, asked, resync, carried, book, tap, audit, limiter, others,
                 sends, verdict, truth>>

(* The answer to get_snapshot or to a subscription; one may be crossed. *)
ExchangeAnswers ==
  /\ asked /\ Len(wire) < MaxWire
  /\ \/ wire' = Append(wire, Frame("snapshot", exch)) /\ UNCHANGED spent
     \/ wire' = Append(wire, Frame("crossed", exch)) /\ Fault
  /\ asked' = FALSE /\ hole' = FALSE
  /\ UNCHANGED <<now, exch, stamped, resync, carried, book, tap, audit, limiter, others, sends,
                 verdict, truth>>
-----------------------------------------------------------------------------
(* supervisor.py and tap.py. *)

Fresh == book.on /\ book.fresh

(* LiveBookTap._open *)
OpenTap ==
  IF Fresh
  THEN [open |-> TRUE, gen |-> book.gen, start |-> book.n, events |-> << >>, fault |-> "none"]
  ELSE [NoTap EXCEPT !.open = TRUE]

(* Mutant: a snapshot of a stale book is a change as any. *)
RecordedAnyhow(change, wasStale) ==
  IF ~tap.open \/ tap.fault # "none" THEN tap
  ELSE IF Len(tap.events) >= MaxEvents THEN [tap EXCEPT !.fault = "overflow"]
  ELSE [tap EXCEPT !.events = Append(@, change)]

(* LiveBookTap.record *)
Recorded(change, wasStale) ==
  IF ~tap.open \/ tap.fault # "none" THEN tap
  ELSE IF wasStale THEN [tap EXCEPT !.fault = "stale"]
  ELSE IF Len(tap.events) >= MaxEvents THEN [tap EXCEPT !.fault = "overflow"]
  ELSE [tap EXCEPT !.events = Append(@, change)]

(* LiveBookTap._finish *)
Window ==
  [tap EXCEPT !.fault = IF @ = "none" /\ (book.gen # tap.gen \/ ~Fresh) THEN "stale" ELSE @]

(* What is so of the book since the tap opened. *)
Noted(t) == IF tap.open THEN t ELSE truth
Seen(changed, whole, at) ==
  Noted([truth EXCEPT !.held = IF changed THEN Append(@, [n |-> book'.n, at |-> at]) ELSE @,
                !.whole = @ /\ whole, !.arrived = @ + 1])

(* _on_frame: it was received at an instant that may be past by now.  A gap stales the
   book and asks for a snapshot; a snapshot that was asked for is a new baseline. *)
FrameArrives(at) ==
  /\ wire # << >> /\ at \in stamped .. now
  /\ stamped' = at /\ wire' = Tail(wire)
  /\ LET frame == Head(wire)
         gap   == frame.gap /\ carried /\ (frame.kind = "delta" \/ ~resync)
         fresh == Fresh /\ ~gap
     IN /\ asked' = (asked \/ gap)
        /\ resync' = ((resync \/ gap) /\ frame.kind = "delta")
        /\ CASE frame.kind = "delta" /\ carried /\ fresh ->
                  /\ book' = [book EXCEPT !.n = @ + frame.n]
                  /\ tap' = Recorded([kind |-> "delta", n |-> frame.n, at |-> at], FALSE)
                  /\ truth' = Seen(TRUE, TRUE, at)
             [] frame.kind = "snapshot" /\ carried ->
                  /\ book' = [book EXCEPT !.on = TRUE, !.fresh = TRUE, !.n = frame.n]
                  /\ tap' = Recorded([kind |-> "snapshot", n |-> frame.n, at |-> at], ~fresh)
                  /\ truth' = Seen(TRUE, fresh, at)
             [] OTHER ->
                  /\ book' = [book EXCEPT !.on = @ \/ (carried /\ frame.kind = "crossed"),
                                          !.fresh = fresh /\ frame.kind # "crossed"]
                  /\ truth' = Seen(FALSE, fresh /\ frame.kind # "crossed", at)
                  /\ UNCHANGED tap
  /\ UNCHANGED <<now, exch, hole, carried, audit, limiter, others, sends, verdict, spent>>

(* The connection is lost and another one subscribes. *)
ConnectionLost ==
  /\ carried /\ Fault
  /\ wire' = << >> /\ hole' = FALSE /\ asked' = TRUE /\ resync' = FALSE
  /\ book' = [book EXCEPT !.fresh = FALSE]
  /\ truth' = Noted([truth EXCEPT !.whole = FALSE])
  /\ UNCHANGED <<now, exch, stamped, carried, tap, audit, limiter, others, sends, verdict>>

(* _release_books, _prune_books *)
MarketDropped ==
  /\ carried /\ Fault
  /\ carried' = FALSE /\ asked' = FALSE /\ hole' = FALSE
  /\ book' = [gen |-> book.gen + 1, on |-> FALSE, fresh |-> FALSE, n |-> 0]
  /\ truth' = Noted([truth EXCEPT !.whole = FALSE])
  /\ UNCHANGED <<now, exch, wire, stamped, resync, tap, audit, limiter, others, sends, verdict>>

(* It comes back when the frames of its last stay have come. *)
MarketAdded ==
  /\ ~carried /\ wire = << >> /\ carried' = TRUE /\ asked' = TRUE
  /\ UNCHANGED <<now, exch, wire, stamped, hole, resync, book, tap, audit, limiter, others, sends,
                 verdict, truth, spent>>
-----------------------------------------------------------------------------
(* ratelimit.py: tokens are counted in instants of a second. *)

(* Mutant: the bucket fills without end. *)
RefilledFreely ==
  [limiter EXCEPT !.tokens = @ + (now - limiter.last) * Refill, !.last = now]

(* TokenBucket._refill *)
Refilled ==
  [limiter EXCEPT !.tokens = Min({Capacity * Second, @ + (now - limiter.last) * Refill}),
                  !.last = now]

(* Mutant: rounded down. *)
WaitRoundsDown(bucket) == (Cost * Second - bucket.tokens) \div Refill

(* TokenBucket.wait_ns: rounded up. *)
Wait(bucket) == (Cost * Second - bucket.tokens + Refill - 1) \div Refill

(* acquire: a caller waits for the lock in turn. *)
Queued(who) == [limiter EXCEPT !.queue = Append(@, who)]

(* The place of a caller that waits. *)
Turn(who) == CHOOSE i \in DOMAIN limiter.queue : limiter.queue[i] = who

(* acquire: the one that holds the lock takes its tokens or sleeps until they are there. *)
Acquires ==
  /\ limiter.queue # << >> /\ limiter.until <= now
  /\ LET bucket == Refilled
     IN IF bucket.tokens >= Cost * Second
        THEN /\ limiter' = [bucket EXCEPT !.tokens = @ - Cost * Second, !.queue = Tail(@), !.until = None]
             /\ sends' = Append(sends, now)
             /\ audit' = IF Head(limiter.queue) = Auditor THEN [audit EXCEPT !.phase = "sent"] ELSE audit
        ELSE /\ limiter' = [bucket EXCEPT !.until = now + Wait(bucket)]
             /\ UNCHANGED <<sends, audit>>
  /\ UNCHANGED <<now, net, tap, others, verdict, truth, spent>>

OtherAsks ==
  /\ others < MaxRequests /\ others' = others + 1
  /\ limiter' = Queued(Other)
  /\ UNCHANGED <<now, net, tap, audit, sends, verdict, truth, spent>>
-----------------------------------------------------------------------------
(* auditor.py *)

(* _audit_batch: of a book that may have gone stale since the round began. *)
AuditBegins ==
  /\ audit.phase = "idle" /\ spent.audits < MaxAudits /\ spent' = [spent EXCEPT !.audits = @ + 1]
  /\ audit' = [NoAudit EXCEPT !.phase = "lead", !.at = now]
  /\ tap' = IF carried THEN OpenTap ELSE [NoTap EXCEPT !.open = TRUE]
  /\ truth' = [NoTruth EXCEPT !.whole = carried /\ Fresh, !.held = <<[n |-> book.n, at |-> now]>>]
  /\ verdict' = NoVerdict
  /\ UNCHANGED <<now, net, limiter, others, sends>>

(* _fetch_in_window *)
LeadPasses ==
  /\ audit.phase = "lead" /\ now >= audit.at + Lead
  /\ audit' = [audit EXCEPT !.phase = "queued"] /\ limiter' = Queued(Auditor)
  /\ UNCHANGED <<now, net, tap, others, sends, verdict, truth, spent>>

ExchangeReads ==
  /\ audit.phase = "sent"
  /\ audit' = [audit EXCEPT !.phase = "read", !.value = exch]
  /\ truth' = [truth EXCEPT !.read = truth.arrived + Len(wire) + IF hole THEN 1 ELSE 0]
  /\ UNCHANGED <<now, net, tap, limiter, others, sends, verdict, spent>>

ReplyArrives ==
  /\ audit.phase = "read"
  /\ audit' = [audit EXCEPT !.phase = "settle", !.reply = now]
  /\ UNCHANGED <<now, net, tap, limiter, others, sends, verdict, truth, spent>>

(* _audit_batch, the request failed or the recorder stops: the tap is closed. *)
AuditFails ==
  /\ audit.phase # "idle"
  /\ audit' = NoAudit /\ tap' = NoTap /\ truth' = NoTruth
  /\ limiter' = IF audit.phase = "queued"
                THEN [limiter EXCEPT !.queue = RemoveAt(@, Turn(Auditor)),
                                     !.until = IF Turn(Auditor) = 1 THEN None ELSE @]
                ELSE limiter
  /\ UNCHANGED <<now, net, others, sends, verdict, spent>>

(* _received_by *)
Received(events) ==
  LET later == {i \in DOMAIN events : events[i].at > audit.reply}
  IN IF later = {} THEN Len(events) ELSE Min(later) - 1

(* _replay: the states of the window, the starting copy first. *)
States(w) ==
  FoldLeft(LAMBDA states, e : Append(states, IF e.kind = "snapshot" THEN e.n ELSE Last(states) + e.n),
           <<w.start>>, w.events)

(* Mutant: the states after the reply are not searched. *)
ClassifiesBefore(w) ==
  LET states  == States(w)
      reply   == Received(w.events)
      matches == {i \in 0 .. reply : states[i + 1] = audit.value}
  IN IF w.fault # "none" THEN [outcome |-> "undecidable", index |-> None]
     ELSE IF matches = {} THEN [outcome |-> "inconsistent", index |-> None]
     ELSE [outcome |-> IF reply \in matches THEN "exact" ELSE "consistent", index |-> Max(matches)]

(* classify_window: the nearest match up to the reply, unless one after it is nearer. *)
Classify(w) ==
  LET states  == States(w)
      reply   == Received(w.events)
      Matches(i) == states[i + 1] = audit.value
      before  == {i \in 0 .. reply : Matches(i)}
      nearest == IF before = {} THEN None ELSE Max(before)
      last    == IF before = {} THEN Len(w.events)
                 ELSE Min({Len(w.events), 2 * reply - nearest - 1})
      after   == {i \in reply + 1 .. last : Matches(i)}
  IN IF w.fault # "none" THEN [outcome |-> "undecidable", index |-> None]
     ELSE IF nearest = reply THEN [outcome |-> "exact", index |-> reply]
     ELSE IF after # {} THEN [outcome |-> "consistent", index |-> Min(after)]
     ELSE IF nearest = None THEN [outcome |-> "inconsistent", index |-> None]
     ELSE [outcome |-> "consistent", index |-> nearest]

(* _audit_entry *)
AuditEnds ==
  /\ audit.phase = "settle" /\ now >= audit.reply + Settle
  /\ LET v == Classify(Window)
     IN verdict' = [outcome |-> v.outcome, index |-> v.index, value |-> audit.value, reply |-> audit.reply]
  /\ audit' = NoAudit /\ tap' = NoTap
  /\ UNCHANGED <<now, net, limiter, others, sends, truth, spent>>

Next ==
  \/ Tick \/ \E d \in {-1, 1} : ExchangeChanges(d) \/ FrameLost(d)
  \/ ExchangeAnswers \/ \E at \in 0 .. MaxNow : FrameArrives(at)
  \/ ConnectionLost \/ MarketDropped \/ MarketAdded
  \/ Acquires \/ OtherAsks
  \/ AuditBegins \/ LeadPasses \/ ExchangeReads \/ ReplyArrives \/ AuditFails \/ AuditEnds

Spec == Init /\ [][Next]_vars
-----------------------------------------------------------------------------
(* Every variable holds a value of its kind: the tap is open exactly while an audit is under
   way, the auditor waits in the limiter at most once, and the bucket is never overfull. *)
TypeOK ==
  /\ exch \in 0 .. MaxValue /\ Len(wire) <= MaxWire /\ stamped \in 0 .. now
  /\ book.gen \in Nat /\ (book.fresh => book.on)
  /\ audit.phase \in {"idle", "lead", "queued", "sent", "read", "settle"}
  /\ tap.open <=> audit.phase # "idle"
  /\ tap.open => (tap.start = None <=> tap.fault = "no_book")
  /\ Len(tap.events) <= MaxEvents
  /\ limiter.tokens \in 0 .. Capacity * Second
  /\ \A i, j \in DOMAIN limiter.queue : limiter.queue[i] = Auditor /\ limiter.queue[j] = Auditor => i = j
  /\ (\E i \in DOMAIN limiter.queue : limiter.queue[i] = Auditor) <=> audit.phase = "queued"
  /\ limiter.until # None => limiter.queue # << >>

Abs(n) == IF n < 0 THEN -n ELSE n

(* auditor.py, classify_window: an audit is decided exactly when one fresh book was held
   all through its window, with no more changes than the tap holds; it is exact, consistent
   or inconsistent as the book received by the reply, another one held in the window or none
   was the one that REST told of; and of those it names the nearest to the reply. *)
VerdictTrue ==
  verdict.outcome # "none" =>
    LET changes == Len(truth.held) - 1
        reply   == Cardinality({i \in 1 .. changes : truth.held[i + 1].at <= verdict.reply})
        matches == {i \in 0 .. changes : truth.held[i + 1].n = verdict.value}
    IN IF ~truth.whole \/ changes > MaxEvents THEN verdict.outcome = "undecidable"
       ELSE /\ verdict.outcome = CASE reply \in matches -> "exact"
                                   [] matches = {} -> "inconsistent"
                                   [] OTHER -> "consistent"
            /\ (verdict.index = None) <=> (matches = {})
            /\ matches # {} => verdict.index \in matches
            /\ matches # {} => \A i \in matches :
                 LET closer == Abs(i - reply) - Abs(verdict.index - reply)
                 IN closer > 0 \/ (closer = 0 /\ verdict.index <= i)

(* An inconsistent audit is a real signal (docs/adr/0021): when every frame sent before the
   exchange was read has been received by the end of the window, and none is missing, then
   the book that REST told of was held in it. *)
NoFalseAlarm == verdict.outcome = "inconsistent" => truth.arrived < truth.read

(* ratelimit.py: never are more requests sent in a time than a full bucket and what it
   gains meanwhile pays for, and one that slept as long as it was told finds its tokens. *)
RequestsPaced ==
  /\ \A i, j \in DOMAIN sends :
       i <= j => Cost * Second * (j - i + 1) <= Capacity * Second + Refill * (sends[j] - sends[i])
  /\ limiter.until # None /\ limiter.until <= now => Refilled.tokens >= Cost * Second
=============================================================================
