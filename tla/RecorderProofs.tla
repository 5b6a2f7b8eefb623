--------------------------- MODULE RecorderProofs ---------------------------
(***************************************************************************)
(* Proofs about a recorder's run and the supervisor in it: the type        *)
(* invariant and the tape of the supervisor, alone and inside a recorder   *)
(* that starts it, stops it and cancels it; that a sink is closed only     *)
(* behind its supervisor; and that run ends for the cause it reports.      *)
(* The second half is about Tape: what the baker makes of the records of   *)
(* one connection, for every schedule of frames, losses, reconnects,       *)
(* restarts and clocks that step: that every record is accounted for once, *)
(* and that no gap is said to be over before the books it staled are back. *)
(***************************************************************************)
EXTENDS Recorder, Tape, SequenceTheorems, FiniteSetTheorems, WellFoundedInduction, TLAPS

-----------------------------------------------------------------------------
(* The supervisor's inductive invariant. *)

UnderWay == {"connecting", "connected", "consuming", "ending"}

(* The last event of an opened connection is its open; only an opened one has
   fresh books. *)
OpenAtEnd ==
  /\ opened => tape # << >> /\ tape[Len(tape)] = "open"
  /\ opened => phase \in {"consuming", "ending"}
  /\ phase = "consuming" => opened
  /\ fresh => opened

(* A connection under way has been counted as an attempt and not yet as a failure. *)
CountedOnce == phase \in UnderWay => failures < conns

(* What run's return and its raise stand for. *)
EndSound ==
  /\ phase = "ending" /\ ~failure => stop
  /\ result = "returned" => stop
  /\ result = "raised" => Limit # NoLimit /\ failures > Limit

SupInv == TypeOK /\ OpenAtEnd /\ CountedOnce /\ EndSound /\ EventsPaired

-----------------------------------------------------------------------------
(* The recorder's inductive invariant. *)

Drained == {"sinks", "done"}

Kinds ==
  /\ run \in {"new", "starting", "capturing", "shutting", "over"}
  /\ outcome \in {"none", "cancelled", "raised", "returned"}
  /\ cancels \in 0 .. 2
  /\ stage \in {"no", "periodic", "loops", "keyframe", "supervisors", "sinks", "done"}
  /\ loops \in {"off", "running", "returned", "failed", "cancelled"}
  /\ periodic \in {"off", "running", "over"}
  /\ writer \in [thread : {"off", "running", "failed", "returned"}, closed : BOOLEAN]
  /\ stopper \in {"idle", "run", "shutdown", "returned"}

Flags ==
  /\ asked \in BOOLEAN /\ stopping \in BOOLEAN /\ finished \in BOOLEAN
  /\ lateput \in BOOLEAN /\ noted \in BOOLEAN /\ startFailed \in BOOLEAN

(* Tasks run only from _capture on, and a shutdown, once begun, keeps them from starting. *)
StartedOnce ==
  /\ run \in {"new", "starting"} => loops = "off" /\ writer.thread = "off"
  /\ run = "capturing" => Started
  /\ ~Started => phase = "idle" /\ result = "none" /\ writer.thread = "off"
  /\ stage # "no" => stopping
  /\ stop => stage \in {"supervisors"} \cup Drained
  /\ loops \in {"returned", "cancelled"} => stopping

(* The order of _shutdown_once: the supervisor is over before the sinks close. *)
StagesInOrder ==
  /\ writer.closed <=> stage = "done"
  /\ stage \in Drained => phase = "exited" \/ ~Started
  /\ stage \in {"keyframe", "supervisors"} \cup Drained =>
       loops # "running" /\ (LoopsFailed => noted)
  /\ stage \in Drained => (result = "raised" => noted)
  /\ stage = "done" => writer.thread # "running" /\ (writer.thread = "failed" => noted)
  /\ ~lateput

(* Whatever made run shut down is on record. *)
CauseKnown ==
  /\ run \in {"new", "starting", "capturing"} /\ stopping => asked
  /\ run \in {"shutting", "over"} => asked \/ startFailed \/ noted
  /\ cancels > 0 \/ stopper # "idle" => asked
  /\ noted => LoopsFailed \/ writer.thread = "failed" \/ result = "raised"
  /\ outcome = "returned" => stage = "done" /\ ~noted /\ asked /\ run = "over"
  /\ outcome = "raised" => startFailed \/ noted

RecInv == Kinds /\ Flags /\ StartedOnce /\ StagesInOrder /\ CauseKnown

-----------------------------------------------------------------------------
(* The supervisor keeps its invariant. *)

LEMMA Parameters == MaxConns \in Nat /\ MaxDoubles \in Nat /\ Limit \in Int
  BY LoopAssumption DEF NoLimit

LEMMA SupInitially == ASSUME Init PROVE SupInv
<1>1. Len(tape) = 0 /\ tape \in Seq(Events)
  BY EmptySeq DEF Init
<1>2. TypeOK
  <2>1. failures \in 0 .. conns /\ conns \in 0 .. MaxConns /\ delay \in 0 .. MaxDoubles
    BY Parameters DEF Init
  <2>2. {stop, opened, failure, frames, fresh} \subseteq BOOLEAN
    BY DEF Init
  <2> QED BY <1>1, <2>1, <2>2 DEF Init, TypeOK, Phases
<1>3. OpenAtEnd /\ CountedOnce /\ EndSound
  BY DEF Init, OpenAtEnd, CountedOnce, EndSound, UnderWay
<1>4. EventsPaired
  BY <1>1 DEF EventsPaired
<1> QED BY <1>2, <1>3, <1>4 DEF SupInv

(* Steps that leave the tape and the connection's flags alone. *)
LEMMA QuietStep ==
  ASSUME SupInv,
         \/ Begin \/ LeaveLoop \/ HandshakeDone \/ ReaderBegins \/ ConnectFails \/ Consumed
         \/ Wake \/ Frame \/ SessionFails \/ Stop
  PROVE  SupInv'
<1>1. tape' = tape /\ opened' = opened
  BY DEF Begin, LeaveLoop, HandshakeDone, ReaderBegins, ConnectFails, Consumed, Wake, Frame,
     SessionFails, Stop
<1>2. EventsPaired'
  BY <1>1 DEF SupInv, EventsPaired
<1>3. TypeOK'
  <2> USE DEF SupInv, TypeOK, Phases
  <2>1. CASE Begin
    <3>1. failures' \in 0 .. conns' /\ conns' \in 0 .. MaxConns /\ delay' \in 0 .. MaxDoubles
      BY <2>1, Parameters DEF Begin
    <3>2. {stop', opened', failure', frames', fresh'} \subseteq BOOLEAN
      BY <2>1 DEF Begin
    <3> QED BY <2>1, <3>1, <3>2 DEF Begin
  <2>2. CASE LeaveLoop
    BY <2>2 DEF LeaveLoop
  <2>3. CASE HandshakeDone
    BY <2>3 DEF HandshakeDone
  <2>4. CASE ReaderBegins
    BY <2>4 DEF ReaderBegins
  <2>5. CASE ConnectFails
    BY <2>5 DEF ConnectFails
  <2>6. CASE Consumed
    BY <2>6 DEF Consumed
  <2>7. CASE Wake
    BY <2>7 DEF Wake
  <2>8. CASE Frame
    BY <2>8 DEF Frame
  <2>9. CASE SessionFails
    BY <2>9 DEF SessionFails
  <2>10. CASE Stop
    BY <2>10 DEF Stop
  <2> QED BY <2>1, <2>2, <2>3, <2>4, <2>5, <2>6, <2>7, <2>8, <2>9, <2>10
<1>4. OpenAtEnd'
  BY <1>1 DEF SupInv, OpenAtEnd, Begin, LeaveLoop, HandshakeDone, ReaderBegins, ConnectFails, Consumed,
     Wake, Frame, SessionFails, Stop
<1>5. CountedOnce'
  BY DEF SupInv, TypeOK, CountedOnce, UnderWay, Begin, LeaveLoop, HandshakeDone, ReaderBegins,
     ConnectFails, Consumed, Wake, Frame, SessionFails, Stop
<1>6. EndSound'
  BY DEF SupInv, TypeOK, EndSound, Begin, LeaveLoop, HandshakeDone, ReaderBegins, ConnectFails, Consumed,
     Wake, Frame, SessionFails, Stop
<1> QED BY <1>2, <1>3, <1>4, <1>5, <1>6 DEF SupInv

(* The connection event follows a tape on which every open is closed. *)
LEMMA ConnectedStep == ASSUME SupInv, Connected PROVE SupInv'
<1>1. /\ tape \in Seq(Events) /\ tape' = Append(tape, "open") /\ "open" \in Events
      /\ ~opened /\ opened' /\ phase = "connected" /\ phase' = "consuming"
  BY DEF SupInv, TypeOK, OpenAtEnd, Connected, Events
<1>2. /\ tape' \in Seq(Events) /\ Len(tape') = Len(tape) + 1 /\ tape'[Len(tape) + 1] = "open"
      /\ \A i \in 1 .. Len(tape) : tape'[i] = tape[i]
  BY <1>1, AppendProperties
<1>3. TypeOK'
  BY <1>1, <1>2 DEF SupInv, TypeOK, Connected, Phases
<1>4. OpenAtEnd'
  BY <1>1, <1>2, EmptySeq, LenProperties DEF SupInv, OpenAtEnd, Connected
<1>5. CountedOnce' /\ EndSound'
  BY <1>1 DEF SupInv, CountedOnce, EndSound, UnderWay, Connected
<1>6. EventsPaired'
  <2>1. Len(tape) \in Nat /\ DOMAIN tape = 1 .. Len(tape) /\ DOMAIN tape' = 1 .. Len(tape) + 1
    BY <1>1, <1>2, LenProperties
  <2>2. ASSUME NEW i \in DOMAIN tape'
        PROVE  /\ tape'[i] = "open" => \/ i = Len(tape') /\ opened'
                                       \/ i + 2 <= Len(tape') /\ tape'[i + 1] = "close"
                                                              /\ tape'[i + 2] = "rotate"
               /\ tape'[i] = "close" => i > 1 /\ tape'[i - 1] = "open"
    <3>1. CASE i = Len(tape) + 1
      BY <1>1, <1>2, <3>1
    <3>2. CASE i \in 1 .. Len(tape)
      <4>1. /\ tape[i] = "open" => i + 2 <= Len(tape) /\ tape[i + 1] = "close" /\ tape[i + 2] = "rotate"
            /\ tape[i] = "close" => i > 1 /\ tape[i - 1] = "open"
        BY <1>1, <2>1, <3>2 DEF SupInv, EventsPaired
      <4> QED BY <1>2, <2>1, <3>2, <4>1
    <3> QED BY <2>1, <2>2, <3>1, <3>2
  <2> QED BY <2>2 DEF EventsPaired
<1> QED BY <1>3, <1>4, <1>5, <1>6 DEF SupInv

(* What a longer tape leaves of its first events. *)
LEMMA PairKept ==
  ASSUME NEW s, NEW t, Len(s) \in Nat, Len(t) \in Nat, Len(s) <= Len(t),
         \A j \in 1 .. Len(s) : t[j] = s[j], NEW i \in 1 .. Len(s),
         s[i] = "open" => i + 2 <= Len(s) /\ s[i + 1] = "close" /\ s[i + 2] = "rotate",
         s[i] = "close" => i > 1 /\ s[i - 1] = "open"
  PROVE  /\ t[i] = "open" => i + 2 <= Len(t) /\ t[i + 1] = "close" /\ t[i + 2] = "rotate"
         /\ t[i] = "close" => i > 1 /\ t[i - 1] = "open"
<1>1. t[i] = s[i]
  OBVIOUS
<1>2. ASSUME t[i] = "open" PROVE i + 2 <= Len(t) /\ t[i + 1] = "close" /\ t[i + 2] = "rotate"
  <2>1. i + 1 \in 1 .. Len(s) /\ i + 2 \in 1 .. Len(s)
    BY <1>1, <1>2
  <2> QED BY <1>1, <1>2, <2>1
<1>3. ASSUME t[i] = "close" PROVE i > 1 /\ t[i - 1] = "open"
  <2>1. i - 1 \in 1 .. Len(s)
    BY <1>1, <1>3
  <2> QED BY <1>1, <1>3, <2>1
<1> QED BY <1>2, <1>3

(* _end_connection and run after it: a close and a rotation, an error, or nothing. *)
LEMMA EndStep == ASSUME SupInv, EndConnection PROVE SupInv'
<1> DEFINE before == IF frames' THEN 0 ELSE failures
<1>0. /\ phase = "ending" /\ opened' = FALSE /\ session' = "none" /\ frames' = FALSE
      /\ stop' = stop /\ failure' = failure /\ conns' = conns /\ fresh' = (fresh /\ ~opened)
  BY DEF EndConnection, Forget
<1>1. /\ tape \in Seq(Events) /\ ~fresh' /\ fresh' \in BOOLEAN
      /\ result = "none" /\ failures \in Nat /\ conns \in 0 .. MaxConns /\ failures < conns
      /\ delay \in 0 .. MaxDoubles
      /\ {stop, opened, failure, frames, fresh} \subseteq BOOLEAN
  <2>1. tape \in Seq(Events) /\ result = "none" /\ delay \in 0 .. MaxDoubles
        /\ {stop, opened, failure, frames, fresh} \subseteq BOOLEAN
    BY <1>0 DEF SupInv, TypeOK
  <2>2. failures \in Nat /\ conns \in 0 .. MaxConns /\ failures < conns
    BY <1>0, Parameters DEF SupInv, TypeOK, CountedOnce, UnderWay
  <2>3. ~fresh' /\ fresh' \in BOOLEAN
    BY <1>0 DEF SupInv, OpenAtEnd
  <2> QED BY <2>1, <2>2, <2>3
<1>2. /\ before \in Nat /\ before <= failures
      /\ Least(before, MaxDoubles) \in 0 .. MaxDoubles
  BY <1>0, <1>1, Parameters DEF Least
<1> HIDE DEF before
<1>3. \/ /\ phase' = "exited" /\ result' = "returned" /\ stop /\ failures' = failures /\ delay' = delay
      \/ /\ phase' = "exited" /\ result' = "raised" /\ failures' = before + 1 /\ delay' = delay
         /\ Limit # NoLimit /\ before + 1 > Limit
      \/ /\ phase' = "backoff" /\ result' = "none" /\ failures' = before + 1
         /\ delay' = Least(before, MaxDoubles)
  <2>1. CASE failure
    BY <1>0, <1>1, <2>1 DEF EndConnection, AfterConnection, BackOff, before
  <2>2. CASE ~failure
    BY <1>0, <1>1, <2>2 DEF EndConnection, AfterConnection, SupInv, EndSound
  <2> QED BY <2>1, <2>2
<1>4. failures' \in 0 .. conns' /\ delay' \in 0 .. MaxDoubles
  BY <1>0, <1>1, <1>2, <1>3
<1>5. \/ /\ opened /\ tape' = tape \o <<"close", "rotate">>
      \/ /\ ~opened /\ (tape' = tape \o <<"error">> \/ tape' = tape \o << >>)
  BY <1>1 DEF EndConnection, EndEvents
<1>6. /\ Len(tape) \in Nat /\ DOMAIN tape = 1 .. Len(tape)
      /\ \A i \in 1 .. Len(tape) : tape[i] \in Events
  BY <1>1, LenProperties, ElementOfSeq
<1>7. \A i \in 1 .. Len(tape) :
        /\ tape[i] = "open" => \/ i = Len(tape) /\ opened
                               \/ i + 2 <= Len(tape) /\ tape[i + 1] = "close" /\ tape[i + 2] = "rotate"
        /\ tape[i] = "close" => i > 1 /\ tape[i - 1] = "open"
  BY <1>6 DEF SupInv, EventsPaired
<1>8. tape' \in Seq(Events) /\ EventsPaired'
  <2>1. CASE opened /\ tape' = tape \o <<"close", "rotate">>
    <3>1. /\ tape' \in Seq(Events) /\ Len(tape') = Len(tape) + 2 /\ DOMAIN tape' = 1 .. Len(tape) + 2
          /\ \A i \in 1 .. Len(tape) : tape'[i] = tape[i]
          /\ tape'[Len(tape) + 1] = "close" /\ tape'[Len(tape) + 2] = "rotate"
      BY <1>1, <2>1 DEF Events
    <3>2. Len(tape) > 0 /\ tape[Len(tape)] = "open"
      BY <1>6, <2>1, EmptySeq DEF SupInv, OpenAtEnd
    <3>3. ASSUME NEW i \in 1 .. Len(tape) + 2
          PROVE  /\ tape'[i] = "open" => i + 2 <= Len(tape') /\ tape'[i + 1] = "close"
                                                            /\ tape'[i + 2] = "rotate"
                 /\ tape'[i] = "close" => i > 1 /\ tape'[i - 1] = "open"
      <4>0. Len(tape) \in Nat
        BY <1>6
      <4>1. CASE i \in {Len(tape) + 1, Len(tape) + 2}
        BY <1>6, <3>1, <3>2, <4>1
      <4>2. CASE i = Len(tape)
        BY <1>6, <3>1, <3>2, <4>2
      <4>3. CASE i \in 1 .. Len(tape) /\ i # Len(tape)
        <5>1. /\ tape[i] = "open" => i + 2 <= Len(tape) /\ tape[i + 1] = "close" /\ tape[i + 2] = "rotate"
              /\ tape[i] = "close" => i > 1 /\ tape[i - 1] = "open"
          BY <1>7, <4>3
        <5>2. Len(tape') \in Nat /\ Len(tape) <= Len(tape')
          BY <1>6, <3>1
        <5>3. \A j \in 1 .. Len(tape) : tape'[j] = tape[j]
          BY <3>1
        <5> QED BY <4>0, <4>3, <5>1, <5>2, <5>3, PairKept
      <4>4. i \in {Len(tape) + 1, Len(tape) + 2} \/ i = Len(tape) \/ (i \in 1 .. Len(tape) /\ i # Len(tape))
        BY <4>0
      <4> QED BY <4>1, <4>2, <4>3, <4>4
    <3> QED BY <3>1, <3>3 DEF EventsPaired
  <2>2. CASE ~opened /\ tape' = tape \o <<"error">>
    <3>1. /\ tape' \in Seq(Events) /\ Len(tape') = Len(tape) + 1 /\ DOMAIN tape' = 1 .. Len(tape) + 1
          /\ \A i \in 1 .. Len(tape) : tape'[i] = tape[i]
          /\ tape'[Len(tape) + 1] = "error"
      BY <1>1, <2>2 DEF Events
    <3>2. ASSUME NEW i \in 1 .. Len(tape) + 1
          PROVE  /\ tape'[i] = "open" => i + 2 <= Len(tape') /\ tape'[i + 1] = "close"
                                                            /\ tape'[i + 2] = "rotate"
                 /\ tape'[i] = "close" => i > 1 /\ tape'[i - 1] = "open"
      <4>1. CASE i = Len(tape) + 1
        BY <3>1, <4>1
      <4>2. CASE i \in 1 .. Len(tape)
        <5>1. /\ tape[i] = "open" => i + 2 <= Len(tape) /\ tape[i + 1] = "close" /\ tape[i + 2] = "rotate"
              /\ tape[i] = "close" => i > 1 /\ tape[i - 1] = "open"
          BY <1>7, <2>2, <4>2
        <5>2. Len(tape') \in Nat /\ Len(tape) <= Len(tape')
          BY <1>6, <3>1
        <5> QED BY <1>6, <3>1, <4>2, <5>1, <5>2, PairKept
      <4> QED BY <1>6, <4>1, <4>2
    <3> QED BY <3>1, <3>2 DEF EventsPaired
  <2>3. CASE ~opened /\ tape' = tape \o << >>
    <3>1. tape' = tape
      BY <1>1, <2>3, ConcatEmptySeq
    <3> QED BY <1>1, <1>6, <1>7, <2>3, <3>1 DEF EventsPaired
  <2> QED BY <1>5, <2>1, <2>2, <2>3
<1>9. TypeOK'
  <2>1. phase' \in {"exited", "backoff"} /\ (result' # "none" <=> phase' = "exited")
        /\ result' \in {"none", "returned", "raised"}
    BY <1>3
  <2> QED BY <1>0, <1>1, <1>4, <1>8, <2>1 DEF TypeOK, Phases
<1>10. OpenAtEnd' /\ CountedOnce'
  BY <1>0, <1>1, <1>3 DEF OpenAtEnd, CountedOnce, UnderWay
<1>11. EndSound'
  BY <1>0, <1>1, <1>3 DEF EndSound
<1> QED BY <1>8, <1>9, <1>10, <1>11 DEF SupInv

(* Whatever the supervisor does, alone or as a recorder drives it. *)
LEMMA SupStep ==
  ASSUME SupInv, Next \/ Consumed \/ UNCHANGED vars
  PROVE  SupInv'
<1>1. CASE UNCHANGED vars
  BY <1>1 DEF vars, SupInv, TypeOK, OpenAtEnd, CountedOnce, EndSound, EventsPaired
<1>2. CASE Next \/ Consumed
  BY <1>2, QuietStep, ConnectedStep, EndStep DEF Next, Loop, ConsumeEnds, DeadlinePasses
<1> QED BY <1>1, <1>2

(* Every variable of a supervisor holds a value of its kind, a session exists
   exactly while a connection does, its failures never outnumber its attempts,
   and only a connection carries fresh books (supervisor.py, run). *)
THEOREM SupervisorTypeCorrect == Spec => []TypeOK
<1>1. SupInv /\ [Next]_vars => SupInv'
  BY SupStep
<1>2. SupInv => TypeOK
  BY DEF SupInv
<1> QED BY SupInitially, <1>1, <1>2, PTL DEF Spec

(* However a supervisor's connections end and whenever it is stopped, every one
   that opened is closed on its tape, and the tape rotated, before the next
   event (supervisor.py, _end_connection). *)
THEOREM ConnectionsAlwaysPaired == Spec => []EventsPaired
<1>1. SupInv /\ [Next]_vars => SupInv'
  BY SupStep
<1>2. SupInv => EventsPaired
  BY DEF SupInv
<1> QED BY SupInitially, <1>1, <1>2, PTL DEF Spec

-----------------------------------------------------------------------------
(* The recorder around it. *)

(* What a recorder does to its supervisor: nothing, a step of its own, a stop,
   or the cancellation that ends its frames. *)
LEMMA DrivesSupervisor ==
  ASSUME RecNext \/ UNCHANGED allVars
  PROVE  Next \/ Consumed \/ UNCHANGED vars
<1>1. CASE SupervisorStep \/ UNCHANGED allVars
  BY <1>1 DEF SupervisorStep, Next, allVars
<1>2. CASE Shutdown
  BY <1>2 DEF Shutdown, DrainPeriodic, DrainLoops, StopSupervisor, CancelSupervisor, DrainSupervisor,
     CloseSinks, Next
<1>3. CASE LoopsReturn \/ StatusNotices \/ Noticed \/ StartStopped \/ RunEnds \/ StopGoesOn \/ StopReturns
  BY <1>3 DEF LoopsReturn, StatusNotices, LoopsEnd, Noticed, StartStopped, RunEnds, StopGoesOn,
     StopReturns
<1>4. CASE WriterDies \/ LoopFails \/ PeriodicEnds \/ RunCalled \/ StartFails \/ Capture
           \/ CancelledBefore \/ CancelledIn \/ RequestStop \/ StopCalled
  BY <1>4 DEF WriterDies, LoopFails, LoopsEnd, PeriodicEnds, RunCalled, StartFails, Capture,
     CancelledBefore, CancelledIn, RequestStop, StopCalled
<1> QED BY <1>1, <1>2, <1>3, <1>4 DEF RecNext, Tasks

LEMMA RecInitially == ASSUME RecInit PROVE SupInv /\ RecInv
<1>1. SupInv
  BY SupInitially DEF RecInit
<1>2. Kinds
  BY DEF RecInit, Kinds
<1>4. Flags
  BY DEF RecInit, Flags
<1>3. StartedOnce /\ StagesInOrder /\ CauseKnown
  BY DEF RecInit, Init, StartedOnce, StagesInOrder, CauseKnown, Started, LoopsFailed, Drained
<1> QED BY <1>1, <1>2, <1>3, <1>4 DEF RecInv

(* The supervisor's steps: once it is over, there are none. *)
LEMMA OverForGood ==
  ASSUME SupInv, Loop \/ Frame \/ SessionFails \/ DeadlinePasses
  PROVE  /\ phase # "exited" /\ result = "none" /\ stop' = stop
         /\ (tape' # tape \/ phase = "consuming") => phase # "exited"
<1>1. phase # "exited" /\ stop' = stop
  BY DEF SupInv, TypeOK, Loop, Frame, SessionFails, DeadlinePasses, Begin, LeaveLoop, HandshakeDone,
     ReaderBegins, Connected, ConnectFails, ConsumeEnds, Consumed, EndConnection, Wake
<1> QED BY <1>1 DEF SupInv, TypeOK

LEMMA SupervisorMoves ==
  ASSUME SupInv, RecInv, SupervisorStep
  PROVE  RecInv'
<1>1. /\ phase # "exited" /\ result = "none" /\ stop' = stop /\ Started
  BY OverForGood DEF SupervisorStep
<1>2. /\ UNCHANGED <<run, outcome, cancels, asked, stopping, stage, finished, loops, periodic, writer,
                     noted, startFailed, stopper>>
      /\ lateput' = (lateput \/ (writer.closed /\ (tape' # tape \/ phase = "consuming")))
  BY DEF SupervisorStep
<1>3. stage \notin Drained /\ ~writer.closed
  BY <1>1 DEF RecInv, StagesInOrder, Drained
<1>4. Kinds'
  BY <1>2 DEF RecInv, Kinds
<1>8. Flags'
  BY <1>2, <1>3 DEF RecInv, Flags
<1>5. StartedOnce'
  BY <1>1, <1>2 DEF RecInv, StartedOnce, Started
<1>6. StagesInOrder'
  BY <1>1, <1>2, <1>3 DEF RecInv, StagesInOrder, Started, LoopsFailed
<1>7. CauseKnown'
  BY <1>1, <1>2 DEF RecInv, CauseKnown, LoopsFailed
<1> QED BY <1>4, <1>5, <1>6, <1>7, <1>8 DEF RecInv

LEMMA TaskMoves ==
  ASSUME SupInv, RecInv, WriterDies \/ LoopsReturn \/ StatusNotices \/ LoopFails \/ PeriodicEnds
  PROVE  RecInv'
<1> USE DEF WriterDies, LoopsReturn, StatusNotices, LoopFails, LoopsEnd, PeriodicEnds, vars
<1>1. Kinds'
  BY DEF RecInv, Kinds
<1>5. Flags'
  BY DEF RecInv, Flags
<1>2. StartedOnce'
  BY DEF RecInv, Kinds, StartedOnce, Started, Drained
<1>3. StagesInOrder'
  BY DEF RecInv, Kinds, Flags, StartedOnce, StagesInOrder, Started, LoopsFailed, Drained
<1>4. CauseKnown'
  BY DEF RecInv, Kinds, Flags, StagesInOrder, StartedOnce, CauseKnown, LoopsFailed, Drained
<1> QED BY <1>1, <1>2, <1>3, <1>4, <1>5 DEF RecInv

LEMMA RunMoves ==
  ASSUME SupInv, RecInv, RunCalled \/ StartFails \/ StartStopped \/ CancelledBefore \/ CancelledIn \/ RunEnds
  PROVE  RecInv'
<1> USE DEF RunCalled, StartFails, StartStopped, CancelledBefore, CancelledIn, RunEnds,
            BeginShutdown, vars
<1>1. Kinds'
  BY DEF RecInv, Kinds
<1>5. Flags'
  BY DEF RecInv, Flags
<1>2. StartedOnce'
  BY DEF RecInv, Kinds, StartedOnce, Started, Drained
<1>3. StagesInOrder'
  BY DEF RecInv, Kinds, Flags, StartedOnce, StagesInOrder, Started, LoopsFailed, Drained
<1>4. CauseKnown'
  BY DEF RecInv, Kinds, Flags, StagesInOrder, StartedOnce, CauseKnown, LoopsFailed, Drained
<1> QED BY <1>1, <1>2, <1>3, <1>4, <1>5 DEF RecInv

LEMMA CaptureMoves ==
  ASSUME SupInv, RecInv, Capture \/ Noticed
  PROVE  RecInv'
<1> USE DEF Capture, Noticed, SupervisorFailed, BeginShutdown, vars
<1>1. Kinds'
  BY DEF RecInv, Kinds
<1>5. Flags'
  BY DEF RecInv, Flags
<1>2. StartedOnce'
  BY DEF RecInv, Kinds, StartedOnce, Started, Drained
<1>3. StagesInOrder'
  BY DEF RecInv, Kinds, Flags, StartedOnce, StagesInOrder, Started, LoopsFailed, Drained
<1>4. CauseKnown'
  <2>1. CASE Capture
    BY <2>1 DEF RecInv, Kinds, StartedOnce, CauseKnown, LoopsFailed, Started
  <2>2. CASE Noticed
    <3>1. result = "returned" => stopping
      BY DEF SupInv, EndSound, RecInv, StartedOnce, Drained
    <3>2. loops # "running" => LoopsFailed \/ stopping
      BY <2>2 DEF RecInv, Kinds, StartedOnce, LoopsFailed, Started
    <3>3. phase = "exited" => result \in {"returned", "raised"}
      BY DEF SupInv, TypeOK
    <3>4. asked \/ noted'
      BY <2>2, <3>1, <3>2, <3>3 DEF RecInv, CauseKnown
    <3>5. noted' => LoopsFailed \/ writer.thread = "failed" \/ result = "raised"
      BY <2>2, <3>1 DEF RecInv, CauseKnown
    <3>6. outcome \notin {"returned", "raised"} \/ startFailed \/ noted
      BY <2>2 DEF RecInv, CauseKnown
    <3>7. noted => noted'
      BY <2>2
    <3> QED BY <2>2, <3>4, <3>5, <3>6, <3>7 DEF RecInv, CauseKnown, LoopsFailed
  <2> QED BY <2>1, <2>2
<1> QED BY <1>1, <1>2, <1>3, <1>4, <1>5 DEF RecInv

LEMMA ShutdownMoves ==
  ASSUME SupInv, RecInv, Shutdown
  PROVE  RecInv'
<1> USE DEF Shutdown, DrainPeriodic, DrainLoops, StopSupervisor, CancelSupervisor, DrainSupervisor,
            CloseSinks, Stop, Consumed, vars, recVars
<1>1. Kinds'
  <2>1. writer' \in [thread : {"off", "running", "failed", "returned"}, closed : BOOLEAN]
    <3>1. CASE CloseSinks
      <4>1. (IF writer.thread = "running" THEN "returned" ELSE writer.thread)
              \in {"off", "running", "failed", "returned"}
        BY DEF RecInv, Kinds
      <4> QED BY <3>1, <4>1
    <3>2. CASE writer' = writer
      BY <3>2 DEF RecInv, Kinds
    <3> QED BY <3>1, <3>2
  <2> QED BY <2>1 DEF RecInv, Kinds
<1>5. Flags'
  BY DEF RecInv, Flags
<1>2. StartedOnce'
  BY DEF RecInv, Kinds, StartedOnce, Started, Drained
<1>3. StagesInOrder'
  BY DEF RecInv, Kinds, Flags, StartedOnce, StagesInOrder, Started, LoopsFailed, Drained
<1>4. CauseKnown'
  BY DEF RecInv, Kinds, Flags, StagesInOrder, StartedOnce, CauseKnown, LoopsFailed, Drained
<1> QED BY <1>1, <1>2, <1>3, <1>4, <1>5 DEF RecInv

LEMMA StopMoves ==
  ASSUME SupInv, RecInv, RequestStop \/ StopCalled \/ StopGoesOn \/ StopReturns
  PROVE  RecInv'
<1> USE DEF RequestStop, StopCalled, StopGoesOn, StopReturns, BeginShutdown, vars
<1>1. Kinds'
  BY DEF RecInv, Kinds
<1>5. Flags'
  BY DEF RecInv, Flags
<1>2. StartedOnce'
  BY DEF RecInv, Kinds, StartedOnce, Started, Drained
<1>3. StagesInOrder'
  BY DEF RecInv, Kinds, Flags, StartedOnce, StagesInOrder, Started, LoopsFailed, Drained
<1>4. CauseKnown'
  BY DEF RecInv, Kinds, Flags, StagesInOrder, StartedOnce, CauseKnown, LoopsFailed, Drained
<1> QED BY <1>1, <1>2, <1>3, <1>4, <1>5 DEF RecInv

(* The inductive invariant of a recorder's run. *)
LEMMA RecStep ==
  ASSUME SupInv /\ RecInv, RecNext \/ UNCHANGED allVars
  PROVE  (SupInv /\ RecInv)'
<1>1. SupInv'
  BY DrivesSupervisor, SupStep
<1>2. CASE UNCHANGED allVars
  <2>1. UNCHANGED recVars /\ UNCHANGED vars
    BY <1>2 DEF allVars
  <2>2. Kinds' /\ Flags'
    BY <2>1 DEF recVars, RecInv, Kinds, Flags
  <2>3. StartedOnce' /\ StagesInOrder' /\ CauseKnown'
    BY <2>1 DEF recVars, vars, RecInv, StartedOnce, StagesInOrder, CauseKnown, Started, LoopsFailed
  <2> QED BY <1>1, <2>2, <2>3 DEF RecInv
<1>3. CASE RecNext
  BY <1>1, <1>3, SupervisorMoves, TaskMoves, RunMoves, CaptureMoves, ShutdownMoves, StopMoves
     DEF RecNext, Tasks
<1> QED BY <1>2, <1>3

LEMMA RecAlways == RecSpec => [](SupInv /\ RecInv)
<1>1. SupInv /\ RecInv /\ [RecNext]_allVars => (SupInv /\ RecInv)'
  BY RecStep
<1> QED BY RecInitially, <1>1, PTL DEF RecSpec

(* In a recorder too, which stops its supervisors and cancels those that do not
   end, a supervisor's variables keep their kinds, and its session, its failures
   and its fresh books their places (supervisor.py, run; recorder.py,
   _shutdown_once). *)
THEOREM RecorderTypeCorrect == RecSpec => []TypeOK
<1>1. SupInv /\ RecInv => TypeOK
  BY DEF SupInv
<1> QED BY RecAlways, <1>1, PTL

(* Nothing is ever put on a closed sink, and the tape of a closed one is whole:
   each connection on it was closed and the tape rotated, whoever stopped,
   cancelled or failed the run and in whatever order (recorder.py,
   _shutdown_once; supervisor.py, _end_connection). *)
THEOREM TapeAlwaysComplete == RecSpec => []TapeComplete
<1>1. SupInv /\ RecInv => TapeComplete
  <2>1. ASSUME SupInv, RecInv, writer.closed PROVE ~opened
    <3>1. phase \in {"exited", "idle"}
      BY <2>1 DEF RecInv, StagesInOrder, StartedOnce, Drained
    <3> QED BY <2>1, <3>1 DEF SupInv, OpenAtEnd
  <2> QED BY <2>1 DEF SupInv, RecInv, StagesInOrder, TapeComplete
<1> QED BY RecAlways, <1>1, PTL

(* run returns only when it was asked to end and nothing failed, and raises only
   when something did; a supervisor returns only when it was stopped and raises
   only beyond its limit (recorder.py, run and _capture). *)
THEOREM EndsAlwaysForCause == RecSpec => []EndsForCause
<1>1. SupInv /\ RecInv => EndsForCause
  <2>1. ASSUME SupInv, RecInv, outcome = "returned"
        PROVE  asked /\ result # "raised" /\ ~LoopsFailed /\ writer.thread # "failed"
    BY <2>1 DEF RecInv, CauseKnown, StagesInOrder, Drained
  <2>2. ASSUME SupInv, RecInv, outcome = "raised"
        PROVE  startFailed \/ LoopsFailed \/ writer.thread = "failed" \/ result = "raised"
    BY <2>2 DEF RecInv, CauseKnown
  <2>3. ASSUME SupInv
        PROVE  /\ result = "returned" => stop
               /\ result = "raised" => Limit # NoLimit /\ failures > Limit
    BY <2>3 DEF SupInv, EndSound
  <2> QED BY <2>1, <2>2, <2>3 DEF EndsForCause
<1> QED BY RecAlways, <1>1, PTL

-----------------------------------------------------------------------------
(* The tape read back.  The folds of Tape, each by its step. *)

RowStep(b, q, row) == IF BucketOf(row) = b THEN Append(q, row) ELSE q
PlanStep(spilled, plan, b) == PlanBucket(plan, spilled[b])
LinkStep(c, q, part) == q \o part
CountStep(c, n, part) == n + Len(part)
FeedStep(c, i, r) == Feed(i, r)
ResolveStep(r, i, p) == ResolveGap(i, p, r)
LeaveStep(w, i, m) == Leave(i, m, w)
CloseStep(w, i, m) == EndMarket(i, m, w)
EmitStep(c, i, p) == Emit(i, p.row)

Sorting == INSTANCE Folding WITH Op <- RowStep
Planning == INSTANCE Folding WITH Op <- PlanStep
Linking == INSTANCE Folding WITH Op <- LinkStep
Counting == INSTANCE Folding WITH Op <- CountStep
Feeding == INSTANCE Folding WITH Op <- FeedStep
Resolving == INSTANCE Folding WITH Op <- ResolveStep
Leaving == INSTANCE Folding WITH Op <- LeaveStep
Closing == INSTANCE Folding WITH Op <- CloseStep
Emitting == INSTANCE Folding WITH Op <- EmitStep

Less == OpToRel(<, Nat)

(* Induction over the numbers up to N, on the set of those not yet reached. *)
LEMMA UpTo ==
  ASSUME NEW N \in Nat, NEW S \in SUBSET (0 .. N), 0 \in S,
         \A n \in 0 .. N - 1 : n \in S => n + 1 \in S
  PROVE  S = 0 .. N
<1> DEFINE R == (0 .. N) \ S
<1> SUFFICES ASSUME R # {} PROVE FALSE
  OBVIOUS
<1>1. IsWellFoundedOn(Less, Nat)
  BY NatLessThanWellFounded DEF Less
<1>2. R \in SUBSET Nat
  OBVIOUS
<1>3. PICK x \in R : \A y \in R : ~(<<y, x>> \in Less)
  <2> HIDE DEF R
  <2> QED BY <1>1, <1>2, WFMin
<1>4. x \in Nat /\ x # 0 /\ x - 1 \in 0 .. N - 1 /\ x \notin S
  BY <1>3
<1>5. x - 1 \in Nat /\ <<x - 1, x>> \in Less
  BY <1>4 DEF Less, OpToRel
<1>6. x - 1 \in S
  BY <1>3, <1>4, <1>5
<1> QED BY <1>4, <1>6

(* What the lemmas on folds ask for. *)
LEMMA Climbing ==
  /\ Sorting!Climbs /\ Planning!Climbs /\ Linking!Climbs /\ Counting!Climbs
  /\ Feeding!Climbs /\ Resolving!Climbs /\ Leaving!Climbs /\ Closing!Climbs
  /\ Emitting!Climbs
<1>1. ASSUME NEW N \in Nat, NEW S \in SUBSET (0 .. N), 0 \in S,
             \A n \in 0 .. N - 1 : n \in S => n + 1 \in S
      PROVE  S = 0 .. N
  BY <1>1, UpTo
<1> QED BY <1>1 DEF Sorting!Climbs, Planning!Climbs, Linking!Climbs, Counting!Climbs,
           Feeding!Climbs, Resolving!Climbs, Leaving!Climbs, Closing!Climbs, Emitting!Climbs

LEMMA Folds ==
  /\ \A q, b : RowsIn(q, b) = Sorting!Folded(b, << >>, q)
  /\ \A s, o : PlanParts(s, o) = Cut(Planning!Folded(s, NoParts, o)).parts
  /\ \A q : FoldLeft(LAMBDA n, part : n + Len(part), 0, q) = Counting!Folded(0, 0, q)
  /\ \A i, q : FoldLeft(Feed, i, q) = Feeding!Folded(0, i, q)
  /\ \A i, r : ResolveGaps(i, r) = Resolving!Folded(r, [i EXCEPT !.seg.pending = << >>], i.seg.pending)
  /\ \A i, ms, w : LeaveAll(i, ms, w) = Leaving!Folded(w, i, SetToSeq(ms))
  /\ \A i, ms, w : FoldLeft(LAMBDA k, m : EndMarket(k, m, w), i, SetToSeq(ms))
       = Closing!Folded(w, i, SetToSeq(ms))
  /\ \A i, q : FoldLeft(LAMBDA k, p : Emit(k, p.row), i, q) = Emitting!Folded(0, i, q)
<1>1. ASSUME NEW q, NEW b PROVE RowsIn(q, b) = Sorting!Folded(b, << >>, q)
  BY DEF RowsIn, FoldLeft, MapThenFoldSet, Max, RowStep, Sorting!Folded, Sorting!After,
         Sorting!Highest
<1>2. ASSUME NEW s, NEW o PROVE PlanParts(s, o) = Cut(Planning!Folded(s, NoParts, o)).parts
  BY DEF PlanParts, FoldLeft, MapThenFoldSet, Max, PlanStep, Planning!Folded, Planning!After,
         Planning!Highest
<1>3. ASSUME NEW q PROVE FoldLeft(LAMBDA n, part : n + Len(part), 0, q) = Counting!Folded(0, 0, q)
  BY DEF FoldLeft, MapThenFoldSet, Max, CountStep, Counting!Folded, Counting!After,
         Counting!Highest
<1>4. ASSUME NEW i, NEW q PROVE FoldLeft(Feed, i, q) = Feeding!Folded(0, i, q)
  BY DEF FoldLeft, MapThenFoldSet, Max, FeedStep, Feeding!Folded, Feeding!After,
         Feeding!Highest
<1>5. ASSUME NEW i, NEW r
      PROVE  ResolveGaps(i, r) = Resolving!Folded(r, [i EXCEPT !.seg.pending = << >>], i.seg.pending)
  BY DEF ResolveGaps, FoldLeft, MapThenFoldSet, Max, ResolveStep, Resolving!Folded,
         Resolving!After, Resolving!Highest
<1>6. ASSUME NEW i, NEW ms, NEW w PROVE LeaveAll(i, ms, w) = Leaving!Folded(w, i, SetToSeq(ms))
  BY DEF LeaveAll, FoldLeft, MapThenFoldSet, Max, LeaveStep, Leaving!Folded, Leaving!After,
         Leaving!Highest
<1>7. ASSUME NEW i, NEW ms, NEW w
      PROVE  FoldLeft(LAMBDA k, m : EndMarket(k, m, w), i, SetToSeq(ms)) = Closing!Folded(w, i, SetToSeq(ms))
  BY DEF FoldLeft, MapThenFoldSet, Max, CloseStep, Closing!Folded, Closing!After, Closing!Highest
<1>8. ASSUME NEW i, NEW q
      PROVE  FoldLeft(LAMBDA k, p : Emit(k, p.row), i, q) = Emitting!Folded(0, i, q)
  BY DEF FoldLeft, MapThenFoldSet, Max, EmitStep, Emitting!Folded, Emitting!After,
         Emitting!Highest
<1> QED BY <1>1, <1>2, <1>3, <1>4, <1>5, <1>6, <1>7, <1>8

-----------------------------------------------------------------------------
(* Sequences without a repetition. *)

Distinct(q) == \A i, j \in DOMAIN q : q[i] = q[j] => i = j

LEMMA RangeConcat ==
  ASSUME NEW A, NEW q \in Seq(A), NEW r \in Seq(A)
  PROVE  /\ q \o r \in Seq(A) /\ Range(q \o r) = Range(q) \cup Range(r)
         /\ Distinct(q) /\ Distinct(r) /\ Range(q) \cap Range(r) = {} => Distinct(q \o r)
<1> DEFINE s == q \o r
<1>1. /\ s \in Seq(A) /\ Len(s) = Len(q) + Len(r)
      /\ \A n \in 1 .. Len(q) + Len(r) : s[n] = IF n <= Len(q) THEN q[n] ELSE r[n - Len(q)]
  BY ConcatProperties
<1>2. /\ Len(q) \in Nat /\ Len(r) \in Nat /\ DOMAIN q = 1 .. Len(q) /\ DOMAIN r = 1 .. Len(r)
      /\ DOMAIN s = 1 .. Len(q) + Len(r)
  BY <1>1, LenProperties
<1>3. Range(s) = Range(q) \cup Range(r)
  BY RangeConcatenation
<1> HIDE DEF s
<1>4. ASSUME Distinct(q), Distinct(r), Range(q) \cap Range(r) = {},
             NEW i \in DOMAIN s, NEW j \in DOMAIN s, s[i] = s[j]
      PROVE  i = j
  <2>1. \A k \in DOMAIN s : k <= Len(q) => k \in DOMAIN q /\ s[k] = q[k]
    BY <1>1, <1>2
  <2>2. \A k \in DOMAIN s : ~(k <= Len(q)) => k - Len(q) \in DOMAIN r /\ s[k] = r[k - Len(q)]
    BY <1>1, <1>2
  <2>3. \A k \in DOMAIN q : q[k] \in Range(q)
    BY DEF Range
  <2>4. \A k \in DOMAIN r : r[k] \in Range(r)
    BY DEF Range
  <2>5. CASE i <= Len(q) /\ j <= Len(q)
    BY <1>4, <2>1, <2>5 DEF Distinct
  <2>6. CASE ~(i <= Len(q)) /\ ~(j <= Len(q))
    <3>1. i - Len(q) = j - Len(q)
      BY <1>4, <2>2, <2>6 DEF Distinct
    <3> QED BY <1>2, <3>1
  <2>7. CASE (i <= Len(q)) # (j <= Len(q))
    BY <1>4, <2>1, <2>2, <2>3, <2>4, <2>7
  <2> QED BY <2>5, <2>6, <2>7
<1>5. Distinct(q) /\ Distinct(r) /\ Range(q) \cap Range(r) = {} => Distinct(s)
  BY <1>4 DEF Distinct
<1> QED BY <1>1, <1>3, <1>5 DEF s

LEMMA RangeAppend ==
  ASSUME NEW A, NEW q \in Seq(A), NEW x \in A
  PROVE  /\ Append(q, x) \in Seq(A) /\ Range(Append(q, x)) = Range(q) \cup {x}
         /\ Len(Append(q, x)) = Len(q) + 1
         /\ Distinct(q) /\ x \notin Range(q) => Distinct(Append(q, x))
<1> DEFINE e == <<x>>
<1>1. e \in Seq(A) /\ Len(e) = 1 /\ e[1] = x /\ DOMAIN e = {1}
  OBVIOUS
<1>2. Append(q, x) = q \o e /\ Len(Append(q, x)) = Len(q) + 1
  BY AppendIsConcat, AppendProperties
<1> HIDE DEF e
<1>3. Range(e) = {x} /\ Distinct(e)
  BY <1>1 DEF Range, Distinct
<1>4. /\ q \o e \in Seq(A) /\ Range(q \o e) = Range(q) \cup Range(e)
      /\ Distinct(q) /\ Distinct(e) /\ Range(q) \cap Range(e) = {} => Distinct(q \o e)
  BY <1>1, RangeConcat
<1>5. x \notin Range(q) => Range(q) \cap Range(e) = {}
  BY <1>3
<1> QED BY <1>2, <1>3, <1>4, <1>5

LEMMA RangeEmpty == Range(<< >>) = {} /\ Distinct(<< >>)
BY DEF Range, Distinct

LEMMA DistinctCount ==
  ASSUME NEW A, NEW q \in Seq(A), Distinct(q)
  PROVE  IsFiniteSet(Range(q)) /\ Cardinality(Range(q)) = Len(q)
<1>1. Len(q) \in Nat /\ DOMAIN q = 1 .. Len(q)
  BY LenProperties
<1>2. q \in Bijection(1 .. Len(q), Range(q))
  <2>1. q \in [1 .. Len(q) -> Range(q)]
    BY <1>1, LenProperties DEF Range
  <2>2. IsInjective(q)
    BY DEF Distinct, IsInjective
  <2>3. \A x \in Range(q) : \E i \in 1 .. Len(q) : q[i] = x
    BY <1>1 DEF Range
  <2> QED BY <2>1, <2>2, <2>3 DEF Bijection, Injection, Surjection, IsInjective
<1>3. IsFiniteSet(1 .. Len(q)) /\ Cardinality(1 .. Len(q)) = Len(q)
  BY <1>1, FS_Interval
<1>4. ExistsBijection(1 .. Len(q), Range(q))
  BY <1>2 DEF ExistsBijection
<1>5. Cardinality(1 .. Len(q)) = Cardinality(Range(q)) /\ IsFiniteSet(Range(q))
  BY <1>3, <1>4, FS_Bijection
<1> QED BY <1>3, <1>5

(* A sequence of a finite set that takes each of its members once. *)
LEMMA ListsAll ==
  ASSUME NEW S, IsFiniteSet(S), NEW q \in [1 .. Cardinality(S) -> S], IsInjective(q)
  PROVE  q \in Seq(S) /\ Range(q) = S /\ Distinct(q) /\ Len(q) = Cardinality(S)
<1>1. Cardinality(S) \in Nat
  BY FS_CardinalityType
<1>2. q \in Seq(S) /\ Len(q) = Cardinality(S)
  BY <1>1
<1>3. Distinct(q)
  BY DEF Distinct, IsInjective
<1>4. Range(q) \subseteq S /\ IsFiniteSet(Range(q)) /\ Cardinality(Range(q)) = Cardinality(S)
  BY <1>2, <1>3, DistinctCount, RangeOfSeq
<1>5. Range(q) = S
  BY <1>4, FS_Subset
<1> QED BY <1>2, <1>3, <1>5

LEMMA SetListed ==
  ASSUME NEW S, IsFiniteSet(S)
  PROVE  SetToSeq(S) \in Seq(S) /\ Range(SetToSeq(S)) = S /\ Distinct(SetToSeq(S))
<1>1. \E f : f \in Bijection(1 .. Cardinality(S), S)
  BY FS_CardinalityType, FS_NatBijection DEF ExistsBijection
<1>2. \E f \in [1 .. Cardinality(S) -> S] : IsInjective(f)
  BY <1>1 DEF Bijection, Injection, IsInjective
<1>3. SetToSeq(S) \in [1 .. Cardinality(S) -> S] /\ IsInjective(SetToSeq(S))
  BY <1>2 DEF SetToSeq
<1> QED BY <1>3, ListsAll

LEMMA BucketsListed ==
  ASSUME NEW order \in BucketOrders
  PROVE  order \in Seq(Buckets) /\ Range(order) = Buckets /\ Distinct(order)
<1>1. PICK q \in SetToSeqs(Markets) : order = <<None>> \o q
  BY DEF BucketOrders
<1>2. q \in [1 .. Cardinality(Markets) -> Markets] /\ IsInjective(q)
  BY <1>1 DEF SetToSeqs, IsInjective
<1>3. q \in Seq(Markets) /\ Range(q) = Markets /\ Distinct(q)
  BY <1>2, ListsAll, TapeAssumption
<1> DEFINE e == <<None>>
<1>4. e \in Seq(Buckets) /\ DOMAIN e = {1} /\ e[1] = None /\ q \in Seq(Buckets)
  BY <1>3 DEF Buckets
<1> HIDE DEF e
<1>5. Range(e) = {None} /\ Distinct(e)
  BY <1>4 DEF Range, Distinct
<1>6. None \notin Markets
  BY TapeAssumption
<1> HIDE DEF Buckets
<1>7. /\ e \o q \in Seq(Buckets) /\ Range(e \o q) = {None} \cup Markets
      /\ Range(e) \cap Range(q) = {} => Distinct(e \o q)
  BY <1>3, <1>4, <1>5, RangeConcat
<1> QED BY <1>1, <1>3, <1>5, <1>6, <1>7 DEF e, Buckets

-----------------------------------------------------------------------------
(* The parts of a plan one after the other. *)

Flat(parts) == Linking!Folded(0, << >>, parts)

LEMMA FlatOf ==
  ASSUME NEW A, NEW parts \in Seq(Seq(A))
  PROVE  /\ Flat(parts) \in Seq(A) /\ Range(Flat(parts)) = RowsOf(parts)
         /\ FoldLeft(LAMBDA n, part : n + Len(part), 0, parts) = Len(Flat(parts))
<1> DEFINE e == << >>
           N == Len(parts)
           all(n) == UNION {Range(parts[k]) : k \in 1 .. n}
<1>1. N \in Nat /\ DOMAIN parts = 1 .. N /\ e \in Seq(A) /\ Len(e) = 0
  BY LenProperties
<1>2. PICK h : Linking!Trace(0, e, parts, h)
  <2> HIDE DEF e
  <2> QED BY Climbing, Linking!HasTrace
<1>3. PICK g : Counting!Trace(0, 0, parts, g)
  BY Climbing, Counting!HasTrace
<1> HIDE DEF e
<1>13. N \in Nat
  BY <1>1
<1>4. h[0] = e /\ \A n \in 1 .. N : h[n] = LinkStep(0, h[n - 1], parts[n])
  <2>1. h = [n \in 0 .. N |-> IF n = 0 THEN e ELSE LinkStep(0, h[n - 1], parts[n])]
    BY <1>2 DEF Linking!Trace
  <2> HIDE DEF N
  <2> QED BY <1>13, <2>1
<1>5. g[0] = 0 /\ \A n \in 1 .. N : g[n] = CountStep(0, g[n - 1], parts[n])
  <2>1. g = [n \in 0 .. N |-> IF n = 0 THEN 0 ELSE CountStep(0, g[n - 1], parts[n])]
    BY <1>3 DEF Counting!Trace
  <2> HIDE DEF N
  <2> QED BY <1>13, <2>1
<1>6. Linking!Folded(0, e, parts) = h[N]
  BY <1>4, Climbing, Linking!FoldFollows
<1>7. Counting!Folded(0, 0, parts) = g[N]
  BY <1>5, Climbing, Counting!FoldFollows
<1> DEFINE S == {n \in 0 .. N : /\ h[n] \in Seq(A) /\ g[n] = Len(h[n])
                                /\ Range(h[n]) = all(n)}
<1>8. 0 \in S
  <2>1. all(0) = {} /\ Range(e) = {}
    BY RangeEmpty DEF e
  <2>2. h[0] \in Seq(A) /\ g[0] = Len(h[0]) /\ Range(h[0]) = all(0)
    BY <1>1, <1>4, <1>5, <2>1
  <2> HIDE DEF all, N
  <2> QED BY <1>13, <2>2
<1>9. ASSUME NEW n \in 0 .. N - 1, n \in S PROVE n + 1 \in S
  <2>1. n + 1 \in 1 .. N /\ n + 1 - 1 = n /\ n + 1 \in 0 .. N /\ 1 .. n + 1 = (1 .. n) \cup {n + 1}
    BY <1>1
  <2>2. h[n] \in Seq(A) /\ parts[n + 1] \in Seq(A)
    BY <1>9, <2>1, ElementOfSeq
  <2>3. h[n + 1] = h[n] \o parts[n + 1] /\ g[n + 1] = g[n] + Len(parts[n + 1])
    <3>1. h[n + 1] = LinkStep(0, h[n + 1 - 1], parts[n + 1])
      BY <1>4, <2>1
    <3>2. g[n + 1] = CountStep(0, g[n + 1 - 1], parts[n + 1])
      BY <1>5, <2>1
    <3> QED BY <2>1, <3>1, <3>2 DEF LinkStep, CountStep
  <2>4. h[n + 1] \in Seq(A) /\ Len(h[n + 1]) = Len(h[n]) + Len(parts[n + 1])
    BY <2>2, <2>3, ConcatProperties
  <2>5. Range(h[n + 1]) = Range(h[n]) \cup Range(parts[n + 1])
    BY <2>2, <2>3, RangeConcatenation
  <2>6. all(n + 1) = all(n) \cup Range(parts[n + 1])
    BY <2>1
  <2> HIDE DEF all, N
  <2> QED BY <1>9, <2>1, <2>3, <2>4, <2>5, <2>6
<1>10. S = 0 .. N
  <2>1. S \in SUBSET (0 .. N)
    OBVIOUS
  <2> HIDE DEF S, N
  <2> QED BY <1>1, <1>8, <1>9, <2>1, UpTo
<1>11. h[N] \in Seq(A) /\ g[N] = Len(h[N]) /\ Range(h[N]) = all(N)
  <2>1. N \in S
    <3> HIDE DEF S, N
    <3> QED BY <1>13, <1>10
  <2> HIDE DEF all, N
  <2> QED BY <2>1
<1>12. RowsOf(parts) = all(N)
  <2>1. Range(parts) = {parts[k] : k \in 1 .. N}
    BY <1>1 DEF Range
  <2> QED BY <2>1 DEF RowsOf
<1> QED BY <1>6, <1>7, <1>11, <1>12, Folds DEF Flat, e

LEMMA FlatAppend ==
  ASSUME NEW A, NEW parts \in Seq(Seq(A)), NEW part \in Seq(A)
  PROVE  Flat(Append(parts, part)) = Flat(parts) \o part
<1> DEFINE e == <<part>>
           B == Seq(A)
           z == << >>
<1>1. Append(parts, part) = parts \o e /\ e \in Seq(B) /\ parts \in Seq(B)
  OBVIOUS
<1>2. Linking!Folded(0, Linking!Folded(0, z, parts), e)
        = LinkStep(0, Linking!Folded(0, z, parts), part)
  <2> HIDE DEF z
  <2> QED BY Climbing, Linking!FoldOne
<1> HIDE DEF e, z, B
<1>3. Linking!Folded(0, z, parts \o e) = Linking!Folded(0, Linking!Folded(0, z, parts), e)
  BY <1>1, Climbing, Linking!FoldConcat
<1> QED BY <1>1, <1>2, <1>3 DEF Flat, LinkStep, z

LEMMA Multiples ==
  ASSUME NEW M \in Nat \ {0}, NEW k \in Nat
  PROVE  /\ k * M \in Nat /\ (k + 1) * M = k * M + M /\ 0 * M = 0
         /\ k # 0 => (k - 1) * M + M = k * M /\ (k - 1) * M \in Nat
OBVIOUS

LEMMA MultiplesGrow ==
  ASSUME NEW M \in Nat \ {0}, NEW k \in Nat, NEW n \in 0 .. k
  PROVE  n * M <= k * M
OBVIOUS

Cuts(rows, M, c) == [k \in 1 .. c |-> SubSeq(rows, (k - 1) * M + 1, k * M)]

(* The parts that a bucket is cut into hold its rows in order, up to the last multiple. *)
LEMMA CutInOrder ==
  ASSUME NEW A, NEW parts \in Seq(Seq(A)), NEW rows \in Seq(A), NEW M \in Nat \ {0},
         NEW c \in Nat, c * M <= Len(rows)
  PROVE  /\ Cuts(rows, M, c) \in Seq(Seq(A))
         /\ \A k \in 1 .. c : Len(Cuts(rows, M, c)[k]) = M
         /\ Flat(parts \o Cuts(rows, M, c)) = Flat(parts) \o SubSeq(rows, 1, c * M)
<1> DEFINE cut(k) == SubSeq(rows, (k - 1) * M + 1, k * M)
           cuts == [k \in 1 .. c |-> cut(k)]
           X == Flat(parts)
           to(n) == SubSeq(rows, 1, n * M)
           h == [n \in 0 .. c |-> X \o to(n)]
           B == Seq(A)
<1>0. Len(rows) \in Nat /\ c * M \in Nat
  BY LenProperties, Multiples
<1>1. ASSUME NEW k \in 1 .. c
      PROVE  /\ (k - 1) * M \in Nat /\ k * M = (k - 1) * M + M /\ k * M \in Nat
             /\ k * M <= Len(rows)
  <2>1. k \in Nat /\ k # 0 /\ k \in 0 .. c
    OBVIOUS
  <2>2. k * M <= c * M /\ k * M \in Nat /\ (k - 1) * M + M = k * M /\ (k - 1) * M \in Nat
    BY <2>1, Multiples, MultiplesGrow
  <2> DEFINE a == (k - 1) * M
             b == k * M
             d == c * M
  <2>3. b <= d /\ b \in Nat /\ a + M = b /\ a \in Nat /\ d <= Len(rows) /\ d \in Nat
    BY <1>0, <2>2
  <2> HIDE DEF a, b, d
  <2>4. a \in Nat /\ b = a + M /\ b \in Nat /\ b <= Len(rows)
    BY <1>0, <2>3
  <2> QED BY <2>4 DEF a, b
<1>2. ASSUME NEW k \in 1 .. c PROVE cut(k) \in Seq(A) /\ Len(cut(k)) = M
  <2> DEFINE a == (k - 1) * M
             b == k * M
  <2>1. a \in Nat /\ b = a + M /\ b \in Nat /\ b <= Len(rows)
    BY <1>1
  <2> HIDE DEF a, b
  <2>2. \A i \in a + 1 .. b : rows[i] \in A
    BY <1>0, <2>1, LenProperties
  <2>3. SubSeq(rows, a + 1, b) \in Seq(A) /\ Len(SubSeq(rows, a + 1, b)) = b - (a + 1) + 1
    BY <2>1, <2>2, SubSeqProperties
  <2> QED BY <2>1, <2>3 DEF a, b
<1>3. cuts \in Seq(Seq(A)) /\ Len(cuts) = c /\ \A k \in 1 .. c : cuts[k] = cut(k)
  <2> HIDE DEF cut
  <2> QED BY <1>2
<1>4. X \in Seq(A)
  BY FlatOf
<1>5. ASSUME NEW n \in 1 .. c PROVE h[n] = LinkStep(0, h[n - 1], cuts[n])
  <2>1. h[n] = X \o to(n) /\ h[n - 1] = X \o to(n - 1) /\ cuts[n] = cut(n)
    OBVIOUS
  <2>2. to(n - 1) \o cut(n) = to(n)
    <3> DEFINE a == (n - 1) * M
               b == n * M
    <3>1. a \in Nat /\ b = a + M /\ b <= Len(rows)
      BY <1>1
    <3> HIDE DEF a, b
    <3>2. a \in 1 - 1 .. Len(rows) /\ b \in a .. Len(rows) /\ 1 \in 1 .. Len(rows) + 1
      BY <1>0, <3>1
    <3>3. SubSeq(rows, 1, a) \o SubSeq(rows, a + 1, b) = SubSeq(rows, 1, b)
      BY <3>2, ConcatAdjacentSubSeq
    <3> QED BY <3>3 DEF a, b
  <2>3. to(n - 1) \in Seq(A)
    <3> DEFINE a == (n - 1) * M
    <3>1. a \in Nat /\ a <= Len(rows)
      BY <1>0, <1>1
    <3> HIDE DEF a
    <3>2. \A i \in 1 .. a : rows[i] \in A
      BY <1>0, <3>1, LenProperties
    <3>3. SubSeq(rows, 1, a) \in Seq(A)
      BY <3>1, <3>2, SubSeqProperties
    <3> QED BY <3>3 DEF a
  <2> HIDE DEF X, to, cut, cuts, h
  <2>4. (X \o to(n - 1)) \o cut(n) = X \o (to(n - 1) \o cut(n))
    <3> DEFINE x == to(n - 1)
               y == cut(n)
    <3>1. x \in Seq(A) /\ y \in Seq(A)
      BY <1>2, <2>3
    <3> HIDE DEF x, y
    <3>2. (X \o x) \o y = X \o (x \o y)
      BY <1>4, <3>1, ConcatAssociative
    <3> QED BY <3>2 DEF x, y
  <2> QED BY <2>1, <2>2, <2>4 DEF LinkStep
<1>6. h[0] = X
  <2>1. to(0) = << >>
    <3>1. 0 * M = 0
      BY Multiples
    <3>2. SubSeq(rows, 1, 0) = << >>
      BY SubSeqEmpty
    <3> QED BY <3>1, <3>2
  <2>2. h[0] = X \o to(0)
    OBVIOUS
  <2> HIDE DEF X, to, h
  <2> QED BY <1>4, <2>1, <2>2, ConcatEmptySeq
<1>7. h[c] = X \o to(c)
  OBVIOUS
<1> HIDE DEF X, to, cut, cuts, h
<1>8. Linking!Folded(0, X, cuts) = h[c]
  <2>1. cuts \in Seq(B) /\ Len(cuts) = c
    BY <1>3
  <2>2. \A n \in 1 .. Len(cuts) : h[n] = LinkStep(0, h[n - 1], cuts[n])
    BY <1>5, <2>1
  <2> HIDE DEF B
  <2> QED BY <1>6, <2>1, <2>2, Climbing, Linking!FoldFollows
<1>9. Flat(parts \o cuts) = Linking!Folded(0, Flat(parts), cuts)
  <2> DEFINE z == << >>
  <2> HIDE DEF z, B
  <2>1. parts \in Seq(B) /\ cuts \in Seq(B)
    BY <1>3 DEF B
  <2>2. Linking!Folded(0, z, parts \o cuts) = Linking!Folded(0, Linking!Folded(0, z, parts), cuts)
    BY <2>1, Climbing, Linking!FoldConcat
  <2> QED BY <2>2 DEF Flat, z
<1>10. \A k \in 1 .. c : Len(cuts[k]) = M
  BY <1>2, <1>3
<1> QED BY <1>3, <1>7, <1>8, <1>9, <1>10 DEF X, to, cut, cuts, Cuts

-----------------------------------------------------------------------------
(* The plan: what is closed and what is being filled hold the rows of the buckets so far,
   in order, and neither is too large. *)

LEMMA Division ==
  ASSUME NEW M \in Nat \ {0}, NEW n \in Nat \ {0}
  PROVE  LET c == (n - 1) \div M
         IN c \in Nat /\ c * M <= n - 1 /\ n <= c * M + M /\ c * M \in Nat /\ (n <= M => c = 0 /\ c * M = 0)
OBVIOUS

Planned(A, q) ==
  {plan \in [parts : Seq(Seq(A)), current : Seq(A)] :
     /\ Flat(plan.parts) \o plan.current = q
     /\ Len(plan.current) <= MaxPartRows
     /\ \A part \in Range(plan.parts) : Len(part) <= MaxPartRows}

LEMMA CutPlanned ==
  ASSUME NEW A, NEW q \in Seq(A), NEW plan \in Planned(A, q)
  PROVE  Cut(plan) \in Planned(A, q) /\ Cut(plan).current = << >>
<1> DEFINE z == << >>
           c == plan.current
           ps == Append(plan.parts, c)
           B == Seq(A)
<1>1. /\ plan.parts \in Seq(B) /\ c \in B /\ Flat(plan.parts) \o c = q /\ Len(c) <= MaxPartRows
      /\ \A part \in Range(plan.parts) : Len(part) <= MaxPartRows
  BY DEF Planned
<1>2. MaxPartRows \in Nat
  BY TapeAssumption
<1>3. CASE c = z
  BY <1>3 DEF Cut
<1>4. CASE c # z
  <2>1. Cut(plan) = [parts |-> ps, current |-> z]
    BY <1>4 DEF Cut
  <2>2. ps \in Seq(B) /\ Range(ps) = Range(plan.parts) \cup {c}
    <3> HIDE DEF B, c
    <3> QED BY <1>1, RangeAppend
  <2>3. Flat(ps) = Flat(plan.parts) \o c /\ Flat(ps) \in Seq(A)
    <3>1. ps \in Seq(Seq(A)) /\ plan.parts \in Seq(Seq(A)) /\ c \in Seq(A)
      BY <1>1, <2>2
    <3> HIDE DEF ps, c
    <3>2. Flat(Append(plan.parts, c)) = Flat(plan.parts) \o c
      BY <3>1, FlatAppend
    <3>3. Flat(ps) \in Seq(A)
      BY <3>1, FlatOf
    <3> QED BY <3>2, <3>3 DEF ps
  <2>4. Flat(ps) \o z = q
    BY <1>1, <2>3, ConcatEmptySeq
  <2>5. z \in Seq(A) /\ Len(z) = 0
    OBVIOUS
  <2> HIDE DEF ps, c, z
  <2>6. \A part \in Range(ps) : Len(part) <= MaxPartRows
    BY <1>1, <2>2
  <2>7. [parts |-> ps, current |-> z] \in Planned(A, q)
    BY <1>2, <2>2, <2>4, <2>5, <2>6 DEF Planned, B
  <2> QED BY <2>1, <2>7 DEF z
<1> QED BY <1>3, <1>4

LEMMA Empties == \A A : \A s \in Seq(A) : s \o << >> = s /\ << >> \o s = s
BY ConcatEmptySeq

LEMMA BucketPlanned ==
  ASSUME NEW A, NEW q \in Seq(A), NEW plan \in Planned(A, q), NEW rows \in Seq(A)
  PROVE  PlanBucket(plan, rows) \in Planned(A, q \o rows)
<1> DEFINE M == MaxPartRows
           L == Len(rows)
           c == (L - 1) \div M
           room == Len(plan.current) + L <= M
           p == IF room THEN plan ELSE Cut(plan)
           cuts == Cuts(rows, M, c)
           front == SubSeq(rows, 1, c * M)
           rest == SubSeq(rows, c * M + 1, L)
           B == Seq(A)
<1>0. M \in Nat \ {0} /\ L \in Nat
  BY TapeAssumption, LenProperties
<1>1. CASE rows = << >>
  <2>1. PlanBucket(plan, rows) = plan
    BY <1>1 DEF PlanBucket
  <2>2. q \o rows = q
    BY <1>1, ConcatEmptySeq
  <2> QED BY <2>1, <2>2
<1>2. CASE rows # << >>
  <2>1. L \in Nat \ {0}
    BY <1>2, <1>0, EmptySeq
  <2>2. /\ c \in Nat /\ c * M <= L - 1 /\ L <= c * M + M /\ c * M \in Nat
        /\ L <= M => c = 0 /\ c * M = 0
    <3> HIDE DEF M, L
    <3> QED BY <1>0, <2>1, Division
  <2>3. p \in Planned(A, q) /\ (~room => p.current = << >>)
    BY CutPlanned
  <2>4. PlanBucket(plan, rows) = [parts |-> p.parts \o cuts, current |-> p.current \o rest]
    BY <1>2 DEF PlanBucket, Cuts
  <2> HIDE DEF p
  <2>5. /\ p.parts \in Seq(Seq(A)) /\ p.current \in Seq(A) /\ Flat(p.parts) \o p.current = q
        /\ Len(p.current) <= M /\ \A part \in Range(p.parts) : Len(part) <= M
    BY <2>3 DEF Planned
  <2>6. /\ cuts \in Seq(Seq(A)) /\ \A k \in 1 .. c : Len(cuts[k]) = M
        /\ Flat(p.parts \o cuts) = Flat(p.parts) \o front
    <3>1. c * M <= L
      <4> DEFINE d == c * M
      <4>1. d \in Nat /\ d <= L - 1
        BY <2>2
      <4> HIDE DEF d, L
      <4>2. d <= L
        BY <1>0, <4>1
      <4> QED BY <4>2 DEF d
    <3> DEFINE pp == p.parts
    <3>2. c \in Nat /\ M \in Nat \ {0} /\ pp \in Seq(Seq(A)) /\ c * M <= Len(rows)
      BY <1>0, <2>2, <2>5, <3>1
    <3> HIDE DEF c, M, pp
    <3>3. /\ Cuts(rows, M, c) \in Seq(Seq(A)) /\ \A k \in 1 .. c : Len(Cuts(rows, M, c)[k]) = M
          /\ Flat(pp \o Cuts(rows, M, c)) = Flat(pp) \o SubSeq(rows, 1, c * M)
      BY <3>2, CutInOrder
    <3> QED BY <3>3 DEF pp
  <2>7. /\ front \in Seq(A) /\ rest \in Seq(A) /\ front \o rest = rows
        /\ Len(rest) = L - c * M /\ (c * M = 0 => front = << >>)
    <3> DEFINE d == c * M
    <3>1. d \in Nat /\ d <= L - 1
      BY <2>2
    <3> HIDE DEF d
    <3>2. d \in 1 - 1 .. Len(rows) /\ Len(rows) \in d .. Len(rows) /\ 1 \in 1 .. Len(rows) + 1
      BY <1>0, <3>1
    <3>3. SubSeq(rows, 1, d) \o SubSeq(rows, d + 1, L) = SubSeq(rows, 1, L)
      BY <3>2, ConcatAdjacentSubSeq
    <3>4. SubSeq(rows, 1, L) = rows
      BY SubSeqFull
    <3>5. /\ \A i \in 1 .. d : rows[i] \in A
          /\ \A i \in d + 1 .. L : rows[i] \in A
      BY <1>0, <3>1, LenProperties
    <3>6. SubSeq(rows, 1, d) \in Seq(A) /\ (d = 0 => SubSeq(rows, 1, d) = << >>)
      BY <3>1, <3>5, SubSeqProperties, SubSeqEmpty
    <3>7. SubSeq(rows, d + 1, L) \in Seq(A) /\ Len(SubSeq(rows, d + 1, L)) = L - (d + 1) + 1
      <4>1. d + 1 \in Int /\ L \in Int /\ d + 1 <= L
        BY <1>0, <3>1
      <4> HIDE DEF L
      <4> QED BY <3>5, <4>1, SubSeqProperties
    <3>8. L - (d + 1) + 1 = L - d
      BY <1>0, <3>1
    <3> QED BY <3>3, <3>4, <3>6, <3>7, <3>8 DEF d
  <2>8. room => c * M = 0
    <3>1. Len(plan.current) \in Nat
      BY LenProperties DEF Planned
    <3>2. room => L <= M
      <4> HIDE DEF M, L
      <4> QED BY <1>0, <3>1
    <3> QED BY <2>2, <3>2
  <2> DEFINE ps == p.parts \o cuts
             cur == p.current \o rest
             f == Flat(p.parts)
  <2>9. f \in Seq(A) /\ ps \in Seq(Seq(A)) /\ cur \in Seq(A)
        /\ Len(cur) = Len(p.current) + Len(rest)
    <3> HIDE DEF rest, cuts
    <3>1. f \in Seq(A)
      BY <2>5, FlatOf
    <3>2. ps \in Seq(Seq(A))
      BY <2>5, <2>6, ConcatProperties
    <3> QED BY <2>5, <2>7, <3>1, <3>2, ConcatProperties
  <2>10. (f \o front) \o cur = q \o rows
    <3> DEFINE x == p.current
    <3>1. /\ f \in Seq(A) /\ front \in Seq(A) /\ x \in Seq(A) /\ rest \in Seq(A)
          /\ front = << >> \/ x = << >>
      BY <2>3, <2>5, <2>7, <2>8, <2>9
    <3>2. q = f \o x /\ rows = front \o rest
      BY <2>5, <2>7
    <3> HIDE DEF x, front, rest, f
    <3>0. \A s, t, u \in Seq(A) : (s \o t) \o u = s \o (t \o u)
      BY ONLY ConcatAssociative, SMTT(30)
    <3>5. f \in Seq(A) /\ front \in Seq(A) /\ x \in Seq(A) /\ rest \in Seq(A)
      BY <3>1, Zenon
    <3>4. x \o rest \in Seq(A) /\ front \o rest \in Seq(A)
      BY <3>1, ConcatProperties
    <3>3. (f \o front) \o (x \o rest) = (f \o x) \o (front \o rest)
      <4>1. CASE front = << >>
        <5>1. (f \o x) \o rest = f \o (x \o rest)
          BY <3>5, <3>0, Zenon
        <5>2. f \o << >> = f /\ << >> \o rest = rest
          BY <3>1, Empties, Zenon
        <5> QED BY <4>1, <5>1, <5>2, Zenon
      <4>2. CASE x = << >>
        <5>1. (f \o front) \o rest = f \o (front \o rest)
          BY <3>5, <3>0, Zenon
        <5>2. f \o << >> = f /\ << >> \o rest = rest
          BY <3>1, Empties, Zenon
        <5> QED BY <4>2, <5>1, <5>2, Zenon
      <4> QED BY <3>1, <4>1, <4>2, Zenon
    <3> QED BY <3>2, <3>3 DEF x
  <2>11. Len(cur) <= M
    <3> DEFINE d == c * M
               x == Len(p.current)
    <3>1. x \in Nat /\ x <= M /\ Len(cur) = x + (L - d) /\ d \in Nat /\ L <= d + M
      BY <2>2, <2>5, <2>7, <2>9, LenProperties
    <3>2. ~room => x = 0
      BY <2>3, EmptySeq
    <3>3. room => x + L <= M
      BY DEF p
    <3> HIDE DEF M, L, d, x, room, cur
    <3>4. CASE room
      BY <1>0, <3>1, <3>3, <3>4
    <3>5. CASE ~room
      BY <1>0, <3>1, <3>2, <3>5
    <3> QED BY <3>4, <3>5
  <2>12. \A part \in Range(ps) : Len(part) <= M
    <3>1. Range(ps) = Range(p.parts) \cup Range(cuts)
      <4> HIDE DEF cuts, B
      <4> QED BY <2>5, <2>6, RangeConcatenation
    <3>2. \A part \in Range(cuts) : Len(part) = M
      <4>1. DOMAIN cuts = 1 .. c
        BY DEF Cuts
      <4> HIDE DEF cuts, c, M
      <4> QED BY <2>6, <4>1 DEF Range
    <3> HIDE DEF ps, cuts, M
    <3> QED BY <1>0, <2>5, <3>1, <3>2
  <2> HIDE DEF rest, front, cuts
  <2>13. Flat(ps) \o cur = q \o rows
    BY <2>6, <2>10
  <2> HIDE DEF ps, cur, M
  <2>14. [parts |-> ps, current |-> cur] \in Planned(A, q \o rows)
    BY <2>9, <2>11, <2>12, <2>13 DEF Planned, M
  <2> QED BY <2>4, <2>14 DEF ps, cur
<1> QED BY <1>1, <1>2

-----------------------------------------------------------------------------
(* A table writer: every row that was added is in its buffer or in the file of its bucket,
   once, and it is in the parts. *)

Rows == [table : Tables, market : Buckets, sid : Int, wall : Int, mono : Int, n : Int]

TableOK(t) ==
  /\ t \in [buffer : Seq(Rows), spilled : [Buckets -> Seq(Rows)]]
  /\ Distinct(t.buffer)
  /\ \A b \in Buckets : Distinct(t.spilled[b])
  /\ \A b \in Buckets : \A row \in Range(t.spilled[b]) :
       BucketOf(row) = b /\ row \notin Range(t.buffer)

Held(t) == Range(t.buffer) \cup UNION {Range(t.spilled[b]) : b \in Buckets}

LEMMA InBuckets == \A row \in Rows : BucketOf(row) \in Buckets
BY DEF Rows, BucketOf, Buckets

LEMMA NewTableOK == TableOK(NewTable) /\ Held(NewTable) = {}
<1> DEFINE e == << >>
<1>1. e \in Seq(Rows) /\ Range(e) = {} /\ Distinct(e)
  BY RangeEmpty
<1> HIDE DEF e
<1>2. NewTable = [buffer |-> e, spilled |-> [b \in Buckets |-> e]]
  BY DEF NewTable, e
<1>3. /\ NewTable \in [buffer : Seq(Rows), spilled : [Buckets -> Seq(Rows)]]
      /\ NewTable.buffer = e /\ \A b \in Buckets : NewTable.spilled[b] = e
  BY <1>1, <1>2
<1> QED BY <1>1, <1>3 DEF TableOK, Held

LEMMA RowsInOf ==
  ASSUME NEW rows \in Seq(Rows), NEW b
  PROVE  /\ RowsIn(rows, b) \in Seq(Rows) /\ (Distinct(rows) => Distinct(RowsIn(rows, b)))
         /\ Range(RowsIn(rows, b)) = {row \in Range(rows) : BucketOf(row) = b}
<1> DEFINE N == Len(rows)
           of(n) == {row \in {rows[k] : k \in 1 .. n} : BucketOf(row) = b}
           T == [n \in 0 .. N |-> {q \in Seq(Rows) : (Distinct(rows) => Distinct(q)) /\ Range(q) = of(n)}]
           e == << >>
<1>1. N \in Nat /\ DOMAIN rows = 1 .. N /\ \A k \in 1 .. N : rows[k] \in Rows
  BY LenProperties
<1>2. e \in T[0]
  <2>1. of(0) = {} /\ e \in Seq(Rows) /\ Range(e) = {} /\ Distinct(e)
    BY RangeEmpty
  <2>2. 0 \in 0 .. N
    BY <1>1
  <2> HIDE DEF of, e, N
  <2> QED BY <2>1, <2>2
<1>3. ASSUME NEW n \in 1 .. Len(rows), NEW q \in T[n - 1]
      PROVE  RowStep(b, q, rows[n]) \in T[n]
  <2>1. n \in 1 .. N /\ n - 1 \in 0 .. N /\ n \in 0 .. N /\ rows[n] \in Rows
    BY <1>1
  <2>2. q \in Seq(Rows) /\ (Distinct(rows) => Distinct(q)) /\ Range(q) = of(n - 1)
    <3> HIDE DEF of, N
    <3> QED BY <2>1
  <2>3. 1 .. n = (1 .. n - 1) \cup {n}
    BY <1>1, <2>1
  <2>4. of(n) = IF BucketOf(rows[n]) = b THEN of(n - 1) \cup {rows[n]} ELSE of(n - 1)
    BY <2>3
  <2>5. ASSUME Distinct(rows) PROVE rows[n] \notin of(n - 1)
    <3>1. \A k \in 1 .. n - 1 : k \in DOMAIN rows /\ n \in DOMAIN rows /\ k # n
      BY <1>1, <2>1
    <3>2. \A k \in 1 .. n - 1 : rows[k] # rows[n]
      BY <2>5, <3>1 DEF Distinct
    <3> QED BY <3>2
  <2> HIDE DEF of, N
  <2>6. \A y : y \in Seq(Rows) /\ (Distinct(rows) => Distinct(y)) /\ Range(y) = of(n) => y \in T[n]
    BY <2>1
  <2> HIDE DEF T
  <2>7. CASE BucketOf(rows[n]) = b
    <3>1. RowStep(b, q, rows[n]) = Append(q, rows[n])
      BY <2>7 DEF RowStep
    <3>2. /\ Append(q, rows[n]) \in Seq(Rows) /\ Range(Append(q, rows[n])) = Range(q) \cup {rows[n]}
          /\ (Distinct(rows) => Distinct(Append(q, rows[n])))
      BY <2>1, <2>2, <2>5, RangeAppend
    <3> QED BY <2>2, <2>4, <2>6, <2>7, <3>1, <3>2
  <2>8. CASE BucketOf(rows[n]) # b
    BY <2>2, <2>4, <2>6, <2>8 DEF RowStep
  <2> QED BY <2>7, <2>8
<1>4. \A q \in T[N] : q \in Seq(Rows) /\ (Distinct(rows) => Distinct(q)) /\ Range(q) = of(N)
  <2> HIDE DEF of, N
  <2>1. N \in 0 .. N
    BY <1>1
  <2> QED BY <2>1
<1>5. of(N) = {row \in Range(rows) : BucketOf(row) = b}
  <2>1. Range(rows) = {rows[k] : k \in 1 .. N}
    BY <1>1 DEF Range
  <2> HIDE DEF N
  <2> QED BY <2>1
<1> HIDE DEF T, of, e
<1>6. Sorting!Folded(b, e, rows) \in T[Len(rows)]
  <2> HIDE DEF N
  <2> QED BY <1>2, <1>3, Climbing, Sorting!FoldInvariant
<1>7. RowsIn(rows, b) = Sorting!Folded(b, e, rows)
  BY Folds DEF e
<1> QED BY <1>4, <1>5, <1>6, <1>7

LEMMA SpilledOK ==
  ASSUME NEW t, TableOK(t)
  PROVE  TableOK(Spilled(t)) /\ Held(Spilled(t)) = Held(t)
<1> DEFINE e == << >>
           u == Spilled(t)
           file(b) == t.spilled[b] \o RowsIn(t.buffer, b)
<1>1. /\ t.buffer \in Seq(Rows) /\ Distinct(t.buffer)
      /\ \A b \in Buckets : t.spilled[b] \in Seq(Rows) /\ Distinct(t.spilled[b])
      /\ \A b \in Buckets : \A row \in Range(t.spilled[b]) :
           BucketOf(row) = b /\ row \notin Range(t.buffer)
  BY DEF TableOK
<1>2. e \in Seq(Rows) /\ Range(e) = {} /\ Distinct(e)
  BY RangeEmpty
<1>3. u = [buffer |-> e, spilled |-> [b \in Buckets |-> file(b)]]
  BY DEF Spilled
<1>4. ASSUME NEW b \in Buckets
      PROVE  /\ file(b) \in Seq(Rows) /\ Distinct(file(b))
             /\ Range(file(b)) = Range(t.spilled[b]) \cup {row \in Range(t.buffer) : BucketOf(row) = b}
  <2> DEFINE x == t.spilled[b]
             y == RowsIn(t.buffer, b)
  <2>1. x \in Seq(Rows) /\ Distinct(x) /\ \A row \in Range(x) : row \notin Range(t.buffer)
    BY <1>1
  <2>2. /\ y \in Seq(Rows) /\ Distinct(y)
        /\ Range(y) = {row \in Range(t.buffer) : BucketOf(row) = b}
    BY <1>1, RowsInOf
  <2>3. Range(x) \cap Range(y) = {}
    BY <2>1, <2>2
  <2> HIDE DEF x, y
  <2>4. x \o y \in Seq(Rows) /\ Range(x \o y) = Range(x) \cup Range(y) /\ Distinct(x \o y)
    BY <2>1, <2>2, <2>3, RangeConcat
  <2> QED BY <2>2, <2>4 DEF x, y
<1> HIDE DEF e, u, file
<1>5. /\ u \in [buffer : Seq(Rows), spilled : [Buckets -> Seq(Rows)]] /\ u.buffer = e
      /\ \A b \in Buckets : u.spilled[b] = file(b)
  BY <1>2, <1>3, <1>4
<1>6. TableOK(u)
  BY <1>1, <1>2, <1>4, <1>5 DEF TableOK
<1>7. Held(u) = Held(t)
  <2>1. \A row \in Range(t.buffer) : BucketOf(row) \in Buckets
    BY <1>1, InBuckets, RangeOfSeq
  <2>2. Held(u) = UNION {Range(file(b)) : b \in Buckets}
    BY <1>2, <1>5 DEF Held
  <2> QED BY <1>4, <2>1, <2>2 DEF Held
<1> QED BY <1>6, <1>7 DEF u

(* TableWriter.add *)
LEMMA AddedOK ==
  ASSUME NEW t, TableOK(t), NEW row \in Rows, row \notin Held(t)
  PROVE  TableOK(Added(t, row)) /\ Held(Added(t, row)) = Held(t) \cup {row}
<1> DEFINE more == Append(t.buffer, row)
           u == [t EXCEPT !.buffer = more]
<1>1. t \in [buffer : Seq(Rows), spilled : [Buckets -> Seq(Rows)]] /\ Distinct(t.buffer)
  BY DEF TableOK
<1>2. row \notin Range(t.buffer) /\ \A b \in Buckets : row \notin Range(t.spilled[b])
  BY DEF Held
<1>3. more \in Seq(Rows) /\ Range(more) = Range(t.buffer) \cup {row} /\ Distinct(more)
  BY <1>1, <1>2, RangeAppend
<1> HIDE DEF more
<1>4. /\ u \in [buffer : Seq(Rows), spilled : [Buckets -> Seq(Rows)]]
      /\ u.buffer = more /\ u.spilled = t.spilled
  BY <1>1, <1>3
<1> HIDE DEF u
<1>5. TableOK(u)
  BY <1>2, <1>3, <1>4 DEF TableOK
<1>6. Held(u) = Held(t) \cup {row}
  BY <1>3, <1>4 DEF Held
<1>7. Added(t, row) = IF Len(u.buffer) >= FlushRows THEN Spilled(u) ELSE u
  BY DEF Added, u, more
<1> QED BY <1>5, <1>6, <1>7, SpilledOK

(* TableWriter.finish: the parts of a table hold the rows that were added, each in one
   part and once, whatever the order of the buckets, and no part is larger than
   max_part_rows. *)
THEOREM PartsHold ==
  ASSUME NEW t, TableOK(t), NEW order \in BucketOrders
  PROVE  /\ RowsOf(Parts(t, order)) = Held(t)
         /\ IsFiniteSet(Held(t))
         /\ FoldLeft(LAMBDA n, part : n + Len(part), 0, Parts(t, order)) = Cardinality(Held(t))
         /\ \A part \in Range(Parts(t, order)) : Len(part) <= MaxPartRows
<1> DEFINE s == Spilled(t).spilled
           N == Len(order)
           upto(n) == UNION {Range(s[order[k]]) : k \in 1 .. n}
           T == [n \in 0 .. N |->
                   UNION {Planned(Rows, q) : q \in {q \in Seq(Rows) : Distinct(q) /\ Range(q) = upto(n)}}]
<1>1. TableOK(Spilled(t)) /\ Held(Spilled(t)) = Held(t)
  BY SpilledOK
<1>2. /\ \A b \in Buckets : s[b] \in Seq(Rows) /\ Distinct(s[b])
      /\ \A b \in Buckets : \A row \in Range(s[b]) : BucketOf(row) = b
  BY <1>1 DEF TableOK
<1>3. order \in Seq(Buckets) /\ Range(order) = Buckets /\ Distinct(order)
  BY BucketsListed
<1>4. N \in Nat /\ DOMAIN order = 1 .. N /\ \A k \in 1 .. N : order[k] \in Buckets
  BY <1>3, LenProperties
<1>5. Held(t) = upto(N)
  <2>1. Spilled(t).buffer = << >>
    BY DEF Spilled
  <2>2. Held(Spilled(t)) = UNION {Range(s[b]) : b \in Buckets}
    BY <2>1, RangeEmpty DEF Held
  <2>3. Buckets = {order[k] : k \in 1 .. N}
    BY <1>3, <1>4 DEF Range
  <2> HIDE DEF s, N
  <2> QED BY <1>1, <2>2, <2>3
<1> HIDE DEF s
<1>6. NoParts \in T[0]
  <2> DEFINE e == << >>
             z == << >>
             B == Seq(Rows)
  <2>1. e \in Seq(Rows) /\ z \in Seq(Seq(Rows)) /\ Range(e) = {} /\ Range(z) = {} /\ Distinct(e) /\ Len(e) = 0
    BY RangeEmpty
  <2>2. Flat(z) = e
    BY Climbing, Linking!FoldEmpty DEF Flat
  <2>3. e \o e = e
    BY <2>1, ConcatEmptySeq
  <2>4. upto(0) = {}
    OBVIOUS
  <2>5. NoParts = [parts |-> z, current |-> e]
    BY DEF NoParts
  <2>6. MaxPartRows \in Nat
    BY TapeAssumption
  <2> HIDE DEF e, z, upto
  <2>7. NoParts \in Planned(Rows, e)
    BY <2>1, <2>2, <2>3, <2>5, <2>6 DEF Planned
  <2>8. 0 \in 0 .. N
    BY <1>4
  <2> HIDE DEF N
  <2> QED BY <2>1, <2>4, <2>7, <2>8
<1>7. ASSUME NEW n \in 1 .. Len(order), NEW plan \in T[n - 1]
      PROVE  PlanStep(s, plan, order[n]) \in T[n]
  <2>1. n \in 1 .. N /\ n - 1 \in 0 .. N /\ n \in 0 .. N /\ order[n] \in Buckets
    BY <1>4
  <2>2. PICK q \in Seq(Rows) : Distinct(q) /\ Range(q) = upto(n - 1) /\ plan \in Planned(Rows, q)
    <3> HIDE DEF upto, N
    <3> QED BY <2>1
  <2> DEFINE rows == s[order[n]]
  <2>3. rows \in Seq(Rows) /\ Distinct(rows) /\ \A row \in Range(rows) : BucketOf(row) = order[n]
    BY <1>2, <2>1
  <2>4. \A row \in upto(n - 1) : BucketOf(row) # order[n]
    <3> SUFFICES ASSUME NEW k \in 1 .. n - 1, NEW row \in Range(s[order[k]])
                 PROVE  BucketOf(row) # order[n]
      OBVIOUS
    <3>1. k \in DOMAIN order /\ n \in DOMAIN order /\ k # n /\ order[k] \in Buckets
      BY <1>4, <2>1
    <3>2. order[k] # order[n]
      BY <1>3, <3>1 DEF Distinct
    <3> QED BY <1>2, <3>1, <3>2
  <2>5. upto(n) = upto(n - 1) \cup Range(rows)
    <3>1. 1 .. n = (1 .. n - 1) \cup {n}
      BY <1>4, <2>1
    <3> QED BY <3>1
  <2>6. PlanStep(s, plan, order[n]) = PlanBucket(plan, rows)
    BY DEF PlanStep
  <2> HIDE DEF rows, upto, N
  <2>7. Range(q) \cap Range(rows) = {}
    BY <2>2, <2>3, <2>4
  <2>8. q \o rows \in Seq(Rows) /\ Range(q \o rows) = upto(n) /\ Distinct(q \o rows)
    BY <2>2, <2>3, <2>5, <2>7, RangeConcat
  <2>9. PlanBucket(plan, rows) \in Planned(Rows, q \o rows)
    BY <2>2, <2>3, BucketPlanned
  <2> QED BY <2>1, <2>6, <2>8, <2>9
<1>8. \A plan \in T[N] : \E q \in Seq(Rows) : Distinct(q) /\ Range(q) = upto(N) /\ plan \in Planned(Rows, q)
  <2> HIDE DEF upto, N
  <2>1. N \in 0 .. N
    BY <1>4
  <2> QED BY <2>1
<1>9. Planning!Folded(s, NoParts, order) \in T[Len(order)]
  <2> HIDE DEF T, N
  <2> QED BY <1>3, <1>6, <1>7, Climbing, Planning!FoldInvariant
<1> DEFINE full == Planning!Folded(s, NoParts, order)
           parts == Cut(full).parts
<1> HIDE DEF T, full, upto
<1>10. PICK q \in Seq(Rows) : Distinct(q) /\ Range(q) = upto(N) /\ full \in Planned(Rows, q)
  BY <1>8, <1>9 DEF full
<1>11. Cut(full) \in Planned(Rows, q) /\ Cut(full).current = << >>
  BY <1>10, CutPlanned
<1>12. Parts(t, order) = parts
  BY Folds DEF Parts, s, full
<1>13. /\ parts \in Seq(Seq(Rows)) /\ Flat(parts) \o << >> = q
       /\ \A part \in Range(parts) : Len(part) <= MaxPartRows
  BY <1>11 DEF Planned
<1> HIDE DEF parts
<1>14. /\ Flat(parts) \in Seq(Rows) /\ Range(Flat(parts)) = RowsOf(parts)
       /\ FoldLeft(LAMBDA n, part : n + Len(part), 0, parts) = Len(Flat(parts))
  BY <1>13, FlatOf
<1>15. Flat(parts) = q
  BY <1>13, <1>14, ConcatEmptySeq
<1>16. IsFiniteSet(Range(q)) /\ Cardinality(Range(q)) = Len(q)
  BY <1>10, DistinctCount
<1> QED BY <1>5, <1>10, <1>12, <1>13, <1>14, <1>15, <1>16

-----------------------------------------------------------------------------
(* The interpretation of a segment: its kinds of values, and the steps that leave its rows
   and its counts as they are. *)

SpanSet == [start : Int, end : Int, opened : BOOLEAN, closed : BOOLEAN]
WriterSet == [buffer : Seq(Rows), spilled : [Buckets -> Seq(Rows)]]
HourSet ==
  [records : Nat, baked : [Tables -> Nat], notBaked : Nat, failures : Nat, spans : Seq(SpanSet),
   sleeps : SUBSET (Int \X Int), stale : Int, observed : Int, tables : [Tables -> WriterSet]]
MarketSet == [on : BOOLEAN, sid : Int, since : Int, stale : Int]
PendingSet == [row : Rows, waiting : SUBSET Markets]
SegmentSet ==
  [hour : Int, first : Int, last : Int, start : Int, opened : BOOLEAN, sids : SUBSET Int,
   markets : [Markets -> MarketSet], pending : Seq(PendingSet)]
Interps == [hour : HourSet, seg : SegmentSet]

Quiet(i, j) ==
  /\ j \in Interps
  /\ j.hour.tables = i.hour.tables /\ j.hour.baked = i.hour.baked /\ j.hour.records = i.hour.records
  /\ j.hour.notBaked = i.hour.notBaked /\ j.hour.failures = i.hour.failures
  /\ j.seg.pending = i.seg.pending /\ j.seg.hour = i.seg.hour

LEMMA Larger ==
  ASSUME NEW a \in Int, NEW b \in Int
  PROVE  Max({a, b}) \in Int /\ Max({a, b}) >= a /\ Max({a, b}) >= b
<1>1. \E x \in {a, b} : \A y \in {a, b} : x >= y
  OBVIOUS
<1>2. Max({a, b}) \in {a, b} /\ \A y \in {a, b} : Max({a, b}) >= y
  BY <1>1 DEF Max
<1> QED BY <1>2

LEMMA QuietSteps == \A i, j, k : Quiet(i, j) /\ Quiet(j, k) => Quiet(i, k)
BY DEF Quiet

LEMMA BookTimeQuiet ==
  ASSUME NEW i \in Interps, NEW o \in Int, NEW s \in Int
  PROVE  Quiet(i, BookTime(i, o, s))
<1> DEFINE h == [i.hour EXCEPT !.observed = @ + o, !.stale = @ + s]
<1>1. i.hour \in HourSet /\ i.seg \in SegmentSet
  BY DEF Interps
<1>2. /\ h \in HourSet /\ h.tables = i.hour.tables /\ h.baked = i.hour.baked
      /\ h.records = i.hour.records /\ h.notBaked = i.hour.notBaked /\ h.failures = i.hour.failures
  <2> DEFINE x == i.hour.observed + o
             y == i.hour.stale + s
             g == [i.hour EXCEPT !.observed = x]
  <2>1. i.hour.observed \in Int /\ i.hour.stale \in Int
    BY <1>1 DEF HourSet
  <2>2. x \in Int /\ y \in Int
    BY <2>1
  <2>3. h = [g EXCEPT !.stale = y]
    BY <1>1 DEF HourSet
  <2> HIDE DEF x, y, h
  <2>4. /\ g \in HourSet /\ g.tables = i.hour.tables /\ g.baked = i.hour.baked
        /\ g.records = i.hour.records /\ g.notBaked = i.hour.notBaked /\ g.failures = i.hour.failures
    BY <1>1, <2>2 DEF HourSet
  <2> HIDE DEF g
  <2> QED BY <2>2, <2>3, <2>4 DEF HourSet
<1>3. BookTime(i, o, s) = [i EXCEPT !.hour = h]
  BY DEF BookTime, Interps
<1> HIDE DEF h
<1>4. [i EXCEPT !.hour = h] \in Interps /\ [i EXCEPT !.hour = h].hour = h /\ [i EXCEPT !.hour = h].seg = i.seg
  BY <1>1, <1>2 DEF Interps
<1> QED BY <1>2, <1>3, <1>4 DEF Quiet

LEMMA EndMarketQuiet ==
  ASSUME NEW i \in Interps, NEW m \in Markets, NEW end \in Int
  PROVE  Quiet(i, EndMarket(i, m, end)) /\ EndMarket(i, m, end).seg = i.seg
<1> DEFINE market == i.seg.markets[m]
           o == Max({0, end - market.since})
           s == IF market.stale = None THEN 0 ELSE Max({0, end - market.stale})
<1>1. market \in MarketSet
  BY DEF Interps, SegmentSet
<1>2. market.since \in Int /\ market.stale \in Int
  BY <1>1 DEF MarketSet
<1> HIDE DEF market
<1>3. o \in Int /\ s \in Int
  <2> DEFINE x == end - market.since
             y == end - market.stale
  <2>1. x \in Int /\ y \in Int /\ 0 \in Int
    BY <1>2
  <2> HIDE DEF x, y
  <2>2. Max({0, x}) \in Int /\ Max({0, y}) \in Int
    BY <2>1, Larger
  <2> QED BY <2>2 DEF x, y
<1>4. EndMarket(i, m, end) = BookTime(i, o, s)
  BY DEF EndMarket, market
<1> HIDE DEF o, s
<1>5. BookTime(i, o, s).seg = i.seg
  BY DEF BookTime, Interps
<1> QED BY <1>3, <1>4, <1>5, BookTimeQuiet

(* A segment in which the rows postponed stay as they are. *)
LEMMA SegmentQuiet ==
  ASSUME NEW i \in Interps, NEW s \in SegmentSet, s.pending = i.seg.pending, s.hour = i.seg.hour
  PROVE  Quiet(i, [i EXCEPT !.seg = s]) /\ [i EXCEPT !.seg = s].hour = i.hour /\ [i EXCEPT !.seg = s].seg = s
<1>1. /\ [i EXCEPT !.seg = s] \in Interps /\ [i EXCEPT !.seg = s].hour = i.hour
      /\ [i EXCEPT !.seg = s].seg = s
  BY DEF Interps
<1> QED BY <1>1 DEF Quiet

LEMMA MarketQuiet ==
  ASSUME NEW i \in Interps, NEW m \in Markets, NEW v \in MarketSet
  PROVE  Quiet(i, [i EXCEPT !.seg.markets[m] = v])
<1> DEFINE s == [i.seg EXCEPT !.markets[m] = v]
<1>1. i.seg \in SegmentSet
  BY DEF Interps
<1>2. s \in SegmentSet /\ s.pending = i.seg.pending /\ s.hour = i.seg.hour
  BY <1>1 DEF SegmentSet
<1>3. [i EXCEPT !.seg.markets[m] = v] = [i EXCEPT !.seg = s]
  BY DEF Interps
<1> HIDE DEF s
<1> QED BY <1>2, <1>3, SegmentQuiet

LEMMA LeaveQuiet ==
  ASSUME NEW i \in Interps, NEW m \in Markets, NEW w \in Int
  PROVE  Quiet(i, Leave(i, m, w))
<1> DEFINE j == EndMarket(i, m, w)
<1>1. Quiet(i, j) /\ j \in Interps
  BY EndMarketQuiet DEF Quiet
<1>2. NoMarket \in MarketSet
  BY DEF NoMarket, MarketSet, None
<1>3. Leave(i, m, w) = IF i.seg.markets[m].on THEN [j EXCEPT !.seg.markets[m] = NoMarket] ELSE i
  BY DEF Leave
<1> HIDE DEF j
<1>4. Quiet(i, i)
  BY DEF Quiet
<1> QED BY <1>1, <1>2, <1>3, <1>4, MarketQuiet, QuietSteps

LEMMA LeaveAllQuiet ==
  ASSUME NEW i \in Interps, NEW ms \in SUBSET Markets, NEW w \in Int
  PROVE  Quiet(i, LeaveAll(i, ms, w))
<1> DEFINE q == SetToSeq(ms)
           T == [n \in 0 .. Len(q) |-> {j \in Interps : Quiet(i, j)}]
<1>1. q \in Seq(ms) /\ Len(q) \in Nat
  <2>1. IsFiniteSet(ms)
    BY TapeAssumption, FS_Subset
  <2> QED BY <2>1, SetListed, LenProperties
<1> HIDE DEF q
<1>2. i \in T[0]
  BY <1>1 DEF Quiet
<1>3. ASSUME NEW n \in 1 .. Len(q), NEW j \in T[n - 1] PROVE LeaveStep(w, j, q[n]) \in T[n]
  <2>1. n - 1 \in 0 .. Len(q) /\ n \in 0 .. Len(q)
    BY <1>1
  <2>2. j \in Interps /\ Quiet(i, j)
    BY <2>1
  <2>3. q[n] \in Markets
    BY <1>1, ElementOfSeq
  <2>4. Quiet(j, Leave(j, q[n], w))
    BY <2>2, <2>3, LeaveQuiet
  <2>5. Quiet(i, Leave(j, q[n], w)) /\ Leave(j, q[n], w) \in Interps
    BY <2>2, <2>4, QuietSteps DEF Quiet
  <2> QED BY <2>1, <2>5 DEF LeaveStep
<1>4. \A j \in T[Len(q)] : Quiet(i, j)
  BY <1>1
<1> HIDE DEF T
<1>5. Leaving!Folded(w, i, q) \in T[Len(q)]
  BY <1>1, <1>2, <1>3, Climbing, Leaving!FoldInvariant
<1> QED BY <1>4, <1>5, Folds DEF q

(* finish: every market that is on ends. *)
LEMMA ClosingQuiet ==
  ASSUME NEW i \in Interps, NEW ms \in SUBSET Markets, NEW w \in Int
  PROVE  Quiet(i, FoldLeft(LAMBDA k, m : EndMarket(k, m, w), i, SetToSeq(ms)))
<1> DEFINE q == SetToSeq(ms)
           T == [n \in 0 .. Len(q) |-> {j \in Interps : Quiet(i, j)}]
<1>1. q \in Seq(ms) /\ Len(q) \in Nat
  <2>1. IsFiniteSet(ms)
    BY TapeAssumption, FS_Subset
  <2> QED BY <2>1, SetListed, LenProperties
<1> HIDE DEF q
<1>2. i \in T[0]
  BY <1>1 DEF Quiet
<1>3. ASSUME NEW n \in 1 .. Len(q), NEW j \in T[n - 1] PROVE CloseStep(w, j, q[n]) \in T[n]
  <2>1. n - 1 \in 0 .. Len(q) /\ n \in 0 .. Len(q)
    BY <1>1
  <2>2. j \in Interps /\ Quiet(i, j)
    BY <2>1
  <2>3. q[n] \in Markets
    BY <1>1, ElementOfSeq
  <2>4. Quiet(j, EndMarket(j, q[n], w))
    BY <2>2, <2>3, EndMarketQuiet
  <2>5. Quiet(i, EndMarket(j, q[n], w)) /\ EndMarket(j, q[n], w) \in Interps
    BY <2>2, <2>4, QuietSteps DEF Quiet
  <2> QED BY <2>1, <2>5 DEF CloseStep
<1>4. \A j \in T[Len(q)] : Quiet(i, j)
  BY <1>1
<1> HIDE DEF T
<1>5. Closing!Folded(w, i, q) \in T[Len(q)]
  BY <1>1, <1>2, <1>3, Climbing, Closing!FoldInvariant
<1> QED BY <1>4, <1>5, Folds DEF q

(* What a record holds, and the table it has its row in. *)
RecordKinds ==
  {"delta", "snapshot", "trade", "audit", "gap", "subscribed", "undecodable", "open", "close", "error",
   "clock_jump", "subscribe", "get_snapshot", "delete_markets", "unsubscribe"}
RecordSet ==
  {r \in [kind : RecordKinds, market : Buckets, sid : Int, wall : Int, mono : Int, n : Int] :
     r.kind \in {"delta", "snapshot", "trade", "audit", "delete_markets"} => r.market \in Markets}
TableOf(r) ==
  CASE r.kind = "delta" -> "deltas" [] r.kind = "snapshot" -> "snapshots" [] r.kind = "trade" -> "trades"
    [] r.kind = "audit" -> "audits" [] r.kind = "gap" -> "gaps" [] OTHER -> "none"

LEMMA ObserveQuiet ==
  ASSUME NEW i \in Interps, NEW r \in RecordSet, r.market \in Markets
  PROVE  Quiet(i, Observe(i, r)) /\ Observe(i, r).hour = i.hour
<1> DEFINE v == [on |-> TRUE, sid |-> r.sid, since |-> r.wall, stale |-> None]
<1>1. v \in MarketSet
  BY DEF RecordSet, MarketSet, None
<1>2. Observe(i, r) = IF i.seg.markets[r.market].on THEN i ELSE [i EXCEPT !.seg.markets[r.market] = v]
  BY DEF Observe
<1> HIDE DEF v
<1>3. Quiet(i, i)
  BY DEF Quiet
<1>4. [i EXCEPT !.seg.markets[r.market] = v].hour = i.hour
  BY DEF Interps
<1> QED BY <1>1, <1>2, <1>3, <1>4, MarketQuiet

LEMMA CloseSpanQuiet ==
  ASSUME NEW i \in Interps, NEW end \in Int, NEW closed \in BOOLEAN
  PROVE  Quiet(i, CloseSpan(i, end, closed))
<1> DEFINE span == [start |-> i.seg.start, end |-> Max({i.seg.start, end}), opened |-> i.seg.opened,
                    closed |-> closed]
           spans == Append(i.hour.spans, span)
           h == [i.hour EXCEPT !.spans = spans]
           s == [i.seg EXCEPT !.start = None]
           j == [i EXCEPT !.hour = h]
<1>1. i.hour \in HourSet /\ i.seg \in SegmentSet
  BY DEF Interps
<1>2. i.seg.start \in Int /\ i.seg.opened \in BOOLEAN /\ i.hour.spans \in Seq(SpanSet)
  BY <1>1 DEF HourSet, SegmentSet
<1>3. span \in SpanSet
  <2>1. Max({i.seg.start, end}) \in Int
    BY <1>2, Larger
  <2> QED BY <1>2, <2>1 DEF SpanSet
<1> HIDE DEF span
<1>4. spans \in Seq(SpanSet)
  BY <1>2, <1>3, AppendProperties
<1>5. CloseSpan(i, end, closed) = IF i.seg.start = None THEN i ELSE [j EXCEPT !.seg = s]
  BY DEF CloseSpan, Interps, span
<1> HIDE DEF spans
<1>6. /\ h \in HourSet /\ h.tables = i.hour.tables /\ h.baked = i.hour.baked
      /\ h.records = i.hour.records /\ h.notBaked = i.hour.notBaked /\ h.failures = i.hour.failures
  BY <1>1, <1>4 DEF HourSet
<1>7. s \in SegmentSet /\ s.pending = i.seg.pending /\ s.hour = i.seg.hour
  BY <1>1 DEF SegmentSet, None
<1> HIDE DEF h, s
<1>8. j \in Interps /\ j.hour = h /\ j.seg = i.seg
  BY <1>1, <1>6 DEF Interps
<1>9. Quiet(i, j) /\ Quiet(i, i)
  BY <1>6, <1>8 DEF Quiet
<1> HIDE DEF j
<1>10. Quiet(j, [j EXCEPT !.seg = s])
  BY <1>7, <1>8, SegmentQuiet
<1> QED BY <1>5, <1>9, <1>10, QuietSteps

LEMMA BegunQuiet ==
  ASSUME NEW i \in Interps, NEW r \in RecordSet
  PROVE  Quiet(i, Begun(i, r))
<1> DEFINE s == [i.seg EXCEPT !.first = r.wall]
           u == [i.seg EXCEPT !.first = r.wall, !.start = i.seg.hour * HourLength, !.opened = FALSE]
<1>1. i.seg \in SegmentSet /\ r.wall \in Int
  BY DEF Interps, RecordSet
<1>2. i.seg.hour * HourLength \in Int
  <2>1. i.seg.hour \in Int
    BY <1>1 DEF SegmentSet
  <2>2. HourLength \in Int
    BY TapeAssumption
  <2> QED BY <2>1, <2>2
<1>3. s \in SegmentSet /\ s.pending = i.seg.pending /\ s.hour = i.seg.hour
  BY <1>1 DEF SegmentSet
<1>4. u \in SegmentSet /\ u.pending = i.seg.pending /\ u.hour = i.seg.hour
  <2> DEFINE x == i.seg.hour * HourLength
  <2>1. x \in Int
    BY <1>2
  <2> DEFINE v == [s EXCEPT !.start = x]
  <2>2. u = [v EXCEPT !.opened = FALSE]
    BY <1>1 DEF SegmentSet
  <2> HIDE DEF x, s, u
  <2>3. v \in SegmentSet /\ v.pending = i.seg.pending /\ v.hour = i.seg.hour
    BY <1>3, <2>1 DEF SegmentSet
  <2> HIDE DEF v
  <2> QED BY <2>2, <2>3 DEF SegmentSet
<1>5. Begun(i, r) = IF i.seg.first # None THEN i
                    ELSE IF r.kind \in {"open", "error"} THEN [i EXCEPT !.seg = s] ELSE [i EXCEPT !.seg = u]
  BY DEF Begun, Interps
<1> HIDE DEF s, u
<1>6. Quiet(i, i)
  BY DEF Quiet
<1> QED BY <1>3, <1>4, <1>5, <1>6, SegmentQuiet

-----------------------------------------------------------------------------
(* The rows of an interpretation, written or postponed: no two of a table were recorded at
   one instant. *)

HeldMonos(i, t) == {row.mono : row \in Held(i.hour.tables[t])}
PendingMonos(i) == {i.seg.pending[k].row.mono : k \in 1 .. Len(i.seg.pending)}
Monos(i, t) == HeldMonos(i, t) \cup (IF t = "gaps" THEN PendingMonos(i) ELSE {})
SizeOf(i, t) ==
  Cardinality(Held(i.hour.tables[t])) + (IF t = "gaps" THEN Len(i.seg.pending) ELSE 0)

Kept(i) ==
  /\ i \in Interps
  /\ \A t \in Tables : TableOK(i.hour.tables[t])
  /\ \A k \in 1 .. Len(i.seg.pending) : i.seg.pending[k].row.table = "gaps"
  /\ \A k, l \in 1 .. Len(i.seg.pending) :
       i.seg.pending[k].row.mono = i.seg.pending[l].row.mono => k = l
  /\ \A x \in PendingMonos(i) : x \notin HeldMonos(i, "gaps")

SameCounts(i, j) ==
  /\ j.hour.baked = i.hour.baked /\ j.hour.records = i.hour.records
  /\ j.hour.notBaked = i.hour.notBaked /\ j.hour.failures = i.hour.failures
  /\ j.seg.hour = i.seg.hour

(* Table t has n more rows, of the instants X. *)
Grown(i, j, t, n, X) ==
  /\ Kept(j)
  /\ \A u \in Tables : SizeOf(j, u) = SizeOf(i, u) + (IF u = t THEN n ELSE 0)
  /\ \A u \in Tables : Monos(j, u) = Monos(i, u) \cup (IF u = t THEN X ELSE {})
  /\ SameCounts(i, j)

LEMMA SomeOrder == \E order : order \in BucketOrders
<1>1. IsFiniteSet(Markets)
  BY TapeAssumption
<1>2. \E f : f \in Bijection(1 .. Cardinality(Markets), Markets)
  BY <1>1, FS_CardinalityType, FS_NatBijection DEF ExistsBijection
<1>3. SetToSeqs(Markets) # {}
  BY <1>2 DEF Bijection, Injection, IsInjective, SetToSeqs
<1> QED BY <1>3 DEF BucketOrders

LEMMA HeldFinite ==
  ASSUME NEW t, TableOK(t)
  PROVE  IsFiniteSet(Held(t)) /\ Cardinality(Held(t)) \in Nat
<1>1. PICK order : order \in BucketOrders
  BY SomeOrder
<1> QED BY <1>1, PartsHold, FS_CardinalityType

LEMMA SizesAreNumbers ==
  ASSUME NEW i, Kept(i)
  PROVE  \A t \in Tables : SizeOf(i, t) \in Nat
<1>1. i.seg.pending \in Seq(PendingSet)
  BY DEF Kept, Interps, SegmentSet
<1>2. Len(i.seg.pending) \in Nat
  BY <1>1, LenProperties
<1>3. \A t \in Tables : Cardinality(Held(i.hour.tables[t])) \in Nat
  BY HeldFinite DEF Kept
<1> QED BY <1>2, <1>3 DEF SizeOf

LEMMA QuietGrown ==
  ASSUME NEW i, Kept(i), NEW j, Quiet(i, j), NEW t
  PROVE  Grown(i, j, t, 0, {})
<1>1. /\ j \in Interps /\ j.hour.tables = i.hour.tables /\ j.seg.pending = i.seg.pending
      /\ SameCounts(i, j)
  BY DEF Quiet, SameCounts
<1>2. PendingMonos(j) = PendingMonos(i) /\ \A u : HeldMonos(j, u) = HeldMonos(i, u)
  BY <1>1 DEF PendingMonos, HeldMonos
<1>3. Kept(j)
  BY <1>1, <1>2 DEF Kept
<1>4. \A u : Monos(j, u) = Monos(i, u) /\ SizeOf(j, u) = SizeOf(i, u)
  BY <1>1, <1>2 DEF Monos, SizeOf
<1>5. \A u \in Tables : SizeOf(i, u) \in Int
  BY SizesAreNumbers
<1>6. \A u \in Tables : SizeOf(j, u) = SizeOf(i, u) + (IF u = t THEN 0 ELSE 0)
  BY <1>4, <1>5
<1> QED BY <1>1, <1>3, <1>4, <1>6 DEF Grown

LEMMA GrownSteps ==
  ASSUME NEW i, Kept(i), NEW j, NEW k, NEW t, NEW n \in Int, NEW m \in Int, NEW X, NEW Y,
         Grown(i, j, t, n, X), Grown(j, k, t, m, Y)
  PROVE  Grown(i, k, t, n + m, X \cup Y)
<1>1. Kept(j) /\ Kept(k) /\ SameCounts(i, j) /\ SameCounts(j, k)
  BY DEF Grown
<1>2. SameCounts(i, k)
  BY <1>1 DEF SameCounts
<1>3. ASSUME NEW u \in Tables
      PROVE  SizeOf(k, u) = SizeOf(i, u) + (IF u = t THEN n + m ELSE 0)
  <2>1. SizeOf(i, u) \in Int
    BY SizesAreNumbers
  <2>2. /\ SizeOf(j, u) = SizeOf(i, u) + (IF u = t THEN n ELSE 0)
        /\ SizeOf(k, u) = SizeOf(j, u) + (IF u = t THEN m ELSE 0)
    BY DEF Grown
  <2> QED BY <2>1, <2>2
<1>4. ASSUME NEW u \in Tables
      PROVE  Monos(k, u) = Monos(i, u) \cup (IF u = t THEN X \cup Y ELSE {})
  <2>1. /\ Monos(j, u) = Monos(i, u) \cup (IF u = t THEN X ELSE {})
        /\ Monos(k, u) = Monos(j, u) \cup (IF u = t THEN Y ELSE {})
    BY DEF Grown
  <2> QED BY <2>1
<1> QED BY <1>1, <1>2, <1>3, <1>4 DEF Grown

LEMMA GrownQuiet ==
  ASSUME NEW i, Kept(i), NEW j, NEW k, NEW t, NEW n \in Int, NEW X,
         Grown(i, j, t, n, X), Quiet(j, k)
  PROVE  Grown(i, k, t, n, X)
<1>1. Kept(j)
  BY DEF Grown
<1>2. Grown(j, k, t, 0, {})
  BY <1>1, QuietGrown
<1>3. Grown(i, k, t, n + 0, X \cup {})
  BY <1>2, GrownSteps
<1>4. n + 0 = n /\ X \cup {} = X
  OBVIOUS
<1> QED BY <1>3, <1>4

LEMMA EmitGrown ==
  ASSUME NEW i, Kept(i), NEW row \in Rows, row.mono \notin Monos(i, row.table)
  PROVE  Grown(i, Emit(i, row), row.table, 1, {row.mono}) /\ Emit(i, row).seg = i.seg
<1> DEFINE t == row.table
           old == i.hour.tables[t]
           new == Added(old, row)
           h == [i.hour EXCEPT !.tables[t] = new]
           j == Emit(i, row)
<1>1. t \in Tables
  BY DEF Rows
<1>2. TableOK(old) /\ i.hour \in HourSet /\ i.seg \in SegmentSet /\ i \in Interps
  BY <1>1 DEF Kept, Interps
<1>3. row \notin Held(old)
  BY DEF Monos, HeldMonos
<1>4. TableOK(new) /\ Held(new) = Held(old) \cup {row}
  BY <1>2, <1>3, AddedOK
<1>5. new \in WriterSet
  BY <1>4 DEF TableOK, WriterSet
<1>6. j = [i EXCEPT !.hour = h]
  BY DEF Emit, Interps, Kept
<1> HIDE DEF new, old, t, j
<1>7. /\ h \in HourSet /\ h.baked = i.hour.baked /\ h.records = i.hour.records
      /\ h.notBaked = i.hour.notBaked /\ h.failures = i.hour.failures
      /\ \A u \in Tables : h.tables[u] = IF u = t THEN new ELSE i.hour.tables[u]
  BY <1>1, <1>2, <1>5 DEF HourSet
<1> HIDE DEF h
<1>8. j \in Interps /\ j.hour = h /\ j.seg = i.seg
  BY <1>2, <1>6, <1>7 DEF Interps
<1>9. PendingMonos(j) = PendingMonos(i)
  BY <1>8 DEF PendingMonos
<1>10. /\ Held(j.hour.tables[t]) = Held(i.hour.tables[t]) \cup {row}
       /\ \A u \in Tables : u # t => j.hour.tables[u] = i.hour.tables[u]
  BY <1>1, <1>4, <1>7, <1>8 DEF old
<1>11. /\ HeldMonos(j, t) = HeldMonos(i, t) \cup {row.mono}
       /\ \A u \in Tables : u # t => HeldMonos(j, u) = HeldMonos(i, u)
  BY <1>10 DEF HeldMonos
<1>12. \A u \in Tables : Monos(j, u) = Monos(i, u) \cup (IF u = t THEN {row.mono} ELSE {})
  BY <1>1, <1>9, <1>11 DEF Monos
<1>13. \A u \in Tables : SizeOf(j, u) = SizeOf(i, u) + (IF u = t THEN 1 ELSE 0)
  <2>1. Len(i.seg.pending) \in Nat
    BY <1>2, LenProperties DEF SegmentSet
  <2>2. IsFiniteSet(Held(old)) /\ Cardinality(Held(old)) \in Nat
    BY <1>2, HeldFinite
  <2>3. Cardinality(Held(j.hour.tables[t])) = Cardinality(Held(i.hour.tables[t])) + 1
    BY <1>3, <1>10, <2>2, FS_AddElement DEF old
  <2>4. SizeOf(j, t) = SizeOf(i, t) + 1
    BY <1>8, <2>1, <2>2, <2>3 DEF SizeOf, old
  <2>5. \A u \in Tables : SizeOf(i, u) \in Nat
    BY SizesAreNumbers
  <2>6. \A u \in Tables : u # t => SizeOf(j, u) = SizeOf(i, u)
    BY <1>8, <1>10 DEF SizeOf
  <2>7. \A u \in Tables : u # t => SizeOf(j, u) = SizeOf(i, u) + 0
    BY <2>5, <2>6
  <2> QED BY <2>4, <2>7
<1>14. \A x \in PendingMonos(j) : x \notin HeldMonos(j, "gaps")
  <2>1. t = "gaps" => row.mono \notin PendingMonos(i)
    BY DEF Monos, t
  <2>2. \A x \in PendingMonos(i) : x \notin HeldMonos(i, "gaps")
    BY DEF Kept
  <2>3. "gaps" \in Tables
    BY DEF Tables
  <2> QED BY <1>9, <1>11, <2>1, <2>2, <2>3
<1>15. \A u \in Tables : TableOK(j.hour.tables[u])
  BY <1>4, <1>7, <1>8 DEF Kept
<1>16. Kept(j)
  BY <1>8, <1>14, <1>15 DEF Kept
<1>17. SameCounts(i, j)
  BY <1>7, <1>8 DEF SameCounts
<1> QED BY <1>8, <1>12, <1>13, <1>16, <1>17 DEF Grown, t, j

LEMMA PostponeGrown ==
  ASSUME NEW i, Kept(i), NEW p \in PendingSet, p.row.table = "gaps",
         p.row.mono \notin Monos(i, "gaps")
  PROVE  Grown(i, Postpone(i, p), "gaps", 1, {p.row.mono})
<1> DEFINE q == i.seg.pending
           r == Append(q, p)
           s == [i.seg EXCEPT !.pending = r]
           j == Postpone(i, p)
<1>1. i \in Interps /\ i.seg \in SegmentSet /\ q \in Seq(PendingSet)
  BY DEF Kept, Interps, SegmentSet
<1>2. /\ r \in Seq(PendingSet) /\ Len(q) \in Nat /\ Len(r) = Len(q) + 1 /\ r[Len(q) + 1] = p
      /\ \A k \in 1 .. Len(q) : r[k] = q[k]
  <2> HIDE DEF q
  <2> QED BY <1>1, AppendProperties, LenProperties
<1>3. j = [i EXCEPT !.seg = s]
  BY <1>1 DEF Postpone, Interps
<1> HIDE DEF r, j
<1>4. s \in SegmentSet /\ s.pending = r /\ s.hour = i.seg.hour
  BY <1>1, <1>2 DEF SegmentSet
<1> HIDE DEF s
<1>5. j \in Interps /\ j.hour = i.hour /\ j.seg.pending = r /\ j.seg.hour = i.seg.hour
  BY <1>1, <1>3, <1>4 DEF Interps
<1>6. \A k \in 1 .. Len(r) : k \in 1 .. Len(q) \/ k = Len(q) + 1
  BY <1>2
<1>7. PendingMonos(j) = PendingMonos(i) \cup {p.row.mono}
  <2>1. \A k \in 1 .. Len(q) : k \in 1 .. Len(r)
    BY <1>2
  <2>2. Len(q) + 1 \in 1 .. Len(r)
    BY <1>2
  <2>3. PendingMonos(j) = {r[k].row.mono : k \in 1 .. Len(r)}
    BY <1>5 DEF PendingMonos
  <2>4. PendingMonos(i) = {q[k].row.mono : k \in 1 .. Len(q)}
    BY DEF PendingMonos
  <2> HIDE DEF q
  <2> QED BY <1>2, <1>6, <2>1, <2>2, <2>3, <2>4
<1>8. \A u : HeldMonos(j, u) = HeldMonos(i, u)
  BY <1>5 DEF HeldMonos
<1>9. \A u \in Tables : Monos(j, u) = Monos(i, u) \cup (IF u = "gaps" THEN {p.row.mono} ELSE {})
  BY <1>7, <1>8 DEF Monos
<1>10. \A u \in Tables : SizeOf(j, u) = SizeOf(i, u) + (IF u = "gaps" THEN 1 ELSE 0)
  <2>1. \A u \in Tables : Cardinality(Held(i.hour.tables[u])) \in Nat
    BY HeldFinite DEF Kept
  <2> SUFFICES ASSUME NEW u \in Tables
               PROVE  SizeOf(j, u) = SizeOf(i, u) + (IF u = "gaps" THEN 1 ELSE 0)
    OBVIOUS
  <2> DEFINE a == Cardinality(Held(i.hour.tables[u]))
             b == Len(q)
  <2>2. a \in Nat /\ b \in Nat
    BY <1>2, <2>1
  <2>3. SizeOf(i, u) = a + (IF u = "gaps" THEN b ELSE 0)
    BY DEF SizeOf
  <2>4. SizeOf(j, u) = a + (IF u = "gaps" THEN b + 1 ELSE 0)
    BY <1>2, <1>5 DEF SizeOf
  <2> HIDE DEF a, b
  <2> QED BY <2>2, <2>3, <2>4
<1>11. \A k \in 1 .. Len(r) : r[k].row.table = "gaps"
  <2>1. \A k \in 1 .. Len(q) : q[k].row.table = "gaps"
    BY DEF Kept
  <2> HIDE DEF q
  <2> QED BY <1>2, <1>6, <2>1
<1>12. \A k, l \in 1 .. Len(r) : r[k].row.mono = r[l].row.mono => k = l
  <2>1. \A k, l \in 1 .. Len(q) : q[k].row.mono = q[l].row.mono => k = l
    BY DEF Kept
  <2>2. \A k \in 1 .. Len(q) : q[k].row.mono # p.row.mono
    BY DEF Monos, PendingMonos
  <2> HIDE DEF q
  <2> QED BY <1>2, <1>6, <2>1, <2>2
<1>13. \A x \in PendingMonos(j) : x \notin HeldMonos(j, "gaps")
  <2>1. \A x \in PendingMonos(i) : x \notin HeldMonos(i, "gaps")
    BY DEF Kept
  <2>2. p.row.mono \notin HeldMonos(i, "gaps")
    BY DEF Monos
  <2> QED BY <1>7, <1>8, <2>1, <2>2
<1>14. \A u \in Tables : TableOK(j.hour.tables[u])
  BY <1>5 DEF Kept
<1>15. Kept(j)
  BY <1>5, <1>11, <1>12, <1>13, <1>14 DEF Kept
<1>16. SameCounts(i, j)
  BY <1>5 DEF SameCounts
<1> QED BY <1>9, <1>10, <1>15, <1>16 DEF Grown, j

-----------------------------------------------------------------------------
(* The gaps postponed: resolving and finishing write each of them once. *)

Unpended(i) == [i EXCEPT !.seg.pending = << >>]

(* Without the rows postponed, table gaps is that much smaller. *)
LEMMA UnpendedKept ==
  ASSUME NEW i, Kept(i)
  PROVE  /\ Kept(Unpended(i)) /\ SameCounts(i, Unpended(i))
         /\ \A u \in Tables : SizeOf(i, u) = SizeOf(Unpended(i), u)
                                + (IF u = "gaps" THEN Len(i.seg.pending) ELSE 0)
         /\ \A u \in Tables : Monos(i, u) = Monos(Unpended(i), u)
                                \cup (IF u = "gaps" THEN PendingMonos(i) ELSE {})
         /\ Monos(Unpended(i), "gaps") = HeldMonos(i, "gaps")
<1> DEFINE e == << >>
           s == [i.seg EXCEPT !.pending = e]
           j == Unpended(i)
<1>1. i \in Interps /\ i.seg \in SegmentSet /\ i.seg.pending \in Seq(PendingSet)
  BY DEF Kept, Interps, SegmentSet
<1>2. e \in Seq(PendingSet) /\ Len(e) = 0 /\ 1 .. 0 = {}
  OBVIOUS
<1>3. j = [i EXCEPT !.seg = s]
  BY <1>1 DEF Unpended, Interps
<1> HIDE DEF e, j
<1>4. s \in SegmentSet /\ s.pending = e /\ s.hour = i.seg.hour
  BY <1>1, <1>2 DEF SegmentSet
<1> HIDE DEF s
<1>5. j \in Interps /\ j.hour = i.hour /\ j.seg.pending = e /\ j.seg.hour = i.seg.hour
  BY <1>1, <1>3, <1>4 DEF Interps
<1>6. PendingMonos(j) = {} /\ \A u : HeldMonos(j, u) = HeldMonos(i, u)
  BY <1>2, <1>5 DEF PendingMonos, HeldMonos
<1>7. Kept(j)
  <2>1. \A u \in Tables : TableOK(j.hour.tables[u])
    BY <1>5 DEF Kept
  <2>2. \A k \in 1 .. Len(j.seg.pending) : FALSE
    BY <1>2, <1>5
  <2> QED BY <1>5, <1>6, <2>1, <2>2 DEF Kept
<1>8. ASSUME NEW u \in Tables
      PROVE  SizeOf(i, u) = SizeOf(j, u) + (IF u = "gaps" THEN Len(i.seg.pending) ELSE 0)
  <2> DEFINE a == Cardinality(Held(i.hour.tables[u]))
             b == Len(i.seg.pending)
  <2>1. a \in Nat /\ b \in Nat
    BY <1>1, HeldFinite, LenProperties DEF Kept
  <2>2. SizeOf(i, u) = a + (IF u = "gaps" THEN b ELSE 0)
    BY DEF SizeOf
  <2>3. SizeOf(j, u) = a + (IF u = "gaps" THEN 0 ELSE 0)
    BY <1>2, <1>5 DEF SizeOf
  <2> HIDE DEF a, b
  <2>4. SizeOf(i, u) = SizeOf(j, u) + (IF u = "gaps" THEN b ELSE 0)
    BY <2>1, <2>2, <2>3
  <2> QED BY <2>4 DEF b
<1>9. \A u \in Tables : Monos(i, u) = Monos(j, u) \cup (IF u = "gaps" THEN PendingMonos(i) ELSE {})
  BY <1>6 DEF Monos
<1>10. Monos(j, "gaps") = HeldMonos(i, "gaps")
  BY <1>6 DEF Monos
<1>11. SameCounts(i, j)
  BY <1>5 DEF SameCounts
<1> QED BY <1>7, <1>8, <1>9, <1>10, <1>11 DEF j

(* The instants of the first n rows postponed. *)
First(i, n) == {i.seg.pending[k].row.mono : k \in 1 .. n}

LEMMA NextPending ==
  ASSUME NEW i, Kept(i), NEW n \in 1 .. Len(i.seg.pending), NEW g,
         Monos(g, "gaps") = HeldMonos(i, "gaps") \cup First(i, n - 1)
  PROVE  /\ i.seg.pending[n] \in PendingSet /\ i.seg.pending[n].row.table = "gaps"
         /\ i.seg.pending[n].row.mono \notin Monos(g, "gaps")
         /\ First(i, n) = First(i, n - 1) \cup {i.seg.pending[n].row.mono}
<1> DEFINE q == i.seg.pending
           N == Len(q)
<1>1. q \in Seq(PendingSet)
  BY DEF Kept, Interps, SegmentSet
<1>2. N \in Nat /\ n \in 1 .. N
  BY <1>1, LenProperties
<1>3. q[n] \in PendingSet
  BY <1>1, ElementOfSeq
<1>4. q[n].row.table = "gaps" /\ q[n].row.mono \in PendingMonos(i)
  BY DEF Kept, PendingMonos
<1>5. \A k \in 1 .. n - 1 : k \in 1 .. N /\ k # n
  BY <1>2
<1>6. \A k \in 1 .. n - 1 : q[k].row.mono # q[n].row.mono
  <2>1. \A k, l \in 1 .. N : q[k].row.mono = q[l].row.mono => k = l
    BY DEF Kept
  <2> HIDE DEF q, N
  <2> QED BY <1>2, <1>5, <2>1
<1>7. q[n].row.mono \notin HeldMonos(i, "gaps")
  BY <1>4 DEF Kept
<1>8. 1 .. n = (1 .. n - 1) \cup {n}
  BY <1>2
<1>9. First(i, n) = First(i, n - 1) \cup {q[n].row.mono}
  BY <1>8 DEF First
<1>10. q[n].row.mono \notin First(i, n - 1)
  BY <1>6 DEF First
<1> QED BY <1>3, <1>4, <1>7, <1>9, <1>10

(* _resolve_gaps *)
LEMMA ResolveGapsGrown ==
  ASSUME NEW i, Kept(i), NEW r \in RecordSet, NEW t
  PROVE  Grown(i, ResolveGaps(i, r), t, 0, {})
<1> DEFINE q == i.seg.pending
           N == Len(q)
           g == Unpended(i)
           T == [n \in 0 .. N |-> {j \in Interps : Grown(g, j, "gaps", n, First(i, n))}]
<1>1. q \in Seq(PendingSet) /\ N \in Nat
  BY LenProperties DEF Kept, Interps, SegmentSet
<1>2. Kept(g) /\ Monos(g, "gaps") = HeldMonos(i, "gaps")
  BY UnpendedKept
<1>3. g \in T[0]
  <2>1. Grown(g, g, "gaps", 0, {})
    <3>1. Quiet(g, g)
      BY <1>2 DEF Quiet, Kept
    <3> QED BY <1>2, <3>1, QuietGrown
  <2>2. First(i, 0) = {}
    BY DEF First
  <2>3. 0 \in 0 .. N /\ g \in Interps
    BY <1>1, <1>2 DEF Kept
  <2> HIDE DEF N, g
  <2> QED BY <2>1, <2>2, <2>3
<1> HIDE DEF g
<1>4. ASSUME NEW n \in 1 .. Len(q), NEW j \in T[n - 1] PROVE ResolveStep(r, j, q[n]) \in T[n]
  <2>1. n \in 1 .. N /\ n - 1 \in 0 .. N /\ n \in 0 .. N /\ n - 1 \in Int /\ n - 1 + 1 = n
    BY <1>1
  <2>2. j \in Interps /\ Grown(g, j, "gaps", n - 1, First(i, n - 1)) /\ Kept(j)
    <3> HIDE DEF N
    <3>1. j \in Interps /\ Grown(g, j, "gaps", n - 1, First(i, n - 1))
      BY <2>1
    <3> QED BY <3>1 DEF Grown
  <2>3. Monos(j, "gaps") = HeldMonos(i, "gaps") \cup First(i, n - 1)
    <3>1. "gaps" \in Tables
      BY DEF Tables
    <3> QED BY <1>2, <2>2, <3>1 DEF Grown
  <2> DEFINE p == q[n]
             x == p.row.mono
             p2 == [p EXCEPT !.waiting = @ \ {r.market}]
             row == [p.row EXCEPT !.n = r.wall]
  <2>4. /\ p \in PendingSet /\ p.row.table = "gaps" /\ x \notin Monos(j, "gaps")
        /\ First(i, n) = First(i, n - 1) \cup {x}
    BY <2>3, NextPending
  <2> HIDE DEF p
  <2>5. p2 \in PendingSet /\ p2.row = p.row
    BY <2>4 DEF PendingSet
  <2>6. row \in Rows /\ row.table = "gaps" /\ row.mono = x
    <3>1. p.row \in Rows /\ r.wall \in Int
      BY <2>4 DEF PendingSet, RecordSet
    <3> QED BY <2>4, <3>1 DEF Rows
  <2>7. \/ ResolveStep(r, j, p) = Postpone(j, p) \/ ResolveStep(r, j, p) = Emit(j, row)
        \/ ResolveStep(r, j, p) = Postpone(j, p2)
    BY DEF ResolveStep, ResolveGap
  <2> HIDE DEF p2, row, x
  <2>8. Grown(j, ResolveStep(r, j, p), "gaps", 1, {x})
    BY <2>2, <2>4, <2>5, <2>6, <2>7, PostponeGrown, EmitGrown DEF x
  <2>9. Grown(g, ResolveStep(r, j, p), "gaps", n - 1 + 1, First(i, n - 1) \cup {x})
    BY <1>2, <2>1, <2>2, <2>8, GrownSteps
  <2>10. ResolveStep(r, j, p) \in Interps
    BY <2>8 DEF Grown, Kept
  <2> HIDE DEF N
  <2>11. Grown(g, ResolveStep(r, j, p), "gaps", n, First(i, n))
    BY <2>1, <2>4, <2>9
  <2> QED BY <2>1, <2>10, <2>11 DEF p
<1>5. \A j \in T[N] : Grown(g, j, "gaps", N, First(i, N))
  <2>1. N \in 0 .. N
    BY <1>1
  <2> HIDE DEF N
  <2> QED BY <2>1
<1> HIDE DEF T
<1>6. Resolving!Folded(r, g, q) \in T[Len(q)]
  <2> HIDE DEF N, q
  <2> QED BY <1>1, <1>3, <1>4, Climbing, Resolving!FoldInvariant
<1> DEFINE k == ResolveGaps(i, r)
<1>7. k = Resolving!Folded(r, g, q)
  BY Folds DEF g, Unpended
<1> HIDE DEF k
<1>8. Grown(g, k, "gaps", N, PendingMonos(i))
  <2>1. First(i, N) = PendingMonos(i)
    BY DEF First, PendingMonos
  <2> QED BY <1>5, <1>6, <1>7, <2>1
<1>9. \A u \in Tables : SizeOf(k, u) = SizeOf(i, u) + (IF u = t THEN 0 ELSE 0)
  <2>1. \A u \in Tables : SizeOf(k, u) = SizeOf(g, u) + (IF u = "gaps" THEN N ELSE 0)
    BY <1>8 DEF Grown
  <2>2. \A u \in Tables : SizeOf(i, u) = SizeOf(g, u) + (IF u = "gaps" THEN N ELSE 0)
    BY UnpendedKept DEF g
  <2>3. \A u \in Tables : SizeOf(i, u) \in Int
    BY SizesAreNumbers
  <2>4. \A u \in Tables : SizeOf(k, u) = SizeOf(i, u)
    BY <2>1, <2>2
  <2> QED BY <2>3, <2>4
<1>10. \A u \in Tables : Monos(k, u) = Monos(i, u)
  <2>1. \A u \in Tables : Monos(k, u) = Monos(g, u) \cup (IF u = "gaps" THEN PendingMonos(i) ELSE {})
    BY <1>8 DEF Grown
  <2>2. \A u \in Tables : Monos(i, u) = Monos(g, u) \cup (IF u = "gaps" THEN PendingMonos(i) ELSE {})
    BY UnpendedKept DEF g
  <2> QED BY <2>1, <2>2
<1>11. SameCounts(i, k) /\ Kept(k)
  <2>1. SameCounts(i, g) /\ SameCounts(g, k) /\ Kept(k)
    BY <1>8, UnpendedKept DEF g, Grown
  <2> QED BY <2>1 DEF SameCounts
<1> QED BY <1>9, <1>10, <1>11 DEF Grown, k

(* finish: the gaps that are still open are written. *)
LEMMA PendingEmitted ==
  ASSUME NEW i, Kept(i), NEW j, Quiet(i, j)
  PROVE  LET k == FoldLeft(LAMBDA k, p : Emit(k, p.row), j, i.seg.pending)
             f == [hour |-> k.hour, seg |-> NoSegment]
         IN /\ Kept(f) /\ \A u \in Tables : SizeOf(f, u) = SizeOf(i, u) /\ Monos(f, u) = Monos(i, u)
            /\ f.hour.baked = i.hour.baked /\ f.hour.records = i.hour.records
            /\ f.hour.notBaked = i.hour.notBaked /\ f.hour.failures = i.hour.failures
<1> DEFINE q == i.seg.pending
           N == Len(q)
           g == Unpended(j)
           Of(k) == [hour |-> k.hour, seg |-> g.seg]
           T == [n \in 0 .. N |-> {k \in Interps : Grown(g, Of(k), "gaps", n, First(i, n))}]
<1>1. q \in Seq(PendingSet) /\ N \in Nat
  BY LenProperties DEF Kept, Interps, SegmentSet
<1>2. Grown(i, j, "none", 0, {}) /\ Kept(j) /\ j.seg.pending = q /\ j \in Interps
  BY QuietGrown DEF Grown, Quiet
<1>3. Kept(g) /\ Monos(g, "gaps") = HeldMonos(j, "gaps")
  BY <1>2, UnpendedKept
<1>4. HeldMonos(j, "gaps") = HeldMonos(i, "gaps")
  BY DEF Quiet, HeldMonos
<1>5. g.seg \in SegmentSet /\ g.hour = j.hour /\ g \in Interps
  <2>1. g.hour = j.hour
    BY <1>2 DEF Unpended, Interps
  <2> QED BY <1>3, <2>1 DEF Kept, Interps
<1>6. j \in T[0]
  <2>1. Grown(g, g, "gaps", 0, {})
    <3>1. Quiet(g, g)
      BY <1>3 DEF Quiet, Kept
    <3> QED BY <1>3, <3>1, QuietGrown
  <2>2. First(i, 0) = {}
    BY DEF First
  <2>3. 0 \in 0 .. N
    BY <1>1
  <2> HIDE DEF N, g
  <2>4. Of(j) = g
    BY <1>5 DEF Interps
  <2> HIDE DEF Of
  <2> QED BY <1>2, <2>1, <2>2, <2>3, <2>4
<1> HIDE DEF g
<1>7. ASSUME NEW n \in 1 .. Len(q), NEW k \in T[n - 1] PROVE EmitStep(0, k, q[n]) \in T[n]
  <2>1. n \in 1 .. N /\ n - 1 \in 0 .. N /\ n \in 0 .. N /\ n - 1 \in Int /\ n - 1 + 1 = n
    BY <1>1
  <2>2. k \in Interps /\ Grown(g, Of(k), "gaps", n - 1, First(i, n - 1)) /\ Kept(Of(k))
    <3> HIDE DEF N, Of
    <3>1. k \in Interps /\ Grown(g, Of(k), "gaps", n - 1, First(i, n - 1))
      BY <2>1
    <3> QED BY <3>1 DEF Grown
  <2>3. Monos(Of(k), "gaps") = HeldMonos(i, "gaps") \cup First(i, n - 1)
    <3>1. "gaps" \in Tables
      BY DEF Tables
    <3> HIDE DEF Of
    <3> QED BY <1>3, <1>4, <2>2, <3>1 DEF Grown
  <2> DEFINE row == q[n].row
             x == row.mono
             h == Emit(k, row).hour
  <2>4. /\ row \in Rows /\ row.table = "gaps" /\ x \notin Monos(Of(k), "gaps")
        /\ First(i, n) = First(i, n - 1) \cup {x}
    <3>1. /\ q[n] \in PendingSet /\ q[n].row.table = "gaps" /\ q[n].row.mono \notin Monos(Of(k), "gaps")
          /\ First(i, n) = First(i, n - 1) \cup {q[n].row.mono}
      <4> HIDE DEF Of
      <4> QED BY <2>3, NextPending
    <3> QED BY <3>1 DEF PendingSet
  <2> HIDE DEF row
  <2>5. Emit(Of(k), row) = [hour |-> h, seg |-> g.seg]
    BY <2>2 DEF Emit, Interps
  <2>6. Emit(k, row).seg = k.seg /\ Emit(k, row) = [hour |-> h, seg |-> k.seg]
    BY <2>2 DEF Emit, Interps
  <2> HIDE DEF x, h
  <2>7. Of(Emit(k, row)) = Emit(Of(k), row)
    BY <2>5, <2>6
  <2> HIDE DEF Of, N
  <2>8. Grown(Of(k), Of(Emit(k, row)), "gaps", 1, {x})
    BY <2>2, <2>4, <2>7, EmitGrown DEF x
  <2>9. Grown(g, Of(Emit(k, row)), "gaps", n - 1 + 1, First(i, n - 1) \cup {x})
    BY <1>3, <2>1, <2>2, <2>8, GrownSteps
  <2>10. Emit(k, row) \in Interps
    <3>1. Of(Emit(k, row)) \in Interps
      BY <2>8 DEF Grown, Kept
    <3>2. h \in HourSet
      BY <2>5, <2>7, <3>1 DEF Interps
    <3> QED BY <2>2, <2>6, <3>2 DEF Interps
  <2>11. Grown(g, Of(Emit(k, row)), "gaps", n, First(i, n))
    BY <2>1, <2>4, <2>9
  <2> QED BY <2>1, <2>10, <2>11 DEF EmitStep, row
<1>8. \A k \in T[N] : k \in Interps /\ Grown(g, Of(k), "gaps", N, First(i, N))
  <2>1. N \in 0 .. N
    BY <1>1
  <2> HIDE DEF N, Of
  <2> QED BY <2>1
<1> HIDE DEF T
<1>9. Emitting!Folded(0, j, q) \in T[Len(q)]
  <2> HIDE DEF N, q, Of
  <2> QED BY <1>1, <1>6, <1>7, Climbing, Emitting!FoldInvariant
<1> DEFINE k == FoldLeft(LAMBDA k, p : Emit(k, p.row), j, i.seg.pending)
           f == [hour |-> k.hour, seg |-> NoSegment]
<1>10. k = Emitting!Folded(0, j, q)
  BY Folds
<1> HIDE DEF k
<1>11. k \in Interps /\ Grown(g, Of(k), "gaps", N, PendingMonos(i))
  <2>1. First(i, N) = PendingMonos(i)
    BY DEF First, PendingMonos
  <2> HIDE DEF Of
  <2> QED BY <1>8, <1>9, <1>10, <2>1
<1>12. NoSegment \in SegmentSet /\ NoSegment.pending = << >>
  <2>1. NoMarket \in MarketSet
    BY DEF NoMarket, MarketSet, None
  <2> QED BY <2>1 DEF NoSegment, SegmentSet, None
<1>13. /\ Of(k).hour = k.hour /\ Of(k).seg = g.seg /\ g.seg.pending = << >>
       /\ f \in Interps /\ f.hour = k.hour /\ f.seg.pending = << >>
  <2>1. g.seg.pending = << >>
    BY <1>2 DEF g, Unpended, Interps, SegmentSet
  <2> QED BY <1>11, <1>12, <2>1 DEF Interps
<1> HIDE DEF f
<1>14. /\ PendingMonos(f) = PendingMonos(Of(k)) /\ \A u : HeldMonos(f, u) = HeldMonos(Of(k), u)
       /\ \A u : SizeOf(f, u) = SizeOf(Of(k), u)
  BY <1>13 DEF PendingMonos, HeldMonos, SizeOf
<1>15. Kept(f)
  <2>1. Kept(Of(k))
    BY <1>11 DEF Grown
  <2> HIDE DEF Of
  <2> QED BY <1>13, <1>14, <2>1 DEF Kept
<1> HIDE DEF Of
<1>16. ASSUME NEW u \in Tables PROVE SizeOf(f, u) = SizeOf(i, u) /\ Monos(f, u) = Monos(i, u)
  <2>1. /\ SizeOf(Of(k), u) = SizeOf(g, u) + (IF u = "gaps" THEN N ELSE 0)
        /\ Monos(Of(k), u) = Monos(g, u) \cup (IF u = "gaps" THEN PendingMonos(i) ELSE {})
    BY <1>11 DEF Grown
  <2>2. /\ SizeOf(j, u) = SizeOf(g, u) + (IF u = "gaps" THEN N ELSE 0)
        /\ Monos(j, u) = Monos(g, u) \cup (IF u = "gaps" THEN PendingMonos(j) ELSE {})
    BY <1>2, UnpendedKept DEF g
  <2>3. SizeOf(j, u) = SizeOf(i, u) /\ PendingMonos(j) = PendingMonos(i) /\ Monos(j, u) = Monos(i, u)
    BY DEF Quiet, SizeOf, PendingMonos, Monos, HeldMonos
  <2>4. Monos(f, u) = Monos(Of(k), u)
    BY <1>14 DEF Monos
  <2> QED BY <1>14, <2>1, <2>2, <2>3, <2>4
<1>17. SameCounts(g, Of(k)) /\ SameCounts(j, g)
  BY <1>2, <1>11, UnpendedKept DEF g, Grown
<1>18. /\ f.hour.baked = i.hour.baked /\ f.hour.records = i.hour.records
       /\ f.hour.notBaked = i.hour.notBaked /\ f.hour.failures = i.hour.failures
  BY <1>13, <1>17 DEF SameCounts, Quiet
<1> QED BY <1>15, <1>16, <1>18 DEF f, k

-----------------------------------------------------------------------------
(* A record is counted once, and the row it has is one more of its table. *)

SameRows(i, j) ==
  /\ j \in Interps /\ j.hour.tables = i.hour.tables
  /\ j.seg.pending = i.seg.pending /\ j.seg.hour = i.seg.hour

LEMMA RowsAlike ==
  ASSUME NEW i, Kept(i), NEW j, SameRows(i, j)
  PROVE  Kept(j) /\ \A u \in Tables : SizeOf(j, u) = SizeOf(i, u) /\ Monos(j, u) = Monos(i, u)
<1>1. PendingMonos(j) = PendingMonos(i) /\ \A u : HeldMonos(j, u) = HeldMonos(i, u)
  BY DEF SameRows, PendingMonos, HeldMonos
<1>2. Kept(j)
  BY <1>1 DEF SameRows, Kept
<1> QED BY <1>1, <1>2 DEF SameRows, Monos, SizeOf

Read(i, j, t, x) ==
  /\ Kept(j) /\ j.seg.hour = i.seg.hour /\ j.hour.records = i.hour.records
  /\ \A u \in Tables : SizeOf(j, u) = SizeOf(i, u) + (IF u = t THEN 1 ELSE 0)
  /\ \A u \in Tables : Monos(j, u) = Monos(i, u) \cup (IF u = t THEN {x} ELSE {})
  /\ \A u \in Tables : j.hour.baked[u] = i.hour.baked[u] + (IF u = t THEN 1 ELSE 0)
  /\ j.hour.notBaked + j.hour.failures
       = i.hour.notBaked + i.hour.failures + (IF t \in Tables THEN 0 ELSE 1)

LEMMA QuietRead ==
  ASSUME NEW i, Kept(i), NEW j, Quiet(i, j), NEW k, NEW t, NEW x, Read(j, k, t, x)
  PROVE  Read(i, k, t, x)
<1>1. SameRows(i, j)
  BY DEF Quiet, SameRows
<1>2. \A u \in Tables : SizeOf(j, u) = SizeOf(i, u) /\ Monos(j, u) = Monos(i, u)
  BY <1>1, RowsAlike
<1> QED BY <1>2 DEF Quiet, Read

LEMMA ReadQuiet ==
  ASSUME NEW i, NEW j, NEW k, Quiet(j, k), NEW t, NEW x, Read(i, j, t, x)
  PROVE  Read(i, k, t, x)
<1>1. SameRows(j, k) /\ Kept(j)
  BY DEF Quiet, SameRows, Read
<1>2. Kept(k) /\ \A u \in Tables : SizeOf(k, u) = SizeOf(j, u) /\ Monos(k, u) = Monos(j, u)
  BY <1>1, RowsAlike
<1> QED BY <1>2 DEF Quiet, Read

LEMMA BumpRows ==
  ASSUME NEW i \in Interps, NEW c \in {"records", "notBaked", "failures"}
  PROVE  /\ SameRows(i, Bump(i, c)) /\ Bump(i, c).hour.baked = i.hour.baked
         /\ Bump(i, c).hour.records = i.hour.records + (IF c = "records" THEN 1 ELSE 0)
         /\ Bump(i, c).hour.notBaked = i.hour.notBaked + (IF c = "notBaked" THEN 1 ELSE 0)
         /\ Bump(i, c).hour.failures = i.hour.failures + (IF c = "failures" THEN 1 ELSE 0)
<1> DEFINE j == Bump(i, c)
           n == i.hour[c] + 1
           h == [i.hour EXCEPT ![c] = n]
<1>1. i.hour \in HourSet /\ i.seg \in SegmentSet
  BY DEF Interps
<1>2. i.hour.records \in Nat /\ i.hour.notBaked \in Nat /\ i.hour.failures \in Nat
  BY <1>1 DEF HourSet
<1>3. j = [i EXCEPT !.hour = h]
  BY DEF Bump, Interps
<1>4. n \in Nat /\ n = i.hour[c] + 1
  BY <1>2
<1> HIDE DEF n, j
<1>5. /\ h \in HourSet /\ h.tables = i.hour.tables /\ h.baked = i.hour.baked
      /\ h.records = (IF c = "records" THEN n ELSE i.hour.records)
      /\ h.notBaked = (IF c = "notBaked" THEN n ELSE i.hour.notBaked)
      /\ h.failures = (IF c = "failures" THEN n ELSE i.hour.failures)
  <2>1. CASE c = "records"
    BY <1>1, <1>4, <2>1 DEF HourSet
  <2>2. CASE c = "notBaked"
    BY <1>1, <1>4, <2>2 DEF HourSet
  <2>3. CASE c = "failures"
    BY <1>1, <1>4, <2>3 DEF HourSet
  <2> QED BY <2>1, <2>2, <2>3
<1> HIDE DEF h
<1>6. j \in Interps /\ j.hour = h /\ j.seg = i.seg
  BY <1>1, <1>3, <1>5 DEF Interps
<1>7. SameRows(i, j)
  BY <1>5, <1>6 DEF SameRows
<1>8. /\ h.records = i.hour.records + (IF c = "records" THEN 1 ELSE 0)
      /\ h.notBaked = i.hour.notBaked + (IF c = "notBaked" THEN 1 ELSE 0)
      /\ h.failures = i.hour.failures + (IF c = "failures" THEN 1 ELSE 0)
  <2>1. CASE c = "records"
    BY <1>2, <1>4, <1>5, <2>1
  <2>2. CASE c = "notBaked"
    BY <1>2, <1>4, <1>5, <2>2
  <2>3. CASE c = "failures"
    BY <1>2, <1>4, <1>5, <2>3
  <2> QED BY <2>1, <2>2, <2>3
<1> QED BY <1>5, <1>6, <1>7, <1>8 DEF j

LEMMA BumpRead ==
  ASSUME NEW i, Kept(i), NEW c \in {"notBaked", "failures"}, NEW x
  PROVE  Read(i, Bump(i, c), "none", x)
<1> DEFINE j == Bump(i, c)
<1>1. /\ i \in Interps /\ i.hour.notBaked \in Nat /\ i.hour.failures \in Nat /\ i.hour.records \in Nat
      /\ \A u \in Tables : i.hour.baked[u] \in Nat
  BY DEF Kept, Interps, HourSet
<1>2. /\ SameRows(i, j) /\ j.hour.baked = i.hour.baked /\ j.hour.records = i.hour.records
      /\ j.hour.notBaked = i.hour.notBaked + (IF c = "notBaked" THEN 1 ELSE 0)
      /\ j.hour.failures = i.hour.failures + (IF c = "failures" THEN 1 ELSE 0)
  <2>1. c \in {"records", "notBaked", "failures"} /\ c # "records"
    OBVIOUS
  <2>2. /\ SameRows(i, j) /\ j.hour.baked = i.hour.baked
        /\ j.hour.records = i.hour.records + (IF c = "records" THEN 1 ELSE 0)
        /\ j.hour.notBaked = i.hour.notBaked + (IF c = "notBaked" THEN 1 ELSE 0)
        /\ j.hour.failures = i.hour.failures + (IF c = "failures" THEN 1 ELSE 0)
    BY <1>1, <2>1, BumpRows
  <2> QED BY <1>1, <2>1, <2>2
<1> HIDE DEF j
<1>3. Kept(j) /\ \A u \in Tables : SizeOf(j, u) = SizeOf(i, u) /\ Monos(j, u) = Monos(i, u)
  BY <1>2, RowsAlike
<1>4. j.hour.notBaked + j.hour.failures = i.hour.notBaked + i.hour.failures + 1
  <2>1. CASE c = "notBaked"
    BY <1>1, <1>2, <2>1
  <2>2. CASE c = "failures"
    BY <1>1, <1>2, <2>2
  <2> QED BY <2>1, <2>2
<1>5. \A u \in Tables : u # "none"
  BY DEF Tables
<1>6. \A u \in Tables : SizeOf(i, u) \in Nat
  BY SizesAreNumbers
<1>7. "none" \notin Tables
  BY <1>5
<1>8. j.seg.hour = i.seg.hour
  BY <1>2 DEF SameRows
<1>9. ASSUME NEW u \in Tables
      PROVE  /\ SizeOf(j, u) = SizeOf(i, u) + (IF u = "none" THEN 1 ELSE 0)
             /\ Monos(j, u) = Monos(i, u) \cup (IF u = "none" THEN {x} ELSE {})
             /\ j.hour.baked[u] = i.hour.baked[u] + (IF u = "none" THEN 1 ELSE 0)
  BY <1>1, <1>2, <1>3, <1>5, <1>6
<1> QED BY <1>2, <1>3, <1>4, <1>7, <1>8, <1>9 DEF Read, j

LEMMA BakedRows ==
  ASSUME NEW i \in Interps, NEW t \in Tables
  PROVE  /\ SameRows(i, BumpBaked(i, t)) /\ BumpBaked(i, t).hour.records = i.hour.records
         /\ BumpBaked(i, t).hour.notBaked = i.hour.notBaked
         /\ BumpBaked(i, t).hour.failures = i.hour.failures
         /\ \A u \in Tables : /\ i.hour.baked[u] \in Nat
                              /\ BumpBaked(i, t).hour.baked[u]
                                   = i.hour.baked[u] + (IF u = t THEN 1 ELSE 0)
<1> DEFINE j == BumpBaked(i, t)
           b == [i.hour.baked EXCEPT ![t] = @ + 1]
           h == [i.hour EXCEPT !.baked = b]
<1>1. i.hour \in HourSet /\ i.seg \in SegmentSet /\ i.hour.baked \in [Tables -> Nat]
  BY DEF Interps, HourSet
<1>2. j = [i EXCEPT !.hour = h]
  BY DEF BumpBaked, Interps, HourSet
<1>3. b \in [Tables -> Nat] /\ \A u \in Tables : b[u] = i.hour.baked[u] + (IF u = t THEN 1 ELSE 0)
  BY <1>1
<1> HIDE DEF b, j
<1>4. /\ h \in HourSet /\ h.tables = i.hour.tables /\ h.baked = b /\ h.records = i.hour.records
      /\ h.notBaked = i.hour.notBaked /\ h.failures = i.hour.failures
  BY <1>1, <1>3 DEF HourSet
<1> HIDE DEF h
<1>5. j \in Interps /\ j.hour = h /\ j.seg = i.seg
  BY <1>1, <1>2, <1>4 DEF Interps
<1>6. SameRows(i, j)
  BY <1>4, <1>5 DEF SameRows
<1> QED BY <1>1, <1>3, <1>4, <1>5, <1>6 DEF j

LEMMA GrownRead ==
  ASSUME NEW i, Kept(i), NEW j, NEW t \in Tables, NEW x, Grown(i, j, t, 1, {x})
  PROVE  Read(i, BumpBaked(j, t), t, x)
<1> DEFINE k == BumpBaked(j, t)
<1>1. /\ Kept(j) /\ j \in Interps /\ j.hour.baked = i.hour.baked /\ j.hour.records = i.hour.records
      /\ j.hour.notBaked = i.hour.notBaked /\ j.hour.failures = i.hour.failures
      /\ j.seg.hour = i.seg.hour
  BY DEF Grown, SameCounts, Kept
<1>2. /\ SameRows(j, k) /\ k.hour.records = j.hour.records
      /\ k.hour.notBaked = j.hour.notBaked /\ k.hour.failures = j.hour.failures
      /\ \A u \in Tables : k.hour.baked[u] = j.hour.baked[u] + (IF u = t THEN 1 ELSE 0)
  BY <1>1, BakedRows
<1> HIDE DEF k
<1>3. Kept(k) /\ \A u \in Tables : SizeOf(k, u) = SizeOf(j, u) /\ Monos(k, u) = Monos(j, u)
  BY <1>1, <1>2, RowsAlike
<1>4. k.seg.hour = i.seg.hour
  BY <1>1, <1>2 DEF SameRows
<1>5. k.hour.notBaked + k.hour.failures = i.hour.notBaked + i.hour.failures + 0
  <2>1. i.hour.notBaked \in Nat /\ i.hour.failures \in Nat
    BY DEF Kept, Interps, HourSet
  <2> QED BY <1>1, <1>2, <2>1
<1> QED BY <1>1, <1>2, <1>3, <1>4, <1>5 DEF Read, Grown, k

LEMMA ReadGrown ==
  ASSUME NEW i, Kept(i), NEW k, NEW t \in Tables, NEW x, Grown(BumpBaked(i, t), k, t, 1, {x})
  PROVE  Read(i, k, t, x)
<1> DEFINE j == BumpBaked(i, t)
<1>1. /\ SameRows(i, j) /\ j.hour.records = i.hour.records
      /\ j.hour.notBaked = i.hour.notBaked /\ j.hour.failures = i.hour.failures
      /\ \A u \in Tables : j.hour.baked[u] = i.hour.baked[u] + (IF u = t THEN 1 ELSE 0)
  BY BakedRows DEF Kept
<1>2. \A u \in Tables : SizeOf(j, u) = SizeOf(i, u) /\ Monos(j, u) = Monos(i, u)
  BY <1>1, RowsAlike
<1>3. Grown(j, k, t, 1, {x})
  OBVIOUS
<1> HIDE DEF j
<1>4. /\ Kept(k) /\ k.hour.baked = j.hour.baked /\ k.hour.records = j.hour.records
      /\ k.hour.notBaked = j.hour.notBaked /\ k.hour.failures = j.hour.failures
      /\ k.seg.hour = j.seg.hour
  BY <1>3 DEF Grown, SameCounts
<1>5. k.seg.hour = i.seg.hour
  BY <1>1, <1>4 DEF SameRows
<1>6. k.hour.notBaked + k.hour.failures = i.hour.notBaked + i.hour.failures + 0
  <2>1. i.hour.notBaked \in Nat /\ i.hour.failures \in Nat
    BY DEF Kept, Interps, HourSet
  <2> QED BY <1>1, <1>4, <2>1
<1>7. \A u \in Tables : k.hour.baked[u] = i.hour.baked[u] + (IF u = t THEN 1 ELSE 0)
  BY <1>1, <1>4
<1> QED BY <1>1, <1>2, <1>3, <1>4, <1>5, <1>6, <1>7 DEF Read, Grown

-----------------------------------------------------------------------------
(* What each record does to the rows and the counts. *)

LEMMA RowOf ==
  ASSUME NEW r \in RecordSet, NEW t \in Tables, NEW m \in Buckets, NEW n \in Int
  PROVE  Row(t, m, r, n) \in Rows /\ Row(t, m, r, n).table = t /\ Row(t, m, r, n).mono = r.mono
BY DEF Row, Rows, RecordSet

LEMMA SidQuiet ==
  ASSUME NEW i \in Interps, NEW r \in RecordSet
  PROVE  Quiet(i, [i EXCEPT !.seg.sids = @ \cup {r.sid}])
<1> DEFINE s == [i.seg EXCEPT !.sids = @ \cup {r.sid}]
<1>1. i.seg \in SegmentSet /\ r.sid \in Int
  BY DEF Interps, RecordSet
<1>2. s \in SegmentSet /\ s.pending = i.seg.pending /\ s.hour = i.seg.hour
  BY <1>1 DEF SegmentSet
<1>3. [i EXCEPT !.seg.sids = @ \cup {r.sid}] = [i EXCEPT !.seg = s]
  BY <1>1 DEF Interps, SegmentSet
<1> HIDE DEF s
<1> QED BY <1>2, <1>3, SegmentQuiet

LEMMA QuietEmit ==
  ASSUME NEW i, Kept(i), NEW j, Quiet(i, j), NEW row \in Rows, row.mono \notin Monos(i, row.table)
  PROVE  Kept(j) /\ Grown(j, Emit(j, row), row.table, 1, {row.mono})
<1>1. row.table \in Tables
  BY DEF Rows
<1>2. SameRows(i, j)
  BY DEF Quiet, SameRows
<1>3. Kept(j) /\ \A u \in Tables : Monos(j, u) = Monos(i, u)
  BY <1>2, RowsAlike
<1>4. row.mono \notin Monos(j, row.table)
  BY <1>1, <1>3
<1> QED BY <1>3, <1>4, EmitGrown

LEMMA KeptQuiet == \A i : Kept(i) => Quiet(i, i) /\ i \in Interps
BY DEF Kept, Quiet

LEMMA InMarkets ==
  ASSUME NEW r \in RecordSet, r.kind \in {"delta", "snapshot", "trade", "audit", "delete_markets"}
  PROVE  r.market \in Markets /\ r.market \in Buckets
BY DEF RecordSet, Buckets

LEMMA DeltaRead ==
  ASSUME NEW i, Kept(i), NEW r \in RecordSet, r.kind = "delta", r.mono \notin Monos(i, "deltas")
  PROVE  Read(i, Delta(i, r), "deltas", r.mono)
<1> DEFINE a == [i EXCEPT !.seg.sids = @ \cup {r.sid}]
           b == Observe(a, r)
           row == Row("deltas", r.market, r, 1)
<1>1. r.market \in Markets /\ r.market \in Buckets /\ "deltas" \in Tables
  BY InMarkets DEF Tables
<1>2. Quiet(i, a) /\ a \in Interps
  BY KeptQuiet, SidQuiet DEF Quiet
<1>3. Delta(i, r) = BumpBaked(Emit(b, row), "deltas")
  BY DEF Delta
<1> HIDE DEF a
<1>4. Quiet(i, b)
  BY <1>1, <1>2, ObserveQuiet, QuietSteps
<1>5. row \in Rows /\ row.table = "deltas" /\ row.mono = r.mono
  BY <1>1, RowOf
<1> HIDE DEF b, row
<1>6. Kept(b) /\ Grown(b, Emit(b, row), "deltas", 1, {r.mono})
  BY <1>4, <1>5, QuietEmit
<1>7. Read(b, BumpBaked(Emit(b, row), "deltas"), "deltas", r.mono)
  BY <1>1, <1>6, GrownRead
<1> QED BY <1>3, <1>4, <1>7, QuietRead

(* Trades and audits. *)
LEMMA RowRead ==
  ASSUME NEW i, Kept(i), NEW r \in RecordSet, r.kind \in {"trade", "audit"}, NEW t \in Tables,
         r.mono \notin Monos(i, t)
  PROVE  Read(i, BumpBaked(Emit(i, Row(t, r.market, r, 0)), t), t, r.mono)
<1> DEFINE row == Row(t, r.market, r, 0)
<1>1. r.market \in Buckets
  BY InMarkets
<1>2. row \in Rows /\ row.table = t /\ row.mono = r.mono
  BY <1>1, RowOf
<1> HIDE DEF row
<1>3. Grown(i, Emit(i, row), t, 1, {r.mono})
  BY <1>2, EmitGrown
<1>4. Read(i, BumpBaked(Emit(i, row), t), t, r.mono)
  BY <1>3, GrownRead
<1> QED BY <1>4 DEF row

LEMMA SnapshotRead ==
  ASSUME NEW i, Kept(i), NEW r \in RecordSet, r.kind = "snapshot", r.mono \notin Monos(i, "snapshots")
  PROVE  Read(i, Snapshot(i, r), "snapshots", r.mono)
<1> DEFINE a == [i EXCEPT !.seg.sids = @ \cup {r.sid}]
           j == Observe(a, r)
           since == j.seg.markets[r.market].stale
           booked == BookTime(j, 0, r.wall - since)
           k == IF since = None THEN j ELSE [booked EXCEPT !.seg.markets[r.market].stale = None]
           row == Row("snapshots", r.market, r, r.n)
           e == Emit(k, row)
           f == ResolveGaps(e, r)
<1>1. r.market \in Markets /\ r.market \in Buckets /\ "snapshots" \in Tables /\ r.n \in Int /\ r.wall \in Int
  BY InMarkets DEF Tables, RecordSet
<1>2. Quiet(i, a) /\ a \in Interps
  BY KeptQuiet, SidQuiet DEF Quiet
<1>3. Snapshot(i, r) = BumpBaked(f, "snapshots")
  BY DEF Snapshot
<1> HIDE DEF a
<1>4. Quiet(i, j) /\ j \in Interps
  BY <1>1, <1>2, ObserveQuiet, QuietSteps DEF Quiet
<1>5. row \in Rows /\ row.table = "snapshots" /\ row.mono = r.mono
  BY <1>1, RowOf
<1> HIDE DEF j, row
<1>6. Quiet(i, k)
  <2>1. since \in Int
    BY <1>1, <1>4 DEF Interps, SegmentSet, MarketSet
  <2> DEFINE d == r.wall - since
  <2>2. d \in Int /\ 0 \in Int
    BY <1>1, <2>1
  <2> HIDE DEF d, since
  <2>3. Quiet(j, booked) /\ booked \in Interps
    BY <1>4, <2>2, BookTimeQuiet DEF d, Quiet
  <2> HIDE DEF booked
  <2> DEFINE v == [booked.seg.markets[r.market] EXCEPT !.stale = None]
  <2>4. v \in MarketSet
    <3>1. booked.seg.markets[r.market] \in MarketSet
      BY <1>1, <2>3 DEF Interps, SegmentSet
    <3> QED BY <3>1 DEF MarketSet, None
  <2>5. [booked EXCEPT !.seg.markets[r.market].stale = None] = [booked EXCEPT !.seg.markets[r.market] = v]
    BY <2>3 DEF Interps, SegmentSet
  <2> HIDE DEF v
  <2>6. Quiet(booked, [booked EXCEPT !.seg.markets[r.market] = v])
    BY <1>1, <2>3, <2>4, MarketQuiet
  <2> QED BY <1>4, <2>3, <2>5, <2>6, QuietSteps
<1> HIDE DEF k
<1>7. Kept(k) /\ Grown(k, e, "snapshots", 1, {r.mono})
  BY <1>5, <1>6, QuietEmit
<1> HIDE DEF e
<1>8. Grown(e, f, "snapshots", 0, {})
  BY <1>7, ResolveGapsGrown DEF Grown
<1>9. Grown(k, f, "snapshots", 1 + 0, {r.mono} \cup {})
  <2> HIDE DEF f
  <2> QED BY <1>7, <1>8, GrownSteps
<1>10. 1 + 0 = 1 /\ {r.mono} \cup {} = {r.mono}
  OBVIOUS
<1> HIDE DEF f
<1>11. Read(k, BumpBaked(f, "snapshots"), "snapshots", r.mono)
  BY <1>1, <1>7, <1>9, <1>10, GrownRead
<1> QED BY <1>3, <1>6, <1>11, QuietRead

LEMMA GapRead ==
  ASSUME NEW i, Kept(i), NEW r \in RecordSet, r.kind = "gap", r.mono \notin Monos(i, "gaps")
  PROVE  Read(i, Gap(i, r), "gaps", r.mono)
<1> DEFINE hit == IF r.sid \in i.seg.sids
                  THEN {m \in Markets : i.seg.markets[m].on /\ i.seg.markets[m].sid = r.sid} ELSE {}
           row == Row("gaps", None, r, None)
           staled == [m \in Markets |->
                        IF m \in hit /\ i.seg.markets[m].stale = None
                        THEN [i.seg.markets[m] EXCEPT !.stale = r.wall] ELSE i.seg.markets[m]]
           j == BumpBaked(i, "gaps")
           s == [j.seg EXCEPT !.markets = staled]
           k == [j EXCEPT !.seg = s]
           p == [row |-> row, waiting |-> hit]
<1>1. /\ "gaps" \in Tables /\ None \in Buckets /\ None \in Int /\ i \in Interps /\ r.wall \in Int
      /\ i.seg.markets \in [Markets -> MarketSet]
  BY DEF Tables, Buckets, None, Kept, RecordSet, Interps, SegmentSet
<1>2. row \in Rows /\ row.table = "gaps" /\ row.mono = r.mono
  BY <1>1, RowOf
<1>3. hit \in SUBSET Markets
  OBVIOUS
<1> HIDE DEF row, hit
<1>4. staled \in [Markets -> MarketSet]
  <2>1. ASSUME NEW m \in Markets PROVE staled[m] \in MarketSet
    BY <1>1 DEF MarketSet
  <2> QED BY <2>1
<1>5. p \in PendingSet /\ p.row = row
  BY <1>2, <1>3 DEF PendingSet
<1>6. SameRows(i, j) /\ j \in Interps
  BY <1>1, BakedRows DEF SameRows
<1>7. Kept(j) /\ \A u \in Tables : Monos(j, u) = Monos(i, u)
  BY <1>6, RowsAlike
<1>8. Gap(i, r) = IF hit = {} THEN Emit(j, row)
                  ELSE [j EXCEPT !.seg.markets = staled, !.seg.pending = Append(@, p)]
  BY DEF Gap, hit, row
<1> HIDE DEF j, staled, p
<1>9. s \in SegmentSet /\ s.pending = j.seg.pending /\ s.hour = j.seg.hour
  BY <1>4, <1>6 DEF SegmentSet, Interps
<1>10. [j EXCEPT !.seg.markets = staled, !.seg.pending = Append(@, p)] = Postpone(k, p)
  BY <1>6 DEF Postpone, Interps, SegmentSet
<1> HIDE DEF s
<1>11. Quiet(j, k)
  BY <1>6, <1>9, SegmentQuiet
<1> HIDE DEF k
<1>12. Grown(j, Emit(j, row), "gaps", 1, {r.mono})
  BY <1>1, <1>2, <1>7, EmitGrown
<1>13. Grown(j, Postpone(k, p), "gaps", 1, {r.mono})
  <2>1. Grown(j, k, "gaps", 0, {}) /\ Kept(k)
    BY <1>7, <1>11, QuietGrown DEF Grown
  <2>2. Monos(k, "gaps") = Monos(j, "gaps")
    BY <1>1, <2>1 DEF Grown
  <2>3. Grown(k, Postpone(k, p), "gaps", 1, {r.mono})
    BY <1>1, <1>2, <1>5, <1>7, <2>1, <2>2, PostponeGrown
  <2>4. Grown(j, Postpone(k, p), "gaps", 0 + 1, {} \cup {r.mono})
    BY <1>7, <2>1, <2>3, GrownSteps
  <2>5. 0 + 1 = 1 /\ {} \cup {r.mono} = {r.mono}
    OBVIOUS
  <2> QED BY <2>4, <2>5
<1>14. Grown(j, Gap(i, r), "gaps", 1, {r.mono})
  BY <1>8, <1>10, <1>12, <1>13
<1> QED BY <1>1, <1>14, ReadGrown DEF j

LEMMA ConnectionRead ==
  ASSUME NEW i, Kept(i), NEW r \in RecordSet, NEW x
  PROVE  Read(i, Connection(i, r), "none", x)
<1> DEFINE j == Bump(i, "notBaked")
           c == CloseSpan(j, r.wall, FALSE)
           s == [c.seg EXCEPT !.start = r.wall, !.opened = TRUE]
           h == [j.hour EXCEPT !.sleeps = @ \cup {<<r.wall - r.n, r.wall>>}]
<1>1. Read(i, j, "none", x) /\ j \in Interps /\ r.wall \in Int /\ r.n \in Int
  <2>1. Read(i, j, "none", x)
    BY BumpRead
  <2>2. r.wall \in Int /\ r.n \in Int
    BY DEF RecordSet
  <2> HIDE DEF j
  <2> QED BY <2>1, <2>2 DEF Read, Kept
<1>2. \/ r.kind = "open" /\ Connection(i, r) = [c EXCEPT !.seg.start = r.wall, !.seg.opened = TRUE]
      \/ Connection(i, r) = CloseSpan(j, r.wall, TRUE)
      \/ Connection(i, r) = [j EXCEPT !.hour.sleeps = @ \cup {<<r.wall - r.n, r.wall>>}]
      \/ Connection(i, r) = j
  BY DEF Connection
<1> HIDE DEF j
<1>3. Quiet(j, c) /\ c \in Interps
  BY <1>1, CloseSpanQuiet DEF Quiet
<1>4. Quiet(j, CloseSpan(j, r.wall, TRUE))
  BY <1>1, CloseSpanQuiet
<1> HIDE DEF c
<1>5. Quiet(c, [c EXCEPT !.seg.start = r.wall, !.seg.opened = TRUE])
  <2>1. c.seg \in SegmentSet
    BY <1>3 DEF Interps
  <2>2. s \in SegmentSet /\ s.pending = c.seg.pending /\ s.hour = c.seg.hour
    BY <1>1, <2>1 DEF SegmentSet
  <2>3. [c EXCEPT !.seg.start = r.wall, !.seg.opened = TRUE] = [c EXCEPT !.seg = s]
    BY <1>3 DEF Interps
  <2> HIDE DEF s
  <2> QED BY <1>3, <2>2, <2>3, SegmentQuiet
<1>6. Quiet(j, [j EXCEPT !.hour.sleeps = @ \cup {<<r.wall - r.n, r.wall>>}])
  <2> DEFINE z == <<r.wall - r.n, r.wall>>
  <2>1. z \in Int \X Int
    BY <1>1
  <2>2. j.hour \in HourSet /\ j.seg \in SegmentSet
    BY <1>1 DEF Interps
  <2>3. [j EXCEPT !.hour.sleeps = @ \cup {z}] = [j EXCEPT !.hour = h]
    BY <1>1, <2>2 DEF Interps, HourSet
  <2> HIDE DEF z
  <2>4. /\ h \in HourSet /\ h.tables = j.hour.tables /\ h.baked = j.hour.baked
        /\ h.records = j.hour.records /\ h.notBaked = j.hour.notBaked /\ h.failures = j.hour.failures
    BY <2>1, <2>2 DEF HourSet, z
  <2> HIDE DEF h
  <2>5. [j EXCEPT !.hour = h] \in Interps /\ [j EXCEPT !.hour = h].hour = h /\ [j EXCEPT !.hour = h].seg = j.seg
    BY <1>1, <2>2, <2>4 DEF Interps
  <2>6. Quiet(j, [j EXCEPT !.hour = h])
    BY <2>4, <2>5 DEF Quiet
  <2> QED BY <2>3, <2>6 DEF z
<1>7. Quiet(j, j)
  BY <1>1 DEF Quiet
<1>8. Quiet(j, Connection(i, r))
  <2> DEFINE y == [c EXCEPT !.seg.start = r.wall, !.seg.opened = TRUE]
  <2>1. Quiet(j, y)
    <3> HIDE DEF y
    <3>1. Quiet(c, y)
      BY <1>5 DEF y
    <3> QED BY <1>3, <3>1, QuietSteps
  <2> QED BY <1>2, <1>4, <2>1, <1>6, <1>7
<1> QED BY <1>1, <1>8, ReadQuiet

LEMMA CommandRead ==
  ASSUME NEW i, Kept(i), NEW r \in RecordSet, NEW x
  PROVE  Read(i, Command(i, r), "none", x)
<1> DEFINE j == Bump(i, "notBaked")
           ms == {m \in Markets : j.seg.markets[m].on /\ j.seg.markets[m].sid = r.sid}
<1>1. Read(i, j, "none", x) /\ j \in Interps /\ r.wall \in Int /\ ms \in SUBSET Markets
  <2>1. Read(i, j, "none", x)
    BY BumpRead
  <2>2. r.wall \in Int /\ ms \in SUBSET Markets
    BY DEF RecordSet
  <2> HIDE DEF j, ms
  <2> QED BY <2>1, <2>2 DEF Read, Kept
<1>2. \/ r.kind = "delete_markets" /\ Command(i, r) = Leave(j, r.market, r.wall)
      \/ Command(i, r) = LeaveAll(j, ms, r.wall)
      \/ Command(i, r) = j
  BY DEF Command
<1> HIDE DEF j, ms
<1>3. r.kind = "delete_markets" => Quiet(j, Leave(j, r.market, r.wall))
  BY <1>1, InMarkets, LeaveQuiet
<1>4. Quiet(j, LeaveAll(j, ms, r.wall))
  BY <1>1, LeaveAllQuiet
<1>5. Quiet(j, j)
  BY <1>1 DEF Quiet
<1>6. Quiet(j, Command(i, r))
  BY <1>2, <1>3, <1>4, <1>5
<1> QED BY <1>1, <1>6, ReadQuiet

LEMMA ReplyRead ==
  ASSUME NEW i, Kept(i), NEW r \in RecordSet, NEW x
  PROVE  Read(i, Reply(i, r), "none", x)
<1> DEFINE a == [i EXCEPT !.seg.sids = @ \cup {r.sid}]
<1>1. Quiet(i, a)
  BY KeptQuiet, SidQuiet
<1>2. Reply(i, r) = Bump(a, "notBaked")
  BY DEF Reply
<1> HIDE DEF a
<1>3. Kept(a)
  BY <1>1, QuietGrown DEF Grown
<1>4. Read(a, Bump(a, "notBaked"), "none", x)
  BY <1>3, BumpRead
<1> QED BY <1>1, <1>2, <1>4, QuietRead

LEMMA InterpretedRead ==
  ASSUME NEW i, Kept(i), NEW r \in RecordSet, TableOf(r) \in Tables => r.mono \notin Monos(i, TableOf(r))
  PROVE  Read(i, Interpreted(i, r), TableOf(r), r.mono)
<1>0. r.kind \in RecordKinds /\ {"deltas", "snapshots", "trades", "audits", "gaps"} \subseteq Tables
  BY DEF RecordSet, Tables
<1>1. CASE r.kind = "delta"
  BY <1>0, <1>1, DeltaRead DEF Interpreted, TableOf
<1>2. CASE r.kind = "snapshot"
  BY <1>0, <1>2, SnapshotRead DEF Interpreted, TableOf
<1>3. CASE r.kind = "trade"
  <2>1. TableOf(r) = "trades" /\ Interpreted(i, r) = BumpBaked(Emit(i, Row("trades", r.market, r, 0)), "trades")
    BY <1>3 DEF Interpreted, TableOf
  <2> QED BY <1>0, <1>3, <2>1, RowRead
<1>4. CASE r.kind = "audit"
  <2>1. TableOf(r) = "audits" /\ Interpreted(i, r) = BumpBaked(Emit(i, Row("audits", r.market, r, 0)), "audits")
    BY <1>4 DEF Interpreted, TableOf
  <2> QED BY <1>0, <1>4, <2>1, RowRead
<1>5. CASE r.kind = "gap"
  BY <1>0, <1>5, GapRead DEF Interpreted, TableOf
<1>6. CASE r.kind = "subscribed"
  BY <1>6, ReplyRead DEF Interpreted, TableOf
<1>7. CASE r.kind = "undecodable"
  <2>1. TableOf(r) = "none" /\ Interpreted(i, r) = Bump(i, "failures")
    BY <1>7 DEF Interpreted, TableOf
  <2> QED BY <2>1, BumpRead
<1>8. CASE r.kind \in {"open", "close", "error", "clock_jump"}
  <2>1. TableOf(r) = "none" /\ Interpreted(i, r) = Connection(i, r)
    BY <1>8 DEF Interpreted, TableOf
  <2> QED BY <2>1, ConnectionRead
<1>9. CASE r.kind \in {"subscribe", "get_snapshot", "delete_markets", "unsubscribe"}
  <2>1. TableOf(r) = "none" /\ Interpreted(i, r) = Command(i, r)
    BY <1>9 DEF Interpreted, TableOf
  <2> QED BY <2>1, CommandRead
<1> QED BY <1>0, <1>1, <1>2, <1>3, <1>4, <1>5, <1>6, <1>7, <1>8, <1>9 DEF RecordKinds

-----------------------------------------------------------------------------
(* An interpretation whose counts are true. *)

Sound(i) ==
  /\ Kept(i)
  /\ \A t \in Tables : SizeOf(i, t) = i.hour.baked[t]
  /\ i.hour.records = Total(i.hour.baked) + i.hour.notBaked + i.hour.failures

LEMMA ReadSound ==
  ASSUME NEW i, Sound(i), NEW j, NEW t \in Tables \cup {"none"}, NEW x,
         Read(Bump(i, "records"), j, t, x)
  PROVE  Sound(j)
<1> DEFINE b == Bump(i, "records")
<1>1. Kept(i) /\ i \in Interps
  BY DEF Sound, Kept
<1>2. /\ SameRows(i, b) /\ b.hour.baked = i.hour.baked /\ b.hour.records = i.hour.records + 1
      /\ b.hour.notBaked = i.hour.notBaked + 0 /\ b.hour.failures = i.hour.failures + 0
  BY <1>1, BumpRows
<1>3. \A u \in Tables : SizeOf(b, u) = SizeOf(i, u)
  BY <1>1, <1>2, RowsAlike
<1>4. Read(b, j, t, x)
  OBVIOUS
<1> HIDE DEF b
<1>5. \A u \in Tables : SizeOf(j, u) = j.hour.baked[u]
  BY <1>2, <1>3, <1>4 DEF Read, Sound
<1>6. /\ i.hour.baked["deltas"] \in Nat /\ i.hour.baked["snapshots"] \in Nat
      /\ i.hour.baked["gaps"] \in Nat /\ i.hour.baked["trades"] \in Nat /\ i.hour.baked["audits"] \in Nat
      /\ i.hour.notBaked \in Nat /\ i.hour.failures \in Nat /\ i.hour.records \in Nat
  BY <1>1 DEF Interps, HourSet, Tables
<1>7. Total(j.hour.baked) = Total(i.hour.baked) + (IF t \in Tables THEN 1 ELSE 0)
  <2>1. \A u \in Tables : j.hour.baked[u] = i.hour.baked[u] + (IF u = t THEN 1 ELSE 0)
    BY <1>2, <1>4 DEF Read
  <2>2. /\ j.hour.baked["deltas"] = i.hour.baked["deltas"] + (IF "deltas" = t THEN 1 ELSE 0)
        /\ j.hour.baked["snapshots"] = i.hour.baked["snapshots"] + (IF "snapshots" = t THEN 1 ELSE 0)
        /\ j.hour.baked["gaps"] = i.hour.baked["gaps"] + (IF "gaps" = t THEN 1 ELSE 0)
        /\ j.hour.baked["trades"] = i.hour.baked["trades"] + (IF "trades" = t THEN 1 ELSE 0)
        /\ j.hour.baked["audits"] = i.hour.baked["audits"] + (IF "audits" = t THEN 1 ELSE 0)
    BY <2>1 DEF Tables
  <2> QED BY <1>6, <2>2 DEF Total, Tables
<1>8. j.hour.records = i.hour.records + 1
  BY <1>2, <1>4 DEF Read
<1>9. j.hour.notBaked + j.hour.failures = i.hour.notBaked + i.hour.failures + (IF t \in Tables THEN 0 ELSE 1)
  BY <1>2, <1>4, <1>6 DEF Read
<1>10. i.hour.records = Total(i.hour.baked) + i.hour.notBaked + i.hour.failures
  BY DEF Sound
<1>11. Kept(j) /\ j.hour.notBaked \in Nat /\ j.hour.failures \in Nat
  BY <1>4 DEF Read, Kept, Interps, HourSet
<1>12. Total(i.hour.baked) \in Nat
  BY <1>6 DEF Total
<1>13. j.hour.records = Total(j.hour.baked) + j.hour.notBaked + j.hour.failures
  <2> DEFINE T == Total(i.hour.baked)
             U == Total(j.hour.baked)
  <2> HIDE DEF T, U
  <2>1. /\ T \in Nat /\ U = T + (IF t \in Tables THEN 1 ELSE 0)
        /\ i.hour.records = T + i.hour.notBaked + i.hour.failures
    BY <1>7, <1>10, <1>12 DEF T, U
  <2>2. j.hour.records = U + j.hour.notBaked + j.hour.failures
    BY <1>6, <1>8, <1>9, <1>11, <2>1
  <2> QED BY <2>2 DEF U
<1> QED BY <1>5, <1>11, <1>13 DEF Sound

(* feed *)
LEMMA FeedSound ==
  ASSUME NEW i, Sound(i), NEW r \in RecordSet, TableOf(r) \in Tables => r.mono \notin Monos(i, TableOf(r))
  PROVE  /\ Sound(Feed(i, r)) /\ Feed(i, r).seg.hour = i.seg.hour
         /\ \A u \in Tables : Monos(Feed(i, r), u)
              = Monos(i, u) \cup (IF u = TableOf(r) THEN {r.mono} ELSE {})
<1> DEFINE a == Begun(i, r)
           b == Bump(a, "records")
           c == [b EXCEPT !.seg.last = r.wall]
           k == Interpreted(c, r)
           t == TableOf(r)
<1>1. Kept(i) /\ i \in Interps /\ r.wall \in Int
  BY DEF Sound, Kept, RecordSet
<1>2. Quiet(i, a) /\ a \in Interps
  BY <1>1, BegunQuiet DEF Quiet
<1>3. Feed(i, r) = k
  BY DEF Feed
<1>4. Grown(i, a, "none", 0, {})
  BY <1>1, <1>2, QuietGrown
<1> HIDE DEF a
<1>5. SameRows(i, a) /\ Kept(a)
  BY <1>2, <1>4 DEF Quiet, SameRows, Grown
<1>6. Sound(a)
  <2>1. \A u \in Tables : SizeOf(a, u) = SizeOf(i, u)
    BY <1>1, <1>5, RowsAlike
  <2> QED BY <1>2, <1>5, <2>1 DEF Sound, Quiet
<1>7. SameRows(a, b) /\ b \in Interps
  BY <1>2, BumpRows DEF SameRows
<1>8. Kept(b) /\ \A u \in Tables : Monos(b, u) = Monos(i, u)
  <2>1. Kept(b) /\ \A u \in Tables : Monos(b, u) = Monos(a, u)
    BY <1>5, <1>7, RowsAlike
  <2>2. \A u \in Tables : Monos(a, u) = Monos(i, u)
    BY <1>1, <1>5, RowsAlike
  <2> QED BY <2>1, <2>2
<1>9. Quiet(b, c)
  <2> DEFINE s == [b.seg EXCEPT !.last = r.wall]
  <2>1. s \in SegmentSet /\ s.pending = b.seg.pending /\ s.hour = b.seg.hour
    BY <1>1, <1>7 DEF SegmentSet, Interps
  <2>2. c = [b EXCEPT !.seg = s]
    BY <1>7 DEF Interps
  <2> HIDE DEF s, b
  <2> QED BY <1>7, <2>1, <2>2, SegmentQuiet
<1> HIDE DEF b, c
<1>10. Kept(c) /\ \A u \in Tables : Monos(c, u) = Monos(b, u)
  <2>1. SameRows(b, c)
    BY <1>9 DEF Quiet, SameRows
  <2> QED BY <1>8, <2>1, RowsAlike
<1>11. t \in Tables \cup {"none"}
  BY DEF TableOf, Tables
<1>12. Read(c, k, t, r.mono)
  BY <1>8, <1>10, InterpretedRead
<1> HIDE DEF k
<1>13. Read(b, k, t, r.mono)
  BY <1>8, <1>9, <1>12, QuietRead
<1>14. Sound(k)
  BY <1>6, <1>11, <1>13, ReadSound DEF b
<1>15. k.seg.hour = i.seg.hour
  BY <1>5, <1>7, <1>13 DEF Read, SameRows
<1>16. \A u \in Tables : Monos(k, u) = Monos(i, u) \cup (IF u = t THEN {r.mono} ELSE {})
  BY <1>8, <1>13 DEF Read
<1> QED BY <1>3, <1>14, <1>15, <1>16

(* finish *)
LEMMA FinishSound ==
  ASSUME NEW i, Sound(i), i.seg.last \in Int
  PROVE  LET f == [hour |-> FinishSegment(i).hour, seg |-> NoSegment]
         IN Sound(f) /\ \A u \in Tables : Monos(f, u) = Monos(i, u)
<1> DEFINE on == {m \in Markets : i.seg.markets[m].on}
           e == FoldLeft(LAMBDA k, m : EndMarket(k, m, i.seg.last), i, SetToSeq(on))
           c == CloseSpan(e, i.seg.last, FALSE)
           j == IF i.seg.last = None THEN i ELSE c
           k == FoldLeft(LAMBDA k, p : Emit(k, p.row), j, i.seg.pending)
           f == [hour |-> k.hour, seg |-> NoSegment]
<1>1. Kept(i) /\ i \in Interps /\ Quiet(i, i)
  BY KeptQuiet DEF Sound
<1>2. Quiet(i, e) /\ e \in Interps
  <2>1. on \in SUBSET Markets
    OBVIOUS
  <2> HIDE DEF on
  <2> QED BY <1>1, <2>1, ClosingQuiet DEF Quiet
<1>3. FinishSegment(i) = k
  BY DEF FinishSegment
<1> HIDE DEF e
<1>4. Quiet(i, j)
  BY <1>1, <1>2, CloseSpanQuiet, QuietSteps
<1> HIDE DEF j
<1>5. /\ Kept(f) /\ \A u \in Tables : SizeOf(f, u) = SizeOf(i, u) /\ Monos(f, u) = Monos(i, u)
      /\ f.hour.baked = i.hour.baked /\ f.hour.records = i.hour.records
      /\ f.hour.notBaked = i.hour.notBaked /\ f.hour.failures = i.hour.failures
  BY <1>1, <1>4, PendingEmitted
<1> HIDE DEF f
<1>6. Sound(f)
  BY <1>5 DEF Sound
<1> QED BY <1>3, <1>5, <1>6 DEF f

-----------------------------------------------------------------------------
(* The hours and the segment being read, as the interpretation of each hour. *)

Reading(hs, s, h) == [hour |-> hs[h], seg |-> IF h = s.hour THEN s ELSE NoSegment]

Structured(hs, s) ==
  /\ s \in SegmentSet /\ s.hour \in Hours \cup {None} /\ hs \in [Hours -> HourSet]
  /\ \A h \in Hours : Sound(Reading(hs, s, h))

LEMMA HoursKnown ==
  /\ Hours \subseteq Nat /\ None \notin Hours
  /\ \A w \in Nat : w <= MaxWall + SleepLength => HourOf(w) \in Hours
<1> DEFINE K == HourLength
           M == MaxWall + SleepLength
           Q == M \div K
<1>1. K \in Nat \ {0} /\ M \in Nat
  BY TapeAssumption
<1>2. Hours = 0 .. Q
  BY DEF Hours
<1> HIDE DEF K, M
<1>3. Q \in Nat /\ M < Q * K + K
  BY <1>1
<1>4. ASSUME NEW w \in Nat, w <= M PROVE w \div K <= Q /\ w \div K \in Nat
  <2> DEFINE q == w \div K
  <2>1. q \in Nat /\ q * K <= w
    BY <1>1
  <2> HIDE DEF q, Q
  <2>2. ASSUME q >= Q + 1 PROVE FALSE
    <3>1. Q + 1 \in Nat /\ Q + 1 \in 0 .. q /\ (Q + 1) * K = Q * K + K
      BY <1>1, <1>3, <2>1, <2>2, Multiples
    <3>2. (Q + 1) * K <= q * K
      BY <1>1, <2>1, <3>1, MultiplesGrow
    <3> DEFINE a == Q * K
               b == q * K
    <3>3. a \in Nat /\ b \in Nat
      BY <1>1, <1>3, <2>1, Multiples
    <3>4. a + K <= b /\ b <= w /\ M < a + K
      BY <1>3, <2>1, <3>1, <3>2
    <3> HIDE DEF a, b
    <3> QED BY <1>1, <1>4, <3>3, <3>4
  <2> QED BY <1>3, <2>1, <2>2 DEF q
<1> HIDE DEF Q
<1>5. \A w \in Nat : w <= M => HourOf(w) \in 0 .. Q
  BY <1>3, <1>4 DEF HourOf, K
<1> QED BY <1>2, <1>3, <1>5 DEF M, None

(* The file being written, if it ended here. *)
LEMMA BakedSound ==
  ASSUME Structured(hours, seg)
  PROVE  /\ Baked \in [Hours -> HourSet]
         /\ \A h \in Hours :
              /\ Sound([hour |-> Baked[h], seg |-> NoSegment])
              /\ \A u \in Tables :
                   Monos([hour |-> Baked[h], seg |-> NoSegment], u) = Monos(Reading(hours, seg, h), u)
<1>1. /\ seg \in SegmentSet /\ seg.hour \in Hours \cup {None} /\ hours \in [Hours -> HourSet]
      /\ \A h \in Hours : Sound(Reading(hours, seg, h))
  BY DEF Structured
<1>2. CASE seg.hour = None
  <2>1. Baked = hours
    BY <1>2 DEF Baked
  <2>2. \A h \in Hours : Reading(hours, seg, h) = [hour |-> Baked[h], seg |-> NoSegment]
    BY <1>2, <2>1, HoursKnown DEF Reading
  <2> QED BY <1>1, <2>1, <2>2
<1>3. CASE seg.hour # None
  <2> DEFINE H == seg.hour
             i == [hour |-> hours[H], seg |-> seg]
             x == FinishSegment(i).hour
             f == [hour |-> x, seg |-> NoSegment]
  <2>1. H \in Hours
    BY <1>1, <1>3
  <2>2. Reading(hours, seg, H) = i /\ i.seg = seg
    BY DEF Reading
  <2>3. Baked = [hours EXCEPT ![H] = x]
    BY <1>3 DEF Baked
  <2>4. i.seg.last \in Int
    BY <1>1, <2>2 DEF SegmentSet
  <2>9. Sound(i)
    BY <1>1, <2>1, <2>2
  <2> HIDE DEF i
  <2>5. Sound(f) /\ \A u \in Tables : Monos(f, u) = Monos(i, u)
    BY <2>4, <2>9, FinishSound
  <2> HIDE DEF x
  <2>6. x \in HourSet
    <3>1. f \in Interps /\ f.hour = x
      BY <2>5 DEF Sound, Kept
    <3> HIDE DEF f
    <3> QED BY <3>1 DEF Interps
  <2>7. Baked \in [Hours -> HourSet] /\ Baked[H] = x
    BY <1>1, <2>1, <2>3, <2>6
  <2>8. ASSUME NEW h \in Hours
        PROVE  /\ Sound([hour |-> Baked[h], seg |-> NoSegment])
               /\ \A u \in Tables :
                    Monos([hour |-> Baked[h], seg |-> NoSegment], u) = Monos(Reading(hours, seg, h), u)
    <3>1. CASE h = H
      BY <2>2, <2>5, <2>7, <3>1
    <3>2. CASE h # H
      <4>1. Baked[h] = hours[h]
        BY <1>1, <2>1, <2>3, <3>2
      <4>2. Reading(hours, seg, h) = [hour |-> Baked[h], seg |-> NoSegment]
        BY <3>2, <4>1 DEF Reading
      <4> QED BY <1>1, <4>2
    <3> QED BY <3>1, <3>2
  <2> QED BY <2>7, <2>8
<1> QED BY <1>2, <1>3

(* A segment that has not begun postpones nothing. *)
LEMMA OpenedSound ==
  ASSUME Structured(hours, seg), NEW w, HourOf(w) \in Hours
  PROVE  /\ Sound(Opened(w)) /\ Opened(w).seg.hour = HourOf(w)
         /\ \A u \in Tables : Monos(Opened(w), u) = Monos(Reading(hours, seg, HourOf(w)), u)
<1> DEFINE H == HourOf(w)
           s == [NoSegment EXCEPT !.hour = H]
           f == [hour |-> Baked[H], seg |-> NoSegment]
           o == [hour |-> Baked[H], seg |-> s]
<1>1. H \in Hours /\ H \in Int
  <2>1. H \in Hours
    OBVIOUS
  <2> HIDE DEF H
  <2> QED BY <2>1, HoursKnown
<1>2. CASE ~rotated /\ seg.hour = H
  <2>1. Opened(w) = [hour |-> hours[H], seg |-> seg] /\ Opened(w) = Reading(hours, seg, H)
    BY <1>2 DEF Opened, Reading
  <2>2. Opened(w).seg = seg
    BY <2>1
  <2>3. Sound(Reading(hours, seg, H))
    BY <1>1 DEF Structured
  <2> QED BY <1>2, <2>1, <2>2, <2>3
<1>3. CASE ~(~rotated /\ seg.hour = H)
  <2>1. Opened(w) = o
    BY <1>3 DEF Opened
  <2>2. Sound(f) /\ \A u \in Tables : Monos(f, u) = Monos(Reading(hours, seg, H), u)
    BY <1>1, BakedSound
  <2> HIDE DEF H
  <2>3. NoSegment \in SegmentSet /\ s \in SegmentSet /\ s.pending = NoSegment.pending /\ s.hour = H
    <3>1. NoMarket \in MarketSet
      BY DEF NoMarket, MarketSet, None
    <3>2. NoSegment \in SegmentSet
      BY <3>1 DEF NoSegment, SegmentSet, None
    <3> QED BY <1>1, <3>2 DEF SegmentSet
  <2> HIDE DEF s
  <2> DEFINE b == Baked[H]
  <2>9. f = [hour |-> b, seg |-> NoSegment] /\ o = [hour |-> b, seg |-> s]
    OBVIOUS
  <2> HIDE DEF b, f, o
  <2>4. f \in Interps
    BY <2>2 DEF Sound, Kept
  <2>5. o \in Interps /\ o.hour = f.hour /\ o.seg.pending = f.seg.pending /\ o.seg.hour = H
    BY <2>3, <2>4, <2>9 DEF Interps
  <2>6. PendingMonos(o) = PendingMonos(f) /\ \A u : HeldMonos(o, u) = HeldMonos(f, u)
    BY <2>5 DEF PendingMonos, HeldMonos
  <2>7. Kept(o)
    BY <2>2, <2>5, <2>6 DEF Sound, Kept
  <2>8. \A u \in Tables : Monos(o, u) = Monos(f, u) /\ SizeOf(o, u) = SizeOf(f, u)
    BY <2>5, <2>6 DEF Monos, SizeOf
  <2>10. Sound(o)
    BY <2>2, <2>5, <2>7, <2>8 DEF Sound
  <2> QED BY <2>1, <2>2, <2>5, <2>8, <2>10 DEF H
<1> QED BY <1>2, <1>3

(* Records of one instant, at most one of them with a row in each table. *)
Written(records, x) ==
  /\ records \in Seq(RecordSet) /\ records # << >>
  /\ \A k \in 1 .. Len(records) : records[k].mono = x
  /\ \A k, l \in 1 .. Len(records) :
       TableOf(records[k]) = TableOf(records[l]) /\ TableOf(records[k]) \in Tables => k = l

LEMMA AllFed ==
  ASSUME NEW i, Sound(i), NEW records, NEW x, Written(records, x),
         \A u \in Tables : x \notin Monos(i, u)
  PROVE  /\ Sound(FoldLeft(Feed, i, records)) /\ FoldLeft(Feed, i, records).seg.hour = i.seg.hour
         /\ \A u \in Tables : Monos(FoldLeft(Feed, i, records), u) \subseteq Monos(i, u) \cup {x}
<1> DEFINE N == Len(records)
           had(n, u) == IF \E k \in 1 .. n : TableOf(records[k]) = u THEN {x} ELSE {}
           T == [n \in 0 .. N |->
                   {j \in Interps : /\ Sound(j) /\ j.seg.hour = i.seg.hour
                                    /\ \A u \in Tables : Monos(j, u) \subseteq Monos(i, u) \cup had(n, u)}]
<1>1. /\ records \in Seq(RecordSet) /\ N \in Nat
      /\ \A k \in 1 .. N : records[k] \in RecordSet /\ records[k].mono = x
      /\ \A k, l \in 1 .. N :
           TableOf(records[k]) = TableOf(records[l]) /\ TableOf(records[k]) \in Tables => k = l
  BY LenProperties, ElementOfSeq DEF Written
<1>2. i \in T[0]
  <2>1. i \in Interps /\ \A u : had(0, u) = {}
    BY DEF Sound, Kept
  <2>2. 0 \in 0 .. N
    BY <1>1
  <2> HIDE DEF had, N
  <2> QED BY <2>1, <2>2
<1>3. ASSUME NEW n \in 1 .. Len(records), NEW j \in T[n - 1] PROVE FeedStep(0, j, records[n]) \in T[n]
  <2>1. n \in 1 .. N /\ n - 1 \in 0 .. N /\ n \in 0 .. N
    BY <1>1
  <2> DEFINE r == records[n]
             t == TableOf(r)
             k == Feed(j, r)
  <2>2. /\ j \in Interps /\ Sound(j) /\ j.seg.hour = i.seg.hour
        /\ \A u \in Tables : Monos(j, u) \subseteq Monos(i, u) \cup had(n - 1, u)
    <3> HIDE DEF N, had
    <3> QED BY <2>1
  <2>3. r \in RecordSet /\ r.mono = x
    BY <1>1, <2>1
  <2>4. t \in Tables => x \notin had(n - 1, t)
    <3>1. \A l \in 1 .. n - 1 : l \in 1 .. N /\ l # n
      BY <1>1, <2>1
    <3>2. t \in Tables => \A l \in 1 .. n - 1 : TableOf(records[l]) # t
      BY <1>1, <2>1, <3>1
    <3> QED BY <3>2
  <2>5. \A u \in Tables : had(n - 1, u) \subseteq had(n, u) /\ (u = t => had(n, u) = {x})
    <3>1. \A l \in 1 .. n - 1 : l \in 1 .. n
      BY <2>1
    <3>2. n \in 1 .. n
      BY <2>1
    <3> HIDE DEF N
    <3> QED BY <3>1, <3>2
  <2>6. t \in Tables => x \notin Monos(j, t)
    BY <2>2, <2>4
  <2> HIDE DEF had, r
  <2>7. /\ Sound(k) /\ k.seg.hour = j.seg.hour
        /\ \A u \in Tables : Monos(k, u) = Monos(j, u) \cup (IF u = t THEN {x} ELSE {})
    <3>1. TableOf(r) \in Tables => r.mono \notin Monos(j, TableOf(r))
      BY <2>3, <2>6
    <3> QED BY <2>2, <2>3, <3>1, FeedSound
  <2> HIDE DEF k, t
  <2>8. \A u \in Tables : Monos(k, u) \subseteq Monos(i, u) \cup had(n, u)
    BY <2>2, <2>5, <2>7
  <2>9. k \in Interps /\ k.seg.hour = i.seg.hour
    BY <2>2, <2>7 DEF Sound, Kept
  <2>10. FeedStep(0, j, records[n]) = k
    BY DEF FeedStep, k, r
  <2> HIDE DEF N
  <2> QED BY <2>1, <2>7, <2>8, <2>9, <2>10
<1>4. \A j \in T[N] : /\ Sound(j) /\ j.seg.hour = i.seg.hour
                      /\ \A u \in Tables : Monos(j, u) \subseteq Monos(i, u) \cup {x}
  <2>1. N \in 0 .. N
    BY <1>1
  <2>2. \A u : had(N, u) \subseteq {x}
    OBVIOUS
  <2>3. \A j \in T[N] : /\ Sound(j) /\ j.seg.hour = i.seg.hour
                        /\ \A u \in Tables : Monos(j, u) \subseteq Monos(i, u) \cup had(N, u)
    <3> HIDE DEF had, N
    <3> QED BY <2>1
  <2> HIDE DEF had, T
  <2> QED BY <2>2, <2>3
<1> HIDE DEF T, had
<1>5. Feeding!Folded(0, i, records) \in T[Len(records)]
  <2> HIDE DEF N
  <2> QED BY <1>1, <1>2, <1>3, Climbing, Feeding!FoldInvariant
<1>6. FoldLeft(Feed, i, records) = Feeding!Folded(0, i, records)
  BY Folds
<1> QED BY <1>4, <1>5, <1>6

(* The recorder's records leave the hours as sound as they were. *)
LEMMA TapesSound ==
  ASSUME Structured(hours, seg), NEW w, HourOf(w) \in Hours, NEW records, NEW x, Written(records, x),
         \A h \in Hours : \A u \in Tables : x \notin Monos(Reading(hours, seg, h), u),
         Tapes(w, records)
  PROVE  /\ Structured(hours', seg') /\ rotated' \in BOOLEAN
         /\ \A h \in Hours : \A u \in Tables :
              Monos(Reading(hours', seg', h), u) \subseteq Monos(Reading(hours, seg, h), u) \cup {x}
<1> DEFINE H == HourOf(w)
           o == Opened(w)
           i == FoldLeft(Feed, o, records)
           new == rotated \/ seg.hour # H
           old == IF new THEN Baked ELSE hours
<1>1. /\ Sound(o) /\ o.seg.hour = H
      /\ \A u \in Tables : Monos(o, u) = Monos(Reading(hours, seg, H), u)
  BY OpenedSound
<1>2. hours' = [old EXCEPT ![H] = i.hour] /\ seg' = i.seg /\ rotated' \in BOOLEAN
  BY DEF Tapes
<1> HIDE DEF o
<1>3. \A u \in Tables : x \notin Monos(o, u)
  BY <1>1
<1>4. /\ Sound(i) /\ i.seg.hour = H
      /\ \A u \in Tables : Monos(i, u) \subseteq Monos(o, u) \cup {x}
  BY <1>1, <1>3, AllFed
<1> HIDE DEF i
<1>5. i \in Interps /\ i.hour \in HourSet /\ i.seg \in SegmentSet /\ i = [hour |-> i.hour, seg |-> i.seg]
  <2>1. i \in Interps
    BY <1>4 DEF Sound, Kept
  <2> QED BY <2>1 DEF Interps
<1>6. old \in [Hours -> HourSet]
  BY BakedSound DEF Structured
<1>7. /\ hours' \in [Hours -> HourSet] /\ hours'[H] = i.hour
      /\ \A h \in Hours : h # H => hours'[h] = old[h]
  <2> HIDE DEF old, H
  <2> QED BY <1>2, <1>5, <1>6 DEF H
<1>8. ASSUME NEW h \in Hours
      PROVE  /\ Sound(Reading(hours', seg', h))
             /\ \A u \in Tables :
                  Monos(Reading(hours', seg', h), u) \subseteq Monos(Reading(hours, seg, h), u) \cup {x}
  <2>1. CASE h = H
    <3>1. Reading(hours', seg', h) = i
      BY <1>2, <1>4, <1>5, <1>7, <2>1 DEF Reading
    <3> QED BY <1>1, <1>4, <2>1, <3>1
  <2>2. CASE h # H
    <3>1. Reading(hours', seg', h) = [hour |-> old[h], seg |-> NoSegment]
      BY <1>2, <1>4, <1>7, <2>2 DEF Reading
    <3>2. CASE new
      BY <3>1, <3>2, BakedSound
    <3>3. CASE ~new
      <4>1. Reading(hours, seg, h) = [hour |-> old[h], seg |-> NoSegment]
        BY <2>2, <3>3 DEF Reading
      <4> QED BY <3>1, <4>1 DEF Structured
    <3> QED BY <3>2, <3>3
  <2> QED BY <2>1, <2>2
<1>9. Structured(hours', seg')
  BY <1>2, <1>4, <1>5, <1>7, <1>8 DEF Structured
<1> QED BY <1>2, <1>8, <1>9

-----------------------------------------------------------------------------
(* The clocks: the monotonic one passes the wall clock's steps back, and no more. *)

Base == IF truth.restarted THEN 0 ELSE MonoStart

Clocked ==
  /\ wall \in Nat /\ wall <= MaxWall + SleepLength /\ troubles \in 0 .. MaxTroubles
  /\ "restarted" \in DOMAIN truth /\ truth.restarted \in BOOLEAN
  /\ mono \in Nat /\ mono >= Base /\ mono <= Base + wall + troubles * StepLength

(* An instant of the monotonic clock that runs, or of the one before the restart. *)
Past(x) == x \in Int /\ (x \in Base .. mono \/ (truth.restarted /\ x >= MonoStart))

Aged == \A h \in Hours : \A u \in Tables : \A x \in Monos(Reading(hours, seg, h), u) : Past(x)

Recorded == Clocked /\ Structured(hours, seg) /\ Aged /\ rotated \in BOOLEAN

Controlled ==
  /\ conn \in {"down", "open"} /\ sid \in {1, 2} /\ hole \subseteq {TradeSid, sid}
  /\ exch \in [Markets -> Nat] /\ live \in [Markets -> [on : BOOLEAN, fresh : BOOLEAN, n : Nat]]
  /\ awaited \subseteq On /\ (conn = "down" => awaited = {})
  /\ \A m \in Markets : live[m].fresh => conn = "open" /\ live[m].on

TapeInv == Recorded /\ Controlled

LEMMA Bounds ==
  ASSUME Clocked
  PROVE  /\ StepLength \in Nat \ {0} /\ SleepLength \in Nat \ {0} /\ MonoStart \in Nat /\ MaxWall \in Nat
         /\ troubles * StepLength \in Nat /\ MaxTroubles * StepLength \in Nat
         /\ (troubles + 1) * StepLength = troubles * StepLength + StepLength
         /\ mono - Base <= MaxWall + SleepLength + MaxTroubles * StepLength
         /\ truth.restarted => mono + 1 < MonoStart
<1> DEFINE a == troubles * StepLength
           b == MaxTroubles * StepLength
           c == (troubles + 1) * StepLength
<1>1. /\ StepLength \in Nat \ {0} /\ SleepLength \in Nat \ {0} /\ MonoStart \in Nat /\ MaxWall \in Nat
      /\ MaxTroubles \in Nat /\ MonoRestart \in Nat
      /\ MonoStart > MonoRestart + MaxWall + SleepLength + b
      /\ MonoRestart > MaxWall + SleepLength + b
  BY TapeAssumption
<1>2. /\ troubles \in Nat /\ troubles \in 0 .. MaxTroubles /\ wall \in Nat /\ wall <= MaxWall + SleepLength
      /\ mono \in Nat /\ mono <= Base + wall + a /\ (truth.restarted => Base = 0)
      /\ Base \in Nat
  BY <1>1 DEF Clocked, Base
<1>3. a \in Nat /\ b \in Nat /\ c = a + StepLength /\ a <= b
  BY <1>1, <1>2, Multiples, MultiplesGrow
<1> HIDE DEF a, b, c
<1>4. mono - Base <= MaxWall + SleepLength + b
  BY <1>1, <1>2, <1>3
<1>5. ASSUME truth.restarted PROVE mono + 1 < MonoStart
  BY <1>1, <1>2, <1>3, <1>5
<1> QED BY <1>1, <1>3, <1>4, <1>5 DEF a, b, c

(* The records of an instant that has passed. *)
LEMMA Writes ==
  ASSUME Recorded, NEW records, Written(records, mono + 1), Tapes(wall', records),
         wall' \in Nat, wall' <= MaxWall + SleepLength, wall' >= wall + 1, mono' = mono + 1,
         "restarted" \in DOMAIN truth', truth'.restarted = truth.restarted,
         troubles' \in {troubles, troubles + 1}, troubles' <= MaxTroubles
  PROVE  Recorded'
<1>1. Clocked /\ Structured(hours, seg) /\ Aged
  BY DEF Recorded
<1>2. Clocked'
  <2> DEFINE a == troubles * StepLength
             b == troubles' * StepLength
  <2>1. /\ a \in Nat /\ (troubles + 1) * StepLength = a + StepLength /\ StepLength \in Nat
        /\ troubles \in Nat /\ MaxTroubles \in Nat /\ MonoStart \in Nat
    BY <1>1, Bounds, TapeAssumption DEF Clocked
  <2>2. b = a \/ b = a + StepLength
    BY <2>1
  <2> HIDE DEF a, b
  <2>3. /\ mono \in Nat /\ mono >= Base /\ mono <= Base + wall + a /\ wall \in Nat
        /\ Base \in Nat /\ Base' = Base /\ truth'.restarted \in BOOLEAN
    BY <1>1, <2>1 DEF Clocked, Base, a
  <2>4. mono' \in Nat /\ mono' >= Base' /\ mono' <= Base' + wall' + b
    BY <2>1, <2>2, <2>3
  <2>5. troubles' \in 0 .. MaxTroubles
    BY <2>1
  <2> QED BY <2>3, <2>4, <2>5 DEF Clocked, b
<1>3. mono \in Nat /\ MonoStart \in Nat /\ Base \in Nat /\ mono >= Base /\ Base' = Base
      /\ (truth.restarted => mono + 1 < MonoStart)
  BY <1>1, Bounds DEF Clocked, Base
<1>4. \A h \in Hours : \A u \in Tables : mono + 1 \notin Monos(Reading(hours, seg, h), u)
  <2>1. ~Past(mono + 1)
    BY <1>3 DEF Past
  <2> QED BY <1>1, <2>1 DEF Aged
<1>5. HourOf(wall') \in Hours
  BY HoursKnown
<1>6. /\ Structured(hours', seg') /\ rotated' \in BOOLEAN
      /\ \A h \in Hours : \A u \in Tables :
           Monos(Reading(hours', seg', h), u) \subseteq Monos(Reading(hours, seg, h), u) \cup {mono + 1}
  BY <1>1, <1>4, <1>5, TapesSound
<1>7. ASSUME NEW x, Past(x) \/ x = mono + 1 PROVE Past(x)'
  BY <1>3, <1>7 DEF Past
<1>8. Aged'
  BY <1>1, <1>6, <1>7 DEF Aged
<1> QED BY <1>2, <1>6, <1>8 DEF Recorded

LEMMA ToldKeeps ==
  ASSUME Clocked, NEW kind, NEW gaps, NEW heard, Told(kind, gaps, heard)
  PROVE  "restarted" \in DOMAIN truth' /\ truth'.restarted = truth.restarted
BY DEF Told, Clocked

LEMMA Recording ==
  ASSUME Recorded, Instant, Trouble \/ NoTrouble, NEW records, Written(records, mono + 1),
         Tapes(wall', records), NEW kind, NEW gaps, NEW heard, Told(kind, gaps, heard)
  PROVE  Recorded'
<1>1. Clocked
  BY DEF Recorded
<1>2. /\ wall \in Nat /\ wall' = wall + 1 /\ wall < MaxWall /\ mono' = mono + 1
      /\ troubles \in 0 .. MaxTroubles /\ MaxTroubles \in Nat /\ MaxWall \in Nat /\ SleepLength \in Nat
  BY <1>1, TapeAssumption DEF Clocked, Instant
<1>3. troubles' \in {troubles, troubles + 1} /\ troubles' <= MaxTroubles
  BY <1>2 DEF Trouble, NoTrouble
<1>4. wall' \in Nat /\ wall' <= MaxWall + SleepLength /\ wall' >= wall + 1
  BY <1>2
<1> QED BY <1>1, <1>2, <1>3, <1>4, ToldKeeps, Writes

(* Nothing is written, and the monotonic clock stands still. *)
LEMMA NotWritten ==
  ASSUME Recorded, UNCHANGED <<mono, rotated, seg, hours>>, wall' \in Nat, wall' <= MaxWall + SleepLength,
         "restarted" \in DOMAIN truth', truth'.restarted = truth.restarted,
         troubles' \in 0 .. MaxTroubles,
         wall + troubles * StepLength <= wall' + troubles' * StepLength
  PROVE  Recorded'
<1>1. Clocked /\ Structured(hours, seg) /\ Aged /\ rotated \in BOOLEAN
  BY DEF Recorded
<1>2. Base' = Base
  BY DEF Base
<1>3. Clocked'
  <2> DEFINE a == troubles * StepLength
             b == troubles' * StepLength
  <2>1. a \in Nat /\ b \in Nat /\ MonoStart \in Nat
    BY <1>1, Bounds, Multiples, TapeAssumption
  <2> HIDE DEF a, b
  <2>2. /\ wall \in Nat /\ mono \in Nat /\ mono >= Base /\ mono <= Base + wall + a
        /\ Base \in Nat /\ wall + a <= wall' + b
    BY <1>1, <2>1 DEF Clocked, Base, a, b
  <2>3. mono' <= Base' + wall' + b
    <3>1. mono' = mono /\ Base' = Base /\ wall' \in Nat
      BY <1>2
    <3>2. \A x, y, w, c, v, d \in Int : x <= y + w + c /\ w + c <= v + d => x <= y + v + d
      OBVIOUS
    <3>3. mono \in Int /\ Base \in Int /\ wall \in Int /\ a \in Int /\ wall' \in Int /\ b \in Int
      BY <2>1, <2>2, <3>1
    <3>4. mono <= Base + wall' + b
      BY ONLY <2>2, <3>2, <3>3, Zenon
    <3> QED BY <3>1, <3>4
  <2> QED BY <1>1, <1>2, <2>2, <2>3 DEF Clocked, b
<1>4. \A x : Past(x) => Past(x)'
  BY <1>2 DEF Past
<1>5. Aged'
  BY <1>1, <1>4 DEF Aged
<1> QED BY <1>1, <1>3, <1>5 DEF Recorded

-----------------------------------------------------------------------------
(* The records of each action. *)

LEMMA RecordOf ==
  ASSUME TapeInv, NEW kind \in RecordKinds, NEW m \in Buckets, NEW n \in Int,
         kind \in {"delta", "snapshot", "trade", "audit", "delete_markets"} => m \in Markets
  PROVE  /\ Record(kind, m, n) \in RecordSet /\ Record(kind, m, n).kind = kind
         /\ Record(kind, m, n).mono = mono + 1
<1>1. sid \in Int /\ wall + 1 \in Int /\ mono + 1 \in Int
  BY DEF TapeInv, Recorded, Clocked, Controlled
<1> DEFINE s == CASE kind = "trade" -> TradeSid [] kind = "undecodable" -> None [] OTHER -> sid
<1>2. s \in Int
  BY <1>1 DEF TradeSid, None
<1>3. Record(kind, m, n)
        = [kind |-> kind, market |-> m, sid |-> s, wall |-> wall + 1, mono |-> mono + 1, n |-> n]
  BY DEF Record
<1> HIDE DEF s
<1> QED BY <1>1, <1>2, <1>3 DEF RecordSet

LEMMA Changed ==
  ASSUME NEW r \in RecordSet, NEW v \in Int
  PROVE  /\ [r EXCEPT !.sid = v] \in RecordSet /\ [r EXCEPT !.sid = v].kind = r.kind
         /\ [r EXCEPT !.sid = v].mono = r.mono
         /\ [r EXCEPT !.wall = v] \in RecordSet /\ [r EXCEPT !.wall = v].kind = r.kind
         /\ [r EXCEPT !.wall = v].mono = r.mono
BY DEF RecordSet

LEMMA WrittenOne ==
  ASSUME NEW x, NEW a \in RecordSet, a.mono = x
  PROVE  Written(<<a>>, x)
<1> DEFINE q == <<a>>
<1>1. q \in Seq(RecordSet) /\ q # << >> /\ Len(q) = 1 /\ q[1] = a
  OBVIOUS
<1>2. \A k \in 1 .. Len(q) : k = 1
  BY <1>1
<1> HIDE DEF q
<1> QED BY <1>1, <1>2 DEF Written, q

LEMMA WrittenTwo ==
  ASSUME NEW x, NEW a \in RecordSet, a.mono = x, NEW b \in RecordSet, b.mono = x,
         TableOf(a) # TableOf(b) \/ TableOf(a) \notin Tables
  PROVE  Written(<<a, b>>, x)
<1> DEFINE q == <<a, b>>
<1>1. q \in Seq(RecordSet) /\ q # << >> /\ Len(q) = 2 /\ q[1] = a /\ q[2] = b
  OBVIOUS
<1>2. \A k \in 1 .. Len(q) : k = 1 \/ k = 2
  BY <1>1
<1> HIDE DEF q
<1> QED BY <1>1, <1>2 DEF Written, q

LEMMA WrittenThree ==
  ASSUME NEW x, NEW a \in RecordSet, a.mono = x, NEW b \in RecordSet, b.mono = x,
         NEW c \in RecordSet, c.mono = x,
         TableOf(a) # TableOf(b) \/ TableOf(a) \notin Tables, TableOf(c) \notin Tables
  PROVE  Written(<<a, b, c>>, x)
<1> DEFINE q == <<a, b, c>>
<1>1. q \in Seq(RecordSet) /\ q # << >> /\ Len(q) = 3 /\ q[1] = a /\ q[2] = b /\ q[3] = c
  OBVIOUS
<1>2. \A k \in 1 .. Len(q) : k = 1 \/ k = 2 \/ k = 3
  BY <1>1
<1> HIDE DEF q
<1> QED BY <1>1, <1>2 DEF Written, q

LEMMA TableNone ==
  ASSUME NEW r, r.kind \in {"subscribed", "undecodable", "open", "close", "error", "clock_jump",
                            "subscribe", "get_snapshot", "delete_markets", "unsubscribe"}
  PROVE  TableOf(r) \notin Tables
BY DEF TableOf, Tables

LEMMA Tuples ==
  ASSUME NEW a, NEW b, NEW c
  PROVE  <<a, b>> \o <<c>> = <<a, b, c>> /\ <<a, b>> \o << >> = <<a, b>>
         /\ <<a>> \o <<b>> = <<a, b>> /\ <<a>> \o << >> = <<a>>
<1> DEFINE S == {a, b, c}
<1>1. /\ <<a, b>> \in Seq(S) /\ <<c>> \in Seq(S) /\ << >> \in Seq(S) /\ <<a, b, c>> \in Seq(S)
      /\ <<a>> \in Seq(S) /\ <<b>> \in Seq(S)
  OBVIOUS
<1>2. <<a, b>> \o << >> = <<a, b>> /\ <<a>> \o << >> = <<a>>
  BY <1>1, ConcatEmptySeq
<1>3. <<a, b>> \o <<c>> = <<a, b, c>>
  <2> DEFINE p == <<a, b>> \o <<c>>
             q == <<a, b, c>>
  <2>1. p \in Seq(S) /\ q \in Seq(S) /\ Len(p) = 3 /\ Len(q) = 3
    BY <1>1, ConcatProperties
  <2>2. p[1] = a /\ p[2] = b /\ p[3] = c /\ q[1] = a /\ q[2] = b /\ q[3] = c
    BY <1>1, ConcatProperties
  <2>3. \A k \in 1 .. 3 : p[k] = q[k]
    <3>1. \A k \in 1 .. 3 : k = 1 \/ k = 2 \/ k = 3
      OBVIOUS
    <3> QED BY <2>2, <3>1
  <2> HIDE DEF p, q
  <2>4. p = q
    BY <2>1, <2>3, SeqEqual
  <2> QED BY <2>4 DEF p, q
<1>4. <<a>> \o <<b>> = <<a, b>>
  <2> DEFINE p == <<a>> \o <<b>>
             q == <<a, b>>
  <2>1. p \in Seq(S) /\ q \in Seq(S) /\ Len(p) = 2 /\ Len(q) = 2
    BY <1>1, ConcatProperties
  <2>2. p[1] = a /\ p[2] = b /\ q[1] = a /\ q[2] = b
    BY <1>1, ConcatProperties
  <2>3. \A k \in 1 .. 2 : p[k] = q[k]
    <3>1. \A k \in 1 .. 2 : k = 1 \/ k = 2
      OBVIOUS
    <3> QED BY <2>2, <3>1
  <2> HIDE DEF p, q
  <2>4. p = q
    BY <2>1, <2>3, SeqEqual
  <2> QED BY <2>4 DEF p, q
<1> QED BY <1>2, <1>3, <1>4

LEMMA FrameWritten ==
  ASSUME TapeInv, NEW frame \in RecordSet, frame.mono = mono + 1, frame.kind # "gap"
  PROVE  Written(FrameAndGap(frame), mono + 1)
<1> DEFINE g == GapRecord(frame.sid)
           s == Record("get_snapshot", None, 0)
<1>1. None \in Buckets /\ frame.sid \in Int /\ 0 \in Int
  BY DEF Buckets, RecordSet
<1>2. s \in RecordSet /\ s.kind = "get_snapshot" /\ s.mono = mono + 1
  BY <1>1, RecordOf DEF RecordKinds
<1>3. g \in RecordSet /\ g.kind = "gap" /\ g.mono = mono + 1
  <2>1. /\ Record("gap", None, 0) \in RecordSet /\ Record("gap", None, 0).kind = "gap"
        /\ Record("gap", None, 0).mono = mono + 1
    BY <1>1, RecordOf DEF RecordKinds
  <2> QED BY <1>1, <2>1, Changed DEF GapRecord
<1>4. TableOf(frame) # TableOf(g) /\ TableOf(s) \notin Tables
  BY <1>2, <1>3 DEF TableOf, Tables
<1>5. FrameAndGap(frame) = IF frame.sid \in hole
                           THEN <<frame, g>> \o (IF frame.sid = sid THEN <<s>> ELSE << >>)
                           ELSE <<frame>>
  BY DEF FrameAndGap
<1> HIDE DEF g, s
<1>6. <<frame, g>> \o <<s>> = <<frame, g, s>> /\ <<frame, g>> \o << >> = <<frame, g>>
  BY Tuples
<1> QED BY <1>2, <1>3, <1>4, <1>5, <1>6, WrittenOne, WrittenTwo, WrittenThree


LEMMA Plain ==
  ASSUME TapeInv, NEW kind \in RecordKinds, NEW m \in Buckets, NEW n \in Int,
         kind \in {"delta", "snapshot", "trade", "audit", "delete_markets"} => m \in Markets
  PROVE  Written(<<Record(kind, m, n)>>, mono + 1)
BY RecordOf, WrittenOne

LEMMA Bucketed == None \in Buckets /\ Markets \subseteq Buckets
BY DEF Buckets

-----------------------------------------------------------------------------
(* The actions. *)

LEMMA StaledBooks ==
  ASSUME Controlled
  PROVE  /\ Staled(live) \in [Markets -> [on : BOOLEAN, fresh : BOOLEAN, n : Nat]]
         /\ \A m \in Markets : Staled(live)[m].on = live[m].on /\ ~Staled(live)[m].fresh
BY DEF Controlled, Staled

LEMMA ConnectKeeps ==
  ASSUME TapeInv, Connect
  PROVE  TapeInv'
<1> DEFINE a == Record("open", None, 0)
           b == [Record("subscribe", None, 0) EXCEPT !.sid = 1]
           c == [Record("subscribed", None, 0) EXCEPT !.sid = 1]
<1>1. a \in RecordSet /\ a.kind = "open" /\ a.mono = mono + 1
  BY RecordOf, Bucketed DEF RecordKinds
<1>2. b \in RecordSet /\ b.kind = "subscribe" /\ b.mono = mono + 1
  <2>1. Record("subscribe", None, 0) \in RecordSet /\ Record("subscribe", None, 0).kind = "subscribe"
        /\ Record("subscribe", None, 0).mono = mono + 1
    BY RecordOf, Bucketed DEF RecordKinds
  <2>2. 1 \in Int /\ 2 \in Int
    OBVIOUS
  <2> QED BY <2>1, <2>2, Changed, Zenon
<1>3. c \in RecordSet /\ c.kind = "subscribed" /\ c.mono = mono + 1
  <2>1. Record("subscribed", None, 0) \in RecordSet /\ Record("subscribed", None, 0).kind = "subscribed"
        /\ Record("subscribed", None, 0).mono = mono + 1
    BY RecordOf, Bucketed DEF RecordKinds
  <2>2. 1 \in Int /\ 2 \in Int
    OBVIOUS
  <2> QED BY <2>1, <2>2, Changed, Zenon
<1>4. Instant /\ NoTrouble /\ Tapes(wall', <<a, b, c>>) /\ Told("open", {}, {})
  BY DEF Connect
<1> HIDE DEF a, b, c
<1>5. TableOf(a) \notin Tables /\ TableOf(b) \notin Tables /\ TableOf(c) \notin Tables
  BY <1>1, <1>2, <1>3, TableNone
<1>6. Written(<<a, b, c>>, mono + 1)
  BY <1>1, <1>2, <1>3, <1>5, WrittenThree
<1>7. Recorded'
  BY <1>4, <1>6, Recording DEF TapeInv
<1>8. Controlled'
  BY DEF TapeInv, Connect, Controlled, On, NoBook, TradeSid
<1> QED BY <1>7, <1>8 DEF TapeInv

LEMMA AttemptFailsKeeps ==
  ASSUME TapeInv, AttemptFails
  PROVE  TapeInv'
<1>1. Written(<<Record("error", None, 0)>>, mono + 1)
  BY Plain, Bucketed DEF RecordKinds
<1>2. Recorded'
  BY <1>1, Recording DEF TapeInv, AttemptFails
<1>3. Controlled'
  BY DEF TapeInv, AttemptFails, Controlled, On
<1> QED BY <1>2, <1>3 DEF TapeInv

LEMMA CloseKeeps ==
  ASSUME TapeInv, Close
  PROVE  TapeInv'
<1>1. Written(<<Record("close", None, 0)>>, mono + 1)
  BY Plain, Bucketed DEF RecordKinds
<1>2. Recorded'
  BY <1>1, Recording DEF TapeInv, Close
<1>3. Controlled'
  BY StaledBooks DEF TapeInv, Close, Controlled, On
<1> QED BY <1>2, <1>3 DEF TapeInv

LEMMA SnapshotKeeps ==
  ASSUME TapeInv, NEW m \in Markets, SnapshotArrives(m)
  PROVE  TapeInv'
<1> DEFINE frame == Record("snapshot", m, exch[m])
           gap   == BookGap /\ resyncing = {}
           books == IF gap THEN Staled(live) ELSE live
           records == IF gap THEN FrameAndGap(frame) ELSE <<frame>>
<1>1. exch[m] \in Int /\ m \in Buckets
  BY Bucketed DEF TapeInv, Controlled
<1>2. frame \in RecordSet /\ frame.kind = "snapshot" /\ frame.mono = mono + 1
  BY <1>1, RecordOf DEF RecordKinds
<1>3. Written(records, mono + 1)
  <2> HIDE DEF frame, gap
  <2> QED BY <1>2, FrameWritten, WrittenOne
<1>4. /\ Instant /\ NoTrouble /\ Tapes(wall', records)
      /\ Told("frame", GapsAfter(m) \cup (IF gap THEN {GapAt(m)} ELSE {}), Heard \cup {m})
  BY DEF SnapshotArrives
<1>5. /\ live' = [books EXCEPT ![m] = [on |-> TRUE, fresh |-> TRUE, n |-> exch[m]]]
      /\ awaited' = (IF gap THEN On ELSE awaited \ {m})
      /\ hole' = hole \ {sid} /\ UNCHANGED <<conn, sid, exch>> /\ conn = "open"
  BY DEF SnapshotArrives
<1> HIDE DEF frame, gap, records
<1>6. Recorded'
  BY <1>3, <1>4, Recording DEF TapeInv
<1>7. Controlled'
  <2>1. /\ books \in [Markets -> [on : BOOLEAN, fresh : BOOLEAN, n : Nat]]
        /\ \A k \in Markets : books[k].on = live[k].on
        /\ \A k \in Markets : books[k].fresh => books[k].on
    BY StaledBooks DEF TapeInv, Controlled
  <2> HIDE DEF books
  <2>2. /\ live' \in [Markets -> [on : BOOLEAN, fresh : BOOLEAN, n : Nat]]
        /\ \A k \in Markets : live[k].on => live'[k].on
        /\ \A k \in Markets : live'[k].fresh => live'[k].on
    BY <1>5, <2>1 DEF TapeInv, Controlled
  <2>3. On \subseteq On' /\ awaited \subseteq On
    BY <2>2 DEF On, TapeInv, Controlled
  <2> QED BY <1>5, <2>2, <2>3 DEF TapeInv, Controlled
<1> QED BY <1>6, <1>7 DEF TapeInv

LEMMA DeltaKeeps ==
  ASSUME TapeInv, NEW m \in Markets, DeltaArrives(m)
  PROVE  TapeInv'
<1> DEFINE frame == Record("delta", m, 1)
           books == IF BookGap THEN Staled(live) ELSE live
<1>1. frame \in RecordSet /\ frame.kind = "delta" /\ frame.mono = mono + 1
  BY Bucketed, RecordOf DEF RecordKinds
<1>2. Written(FrameAndGap(frame), mono + 1)
  <2> HIDE DEF frame
  <2> QED BY <1>1, FrameWritten
<1>3. /\ Instant /\ NoTrouble /\ Tapes(wall', FrameAndGap(frame))
      /\ Told("frame", truth.gaps \cup (IF BookGap THEN {GapAt(m)} ELSE {}), Heard \cup {m})
  BY DEF DeltaArrives
<1>4. /\ live' = (IF books[m].fresh THEN [books EXCEPT ![m].n = @ + 1] ELSE books)
      /\ awaited' = (IF BookGap THEN On ELSE awaited)
      /\ exch' = [exch EXCEPT ![m] = @ + 1]
      /\ hole' = hole \ {sid} /\ UNCHANGED <<conn, sid>> /\ conn = "open"
  BY DEF DeltaArrives
<1> HIDE DEF frame
<1>5. Recorded'
  BY <1>2, <1>3, Recording DEF TapeInv
<1>6. Controlled'
  <2>1. /\ books \in [Markets -> [on : BOOLEAN, fresh : BOOLEAN, n : Nat]]
        /\ \A k \in Markets : books[k].on = live[k].on
        /\ \A k \in Markets : books[k].fresh => books[k].on
    BY StaledBooks DEF TapeInv, Controlled
  <2> HIDE DEF books
  <2>2. /\ live' \in [Markets -> [on : BOOLEAN, fresh : BOOLEAN, n : Nat]]
        /\ \A k \in Markets : live'[k].on = live[k].on
        /\ \A k \in Markets : live'[k].fresh => live'[k].on
    BY <1>4, <2>1
  <2>3. On' = On /\ awaited \subseteq On
    BY <2>2 DEF On, TapeInv, Controlled
  <2>4. exch' \in [Markets -> Nat]
    BY <1>4 DEF TapeInv, Controlled
  <2> QED BY <1>4, <2>2, <2>3, <2>4 DEF TapeInv, Controlled
<1> QED BY <1>5, <1>6 DEF TapeInv

LEMMA FrameLostKeeps ==
  ASSUME TapeInv, FrameLost
  PROVE  TapeInv'
<1>1. Clocked
  BY DEF TapeInv, Recorded
<1>2. /\ wall \in Nat /\ wall <= MaxWall + SleepLength /\ wall' = wall /\ truth' = truth
      /\ troubles \in Nat /\ troubles' = troubles + 1 /\ troubles' \in 0 .. MaxTroubles
      /\ UNCHANGED <<mono, rotated, seg, hours>>
      /\ "restarted" \in DOMAIN truth
  BY <1>1, TapeAssumption DEF FrameLost, Trouble, Clocked
<1> DEFINE b == troubles * StepLength
           c == (troubles + 1) * StepLength
<1>3. b \in Nat /\ c = b + StepLength /\ StepLength \in Nat
  BY <1>1, Bounds
<1> HIDE DEF b, c
<1>4. wall + b <= wall' + c
  BY <1>2, <1>3
<1>5. Recorded'
  BY <1>2, <1>4, NotWritten DEF TapeInv, b, c
<1>6. Controlled'
  BY DEF TapeInv, FrameLost, Controlled, On
<1> QED BY <1>5, <1>6 DEF TapeInv

LEMMA RepeatedKeeps ==
  ASSUME TapeInv, NEW m \in Markets, DeltaRepeated(m)
  PROVE  TapeInv'
<1> DEFINE a == Record("delta", m, 1)
           b == Record("get_snapshot", None, 0)
           records == <<a>> \o (IF On \subseteq resyncing THEN << >> ELSE <<b>>)
<1>1. a \in RecordSet /\ a.kind = "delta" /\ a.mono = mono + 1
  BY Bucketed, RecordOf DEF RecordKinds
<1>2. b \in RecordSet /\ b.kind = "get_snapshot" /\ b.mono = mono + 1
  BY Bucketed, RecordOf DEF RecordKinds
<1>3. Instant /\ Trouble /\ Tapes(wall', records) /\ Told("frame", truth.gaps, Heard \cup {m})
  BY DEF DeltaRepeated
<1> HIDE DEF a, b
<1>4. records = <<a, b>> \/ records = <<a>>
  BY Tuples
<1>5. Written(records, mono + 1)
  <2>1. TableOf(a) # TableOf(b)
    BY <1>1, <1>2 DEF TableOf
  <2>2. Written(<<a, b>>, mono + 1) /\ Written(<<a>>, mono + 1)
    BY <1>1, <1>2, <2>1, WrittenOne, WrittenTwo
  <2> QED BY <1>4, <2>2
<1> HIDE DEF records
<1>6. Recorded'
  BY <1>3, <1>5, Recording DEF TapeInv
<1>7. Controlled'
  BY StaledBooks DEF TapeInv, DeltaRepeated, Controlled, On
<1> QED BY <1>6, <1>7 DEF TapeInv

LEMMA TradeKeeps ==
  ASSUME TapeInv, NEW m \in Markets, TradeArrives(m)
  PROVE  TapeInv'
<1> DEFINE frame == Record("trade", m, 0)
<1>1. frame \in RecordSet /\ frame.kind = "trade" /\ frame.mono = mono + 1
  BY Bucketed, RecordOf DEF RecordKinds
<1>2. Written(FrameAndGap(frame), mono + 1)
  <2> HIDE DEF frame
  <2> QED BY <1>1, FrameWritten
<1>3. Recorded'
  BY <1>2, Recording DEF TapeInv, TradeArrives
<1>4. Controlled'
  BY DEF TapeInv, TradeArrives, Controlled, On
<1> QED BY <1>3, <1>4 DEF TapeInv

LEMMA UndecodableKeeps ==
  ASSUME TapeInv, UndecodableArrives
  PROVE  TapeInv'
<1>1. Written(<<Record("undecodable", None, 0)>>, mono + 1)
  BY Plain, Bucketed DEF RecordKinds
<1>2. Recorded'
  BY <1>1, Recording DEF TapeInv, UndecodableArrives
<1>3. Controlled'
  BY DEF TapeInv, UndecodableArrives, Controlled, On
<1> QED BY <1>2, <1>3 DEF TapeInv

LEMMA LeavesKeeps ==
  ASSUME TapeInv, NEW m \in Markets, MarketLeaves(m)
  PROVE  TapeInv'
<1>1. Written(<<Record("delete_markets", m, 0)>>, mono + 1)
  BY Plain, Bucketed DEF RecordKinds
<1>2. Recorded'
  BY <1>1, Recording DEF TapeInv, MarketLeaves
<1>3. Controlled'
  BY DEF TapeInv, MarketLeaves, Controlled, On, NoBook
<1> QED BY <1>2, <1>3 DEF TapeInv

LEMMA StragglerKeeps ==
  ASSUME TapeInv, NEW m \in Markets, Straggler(m)
  PROVE  TapeInv'
<1>1. Written(<<Record("delta", m, 1)>>, mono + 1)
  BY Plain, Bucketed DEF RecordKinds
<1>2. Recorded'
  BY <1>1, Recording DEF TapeInv, Straggler
<1>3. Controlled'
  BY DEF TapeInv, Straggler, Controlled, On
<1> QED BY <1>2, <1>3 DEF TapeInv

LEMMA ResubscribeKeeps ==
  ASSUME TapeInv, Resubscribe
  PROVE  TapeInv'
<1> DEFINE a == Record("unsubscribe", None, 0)
           b == [Record("subscribe", None, 0) EXCEPT !.sid = 2]
           c == [Record("subscribed", None, 0) EXCEPT !.sid = 2]
<1>1. a \in RecordSet /\ a.kind = "unsubscribe" /\ a.mono = mono + 1
  BY RecordOf, Bucketed DEF RecordKinds
<1>2. b \in RecordSet /\ b.kind = "subscribe" /\ b.mono = mono + 1
  <2>1. Record("subscribe", None, 0) \in RecordSet /\ Record("subscribe", None, 0).kind = "subscribe"
        /\ Record("subscribe", None, 0).mono = mono + 1
    BY RecordOf, Bucketed DEF RecordKinds
  <2>2. 1 \in Int /\ 2 \in Int
    OBVIOUS
  <2> QED BY <2>1, <2>2, Changed, Zenon
<1>3. c \in RecordSet /\ c.kind = "subscribed" /\ c.mono = mono + 1
  <2>1. Record("subscribed", None, 0) \in RecordSet /\ Record("subscribed", None, 0).kind = "subscribed"
        /\ Record("subscribed", None, 0).mono = mono + 1
    BY RecordOf, Bucketed DEF RecordKinds
  <2>2. 1 \in Int /\ 2 \in Int
    OBVIOUS
  <2> QED BY <2>1, <2>2, Changed, Zenon
<1>4. Instant /\ Trouble /\ Tapes(wall', <<a, b, c>>) /\ Told("command", {}, {})
  BY DEF Resubscribe
<1> HIDE DEF a, b, c
<1>5. TableOf(a) \notin Tables /\ TableOf(b) \notin Tables /\ TableOf(c) \notin Tables
  BY <1>1, <1>2, <1>3, TableNone
<1>6. Written(<<a, b, c>>, mono + 1)
  BY <1>1, <1>2, <1>3, <1>5, WrittenThree
<1>7. Recorded'
  BY <1>4, <1>6, Recording DEF TapeInv
<1>8. Controlled'
  BY DEF TapeInv, Resubscribe, Controlled, On, NoBook, TradeSid
<1> QED BY <1>7, <1>8 DEF TapeInv

LEMMA AuditKeeps ==
  ASSUME TapeInv, NEW m \in Markets, AuditEnds(m)
  PROVE  TapeInv'
<1>1. Written(<<Record("audit", m, 0)>>, mono + 1)
  BY Plain, Bucketed DEF RecordKinds
<1>2. Recorded'
  BY <1>1, Recording DEF TapeInv, AuditEnds
<1>3. Controlled'
  BY DEF TapeInv, AuditEnds, Controlled, On
<1> QED BY <1>2, <1>3 DEF TapeInv

LEMMA SleepsKeeps ==
  ASSUME TapeInv, HostSleeps
  PROVE  TapeInv'
<1> DEFINE a == Record("clock_jump", None, SleepLength)
           b == [a EXCEPT !.wall = wall']
<1>1. Clocked
  BY DEF TapeInv, Recorded
<1>2. /\ wall \in Nat /\ wall < MaxWall /\ wall' = wall + 1 + SleepLength /\ mono' = mono + 1
      /\ troubles' = troubles + 1 /\ troubles \in Nat /\ troubles < MaxTroubles
      /\ MaxTroubles \in Nat /\ MaxWall \in Nat /\ SleepLength \in Nat
  BY <1>1, TapeAssumption DEF Clocked, HostSleeps, Trouble
<1>3. /\ wall' \in Nat /\ wall' <= MaxWall + SleepLength /\ wall' >= wall + 1
      /\ troubles' \in {troubles, troubles + 1} /\ troubles' <= MaxTroubles
  BY <1>2
<1>4. a \in RecordSet /\ a.kind = "clock_jump" /\ a.mono = mono + 1
  BY <1>2, RecordOf, Bucketed DEF RecordKinds
<1>5. Tapes(wall', <<b>>) /\ Told("clock_jump", truth.gaps, Heard)
  BY DEF HostSleeps
<1> HIDE DEF a
<1>6. b \in RecordSet /\ b.mono = mono + 1
  <2>1. wall' \in Int
    BY <1>3
  <2> QED BY <1>4, <2>1, Changed, Zenon
<1> HIDE DEF b
<1>7. Written(<<b>>, mono + 1)
  BY <1>6, WrittenOne
<1>8. "restarted" \in DOMAIN truth' /\ truth'.restarted = truth.restarted
  BY <1>1, <1>5, ToldKeeps
<1>9. Recorded'
  BY <1>2, <1>3, <1>5, <1>7, <1>8, Writes DEF TapeInv
<1>10. Controlled'
  BY DEF TapeInv, HostSleeps, Controlled, On
<1> QED BY <1>9, <1>10 DEF TapeInv

LEMMA StepsBackKeeps ==
  ASSUME TapeInv, ClockStepsBack
  PROVE  TapeInv'
<1>1. Clocked
  BY DEF TapeInv, Recorded
<1>2. /\ wall \in Nat /\ wall <= MaxWall + SleepLength /\ wall' = wall - StepLength /\ wall >= StepLength
      /\ troubles \in Nat /\ troubles' = troubles + 1 /\ troubles' \in 0 .. MaxTroubles
      /\ UNCHANGED <<mono, rotated, seg, hours>> /\ MaxWall \in Nat /\ SleepLength \in Nat
  BY <1>1, TapeAssumption DEF ClockStepsBack, Trouble, Clocked
<1>3. "restarted" \in DOMAIN truth' /\ truth'.restarted = truth.restarted
  BY <1>1 DEF ClockStepsBack, Clocked
<1> DEFINE b == troubles * StepLength
           c == (troubles + 1) * StepLength
<1>4. b \in Nat /\ c = b + StepLength /\ StepLength \in Nat
  BY <1>1, Bounds
<1> HIDE DEF b, c
<1>5. wall + b <= wall' + c /\ wall' \in Nat /\ wall' <= MaxWall + SleepLength
  BY <1>2, <1>4
<1>6. Recorded'
  BY <1>2, <1>3, <1>5, NotWritten DEF TapeInv, b, c
<1>7. Controlled'
  BY DEF TapeInv, ClockStepsBack, Controlled, On
<1> QED BY <1>6, <1>7 DEF TapeInv

LEMMA RestartsKeeps ==
  ASSUME TapeInv, HostRestarts
  PROVE  TapeInv'
<1>1. Clocked /\ Structured(hours, seg) /\ Aged
  BY DEF TapeInv, Recorded
<1>2. /\ wall \in Nat /\ wall < MaxWall /\ wall' = wall + 1 /\ mono' = 0 /\ rotated' = TRUE
      /\ troubles \in Nat /\ troubles' = troubles + 1 /\ troubles' \in 0 .. MaxTroubles
      /\ MaxWall \in Nat /\ SleepLength \in Nat /\ MonoStart \in Nat /\ ~truth.restarted
      /\ UNCHANGED <<seg, hours>>
  BY <1>1, TapeAssumption DEF HostRestarts, Trouble, Clocked
<1>3. "restarted" \in DOMAIN truth' /\ truth'.restarted = TRUE
  BY <1>1 DEF HostRestarts, Clocked
<1>4. Base = MonoStart /\ Base' = 0
  BY <1>2, <1>3 DEF Base
<1> DEFINE b == troubles * StepLength
           c == (troubles + 1) * StepLength
<1>5. b \in Nat /\ c = b + StepLength /\ StepLength \in Nat
  BY <1>1, Bounds
<1>6. c = troubles' * StepLength
  BY <1>2
<1> HIDE DEF b, c
<1>7. mono' <= Base' + wall' + c /\ wall' \in Nat /\ wall' <= MaxWall + SleepLength
  BY <1>2, <1>4, <1>5
<1>8. Clocked'
  <2>1. mono' \in Nat /\ mono' >= Base' /\ truth'.restarted \in BOOLEAN
    <3>1. \A x, y : x = 0 /\ y = 0 => x \in Nat /\ x >= y
      OBVIOUS
    <3>2. mono' \in Nat /\ mono' >= Base'
      BY <1>2, <1>4, <3>1, Zenon
    <3>3. truth'.restarted \in BOOLEAN
      BY <1>3, Zenon
    <3> QED BY <3>2, <3>3
  <2>2. mono' <= Base' + wall' + troubles' * StepLength
    BY <1>6, <1>7, Zenon
  <2> QED BY <1>2, <1>3, <1>7, <2>1, <2>2, Zenon DEF Clocked
<1>9. ASSUME NEW x, Past(x) PROVE Past(x)'
  <2>1. x \in Int /\ x >= MonoStart
    BY <1>2, <1>4, <1>9 DEF Past
  <2> QED BY <1>3, <2>1 DEF Past
<1>10. Aged'
  BY <1>1, <1>2, <1>9 DEF Aged
<1>11. Recorded'
  BY <1>1, <1>2, <1>8, <1>10 DEF Recorded
<1>12. Controlled'
  BY DEF TapeInv, HostRestarts, Controlled, On, NoBook
<1> QED BY <1>11, <1>12 DEF TapeInv

LEMMA KeyframeKeeps ==
  ASSUME TapeInv, KeyframeWritten
  PROVE  TapeInv'
<1>1. Clocked
  BY DEF TapeInv, Recorded
<1>2. /\ wall \in Nat /\ wall <= MaxWall + SleepLength /\ wall' = wall /\ truth' = truth
      /\ troubles \in Nat /\ troubles' = troubles + 1 /\ troubles' \in 0 .. MaxTroubles
      /\ UNCHANGED <<mono, rotated, seg, hours>>
      /\ "restarted" \in DOMAIN truth
  BY <1>1, TapeAssumption DEF KeyframeWritten, Trouble, Clocked
<1> DEFINE b == troubles * StepLength
           c == (troubles + 1) * StepLength
<1>3. b \in Nat /\ c = b + StepLength /\ StepLength \in Nat
  BY <1>1, Bounds
<1> HIDE DEF b, c
<1>4. wall + b <= wall' + c
  BY <1>2, <1>3
<1>5. Recorded'
  BY <1>2, <1>4, NotWritten DEF TapeInv, b, c
<1>6. Controlled'
  BY DEF TapeInv, KeyframeWritten, Controlled, On
<1> QED BY <1>5, <1>6 DEF TapeInv

-----------------------------------------------------------------------------
(* The theorems. *)

LEMMA NewReading ==
  /\ NewHour \in HourSet /\ NoSegment \in SegmentSet
  /\ Sound([hour |-> NewHour, seg |-> NoSegment])
  /\ \A u \in Tables : Monos([hour |-> NewHour, seg |-> NoSegment], u) = {}
<1> DEFINE i == [hour |-> NewHour, seg |-> NoSegment]
           e == << >>
<1>1. NewTable \in WriterSet /\ TableOK(NewTable) /\ Held(NewTable) = {}
  BY NewTableOK DEF TableOK, WriterSet
<1>2. e \in Seq(SpanSet) /\ e \in Seq(PendingSet) /\ Len(e) = 0 /\ 1 .. 0 = {}
  OBVIOUS
<1>3. /\ NewHour \in HourSet /\ NewHour.tables = [t \in Tables |-> NewTable]
      /\ NewHour.baked = [t \in Tables |-> 0]
      /\ NewHour.records = 0 /\ NewHour.notBaked = 0 /\ NewHour.failures = 0
  <2> HIDE DEF e
  <2>1. NewHour = [records |-> 0, baked |-> [t \in Tables |-> 0], notBaked |-> 0, failures |-> 0,
                   spans |-> e, sleeps |-> {}, stale |-> 0, observed |-> 0,
                   tables |-> [t \in Tables |-> NewTable]]
    BY DEF NewHour, e
  <2>2. [t \in Tables |-> 0] \in [Tables -> Nat] /\ [t \in Tables |-> NewTable] \in [Tables -> WriterSet]
    BY <1>1
  <2> QED BY <1>2, <2>1, <2>2 DEF HourSet
<1>4. NoSegment \in SegmentSet /\ NoSegment.pending = e
  <2> HIDE DEF e
  <2>1. NoSegment = [hour |-> None, first |-> None, last |-> None, start |-> None, opened |-> FALSE,
                     sids |-> {}, markets |-> [m \in Markets |-> NoMarket], pending |-> e]
    BY DEF NoSegment, e
  <2>2. [m \in Markets |-> NoMarket] \in [Markets -> MarketSet] /\ None \in Int
    BY DEF NoMarket, MarketSet, None
  <2> QED BY <1>2, <2>1, <2>2 DEF SegmentSet
<1>5. i \in Interps /\ i.hour = NewHour /\ i.seg = NoSegment
  BY <1>3, <1>4 DEF Interps
<1> HIDE DEF i, e
<1>6. \A u \in Tables : i.hour.tables[u] = NewTable
  BY <1>3, <1>5
<1>7. i.seg.pending = e /\ Len(i.seg.pending) = 0 /\ 1 .. Len(i.seg.pending) = {}
  BY <1>2, <1>4, <1>5
<1>8. PendingMonos(i) = {} /\ \A u \in Tables : HeldMonos(i, u) = {} /\ Monos(i, u) = {}
  BY <1>1, <1>6, <1>7 DEF PendingMonos, HeldMonos, Monos
<1>9. Kept(i)
  BY <1>1, <1>5, <1>6, <1>7, <1>8 DEF Kept
<1>10. \A u \in Tables : SizeOf(i, u) = i.hour.baked[u]
  <2>1. Cardinality({}) = 0
    BY FS_EmptySet
  <2>2. \A u \in Tables : Cardinality(Held(i.hour.tables[u])) = 0 /\ i.hour.baked[u] = 0
    BY <1>1, <1>3, <1>5, <1>6, <2>1
  <2> QED BY <1>7, <2>2 DEF SizeOf
<1>11. i.hour.records = Total(i.hour.baked) + i.hour.notBaked + i.hour.failures
  BY <1>3, <1>5 DEF Total, Tables
<1> QED BY <1>3, <1>4, <1>8, <1>9, <1>10, <1>11 DEF Sound, i

LEMMA TapeStarts ==
  ASSUME TapeInit
  PROVE  TapeInv
<1>1. /\ wall = 0 /\ mono = MonoStart /\ troubles = 0 /\ truth.restarted = FALSE
      /\ "restarted" \in DOMAIN truth /\ rotated = TRUE
      /\ seg = NoSegment /\ hours = [h \in Hours |-> NewHour]
  BY DEF TapeInit
<1>2. /\ MaxWall \in Nat /\ SleepLength \in Nat /\ MaxTroubles \in Nat /\ StepLength \in Nat
      /\ MonoStart \in Nat
  BY TapeAssumption
<1>3. Clocked
  <2>1. Base = MonoStart
    BY <1>1 DEF Base
  <2>2. troubles * StepLength = 0
    BY <1>1, <1>2
  <2> DEFINE b == troubles * StepLength
  <2>3. b = 0
    BY <2>2
  <2> HIDE DEF b
  <2>4. mono <= Base + wall + b
    BY <1>1, <1>2, <2>1, <2>3
  <2>5. /\ wall \in Nat /\ wall <= MaxWall + SleepLength /\ troubles \in 0 .. MaxTroubles
        /\ mono \in Nat /\ mono >= Base
    BY <1>1, <1>2, <2>1
  <2>6. truth.restarted \in BOOLEAN
    BY <1>1, Zenon
  <2> QED BY <1>1, <2>4, <2>5, <2>6, Zenon DEF Clocked, b
<1>4. /\ seg \in SegmentSet /\ seg.hour = None
      /\ hours \in [Hours -> HourSet]
  BY <1>1, NewReading DEF NoSegment
<1>5. \A h \in Hours : Reading(hours, seg, h) = [hour |-> NewHour, seg |-> NoSegment]
  BY <1>1 DEF Reading
<1>6. Structured(hours, seg)
  BY <1>4, <1>5, NewReading DEF Structured
<1>7. Aged
  BY <1>5, NewReading DEF Aged
<1>8. Controlled
  BY DEF TapeInit, Controlled, On, NoBook
<1> QED BY <1>1, <1>3, <1>6, <1>7, <1>8 DEF TapeInv, Recorded

LEMMA TapeStutters ==
  ASSUME TapeInv, UNCHANGED tapeVars
  PROVE  TapeInv'
<1>1. /\ wall' = wall /\ mono' = mono /\ conn' = conn /\ sid' = sid /\ exch' = exch /\ live' = live
      /\ awaited' = awaited /\ hole' = hole /\ rotated' = rotated /\ seg' = seg /\ hours' = hours
      /\ truth' = truth /\ troubles' = troubles
  BY DEF tapeVars
<1>2. Clocked'
  BY <1>1 DEF TapeInv, Recorded, Clocked, Base
<1>3. Aged'
  BY <1>1 DEF TapeInv, Recorded, Aged, Past, Base
<1>4. Controlled'
  BY <1>1 DEF TapeInv, Controlled, On
<1> QED BY <1>1, <1>2, <1>3, <1>4 DEF TapeInv, Recorded

LEMMA TapeSteps ==
  ASSUME TapeInv, [TapeNext]_tapeVars
  PROVE  TapeInv'
BY ConnectKeeps, AttemptFailsKeeps, CloseKeeps, FrameLostKeeps, ResubscribeKeeps, UndecodableKeeps,
   SleepsKeeps, StepsBackKeeps, RestartsKeeps, KeyframeKeeps, SnapshotKeeps, DeltaKeeps, RepeatedKeeps,
   LeavesKeeps, StragglerKeeps, AuditKeeps, TradeKeeps, TapeStutters DEF TapeNext

(* What the tape is read back from is kept by everything that happens at the recorder:
   every hour's rows are those of its counters, and no two rows of a table are of one
   instant of the monotonic clock (what HourInterpreter.add_table and _Segment.feed do in
   interpret.py with the records of _write in recorder.py). *)
THEOREM TapeInvariant == TapeSpec => []TapeInv
<1>1. TapeInit => TapeInv
  BY TapeStarts
<1>2. TapeInv /\ [TapeNext]_tapeVars => TapeInv'
  BY TapeSteps
<1> QED BY <1>1, <1>2, PTL DEF TapeSpec

LEMMA TapeTyped ==
  ASSUME TapeInv
  PROVE  TapeTypeOK
<1>1. Clocked /\ Structured(hours, seg)
  BY DEF TapeInv, Recorded
<1>2. wall \in 0 .. MaxWall + SleepLength
      /\ mono \in 0 .. MonoStart + MaxWall + SleepLength + MaxTroubles * StepLength
  <2> DEFINE b == MaxTroubles * StepLength
  <2>1. /\ MaxWall \in Nat /\ SleepLength \in Nat /\ MonoStart \in Nat /\ b \in Nat
        /\ mono - Base <= MaxWall + SleepLength + b
    BY <1>1, Bounds
  <2>2. /\ wall \in Nat /\ wall <= MaxWall + SleepLength /\ mono \in Nat
        /\ (Base = 0 \/ Base = MonoStart)
    BY <1>1 DEF Clocked, Base
  <2> HIDE DEF b
  <2>3. wall \in 0 .. MaxWall + SleepLength /\ mono \in 0 .. MonoStart + MaxWall + SleepLength + b
    BY <2>1, <2>2
  <2> QED BY <2>3 DEF b
<1>3. seg.hour \in Hours \cup {None} /\ DOMAIN hours = Hours
  BY <1>1 DEF Structured
<1>4. /\ conn \in {"down", "open"} /\ sid \in {1, 2} /\ hole \subseteq {TradeSid, sid}
      /\ live \in [Markets -> [on : BOOLEAN, fresh : BOOLEAN, n : Nat]]
      /\ awaited \subseteq On /\ (conn = "down" => awaited = {})
      /\ \A m \in Markets : live[m].fresh => conn = "open" /\ live[m].on
  BY DEF TapeInv, Controlled
<1>5. conn = "down" => \A m \in Markets : ~live[m].fresh
  BY <1>4
<1> QED BY <1>2, <1>3, <1>4, <1>5 DEF TapeTypeOK

(* Every variable of the recorder and of its tape holds a value of its kind, the clocks
   stay in the range the bounds give them, and a book is fresh only on an open connection
   (_end_connection of recorder.py stales them all). *)
THEOREM TapeTypeCorrect == TapeSpec => []TapeTypeOK
<1>1. TapeInv => TapeTypeOK
  BY TapeTyped
<1> QED BY <1>1, TapeInvariant, PTL

LEMMA TapeAccounts ==
  ASSUME TapeInv
  PROVE  AccountedOnce
<1>1. Structured(hours, seg)
  BY DEF TapeInv, Recorded
<1> DEFINE final == Baked
<1> SUFFICES ASSUME NEW h \in Hours
             PROVE  LET hour == final[h]
                    IN /\ hour.records = Total(hour.baked) + hour.notBaked + hour.failures
                       /\ \A t \in Tables, order \in BucketOrders :
                            LET parts == Parts(hour.tables[t], order)
                            IN /\ Cardinality(RowsOf(parts)) = hour.baked[t]
                               /\ FoldLeft(LAMBDA n, part : n + Len(part), 0, parts) = hour.baked[t]
                               /\ \A part \in Range(parts) : Len(part) <= MaxPartRows
  BY DEF AccountedOnce
<1> DEFINE i == [hour |-> final[h], seg |-> NoSegment]
<1>2. Sound(i) /\ i.hour = final[h] /\ i.seg = NoSegment
  BY <1>1, BakedSound
<1>3. Len(i.seg.pending) = 0
  BY <1>2 DEF NoSegment
<1> HIDE DEF i, final
<1>4. /\ i.hour.records = Total(i.hour.baked) + i.hour.notBaked + i.hour.failures
      /\ Kept(i) /\ \A t \in Tables : SizeOf(i, t) = i.hour.baked[t]
  BY <1>2 DEF Sound
<1>5. ASSUME NEW t \in Tables, NEW order \in BucketOrders
      PROVE  LET parts == Parts(final[h].tables[t], order)
             IN /\ Cardinality(RowsOf(parts)) = final[h].baked[t]
                /\ FoldLeft(LAMBDA n, part : n + Len(part), 0, parts) = final[h].baked[t]
                /\ \A part \in Range(parts) : Len(part) <= MaxPartRows
  <2> DEFINE w == i.hour.tables[t]
             parts == Parts(w, order)
             count == FoldLeft(LAMBDA n, part : n + Len(part), 0, parts)
  <2>1. TableOK(w)
    BY <1>4 DEF Kept
  <2>2. Cardinality(Held(w)) = i.hour.baked[t]
    <3>1. Cardinality(Held(w)) \in Nat
      BY <2>1, HeldFinite
    <3>2. SizeOf(i, t) = Cardinality(Held(w)) + (IF t = "gaps" THEN 0 ELSE 0)
      BY <1>3 DEF SizeOf
    <3> QED BY <1>4, <3>1, <3>2
  <2>3. /\ RowsOf(parts) = Held(w) /\ count = Cardinality(Held(w))
        /\ \A part \in Range(parts) : Len(part) <= MaxPartRows
    <3> HIDE DEF w
    <3> QED BY <2>1, PartsHold
  <2> HIDE DEF count
  <2>4. /\ Cardinality(RowsOf(parts)) = i.hour.baked[t] /\ count = i.hour.baked[t]
        /\ \A part \in Range(parts) : Len(part) <= MaxPartRows
    BY <2>2, <2>3
  <2> QED BY <1>2, <2>4 DEF count
<1> QED BY <1>2, <1>4, <1>5

(* RecordAccounting and TableWriter, whatever the connection and the clocks do: every
   record of an hour is counted once, and every one that is baked has its row in exactly
   one part of its table, none of which is larger than max_part_rows (_write_part and
   plan_parts in spill.py). *)
THEOREM AlwaysAccountedOnce == TapeSpec => []AccountedOnce
<1>1. TapeInv => AccountedOnce
  BY TapeAccounts
<1> QED BY <1>1, TapeInvariant, PTL

-----------------------------------------------------------------------------
(* What the rows say of a gap: the rows written and those postponed, of any table. *)

RowsHeld(i) == UNION {Held(i.hour.tables[u]) : u \in Tables}
Postponed(i) == {i.seg.pending[k] : k \in 1 .. Len(i.seg.pending)}

(* The gap of instant x of subscription s: its row does not say that it is over while books L
   have had no snapshot, and waits for them. *)
Patient(row, s, x, L) ==
  row.table = "gaps" /\ row.mono = x /\ row.sid = s /\ row.n # None => L = {}
Waits(p, s, x, L) == p.row.mono = x /\ p.row.sid = s => p.row.n = None /\ L \subseteq p.waiting
Tells(i, s, x, L) ==
  /\ \A row \in RowsHeld(i) : Patient(row, s, x, L)
  /\ \A p \in Postponed(i) : Waits(p, s, x, L)

SameBooks(i, j) ==
  \A m \in Markets : j.seg.markets[m].on = i.seg.markets[m].on /\ j.seg.markets[m].sid = i.seg.markets[m].sid

LEMMA SpilledHeld ==
  ASSUME NEW t \in WriterSet
  PROVE  Spilled(t) \in WriterSet /\ Held(Spilled(t)) = Held(t)
<1> DEFINE e == << >>
           u == Spilled(t)
           file(b) == t.spilled[b] \o RowsIn(t.buffer, b)
<1>1. t.buffer \in Seq(Rows) /\ \A b \in Buckets : t.spilled[b] \in Seq(Rows)
  BY DEF WriterSet
<1>2. e \in Seq(Rows) /\ Range(e) = {}
  BY RangeEmpty
<1>3. u = [buffer |-> e, spilled |-> [b \in Buckets |-> file(b)]]
  BY DEF Spilled
<1>4. ASSUME NEW b \in Buckets
      PROVE  /\ file(b) \in Seq(Rows)
             /\ Range(file(b)) = Range(t.spilled[b]) \cup {row \in Range(t.buffer) : BucketOf(row) = b}
  <2> DEFINE x == t.spilled[b]
             y == RowsIn(t.buffer, b)
  <2>1. x \in Seq(Rows)
    BY <1>1
  <2>2. y \in Seq(Rows) /\ Range(y) = {row \in Range(t.buffer) : BucketOf(row) = b}
    BY <1>1, RowsInOf
  <2> HIDE DEF x, y
  <2>3. x \o y \in Seq(Rows) /\ Range(x \o y) = Range(x) \cup Range(y)
    BY <2>1, <2>2, RangeConcat
  <2> QED BY <2>2, <2>3 DEF x, y
<1> HIDE DEF e, u, file
<1>5. u \in WriterSet /\ u.buffer = e /\ \A b \in Buckets : u.spilled[b] = file(b)
  BY <1>2, <1>3, <1>4 DEF WriterSet
<1>6. \A row \in Range(t.buffer) : BucketOf(row) \in Buckets
  BY <1>1, InBuckets, RangeOfSeq
<1>7. Held(u) = UNION {Range(file(b)) : b \in Buckets}
  BY <1>2, <1>5 DEF Held
<1>8. Held(u) = Held(t)
  BY <1>4, <1>6, <1>7 DEF Held
<1> QED BY <1>5, <1>8 DEF u

LEMMA AddedHeld ==
  ASSUME NEW t \in WriterSet, NEW row \in Rows
  PROVE  Added(t, row) \in WriterSet /\ Held(Added(t, row)) = Held(t) \cup {row}
<1> DEFINE more == Append(t.buffer, row)
           u == [t EXCEPT !.buffer = more]
<1>1. more \in Seq(Rows) /\ Range(more) = Range(t.buffer) \cup {row}
  BY RangeAppend DEF WriterSet
<1> HIDE DEF more
<1>2. u \in WriterSet /\ u.buffer = more /\ u.spilled = t.spilled
  BY <1>1 DEF WriterSet
<1> HIDE DEF u
<1>3. Held(u) = Held(t) \cup {row}
  BY <1>1, <1>2 DEF Held
<1>4. Added(t, row) = IF Len(u.buffer) >= FlushRows THEN Spilled(u) ELSE u
  BY DEF Added, u, more
<1> QED BY <1>2, <1>3, <1>4, SpilledHeld

LEMMA EmitHeld ==
  ASSUME NEW i \in Interps, NEW row \in Rows
  PROVE  /\ Emit(i, row) \in Interps /\ Emit(i, row).seg = i.seg
         /\ RowsHeld(Emit(i, row)) = RowsHeld(i) \cup {row}
<1> DEFINE t == row.table
           new == Added(i.hour.tables[t], row)
           h == [i.hour EXCEPT !.tables[t] = new]
           j == Emit(i, row)
<1>1. t \in Tables /\ i.hour \in HourSet /\ i.seg \in SegmentSet /\ \A u \in Tables : i.hour.tables[u] \in WriterSet
  BY DEF Rows, Interps, HourSet
<1>2. new \in WriterSet /\ Held(new) = Held(i.hour.tables[t]) \cup {row}
  BY <1>1, AddedHeld
<1>3. j = [i EXCEPT !.hour = h]
  BY DEF Emit, Interps
<1> HIDE DEF new, t, j
<1>4. h \in HourSet /\ \A u \in Tables : h.tables[u] = IF u = t THEN new ELSE i.hour.tables[u]
  BY <1>1, <1>2 DEF HourSet
<1> HIDE DEF h
<1>5. j \in Interps /\ j.hour = h /\ j.seg = i.seg
  BY <1>1, <1>3, <1>4 DEF Interps
<1>6. \A u \in Tables : Held(j.hour.tables[u]) = Held(i.hour.tables[u]) \cup (IF u = t THEN {row} ELSE {})
  BY <1>2, <1>4, <1>5
<1>7. RowsHeld(j) = RowsHeld(i) \cup {row}
  BY <1>1, <1>6 DEF RowsHeld
<1> QED BY <1>5, <1>7 DEF j

LEMMA PostponeHeld ==
  ASSUME NEW i \in Interps, NEW p \in PendingSet
  PROVE  /\ Postpone(i, p) \in Interps /\ Postpone(i, p).hour = i.hour
         /\ Postpone(i, p).seg.markets = i.seg.markets
         /\ Postpone(i, p).seg.sids = i.seg.sids
         /\ Postponed(Postpone(i, p)) = Postponed(i) \cup {p}
<1> DEFINE q == i.seg.pending
           r == Append(q, p)
           s == [i.seg EXCEPT !.pending = r]
           j == Postpone(i, p)
<1>1. i.seg \in SegmentSet /\ i.hour \in HourSet /\ q \in Seq(PendingSet)
  BY DEF Interps, SegmentSet
<1>2. /\ r \in Seq(PendingSet) /\ Len(q) \in Nat /\ Len(r) = Len(q) + 1 /\ r[Len(q) + 1] = p
      /\ \A k \in 1 .. Len(q) : r[k] = q[k]
  <2> HIDE DEF q
  <2> QED BY <1>1, AppendProperties, LenProperties
<1>3. j = [i EXCEPT !.seg = s]
  BY <1>1 DEF Postpone, Interps
<1> HIDE DEF r, j
<1>4. s \in SegmentSet /\ s.pending = r /\ s.markets = i.seg.markets /\ s.sids = i.seg.sids
  BY <1>1, <1>2 DEF SegmentSet
<1> HIDE DEF s
<1>5. j \in Interps /\ j.hour = i.hour /\ j.seg = s
  BY <1>1, <1>3, <1>4 DEF Interps
<1>6. Postponed(j) = Postponed(i) \cup {p}
  <2>1. Postponed(j) = {r[k] : k \in 1 .. Len(r)} /\ Postponed(i) = {q[k] : k \in 1 .. Len(q)}
    BY <1>4, <1>5 DEF Postponed
  <2>2. \A k \in 1 .. Len(r) : k \in 1 .. Len(q) \/ k = Len(q) + 1
    BY <1>2
  <2>3. (\A k \in 1 .. Len(q) : k \in 1 .. Len(r)) /\ Len(q) + 1 \in 1 .. Len(r)
    BY <1>2
  <2> HIDE DEF q
  <2> QED BY <1>2, <2>1, <2>2, <2>3
<1> QED BY <1>4, <1>5, <1>6 DEF j

LEMMA TellsAlike ==
  ASSUME NEW i, NEW j, j.hour.tables = i.hour.tables, j.seg.pending = i.seg.pending,
         NEW s, NEW x, NEW L, Tells(i, s, x, L)
  PROVE  Tells(j, s, x, L)
<1>1. RowsHeld(j) = RowsHeld(i) /\ Postponed(j) = Postponed(i)
  BY DEF RowsHeld, Postponed
<1> QED BY <1>1 DEF Tells

LEMMA EmitTells ==
  ASSUME NEW i \in Interps, NEW row \in Rows, NEW s, NEW x, NEW L, Tells(i, s, x, L), Patient(row, s, x, L)
  PROVE  Emit(i, row) \in Interps /\ Emit(i, row).seg = i.seg /\ Tells(Emit(i, row), s, x, L)
<1> DEFINE j == Emit(i, row)
<1>1. j \in Interps /\ j.seg = i.seg /\ RowsHeld(j) = RowsHeld(i) \cup {row}
  BY EmitHeld
<1> HIDE DEF j
<1>2. Postponed(j) = Postponed(i)
  BY <1>1 DEF Postponed
<1> QED BY <1>1, <1>2 DEF Tells, j

LEMMA PostponeTells ==
  ASSUME NEW i \in Interps, NEW p \in PendingSet, NEW s, NEW x, NEW L, Tells(i, s, x, L), Waits(p, s, x, L)
  PROVE  /\ Postpone(i, p) \in Interps /\ Tells(Postpone(i, p), s, x, L)
         /\ Postpone(i, p).seg.markets = i.seg.markets
<1> DEFINE j == Postpone(i, p)
<1>1. /\ j \in Interps /\ j.hour = i.hour /\ j.seg.markets = i.seg.markets
      /\ Postponed(j) = Postponed(i) \cup {p}
  BY PostponeHeld
<1> HIDE DEF j
<1>2. RowsHeld(j) = RowsHeld(i)
  BY <1>1 DEF RowsHeld
<1> QED BY <1>1, <1>2 DEF Tells, j

LEMMA PendingKnown ==
  ASSUME NEW i \in Interps, NEW n \in 1 .. Len(i.seg.pending)
  PROVE  i.seg.pending[n] \in PendingSet /\ i.seg.pending[n] \in Postponed(i)
<1>1. i.seg.pending \in Seq(PendingSet)
  BY DEF Interps, SegmentSet
<1> QED BY <1>1, ElementOfSeq DEF Postponed

SameSubs(i, j) == j.seg.markets = i.seg.markets /\ j.seg.sids = i.seg.sids

(* Of gaps whose books are left, none is written as over. *)
LEMMA ResolvingTells ==
  ASSUME NEW i \in Interps, NEW r \in RecordSet, NEW s, NEW x, NEW L
  PROVE  /\ ResolveGaps(i, r) \in Interps /\ ResolveGaps(i, r).seg.markets = i.seg.markets
         /\ ResolveGaps(i, r).seg.sids = i.seg.sids
         /\ Tells(i, s, x, L) => Tells(ResolveGaps(i, r), s, x, L \ {r.market})
<1> DEFINE q == i.seg.pending
           N == Len(q)
           e == << >>
           v == [i.seg EXCEPT !.pending = e]
           g == [i EXCEPT !.seg = v]
           M == L \ {r.market}
           kept(j) == Tells(i, s, x, L) => Tells(j, s, x, M)
           T == [n \in 0 .. N |-> {j \in Interps : SameSubs(i, j) /\ kept(j)}]
<1>1. q \in Seq(PendingSet) /\ N \in Nat
  BY LenProperties DEF Interps, SegmentSet
<1>2. g \in Interps /\ g.hour = i.hour /\ g.seg = v /\ v.pending = e /\ v.markets = i.seg.markets
      /\ v.sids = i.seg.sids
  <2>1. i.seg \in SegmentSet /\ e \in Seq(PendingSet)
    BY DEF Interps
  <2> HIDE DEF e
  <2>2. v \in SegmentSet /\ v.pending = e /\ v.markets = i.seg.markets /\ v.sids = i.seg.sids
    BY <2>1 DEF SegmentSet
  <2> HIDE DEF v
  <2> QED BY <2>2 DEF Interps
<1>3. [i EXCEPT !.seg.pending = << >>] = g
  BY DEF Interps
<1>4. Len(e) = 0
  OBVIOUS
<1> HIDE DEF v, g, e
<1>5. RowsHeld(g) = RowsHeld(i) /\ Postponed(g) = {}
  BY <1>2, <1>4 DEF RowsHeld, Postponed
<1>6. Tells(i, s, x, L) => Tells(g, s, x, M)
  BY <1>5 DEF Tells, Patient
<1>7. g \in T[0]
  <2>1. SameSubs(i, g)
    BY <1>2 DEF SameSubs
  <2> QED BY <1>1, <1>2, <1>6, <2>1
<1>8. ASSUME NEW n \in 1 .. Len(q), NEW j \in T[n - 1] PROVE ResolveStep(r, j, q[n]) \in T[n]
  <2>1. n - 1 \in 0 .. N /\ n \in 0 .. N
    BY <1>1
  <2>2. j \in Interps /\ SameSubs(i, j) /\ kept(j)
    <3> HIDE DEF N, kept
    <3> QED BY <2>1
  <2> DEFINE p == q[n]
             p2 == [p EXCEPT !.waiting = @ \ {r.market}]
             row == [p.row EXCEPT !.n = r.wall]
             k == ResolveStep(r, j, p)
  <2>3. p \in PendingSet /\ p \in Postponed(i) /\ (Tells(i, s, x, L) => Waits(p, s, x, L))
    BY PendingKnown DEF Tells
  <2> HIDE DEF p
  <2>4. p2 \in PendingSet /\ p2.row = p.row /\ p2.waiting = p.waiting \ {r.market}
    BY <2>3 DEF PendingSet
  <2>5. row \in Rows /\ row.mono = p.row.mono /\ row.sid = p.row.sid
    <3>1. p.row \in Rows /\ r.wall \in Int
      BY <2>3 DEF PendingSet, RecordSet
    <3> QED BY <3>1 DEF Rows
  <2>6. \/ k = Postpone(j, p)
        \/ p.waiting \subseteq {r.market} /\ k = Emit(j, row)
        \/ k = Postpone(j, p2)
    BY DEF ResolveStep, ResolveGap
  <2> HIDE DEF p2, row, k
  <2>7. Tells(i, s, x, L) => Waits(p, s, x, M) /\ Waits(p2, s, x, M)
    BY <2>3, <2>4 DEF Waits
  <2>8. Tells(i, s, x, L) /\ p.waiting \subseteq {r.market} => Patient(row, s, x, M)
    BY <2>3, <2>5 DEF Waits, Patient
  <2> HIDE DEF M
  <2>9. k \in Interps /\ SameSubs(i, k)
    <3>1. \A w \in PendingSet : Postpone(j, w) \in Interps /\ SameSubs(j, Postpone(j, w))
      BY <2>2, PostponeHeld DEF SameSubs
    <3>2. Emit(j, row) \in Interps /\ SameSubs(j, Emit(j, row))
      BY <2>2, <2>5, EmitHeld DEF SameSubs
    <3>3. k \in Interps /\ SameSubs(j, k)
      BY <2>3, <2>4, <2>6, <3>1, <3>2
    <3> QED BY <2>2, <3>3 DEF SameSubs
  <2>10. Tells(i, s, x, L) => Tells(k, s, x, M)
    BY <2>2, <2>3, <2>4, <2>5, <2>6, <2>7, <2>8, PostponeTells, EmitTells
  <2> HIDE DEF N
  <2> QED BY <2>1, <2>2, <2>9, <2>10 DEF k, p
<1>9. \A j \in T[N] : j \in Interps /\ SameSubs(i, j) /\ kept(j)
  <2>1. N \in 0 .. N
    BY <1>1
  <2> HIDE DEF N, kept
  <2> QED BY <2>1
<1> HIDE DEF T, M
<1>10. Resolving!Folded(r, g, q) \in T[Len(q)]
  <2> HIDE DEF N, q
  <2> QED BY <1>1, <1>7, <1>8, Climbing, Resolving!FoldInvariant
<1>11. ResolveGaps(i, r) = Resolving!Folded(r, g, q)
  BY <1>3, Folds
<1> QED BY <1>9, <1>10, <1>11 DEF M, SameSubs

(* finish: the gaps that are still open are written as such. *)
LEMMA FinishTells ==
  ASSUME NEW i \in Interps, NEW s, NEW x, NEW L, Tells(i, s, x, L)
  PROVE  Tells([hour |-> FinishSegment(i).hour, seg |-> NoSegment], s, x, L)
<1> DEFINE on == {m \in Markets : i.seg.markets[m].on}
           e == FoldLeft(LAMBDA k, m : EndMarket(k, m, i.seg.last), i, SetToSeq(on))
           c == CloseSpan(e, i.seg.last, FALSE)
           j == IF i.seg.last = None THEN i ELSE c
           q == i.seg.pending
           N == Len(q)
           f == [hour |-> FinishSegment(i).hour, seg |-> NoSegment]
           T == [n \in 0 .. N |-> {k \in Interps : \A row \in RowsHeld(k) : Patient(row, s, x, L)}]
<1>1. q \in Seq(PendingSet) /\ N \in Nat /\ i.seg.last \in Int
  BY LenProperties DEF Interps, SegmentSet
<1>2. Quiet(i, e) /\ e \in Interps
  <2>1. on \in SUBSET Markets
    OBVIOUS
  <2> HIDE DEF on
  <2> QED BY <1>1, <2>1, ClosingQuiet DEF Quiet
<1>3. FinishSegment(i) = FoldLeft(LAMBDA k, p : Emit(k, p.row), j, q)
  BY DEF FinishSegment
<1> HIDE DEF e
<1>4. Quiet(i, j)
  <2>1. Quiet(i, i)
    BY DEF Quiet
  <2> QED BY <1>1, <1>2, <2>1, CloseSpanQuiet, QuietSteps
<1> HIDE DEF j
<1>5. j \in T[0]
  <2>1. j \in Interps /\ RowsHeld(j) = RowsHeld(i)
    BY <1>4 DEF Quiet, RowsHeld
  <2> QED BY <1>1, <2>1 DEF Tells
<1>6. ASSUME NEW n \in 1 .. Len(q), NEW k \in T[n - 1] PROVE EmitStep(0, k, q[n]) \in T[n]
  <2>1. n - 1 \in 0 .. N /\ n \in 0 .. N
    BY <1>1
  <2>2. k \in Interps /\ \A row \in RowsHeld(k) : Patient(row, s, x, L)
    <3> HIDE DEF N
    <3> QED BY <2>1
  <2> DEFINE row == q[n].row
             l == Emit(k, row)
  <2>3. row \in Rows /\ Patient(row, s, x, L)
    <3>1. q[n] \in PendingSet /\ Waits(q[n], s, x, L)
      BY PendingKnown DEF Tells
    <3> QED BY <3>1 DEF PendingSet, Waits, Patient
  <2> HIDE DEF row
  <2>4. l \in Interps /\ RowsHeld(l) = RowsHeld(k) \cup {row}
    BY <2>2, <2>3, EmitHeld
  <2>5. EmitStep(0, k, q[n]) = l
    BY DEF EmitStep, row
  <2> HIDE DEF l, N
  <2> QED BY <2>1, <2>2, <2>3, <2>4, <2>5
<1>7. \A k \in T[N] : \A row \in RowsHeld(k) : Patient(row, s, x, L)
  <2>1. N \in 0 .. N
    BY <1>1
  <2> HIDE DEF N
  <2> QED BY <2>1
<1> HIDE DEF T
<1>8. Emitting!Folded(0, j, q) \in T[Len(q)]
  <2> HIDE DEF N, q
  <2> QED BY <1>1, <1>5, <1>6, Climbing, Emitting!FoldInvariant
<1> DEFINE z == FinishSegment(i)
<1>9. z = Emitting!Folded(0, j, q)
  BY <1>3, Folds
<1> HIDE DEF z
<1>10. \A row \in RowsHeld(z) : Patient(row, s, x, L)
  BY <1>7, <1>8, <1>9
<1>11. f = [hour |-> z.hour, seg |-> NoSegment]
  BY DEF z
<1> HIDE DEF f
<1>12. RowsHeld(f) = RowsHeld(z)
  BY <1>11 DEF RowsHeld
<1>13. Postponed(f) = {}
  <2>1. Len(<< >>) = 0
    OBVIOUS
  <2> QED BY <1>11, <2>1 DEF Postponed, NoSegment
<1>14. Tells(f, s, x, L)
  BY <1>10, <1>12, <1>13 DEF Tells
<1> QED BY <1>14 DEF f

-----------------------------------------------------------------------------
(* The books a segment has heard of, and what each record does to them and to the gaps. *)

(* The books on are of subscription s, and those of H are on. *)
Follows(i, s, H) ==
  \A m \in Markets : /\ i.seg.markets[m].on => i.seg.markets[m].sid = s
                     /\ m \in H => i.seg.markets[m].on

(* The rows and the books stay as they are. *)
Idle(i, j) == SameRows(i, j) /\ j.seg.markets = i.seg.markets /\ j.seg.sids = i.seg.sids

LEMMA IdleSteps == \A i, j, k : Idle(i, j) /\ Idle(j, k) => Idle(i, k)
BY DEF Idle, SameRows

LEMMA IdleTells ==
  ASSUME NEW i, NEW j, Idle(i, j)
  PROVE  /\ \A s, x, L : Tells(i, s, x, L) => Tells(j, s, x, L)
         /\ \A s, H : Follows(i, s, H) => Follows(j, s, H)
<1>1. ASSUME NEW s, NEW x, NEW L, Tells(i, s, x, L) PROVE Tells(j, s, x, L)
  BY <1>1, TellsAlike DEF Idle, SameRows
<1>2. ASSUME NEW s, NEW H, Follows(i, s, H) PROVE Follows(j, s, H)
  BY <1>2 DEF Follows, Idle
<1> QED BY <1>1, <1>2

LEMMA BumpIdle ==
  ASSUME NEW i \in Interps
  PROVE  /\ \A c \in {"records", "notBaked", "failures"} : Idle(i, Bump(i, c))
         /\ \A t \in Tables : Idle(i, BumpBaked(i, t))
<1>1. ASSUME NEW c \in {"records", "notBaked", "failures"} PROVE Idle(i, Bump(i, c))
  <2>1. SameRows(i, Bump(i, c))
    BY BumpRows
  <2>2. Bump(i, c).seg = i.seg
    BY DEF Bump, Interps
  <2> QED BY <2>1, <2>2 DEF Idle
<1>2. ASSUME NEW t \in Tables PROVE Idle(i, BumpBaked(i, t))
  <2>1. SameRows(i, BumpBaked(i, t))
    BY BakedRows
  <2>2. BumpBaked(i, t).seg = i.seg
    BY DEF BumpBaked, Interps
  <2> QED BY <2>1, <2>2 DEF Idle
<1> QED BY <1>1, <1>2

LEMMA SegmentIdle ==
  ASSUME NEW i \in Interps, NEW s \in SegmentSet, s.pending = i.seg.pending, s.hour = i.seg.hour,
         s.markets = i.seg.markets, s.sids = i.seg.sids
  PROVE  Idle(i, [i EXCEPT !.seg = s])
BY SegmentQuiet DEF Idle, SameRows, Quiet

LEMMA BegunIdle ==
  ASSUME NEW i \in Interps, NEW r \in RecordSet
  PROVE  Idle(i, Begun(i, r))
<1> DEFINE h == i.seg.hour * HourLength
           s == [i.seg EXCEPT !.first = r.wall]
           u == [i.seg EXCEPT !.first = r.wall, !.start = h, !.opened = FALSE]
<1>1. i.seg \in SegmentSet
  BY DEF Interps
<1>2. SameRows(i, Begun(i, r))
  BY BegunQuiet DEF Quiet, SameRows
<1> HIDE DEF h
<1>3. s.markets = i.seg.markets /\ s.sids = i.seg.sids /\ u.markets = i.seg.markets /\ u.sids = i.seg.sids
  BY <1>1 DEF SegmentSet
<1>4. Begun(i, r) = IF i.seg.first # None THEN i
                    ELSE IF r.kind \in {"open", "error"} THEN [i EXCEPT !.seg = s] ELSE [i EXCEPT !.seg = u]
  BY DEF Begun, Interps, h
<1> HIDE DEF s, u
<1>5. [i EXCEPT !.seg = s].seg = s /\ [i EXCEPT !.seg = u].seg = u
  BY DEF Interps
<1>6. Begun(i, r).seg.markets = i.seg.markets /\ Begun(i, r).seg.sids = i.seg.sids
  BY <1>3, <1>4, <1>5
<1> QED BY <1>2, <1>6 DEF Idle

LEMMA CloseSpanIdle ==
  ASSUME NEW i \in Interps, NEW end \in Int, NEW closed \in BOOLEAN
  PROVE  Idle(i, CloseSpan(i, end, closed))
<1> DEFINE spans == Append(i.hour.spans, [start |-> i.seg.start, end |-> Max({i.seg.start, end}),
                                          opened |-> i.seg.opened, closed |-> closed])
           h == [i.hour EXCEPT !.spans = spans]
           s == [i.seg EXCEPT !.start = None]
           j == [i EXCEPT !.hour = h]
<1>1. CloseSpan(i, end, closed) = IF i.seg.start = None THEN i ELSE [j EXCEPT !.seg = s]
  BY DEF CloseSpan, Interps
<1>2. SameRows(i, CloseSpan(i, end, closed))
  BY CloseSpanQuiet DEF Quiet, SameRows
<1> HIDE DEF h, spans
<1>3. s.markets = i.seg.markets /\ s.sids = i.seg.sids
  BY DEF Interps, SegmentSet
<1> HIDE DEF s
<1>4. [j EXCEPT !.seg = s].seg = s
  BY DEF Interps
<1> HIDE DEF j
<1>5. CloseSpan(i, end, closed).seg.markets = i.seg.markets /\ CloseSpan(i, end, closed).seg.sids = i.seg.sids
  BY <1>1, <1>3, <1>4
<1> QED BY <1>2, <1>5 DEF Idle

(* What every record does first. *)
LEMMA FeedBegins ==
  ASSUME NEW i \in Interps, NEW r \in RecordSet
  PROVE  \E c \in Interps : Idle(i, c) /\ Feed(i, r) = Interpreted(c, r)
<1> DEFINE a == Begun(i, r)
           b == Bump(a, "records")
           s == [b.seg EXCEPT !.last = r.wall]
           c == [b EXCEPT !.seg = s]
<1>1. Idle(i, a) /\ a \in Interps
  BY BegunIdle DEF Idle, SameRows
<1>2. Idle(a, b) /\ b \in Interps
  <2> HIDE DEF a
  <2> QED BY <1>1, BumpIdle DEF Idle, SameRows
<1>3. Feed(i, r) = Interpreted([b EXCEPT !.seg.last = r.wall], r)
  BY DEF Feed
<1> HIDE DEF a, b
<1>4. s \in SegmentSet /\ s.pending = b.seg.pending /\ s.hour = b.seg.hour
      /\ s.markets = b.seg.markets /\ s.sids = b.seg.sids
  BY <1>2 DEF SegmentSet, Interps, RecordSet
<1>5. [b EXCEPT !.seg.last = r.wall] = c
  BY <1>2 DEF Interps
<1> HIDE DEF s
<1>6. Idle(b, c) /\ c \in Interps
  BY <1>2, <1>4, SegmentIdle DEF Idle, SameRows
<1> HIDE DEF c
<1>7. Idle(i, c)
  BY <1>1, <1>2, <1>6, IdleSteps
<1> QED BY <1>3, <1>5, <1>6, <1>7

(* The book of a frame is on from then. *)
LEMMA ObserveJoins ==
  ASSUME NEW i \in Interps, NEW r \in RecordSet, r.market \in Markets
  PROVE  LET j == Observe([i EXCEPT !.seg.sids = @ \cup {r.sid}], r)
         IN /\ j \in Interps /\ SameRows(i, j) /\ j.seg.sids = i.seg.sids \cup {r.sid}
            /\ \A H : Follows(i, r.sid, H) => Follows(j, r.sid, H \cup {r.market})
<1> DEFINE s == [i.seg EXCEPT !.sids = @ \cup {r.sid}]
           a == [i EXCEPT !.seg.sids = @ \cup {r.sid}]
           j == Observe(a, r)
           v == [on |-> TRUE, sid |-> r.sid, since |-> r.wall, stale |-> None]
           ms == [a.seg.markets EXCEPT ![r.market] = v]
           k == [a EXCEPT !.seg.markets[r.market] = v]
<1>1. i.seg \in SegmentSet
  BY DEF Interps
<1>2. Quiet(i, a) /\ a \in Interps
  BY SidQuiet DEF Quiet
<1>3. a = [i EXCEPT !.seg = s]
  BY <1>1 DEF Interps, SegmentSet
<1>4. s.markets = i.seg.markets /\ s.sids = i.seg.sids \cup {r.sid}
  BY <1>1 DEF SegmentSet
<1> HIDE DEF a, s
<1>5. a.seg = s
  BY <1>3 DEF Interps
<1>6. Quiet(a, j) /\ j \in Interps
  BY <1>2, ObserveQuiet DEF Quiet
<1>7. SameRows(i, j)
  BY <1>2, <1>6 DEF Quiet, SameRows
<1>8. j = IF a.seg.markets[r.market].on THEN a ELSE k
  BY DEF Observe
<1>9. v.on = TRUE /\ v.sid = r.sid
  OBVIOUS
<1> HIDE DEF v
<1>10. a.seg.markets \in [Markets -> MarketSet] /\ a.seg \in SegmentSet
  BY <1>2 DEF Interps, SegmentSet
<1>11. \A m \in Markets : ms[m] = IF m = r.market THEN v ELSE a.seg.markets[m]
  BY <1>10
<1>12. k.seg.markets = ms /\ k.seg.sids = a.seg.sids
  <2>1. k = [a EXCEPT !.seg = [a.seg EXCEPT !.markets = ms]]
    BY <1>2 DEF Interps
  <2> HIDE DEF ms, k
  <2>2. [a.seg EXCEPT !.markets = ms].markets = ms /\ [a.seg EXCEPT !.markets = ms].sids = a.seg.sids
    BY <1>10 DEF SegmentSet
  <2> QED BY <1>2, <2>1, <2>2 DEF Interps
<1> HIDE DEF ms, k, j
<1>13. j.seg.sids = i.seg.sids \cup {r.sid}
  BY <1>4, <1>5, <1>8, <1>12
<1>14. ASSUME NEW H, Follows(i, r.sid, H) PROVE Follows(j, r.sid, H \cup {r.market})
  <2>1. \A m \in Markets : /\ a.seg.markets[m].on => a.seg.markets[m].sid = r.sid
                           /\ m \in H => a.seg.markets[m].on
    BY <1>4, <1>5, <1>14 DEF Follows
  <2>2. CASE a.seg.markets[r.market].on
    BY <1>8, <2>1, <2>2 DEF Follows
  <2>3. CASE ~a.seg.markets[r.market].on
    <3>1. j.seg.markets = ms
      BY <1>8, <1>12, <2>3
    <3> QED BY <1>9, <1>11, <2>1, <3>1 DEF Follows
  <2> QED BY <2>2, <2>3
<1> QED BY <1>6, <1>7, <1>13, <1>14 DEF j, a

LEMMA DeltaTells ==
  ASSUME NEW i \in Interps, NEW r \in RecordSet, r.kind = "delta"
  PROVE  /\ Delta(i, r) \in Interps /\ r.sid \in Delta(i, r).seg.sids
         /\ \A s, x, L : Tells(i, s, x, L) => Tells(Delta(i, r), s, x, L)
         /\ \A H : Follows(i, r.sid, H) => Follows(Delta(i, r), r.sid, H \cup {r.market})
<1> DEFINE b == Observe([i EXCEPT !.seg.sids = @ \cup {r.sid}], r)
           row == Row("deltas", r.market, r, 1)
           e == Emit(b, row)
           j == BumpBaked(e, "deltas")
<1>1. r.market \in Markets /\ r.market \in Buckets /\ "deltas" \in Tables
  BY InMarkets DEF Tables
<1>2. /\ b \in Interps /\ SameRows(i, b) /\ b.seg.sids = i.seg.sids \cup {r.sid}
      /\ \A H : Follows(i, r.sid, H) => Follows(b, r.sid, H \cup {r.market})
  BY <1>1, ObserveJoins
<1>3. Delta(i, r) = j
  BY DEF Delta
<1>4. row \in Rows /\ row.table = "deltas"
  BY <1>1, RowOf
<1> HIDE DEF b, row
<1>5. e \in Interps /\ e.seg = b.seg
  BY <1>2, <1>4, EmitHeld
<1>6. ASSUME NEW s, NEW x, NEW L, Tells(i, s, x, L) PROVE Tells(e, s, x, L)
  <2>1. Tells(b, s, x, L)
    BY <1>2, <1>6, TellsAlike DEF SameRows
  <2>2. Patient(row, s, x, L)
    BY <1>4 DEF Patient
  <2> QED BY <1>2, <1>4, <2>1, <2>2, EmitTells
<1> HIDE DEF e
<1>7. Idle(e, j)
  BY <1>1, <1>5, BumpIdle
<1> HIDE DEF j
<1>8. j \in Interps /\ r.sid \in j.seg.sids
  BY <1>2, <1>5, <1>7 DEF Idle, SameRows
<1>9. \A s, x, L : Tells(i, s, x, L) => Tells(j, s, x, L)
  BY <1>6, <1>7, IdleTells
<1>10. \A H : Follows(i, r.sid, H) => Follows(j, r.sid, H \cup {r.market})
  <2>1. \A H : Follows(b, r.sid, H) => Follows(e, r.sid, H)
    BY <1>5 DEF Follows
  <2> QED BY <1>2, <1>7, <2>1, IdleTells
<1> QED BY <1>3, <1>8, <1>9, <1>10

LEMMA SnapshotTells ==
  ASSUME NEW i \in Interps, NEW r \in RecordSet, r.kind = "snapshot"
  PROVE  /\ Snapshot(i, r) \in Interps /\ r.sid \in Snapshot(i, r).seg.sids
         /\ \A s, x, L : Tells(i, s, x, L) => Tells(Snapshot(i, r), s, x, L \ {r.market})
         /\ \A H : Follows(i, r.sid, H) => Follows(Snapshot(i, r), r.sid, H \cup {r.market})
<1> DEFINE j == Observe([i EXCEPT !.seg.sids = @ \cup {r.sid}], r)
           since == j.seg.markets[r.market].stale
           booked == BookTime(j, 0, r.wall - since)
           k == IF since = None THEN j ELSE [booked EXCEPT !.seg.markets[r.market].stale = None]
           row == Row("snapshots", r.market, r, r.n)
           e == Emit(k, row)
           f == ResolveGaps(e, r)
           z == BumpBaked(f, "snapshots")
<1>1. r.market \in Markets /\ r.market \in Buckets /\ "snapshots" \in Tables /\ r.n \in Int /\ r.wall \in Int
  BY InMarkets DEF Tables, RecordSet
<1>2. /\ j \in Interps /\ SameRows(i, j) /\ j.seg.sids = i.seg.sids \cup {r.sid}
      /\ \A H : Follows(i, r.sid, H) => Follows(j, r.sid, H \cup {r.market})
  BY <1>1, ObserveJoins
<1>3. Snapshot(i, r) = z
  BY DEF Snapshot
<1>4. row \in Rows /\ row.table = "snapshots"
  BY <1>1, RowOf
<1> HIDE DEF j, row
<1>5. k \in Interps /\ SameRows(j, k) /\ SameBooks(j, k) /\ k.seg.sids = j.seg.sids
  <2>1. since \in Int
    BY <1>1, <1>2 DEF Interps, SegmentSet, MarketSet
  <2> DEFINE d == r.wall - since
  <2>2. d \in Int /\ 0 \in Int
    BY <1>1, <2>1
  <2> HIDE DEF d, since
  <2>3. Quiet(j, booked) /\ booked \in Interps
    BY <1>2, <2>2, BookTimeQuiet DEF d, Quiet
  <2>4. booked.seg = j.seg
    BY <1>2 DEF BookTime, Interps
  <2> HIDE DEF booked
  <2> DEFINE v == [booked.seg.markets[r.market] EXCEPT !.stale = None]
             ms == [booked.seg.markets EXCEPT ![r.market] = v]
             c == [booked EXCEPT !.seg.markets[r.market] = v]
  <2>5. /\ v \in MarketSet /\ v.on = booked.seg.markets[r.market].on
        /\ v.sid = booked.seg.markets[r.market].sid
    <3>1. booked.seg.markets[r.market] \in MarketSet
      BY <1>1, <2>3 DEF Interps, SegmentSet
    <3> QED BY <3>1 DEF MarketSet, None
  <2>6. [booked EXCEPT !.seg.markets[r.market].stale = None] = c
    BY <2>3 DEF Interps, SegmentSet
  <2> HIDE DEF v
  <2>7. booked.seg.markets \in [Markets -> MarketSet] /\ booked.seg \in SegmentSet
    BY <2>3 DEF Interps, SegmentSet
  <2>8. Quiet(booked, c) /\ c \in Interps
    BY <1>1, <2>3, <2>5, MarketQuiet DEF Quiet
  <2>9. c.seg.markets = ms /\ c.seg.sids = booked.seg.sids
    <3>1. c = [booked EXCEPT !.seg = [booked.seg EXCEPT !.markets = ms]]
      BY <2>3 DEF Interps
    <3> HIDE DEF ms, c
    <3>2. [booked.seg EXCEPT !.markets = ms].markets = ms
          /\ [booked.seg EXCEPT !.markets = ms].sids = booked.seg.sids
      BY <2>7 DEF SegmentSet
    <3> QED BY <2>3, <3>1, <3>2 DEF Interps
  <2>10. \A m \in Markets : ms[m] = IF m = r.market THEN v ELSE booked.seg.markets[m]
    BY <2>7
  <2> HIDE DEF ms, c
  <2>11. SameBooks(j, c)
    BY <2>4, <2>5, <2>9, <2>10 DEF SameBooks
  <2>12. SameRows(j, c)
    BY <2>3, <2>8 DEF Quiet, SameRows
  <2>13. SameRows(j, j) /\ SameBooks(j, j)
    BY <1>2 DEF SameRows, SameBooks
  <2>14. k = IF since = None THEN j ELSE c
    BY <2>6
  <2> HIDE DEF k
  <2> QED BY <1>2, <2>4, <2>8, <2>9, <2>11, <2>12, <2>13, <2>14
<1> HIDE DEF k
<1>6. e \in Interps /\ e.seg = k.seg
  BY <1>4, <1>5, EmitHeld
<1>7. ASSUME NEW s, NEW x, NEW L, Tells(i, s, x, L) PROVE Tells(e, s, x, L)
  <2>1. k.hour.tables = i.hour.tables /\ k.seg.pending = i.seg.pending
    BY <1>2, <1>5 DEF SameRows
  <2>2. Tells(k, s, x, L)
    BY <1>7, <2>1, TellsAlike
  <2>3. Patient(row, s, x, L)
    BY <1>4 DEF Patient
  <2> QED BY <1>4, <1>5, <2>2, <2>3, EmitTells
<1> HIDE DEF e
<1>8. /\ f \in Interps /\ f.seg.markets = e.seg.markets /\ f.seg.sids = e.seg.sids
      /\ \A s, x, L : Tells(e, s, x, L) => Tells(f, s, x, L \ {r.market})
  BY <1>6, ResolvingTells
<1> HIDE DEF f
<1>9. Idle(f, z)
  BY <1>1, <1>8, BumpIdle
<1> HIDE DEF z
<1>10. \A s, x, L : Tells(i, s, x, L) => Tells(z, s, x, L \ {r.market})
  BY <1>7, <1>8, <1>9, IdleTells
<1>11. ASSUME NEW H, Follows(i, r.sid, H) PROVE Follows(z, r.sid, H \cup {r.market})
  <2>1. Follows(j, r.sid, H \cup {r.market})
    BY <1>2, <1>11
  <2>2. Follows(f, r.sid, H \cup {r.market})
    BY <1>5, <1>6, <1>8, <2>1 DEF Follows, SameBooks
  <2> QED BY <1>9, <2>2, IdleTells
<1>12. z \in Interps /\ r.sid \in z.seg.sids
  BY <1>2, <1>5, <1>6, <1>8, <1>9 DEF Idle, SameRows
<1> QED BY <1>3, <1>10, <1>11, <1>12

LEMMA GapTells ==
  ASSUME NEW i \in Interps, NEW r \in RecordSet, r.kind = "gap"
  PROVE  /\ Gap(i, r) \in Interps
         /\ \A s, x, L :
              /\ Tells(i, s, x, L)
              /\ s = r.sid /\ x = r.mono
                   => s \in i.seg.sids /\ \A m \in L : /\ m \in Markets /\ i.seg.markets[m].on
                                                       /\ i.seg.markets[m].sid = s
              => Tells(Gap(i, r), s, x, L)
         /\ \A s, H : Follows(i, s, H) => Follows(Gap(i, r), s, H)
<1> DEFINE hit == IF r.sid \in i.seg.sids
                  THEN {m \in Markets : i.seg.markets[m].on /\ i.seg.markets[m].sid = r.sid} ELSE {}
           row == Row("gaps", None, r, None)
           staled == [m \in Markets |->
                        IF m \in hit /\ i.seg.markets[m].stale = None
                        THEN [i.seg.markets[m] EXCEPT !.stale = r.wall] ELSE i.seg.markets[m]]
           j == BumpBaked(i, "gaps")
           v == [j.seg EXCEPT !.markets = staled]
           k == [j EXCEPT !.seg = v]
           p == [row |-> row, waiting |-> hit]
           e == Emit(j, row)
           f == Postpone(k, p)
<1>1. /\ "gaps" \in Tables /\ None \in Buckets /\ None \in Int /\ r.wall \in Int
      /\ i.seg.markets \in [Markets -> MarketSet]
  BY DEF Tables, Buckets, None, RecordSet, Interps, SegmentSet
<1>2. row \in Rows /\ row.n = None /\ row.mono = r.mono /\ row.sid = r.sid
  <2>1. row \in Rows
    BY <1>1, RowOf
  <2> QED BY <2>1 DEF Row
<1>3. hit \in SUBSET Markets
  OBVIOUS
<1>4. /\ staled \in [Markets -> MarketSet]
      /\ \A m \in Markets : staled[m].on = i.seg.markets[m].on /\ staled[m].sid = i.seg.markets[m].sid
  <2> HIDE DEF hit
  <2>1. ASSUME NEW m \in Markets
        PROVE  /\ staled[m] \in MarketSet
               /\ staled[m].on = i.seg.markets[m].on /\ staled[m].sid = i.seg.markets[m].sid
    BY <1>1 DEF MarketSet
  <2> QED BY <2>1
<1>5. ASSUME NEW s, NEW x, NEW L,
             s = r.sid /\ x = r.mono
               => s \in i.seg.sids /\ \A m \in L : /\ m \in Markets /\ i.seg.markets[m].on
                                                   /\ i.seg.markets[m].sid = s
      PROVE  s = r.sid /\ x = r.mono => L \subseteq hit
  BY <1>5
<1>6. Gap(i, r) = IF hit = {} THEN e ELSE [j EXCEPT !.seg.markets = staled, !.seg.pending = Append(@, p)]
  BY DEF Gap
<1> HIDE DEF row, hit
<1>7. p \in PendingSet /\ p.row = row /\ p.waiting = hit
  BY <1>2, <1>3 DEF PendingSet
<1>8. Idle(i, j) /\ j \in Interps
  BY <1>1, BumpIdle DEF Idle, SameRows
<1> HIDE DEF j, staled, p
<1>9. v \in SegmentSet /\ v.pending = j.seg.pending /\ v.hour = j.seg.hour /\ v.markets = staled
  BY <1>4, <1>8 DEF SegmentSet, Interps
<1>10. [j EXCEPT !.seg.markets = staled, !.seg.pending = Append(@, p)] = f
  BY <1>8 DEF Postpone, Interps, SegmentSet
<1> HIDE DEF v
<1>11. Quiet(j, k) /\ k \in Interps /\ k.seg = v
  BY <1>8, <1>9, SegmentQuiet DEF Quiet
<1> HIDE DEF k
<1>12. /\ e \in Interps /\ e.seg = j.seg
       /\ \A s, x, L : Tells(j, s, x, L) => Tells(e, s, x, L)
  <2>1. \A s, x, L : Patient(row, s, x, L)
    BY <1>2 DEF Patient
  <2> QED BY <1>2, <1>8, <2>1, EmitHeld, EmitTells
<1>13. f \in Interps /\ f.seg.markets = k.seg.markets
  BY <1>7, <1>11, PostponeHeld
<1>14. ASSUME NEW s, NEW x, NEW L, Tells(j, s, x, L), s = r.sid /\ x = r.mono => L \subseteq hit
       PROVE  Tells(f, s, x, L)
  <2>1. Tells(k, s, x, L)
    BY <1>11, <1>14, TellsAlike DEF Quiet
  <2>2. Waits(p, s, x, L)
    BY <1>2, <1>7, <1>14 DEF Waits
  <2> QED BY <1>7, <1>11, <2>1, <2>2, PostponeTells
<1> HIDE DEF e, f
<1>15. Gap(i, r) \in Interps
  BY <1>6, <1>10, <1>12, <1>13
<1>16. ASSUME NEW s, NEW x, NEW L, Tells(i, s, x, L), s = r.sid /\ x = r.mono => L \subseteq hit
       PROVE  Tells(Gap(i, r), s, x, L)
  <2>1. Tells(j, s, x, L)
    BY <1>8, <1>16, IdleTells
  <2> QED BY <1>6, <1>10, <1>12, <1>14, <1>16, <2>1
<1>17. ASSUME NEW s, NEW H, Follows(i, s, H) PROVE Follows(Gap(i, r), s, H)
  <2>1. Follows(e, s, H)
    BY <1>8, <1>12, <1>17 DEF Idle, Follows
  <2>2. Follows(f, s, H)
    BY <1>4, <1>9, <1>11, <1>13, <1>17 DEF Follows
  <2> QED BY <1>6, <1>10, <2>1, <2>2
<1> QED BY <1>5, <1>15, <1>16, <1>17

(* A trade or an audit, whose rows are not of the gaps' table. *)
LEMMA OtherRowTells ==
  ASSUME NEW i \in Interps, NEW r \in RecordSet, NEW t \in {"trades", "audits"}, r.market \in Markets
  PROVE  LET j == BumpBaked(Emit(i, Row(t, r.market, r, 0)), t)
         IN /\ j \in Interps
            /\ \A s, x, L : Tells(i, s, x, L) => Tells(j, s, x, L)
            /\ \A s, H : Follows(i, s, H) => Follows(j, s, H)
<1> DEFINE row == Row(t, r.market, r, 0)
           e == Emit(i, row)
           j == BumpBaked(e, t)
<1>1. t \in Tables /\ t # "gaps" /\ r.market \in Buckets /\ 0 \in Int
  BY DEF Tables, Buckets
<1>2. row \in Rows /\ row.table = t
  BY <1>1, RowOf
<1> HIDE DEF row
<1>3. e \in Interps /\ e.seg = i.seg
  BY <1>2, EmitHeld
<1>4. ASSUME NEW s, NEW x, NEW L, Tells(i, s, x, L) PROVE Tells(e, s, x, L)
  <2>1. Patient(row, s, x, L)
    BY <1>1, <1>2 DEF Patient
  <2> QED BY <1>2, <1>4, <2>1, EmitTells
<1>5. \A s, H : Follows(i, s, H) => Follows(e, s, H)
  BY <1>3 DEF Follows
<1> HIDE DEF e
<1>6. Idle(e, j)
  BY <1>1, <1>3, BumpIdle
<1> HIDE DEF j
<1>7. j \in Interps
  BY <1>6 DEF Idle, SameRows
<1> QED BY <1>4, <1>5, <1>6, <1>7, IdleTells DEF j, e, row

LEMMA ConnectionIdle ==
  ASSUME NEW i \in Interps, NEW r \in RecordSet
  PROVE  Idle(i, Connection(i, r))
<1> DEFINE j == Bump(i, "notBaked")
           c == CloseSpan(j, r.wall, FALSE)
           s == [c.seg EXCEPT !.start = r.wall, !.opened = TRUE]
           y == [c EXCEPT !.seg.start = r.wall, !.seg.opened = TRUE]
           h == [j.hour EXCEPT !.sleeps = @ \cup {<<r.wall - r.n, r.wall>>}]
           z == [j EXCEPT !.hour.sleeps = @ \cup {<<r.wall - r.n, r.wall>>}]
<1>1. Idle(i, j) /\ j \in Interps /\ r.wall \in Int /\ r.n \in Int
  <2>1. Idle(i, j)
    BY BumpIdle
  <2>2. r.wall \in Int /\ r.n \in Int
    BY DEF RecordSet
  <2> HIDE DEF j
  <2> QED BY <2>1, <2>2 DEF Idle, SameRows
<1>2. Connection(i, r) \in {y, CloseSpan(j, r.wall, TRUE), z, j}
  BY DEF Connection
<1> HIDE DEF j
<1>3. Idle(j, c) /\ c \in Interps /\ Idle(j, CloseSpan(j, r.wall, TRUE))
  BY <1>1, CloseSpanIdle DEF Idle, SameRows
<1> HIDE DEF c
<1>4. Idle(c, y)
  <2>1. c.seg \in SegmentSet
    BY <1>3 DEF Interps
  <2>2. /\ s \in SegmentSet /\ s.pending = c.seg.pending /\ s.hour = c.seg.hour
        /\ s.markets = c.seg.markets /\ s.sids = c.seg.sids
    BY <1>1, <2>1 DEF SegmentSet
  <2>3. y = [c EXCEPT !.seg = s]
    BY <1>3 DEF Interps
  <2> HIDE DEF s, y
  <2> QED BY <1>3, <2>2, <2>3, SegmentIdle
<1>5. Idle(j, z)
  <2> DEFINE p == <<r.wall - r.n, r.wall>>
  <2>1. p \in Int \X Int
    BY <1>1
  <2>2. j.hour \in HourSet /\ j.seg \in SegmentSet
    BY <1>1 DEF Interps
  <2>3. z = [j EXCEPT !.hour = h]
    BY <1>1, <2>2 DEF Interps, HourSet
  <2> HIDE DEF p
  <2>4. h \in HourSet /\ h.tables = j.hour.tables
    BY <2>1, <2>2 DEF HourSet, p
  <2> HIDE DEF h
  <2>5. [j EXCEPT !.hour = h] \in Interps /\ [j EXCEPT !.hour = h].hour = h /\ [j EXCEPT !.hour = h].seg = j.seg
    BY <1>1, <2>2, <2>4 DEF Interps
  <2> QED BY <2>3, <2>4, <2>5 DEF Idle, SameRows
<1> HIDE DEF y, z
<1>6. Idle(j, j)
  BY <1>1 DEF Idle, SameRows
<1>7. Idle(j, y)
  BY <1>3, <1>4, IdleSteps
<1>8. Idle(j, Connection(i, r))
  BY <1>2, <1>3, <1>5, <1>6, <1>7
<1> QED BY <1>1, <1>8, IdleSteps

LEMMA ReplyTells ==
  ASSUME NEW i \in Interps, NEW r \in RecordSet
  PROVE  /\ Reply(i, r) \in Interps
         /\ \A s, x, L : Tells(i, s, x, L) => Tells(Reply(i, r), s, x, L)
         /\ \A s, H : Follows(i, s, H) => Follows(Reply(i, r), s, H)
<1> DEFINE a == [i EXCEPT !.seg.sids = @ \cup {r.sid}]
           j == Bump(a, "notBaked")
<1>1. Quiet(i, a) /\ a \in Interps
  BY SidQuiet DEF Quiet
<1>2. a.seg.markets = i.seg.markets
  BY DEF Interps, SegmentSet
<1>3. Reply(i, r) = j
  BY DEF Reply
<1> HIDE DEF a
<1>4. Idle(a, j)
  BY <1>1, BumpIdle
<1> HIDE DEF j
<1>5. \A s, x, L : Tells(i, s, x, L) => Tells(a, s, x, L)
  BY <1>1, TellsAlike DEF Quiet
<1>6. \A s, H : Follows(i, s, H) => Follows(a, s, H)
  BY <1>2 DEF Follows
<1>7. j \in Interps
  BY <1>4 DEF Idle, SameRows
<1> QED BY <1>3, <1>4, <1>5, <1>6, <1>7, IdleTells

(* The market of a segment that leaves it, as all of a subscription may. *)
LEMMA LeaveTells ==
  ASSUME NEW i \in Interps, NEW m \in Markets, NEW w \in Int
  PROVE  /\ Leave(i, m, w) \in Interps /\ SameRows(i, Leave(i, m, w))
         /\ ~Leave(i, m, w).seg.markets[m].on
         /\ \A k \in Markets : k # m => Leave(i, m, w).seg.markets[k] = i.seg.markets[k]
<1> DEFINE j == EndMarket(i, m, w)
           v == NoMarket
           ms == [j.seg.markets EXCEPT ![m] = v]
           s == [j.seg EXCEPT !.markets = ms]
           l == [j EXCEPT !.seg.markets[m] = NoMarket]
<1>1. Quiet(i, Leave(i, m, w))
  BY LeaveQuiet
<1>2. Quiet(i, j) /\ j \in Interps /\ j.seg = i.seg
  BY EndMarketQuiet DEF Quiet
<1>3. Leave(i, m, w) = IF i.seg.markets[m].on THEN l ELSE i
  BY DEF Leave
<1> HIDE DEF j
<1>4. j.seg.markets \in [Markets -> MarketSet] /\ j.seg \in SegmentSet
  BY <1>2 DEF Interps, SegmentSet
<1>5. ~v.on
  BY DEF NoMarket
<1> HIDE DEF v
<1>6. ms[m] = v /\ \A k \in Markets : k # m => ms[k] = j.seg.markets[k]
  BY <1>4
<1>7. l = [j EXCEPT !.seg = s]
  BY <1>2 DEF Interps, v
<1> HIDE DEF ms, l
<1>8. s.markets = ms
  BY <1>4 DEF SegmentSet
<1> HIDE DEF s
<1>9. l.seg = s
  BY <1>2, <1>7 DEF Interps
<1>10. SameRows(i, Leave(i, m, w)) /\ Leave(i, m, w) \in Interps
  BY <1>1 DEF Quiet, SameRows
<1> QED BY <1>2, <1>3, <1>5, <1>6, <1>8, <1>9, <1>10

LEMMA LeaveAllTells ==
  ASSUME NEW i \in Interps, NEW ms \in SUBSET Markets, NEW w \in Int
  PROVE  /\ LeaveAll(i, ms, w) \in Interps /\ SameRows(i, LeaveAll(i, ms, w))
         /\ \A m \in Markets : LeaveAll(i, ms, w).seg.markets[m].on => i.seg.markets[m].on /\ m \notin ms
<1> DEFINE q == SetToSeq(ms)
           off(j, n) == \A m \in Markets :
             j.seg.markets[m].on => i.seg.markets[m].on /\ \A k \in 1 .. n : q[k] # m
           T == [n \in 0 .. Len(q) |-> {j \in Interps : off(j, n)}]
<1>1. q \in Seq(ms) /\ Len(q) \in Nat /\ \A m \in ms : \E k \in 1 .. Len(q) : q[k] = m
  <2>1. IsFiniteSet(ms)
    BY TapeAssumption, FS_Subset
  <2>2. q \in Seq(ms) /\ Range(q) = ms
    BY <2>1, SetListed
  <2>3. Len(q) \in Nat /\ DOMAIN q = 1 .. Len(q)
    BY <2>2, LenProperties
  <2> QED BY <2>2, <2>3 DEF Range
<1> HIDE DEF q
<1>2. i \in T[0]
  BY <1>1
<1>3. ASSUME NEW n \in 1 .. Len(q), NEW j \in T[n - 1] PROVE LeaveStep(w, j, q[n]) \in T[n]
  <2>1. n - 1 \in 0 .. Len(q) /\ n \in 0 .. Len(q)
    BY <1>1
  <2>2. j \in Interps /\ off(j, n - 1)
    <3> HIDE DEF off
    <3> QED BY <2>1
  <2>3. q[n] \in Markets
    BY <1>1, ElementOfSeq
  <2> DEFINE m == q[n]
             l == Leave(j, m, w)
  <2>5. LeaveStep(w, j, q[n]) = l
    BY DEF LeaveStep
  <2> HIDE DEF m, off, T
  <2>4. /\ l \in Interps /\ ~l.seg.markets[m].on
        /\ \A k \in Markets : k # m => l.seg.markets[k] = j.seg.markets[k]
    BY <2>2, <2>3, LeaveTells DEF m
  <2> HIDE DEF l
  <2>6. \A k \in 1 .. n : k \in 1 .. n - 1 \/ k = n
    BY <1>1
  <2>7. off(l, n)
    BY <2>2, <2>4, <2>6 DEF off, m
  <2> QED BY <2>1, <2>4, <2>5, <2>7 DEF T
<1>4. \A j \in T[Len(q)] : j \in Interps /\ off(j, Len(q))
  <2>1. Len(q) \in 0 .. Len(q)
    BY <1>1
  <2> HIDE DEF off
  <2> QED BY <2>1
<1> HIDE DEF T
<1>5. Leaving!Folded(w, i, q) \in T[Len(q)]
  BY <1>1, <1>2, <1>3, Climbing, Leaving!FoldInvariant
<1>6. LeaveAll(i, ms, w) = Leaving!Folded(w, i, q)
  BY Folds DEF q
<1>7. SameRows(i, LeaveAll(i, ms, w))
  BY LeaveAllQuiet DEF Quiet, SameRows
<1> QED BY <1>1, <1>4, <1>5, <1>6, <1>7

LEMMA CommandTells ==
  ASSUME NEW i \in Interps, NEW r \in RecordSet,
         r.kind \in {"subscribe", "get_snapshot", "delete_markets", "unsubscribe"}
  PROVE  /\ Command(i, r) \in Interps
         /\ \A s, x, L : Tells(i, s, x, L) => Tells(Command(i, r), s, x, L)
         /\ r.kind \in {"subscribe", "get_snapshot"}
              => \A s, H : Follows(i, s, H) => Follows(Command(i, r), s, H)
         /\ r.kind = "delete_markets"
              => \A s, H : Follows(i, s, H) => Follows(Command(i, r), s, H \ {r.market})
         /\ r.kind = "unsubscribe"
              => \A H : Follows(i, r.sid, H) => \A s : Follows(Command(i, r), s, {})
<1> DEFINE j == Bump(i, "notBaked")
           ms == {m \in Markets : j.seg.markets[m].on /\ j.seg.markets[m].sid = r.sid}
           l == Leave(j, r.market, r.wall)
           a == LeaveAll(j, ms, r.wall)
<1>1. Idle(i, j)
  BY BumpIdle
<1>2. Command(i, r) = IF r.kind = "delete_markets" THEN l ELSE IF r.kind = "unsubscribe" THEN a ELSE j
  BY DEF Command
<1> HIDE DEF j
<1>3. j \in Interps /\ r.wall \in Int /\ ms \in SUBSET Markets
  BY <1>1 DEF Idle, SameRows, RecordSet
<1>4. ASSUME NEW k, SameRows(j, k), NEW s, NEW x, NEW L, Tells(i, s, x, L) PROVE Tells(k, s, x, L)
  <2>1. Tells(j, s, x, L)
    BY <1>1, <1>4, IdleTells
  <2> QED BY <1>4, <2>1, TellsAlike DEF SameRows
<1>5. CASE r.kind = "delete_markets"
  <2>1. /\ l \in Interps /\ SameRows(j, l) /\ ~l.seg.markets[r.market].on
        /\ \A k \in Markets : k # r.market => l.seg.markets[k] = j.seg.markets[k]
    BY <1>3, <1>5, InMarkets, LeaveTells
  <2> HIDE DEF l
  <2>2. ASSUME NEW s, NEW H, Follows(i, s, H) PROVE Follows(l, s, H \ {r.market})
    <3>1. Follows(j, s, H)
      BY <1>1, <2>2, IdleTells
    <3> QED BY <2>1, <3>1 DEF Follows
  <2> QED BY <1>2, <1>4, <1>5, <2>1, <2>2
<1>6. CASE r.kind = "unsubscribe"
  <2>1. /\ a \in Interps /\ SameRows(j, a)
        /\ \A m \in Markets : a.seg.markets[m].on => j.seg.markets[m].on /\ m \notin ms
    <3> HIDE DEF ms
    <3> QED BY <1>3, LeaveAllTells
  <2> HIDE DEF a
  <2>2. ASSUME NEW H, Follows(i, r.sid, H), NEW s PROVE Follows(a, s, {})
    <3>1. Follows(j, r.sid, H)
      BY <1>1, <2>2, IdleTells
    <3>2. \A m \in Markets : ~a.seg.markets[m].on
      BY <2>1, <3>1 DEF Follows
    <3> QED BY <3>2 DEF Follows
  <2> HIDE DEF ms
  <2> QED BY <1>2, <1>4, <1>6, <2>1, <2>2
<1>7. CASE r.kind \in {"subscribe", "get_snapshot"}
  <2>1. Command(i, r) = j
    BY <1>2, <1>7
  <2> QED BY <1>1, <1>3, <1>7, <2>1, IdleTells
<1> QED BY <1>5, <1>6, <1>7

-----------------------------------------------------------------------------
(* What feed does with each kind of record. *)

SilentKinds ==
  {"trade", "audit", "subscribed", "undecodable", "open", "close", "error", "clock_jump", "subscribe",
   "get_snapshot"}

LEMMA FeedSilent ==
  ASSUME NEW i \in Interps, NEW r \in RecordSet, r.kind \in SilentKinds
  PROVE  /\ Feed(i, r) \in Interps
         /\ \A s, x, L : Tells(i, s, x, L) => Tells(Feed(i, r), s, x, L)
         /\ \A s, H : Follows(i, s, H) => Follows(Feed(i, r), s, H)
<1>1. PICK c \in Interps : Idle(i, c) /\ Feed(i, r) = Interpreted(c, r)
  BY FeedBegins
<1> DEFINE k == Interpreted(c, r)
<1>2. /\ k \in Interps
      /\ \A s, x, L : Tells(c, s, x, L) => Tells(k, s, x, L)
      /\ \A s, H : Follows(c, s, H) => Follows(k, s, H)
  <2>1. CASE r.kind = "trade"
    <3>1. k = BumpBaked(Emit(c, Row("trades", r.market, r, 0)), "trades")
      BY <2>1 DEF Interpreted
    <3>2. r.market \in Markets
      BY <2>1, InMarkets
    <3> HIDE DEF k
    <3> QED BY <3>1, <3>2, OtherRowTells
  <2>2. CASE r.kind = "audit"
    <3>1. k = BumpBaked(Emit(c, Row("audits", r.market, r, 0)), "audits")
      BY <2>2 DEF Interpreted
    <3>2. r.market \in Markets
      BY <2>2, InMarkets
    <3> HIDE DEF k
    <3> QED BY <3>1, <3>2, OtherRowTells
  <2>3. CASE r.kind = "subscribed"
    <3>1. k = Reply(c, r)
      BY <2>3 DEF Interpreted
    <3> HIDE DEF k
    <3> QED BY <3>1, ReplyTells
  <2>4. CASE r.kind = "undecodable"
    <3>1. k = Bump(c, "failures")
      BY <2>4 DEF Interpreted
    <3> HIDE DEF k
    <3>2. Idle(c, k)
      BY <3>1, BumpIdle
    <3> QED BY <3>2, IdleTells DEF Idle, SameRows
  <2>5. CASE r.kind \in {"open", "close", "error", "clock_jump"}
    <3>1. k = Connection(c, r)
      BY <2>5 DEF Interpreted
    <3> HIDE DEF k
    <3>2. Idle(c, k)
      BY <3>1, ConnectionIdle
    <3> QED BY <3>2, IdleTells DEF Idle, SameRows
  <2>6. CASE r.kind \in {"subscribe", "get_snapshot"}
    <3>1. k = Command(c, r)
      BY <2>6 DEF Interpreted
    <3> HIDE DEF k
    <3> QED BY <2>6, <3>1, CommandTells
  <2> HIDE DEF k
  <2> QED BY <2>1, <2>2, <2>3, <2>4, <2>5, <2>6 DEF SilentKinds
<1> HIDE DEF k
<1> QED BY <1>1, <1>2, IdleTells DEF k

LEMMA FeedDelta ==
  ASSUME NEW i \in Interps, NEW r \in RecordSet, r.kind = "delta"
  PROVE  /\ Feed(i, r) \in Interps /\ r.sid \in Feed(i, r).seg.sids
         /\ \A s, x, L : Tells(i, s, x, L) => Tells(Feed(i, r), s, x, L)
         /\ \A H : Follows(i, r.sid, H) => Follows(Feed(i, r), r.sid, H \cup {r.market})
<1>1. PICK c \in Interps : Idle(i, c) /\ Feed(i, r) = Interpreted(c, r)
  BY FeedBegins
<1>2. Interpreted(c, r) = Delta(c, r)
  BY DEF Interpreted
<1>3. Delta(c, r) \in Interps /\ r.sid \in Delta(c, r).seg.sids
  BY DeltaTells
<1>4. ASSUME NEW s, NEW x, NEW L, Tells(i, s, x, L) PROVE Tells(Delta(c, r), s, x, L)
  <2>1. Tells(c, s, x, L)
    BY <1>1, <1>4, IdleTells
  <2> QED BY <2>1, DeltaTells
<1>5. ASSUME NEW H, Follows(i, r.sid, H) PROVE Follows(Delta(c, r), r.sid, H \cup {r.market})
  <2>1. Follows(c, r.sid, H)
    BY <1>1, <1>5, IdleTells
  <2> QED BY <2>1, DeltaTells
<1> QED BY <1>1, <1>2, <1>3, <1>4, <1>5

LEMMA FeedSnapshot ==
  ASSUME NEW i \in Interps, NEW r \in RecordSet, r.kind = "snapshot"
  PROVE  /\ Feed(i, r) \in Interps /\ r.sid \in Feed(i, r).seg.sids
         /\ \A s, x, L : Tells(i, s, x, L) => Tells(Feed(i, r), s, x, L \ {r.market})
         /\ \A H : Follows(i, r.sid, H) => Follows(Feed(i, r), r.sid, H \cup {r.market})
<1>1. PICK c \in Interps : Idle(i, c) /\ Feed(i, r) = Interpreted(c, r)
  BY FeedBegins
<1>2. Interpreted(c, r) = Snapshot(c, r)
  BY DEF Interpreted
<1>3. Snapshot(c, r) \in Interps /\ r.sid \in Snapshot(c, r).seg.sids
  BY SnapshotTells
<1>4. ASSUME NEW s, NEW x, NEW L, Tells(i, s, x, L) PROVE Tells(Snapshot(c, r), s, x, L \ {r.market})
  <2>1. Tells(c, s, x, L)
    BY <1>1, <1>4, IdleTells
  <2> QED BY <2>1, SnapshotTells
<1>5. ASSUME NEW H, Follows(i, r.sid, H) PROVE Follows(Snapshot(c, r), r.sid, H \cup {r.market})
  <2>1. Follows(c, r.sid, H)
    BY <1>1, <1>5, IdleTells
  <2> QED BY <2>1, SnapshotTells
<1> QED BY <1>1, <1>2, <1>3, <1>4, <1>5

(* A gap says nothing of another one, and of itself that it waits for the books that are on. *)
LEMMA FeedGap ==
  ASSUME NEW i \in Interps, NEW r \in RecordSet, r.kind = "gap"
  PROVE  /\ Feed(i, r) \in Interps
         /\ \A s, x, L : Tells(i, s, x, L) /\ (s # r.sid \/ x # r.mono) => Tells(Feed(i, r), s, x, L)
         /\ \A x, L, H : Tells(i, r.sid, x, L) /\ r.sid \in i.seg.sids /\ Follows(i, r.sid, H)
                         /\ L \subseteq H /\ L \subseteq Markets
                         => Tells(Feed(i, r), r.sid, x, L)
         /\ \A s, H : Follows(i, s, H) => Follows(Feed(i, r), s, H)
<1>1. PICK c \in Interps : Idle(i, c) /\ Feed(i, r) = Interpreted(c, r)
  BY FeedBegins
<1>2. Interpreted(c, r) = Gap(c, r)
  BY DEF Interpreted
<1>3. ASSUME NEW s, NEW x, NEW L, Tells(i, s, x, L), s # r.sid \/ x # r.mono PROVE Tells(Gap(c, r), s, x, L)
  <2>1. Tells(c, s, x, L)
    BY <1>1, <1>3, IdleTells
  <2> QED BY <1>3, <2>1, GapTells
<1>4. ASSUME NEW x, NEW L, NEW H, Tells(i, r.sid, x, L), r.sid \in i.seg.sids, Follows(i, r.sid, H),
             L \subseteq H, L \subseteq Markets
      PROVE  Tells(Gap(c, r), r.sid, x, L)
  <2>1. Tells(c, r.sid, x, L) /\ Follows(c, r.sid, H) /\ r.sid \in c.seg.sids
    BY <1>1, <1>4, IdleTells DEF Idle
  <2>2. \A m \in L : m \in Markets /\ c.seg.markets[m].on /\ c.seg.markets[m].sid = r.sid
    BY <1>4, <2>1 DEF Follows
  <2> QED BY <2>1, <2>2, GapTells
<1>5. \A s, H : Follows(i, s, H) => Follows(Gap(c, r), s, H)
  BY <1>1, IdleTells, GapTells
<1> QED BY <1>1, <1>2, <1>3, <1>4, <1>5, GapTells

LEMMA FeedLeaves ==
  ASSUME NEW i \in Interps, NEW r \in RecordSet, r.kind \in {"delete_markets", "unsubscribe"}
  PROVE  /\ Feed(i, r) \in Interps
         /\ \A s, x, L : Tells(i, s, x, L) => Tells(Feed(i, r), s, x, L)
         /\ r.kind = "delete_markets"
              => \A s, H : Follows(i, s, H) => Follows(Feed(i, r), s, H \ {r.market})
         /\ r.kind = "unsubscribe"
              => \A H : Follows(i, r.sid, H) => \A s : Follows(Feed(i, r), s, {})
<1>1. PICK c \in Interps : Idle(i, c) /\ Feed(i, r) = Interpreted(c, r)
  BY FeedBegins
<1>2. Interpreted(c, r) = Command(c, r)
  BY DEF Interpreted
<1>3. Command(c, r) \in Interps /\ \A s, x, L : Tells(c, s, x, L) => Tells(Command(c, r), s, x, L)
  BY CommandTells
<1>4. ASSUME r.kind = "delete_markets", NEW s, NEW H, Follows(i, s, H)
      PROVE  Follows(Command(c, r), s, H \ {r.market})
  <2>1. Follows(c, s, H)
    BY <1>1, <1>4, IdleTells
  <2> QED BY <1>4, <2>1, CommandTells
<1>5. ASSUME r.kind = "unsubscribe", NEW H, Follows(i, r.sid, H), NEW s
      PROVE  Follows(Command(c, r), s, {})
  <2>1. Follows(c, r.sid, H)
    BY <1>1, <1>5, IdleTells
  <2> QED BY <1>5, <2>1, CommandTells
<1> QED BY <1>1, <1>2, <1>3, <1>4, <1>5, IdleTells

(* A few records, one after another. *)
FeedAll(i, records) == FoldLeft(Feed, i, records)

LEMMA OneFed ==
  ASSUME NEW i, NEW a
  PROVE  FeedAll(i, <<a>>) = Feed(i, a)
<1>1. Feeding!Folded(0, i, <<a>>) = FeedStep(0, i, a)
  BY Climbing, Feeding!FoldOne
<1>2. FeedAll(i, <<a>>) = Feeding!Folded(0, i, <<a>>)
  BY Folds DEF FeedAll
<1> QED BY <1>1, <1>2 DEF FeedStep

LEMMA MoreFed ==
  ASSUME NEW S, NEW i, NEW q \in Seq(S), NEW x \in S
  PROVE  FeedAll(i, q \o <<x>>) = Feed(FeedAll(i, q), x)
<1> DEFINE e == <<x>>
<1>1. e \in Seq(S)
  OBVIOUS
<1>2. \A j : FeedAll(j, e) = Feed(j, x)
  BY OneFed
<1>3. \A j, p : FeedAll(j, p) = Feeding!Folded(0, j, p)
  BY Folds DEF FeedAll
<1> HIDE DEF e
<1>4. Feeding!Folded(0, i, q \o e) = Feeding!Folded(0, Feeding!Folded(0, i, q), e)
  BY <1>1, Climbing, Feeding!FoldConcat
<1>5. FeedAll(i, q \o e) = FeedAll(FeedAll(i, q), e)
  BY <1>3, <1>4
<1> QED BY <1>2, <1>5 DEF e

LEMMA TwoFed ==
  ASSUME NEW i, NEW a, NEW b
  PROVE  FeedAll(i, <<a, b>>) = Feed(Feed(i, a), b)
<1> DEFINE S == {a, b}
           q == <<a>>
<1>1. q \in Seq(S) /\ b \in S
  OBVIOUS
<1>2. q \o <<b>> = <<a, b>>
  BY Tuples
<1>3. FeedAll(i, q) = Feed(i, a)
  BY OneFed
<1> HIDE DEF q, S
<1>4. FeedAll(i, q \o <<b>>) = Feed(FeedAll(i, q), b)
  BY <1>1, MoreFed
<1> QED BY <1>2, <1>3, <1>4

LEMMA ThreeFed ==
  ASSUME NEW i, NEW a, NEW b, NEW c
  PROVE  FeedAll(i, <<a, b, c>>) = Feed(Feed(Feed(i, a), b), c)
<1> DEFINE S == {a, b, c}
           q == <<a, b>>
<1>1. q \in Seq(S) /\ c \in S
  OBVIOUS
<1>2. q \o <<c>> = <<a, b, c>>
  BY Tuples
<1>3. FeedAll(i, q) = Feed(Feed(i, a), b)
  BY TwoFed
<1> HIDE DEF q, S
<1>4. FeedAll(i, q \o <<c>>) = Feed(FeedAll(i, q), c)
  BY <1>1, MoreFed
<1> QED BY <1>2, <1>3, <1>4

-----------------------------------------------------------------------------
(* What the hours say of a gap, from one instant of the recorder to the next. *)

LEMMA TellsLess ==
  ASSUME NEW i, NEW s, NEW x, NEW L, Tells(i, s, x, L), NEW M, M \subseteq L
  PROVE  Tells(i, s, x, M)
BY DEF Tells, Patient, Waits

(* Nothing is said of an instant without a row. *)
LEMMA Unsaid ==
  ASSUME NEW i \in Interps, NEW x, \A u \in Tables : x \notin Monos(i, u)
  PROVE  \A s, L : Tells(i, s, x, L)
<1>1. \A row \in RowsHeld(i) : row.mono # x
  BY DEF RowsHeld, Monos, HeldMonos
<1>2. \A p \in Postponed(i) : p.row.mono # x
  <2>1. x \notin PendingMonos(i)
    BY DEF Monos, Tables
  <2> QED BY <2>1 DEF Postponed, PendingMonos
<1> QED BY <1>1, <1>2 DEF Tells, Patient, Waits

(* A gap does not wait for what is no market. *)
LEMMA NoneWaits ==
  ASSUME NEW i \in Interps, NEW s, NEW x, Tells(i, s, x, {None})
  PROVE  \A L : Tells(i, s, x, L)
<1>1. \A row \in RowsHeld(i) : \A L : Patient(row, s, x, L)
  BY DEF Tells, Patient
<1>2. ASSUME NEW p \in Postponed(i) PROVE ~(p.row.mono = x /\ p.row.sid = s)
  <2>1. p \in PendingSet
    BY PendingKnown DEF Postponed
  <2>2. None \notin p.waiting
    BY <2>1, TapeAssumption DEF PendingSet
  <2> QED BY <2>2 DEF Tells, Waits
<1> QED BY <1>1, <1>2 DEF Tells, Waits

LEMMA BakedTells ==
  ASSUME Structured(hours, seg), NEW s, NEW x, NEW L,
         \A h \in Hours : Tells(Reading(hours, seg, h), s, x, L)
  PROVE  \A h \in Hours : Tells([hour |-> Baked[h], seg |-> NoSegment], s, x, L)
<1>1. /\ seg \in SegmentSet /\ seg.hour \in Hours \cup {None} /\ hours \in [Hours -> HourSet]
      /\ \A h \in Hours : Sound(Reading(hours, seg, h))
  BY DEF Structured
<1>2. CASE seg.hour = None
  <2>1. Baked = hours
    BY <1>2 DEF Baked
  <2>2. \A h \in Hours : Reading(hours, seg, h) = [hour |-> Baked[h], seg |-> NoSegment]
    BY <1>2, <2>1, HoursKnown DEF Reading
  <2> QED BY <2>2
<1>3. CASE seg.hour # None
  <2> DEFINE H == seg.hour
             i == [hour |-> hours[H], seg |-> seg]
             y == FinishSegment(i).hour
             f == [hour |-> y, seg |-> NoSegment]
  <2>1. H \in Hours
    BY <1>1, <1>3
  <2>2. Reading(hours, seg, H) = i
    BY DEF Reading
  <2>3. Baked = [hours EXCEPT ![H] = y]
    BY <1>3 DEF Baked
  <2>4. Sound(i) /\ Tells(i, s, x, L)
    BY <1>1, <2>1, <2>2
  <2> HIDE DEF i
  <2>5. Tells(f, s, x, L)
    BY <2>4, FinishTells DEF Sound, Kept
  <2> HIDE DEF y
  <2>6. ASSUME NEW h \in Hours PROVE Tells([hour |-> Baked[h], seg |-> NoSegment], s, x, L)
    <3>1. CASE h = H
      <4>1. Baked[h] = y
        BY <1>1, <2>1, <2>3, <3>1
      <4> QED BY <2>5, <4>1
    <3>2. CASE h # H
      <4>1. Baked[h] = hours[h]
        BY <1>1, <2>1, <2>3, <3>2
      <4>2. Reading(hours, seg, h) = [hour |-> Baked[h], seg |-> NoSegment]
        BY <3>2, <4>1 DEF Reading
      <4> QED BY <4>2
    <3> QED BY <3>1, <3>2
  <2> QED BY <2>6
<1> QED BY <1>2, <1>3

LEMMA OpenedTells ==
  ASSUME Structured(hours, seg), NEW w, HourOf(w) \in Hours, NEW s, NEW x, NEW L,
         \A h \in Hours : Tells(Reading(hours, seg, h), s, x, L)
  PROVE  Tells(Opened(w), s, x, L)
<1> DEFINE H == HourOf(w)
           b == Baked[H]
           f == [hour |-> b, seg |-> NoSegment]
           g == [NoSegment EXCEPT !.hour = H]
           o == [hour |-> b, seg |-> g]
<1>1. CASE ~rotated /\ seg.hour = H
  <2>1. Opened(w) = Reading(hours, seg, H)
    BY <1>1 DEF Opened, Reading
  <2> QED BY <2>1
<1>2. CASE ~(~rotated /\ seg.hour = H)
  <2>1. Opened(w) = o
    BY <1>2 DEF Opened
  <2>2. Tells(f, s, x, L)
    BY BakedTells
  <2>3. g.pending = NoSegment.pending
    BY DEF NoSegment
  <2> HIDE DEF b, g
  <2> QED BY <2>1, <2>2, <2>3, TellsAlike
<1> QED BY <1>1, <1>2

LEMMA Fed ==
  ASSUME Recorded, NEW records, Written(records, mono + 1), NEW w, HourOf(w) \in Hours
  PROVE  /\ Opened(w) \in Interps /\ FeedAll(Opened(w), records) \in Interps
         /\ FeedAll(Opened(w), records).seg.hour = HourOf(w)
         /\ \A h \in Hours : \A s, L : Tells(Reading(hours, seg, h), s, mono + 1, L)
<1>1. Clocked /\ Structured(hours, seg) /\ Aged
  BY DEF Recorded
<1>2. mono \in Nat /\ MonoStart \in Nat /\ Base \in Nat /\ mono >= Base
      /\ (truth.restarted => mono + 1 < MonoStart)
  BY <1>1, Bounds DEF Clocked, Base
<1>3. \A h \in Hours : \A u \in Tables : mono + 1 \notin Monos(Reading(hours, seg, h), u)
  <2>1. ~Past(mono + 1)
    BY <1>2 DEF Past
  <2> QED BY <1>1, <2>1 DEF Aged
<1> DEFINE o == Opened(w)
<1>4. /\ Sound(o) /\ o.seg.hour = HourOf(w)
      /\ \A u \in Tables : Monos(o, u) = Monos(Reading(hours, seg, HourOf(w)), u)
  BY <1>1, OpenedSound
<1> HIDE DEF o
<1>5. \A u \in Tables : mono + 1 \notin Monos(o, u)
  BY <1>3, <1>4
<1>6. Sound(FeedAll(o, records)) /\ FeedAll(o, records).seg.hour = HourOf(w)
  BY <1>4, <1>5, AllFed DEF FeedAll
<1>7. \A h \in Hours : Reading(hours, seg, h) \in Interps
  BY <1>1 DEF Structured, Sound, Kept
<1>8. \A h \in Hours : \A s, L : Tells(Reading(hours, seg, h), s, mono + 1, L)
  BY <1>3, <1>7, Unsaid
<1> QED BY <1>4, <1>6, <1>8 DEF Sound, Kept, o

LEMMA TapesTell ==
  ASSUME Recorded, NEW records, Written(records, mono + 1), NEW w, HourOf(w) \in Hours, Tapes(w, records),
         NEW s, NEW x, NEW L, \A h \in Hours : Tells(Reading(hours, seg, h), s, x, L),
         NEW M, M \subseteq L, Tells(FeedAll(Opened(w), records), s, x, M)
  PROVE  \A h \in Hours : Tells(Reading(hours', seg', h), s, x, M)
<1> DEFINE H == HourOf(w)
           i == FeedAll(Opened(w), records)
           new == rotated \/ seg.hour # H
           old == IF new THEN Baked ELSE hours
<1>1. Structured(hours, seg)
  BY DEF Recorded
<1>2. hours' = [old EXCEPT ![H] = i.hour] /\ seg' = i.seg
  BY DEF Tapes, FeedAll
<1>3. i \in Interps /\ i.seg.hour = H /\ Tells(i, s, x, M)
  BY Fed
<1> HIDE DEF i
<1>4. old \in [Hours -> HourSet]
  BY <1>1, BakedSound DEF Structured
<1>5. hours'[H] = i.hour /\ \A h \in Hours : h # H => hours'[h] = old[h]
  <2> HIDE DEF old, H
  <2> QED BY <1>2, <1>4 DEF H
<1>6. i = [hour |-> i.hour, seg |-> i.seg]
  BY <1>3 DEF Interps
<1> SUFFICES ASSUME NEW h \in Hours PROVE Tells(Reading(hours', seg', h), s, x, M)
  OBVIOUS
<1>7. CASE h = H
  <2>1. Reading(hours', seg', h) = i
    BY <1>2, <1>3, <1>5, <1>6, <1>7 DEF Reading
  <2> QED BY <1>3, <2>1
<1>8. CASE h # H
  <2>1. Reading(hours', seg', h) = [hour |-> old[h], seg |-> NoSegment]
    BY <1>2, <1>3, <1>5, <1>8 DEF Reading
  <2>2. Tells([hour |-> old[h], seg |-> NoSegment], s, x, L)
    <3>1. CASE new
      BY <1>1, <3>1, BakedTells
    <3>2. CASE ~new
      <4>1. Reading(hours, seg, h) = [hour |-> old[h], seg |-> NoSegment]
        BY <1>8, <3>2 DEF Reading
      <4> QED BY <4>1
    <3> QED BY <3>1, <3>2
  <2> QED BY <2>1, <2>2, TellsLess
<1> QED BY <1>7, <1>8

-----------------------------------------------------------------------------
(* The invariant of the gaps: the books that a file has heard of are those the recorder
   heard of in it, of the current subscription, and every gap is told honestly. *)

Bare(i) == \A s : Follows(i, s, {})

Truthful == {"gaps", "heard"} \subseteq DOMAIN truth /\ truth.gaps \subseteq [mono : Int, left : SUBSET Markets]
Followed ==
  ~rotated => /\ Follows([seg |-> seg], sid, truth.heard)
              /\ conn = "down" => Bare([seg |-> seg])
Honest ==
  \A g \in truth.gaps : g.mono <= mono /\ \A h \in Hours : Tells(Reading(hours, seg, h), sid, g.mono, g.left)

GapInv == TapeInv /\ Truthful /\ Followed /\ Honest

LEMMA OpenedFollows ==
  ASSUME GapInv
  PROVE  Follows(Opened(wall'), sid, Heard) /\ (conn = "down" => Bare(Opened(wall')))
<1> DEFINE w == wall'
<1> HIDE DEF w
<1>1. CASE ~rotated /\ seg.hour = HourOf(w)
  <2>1. Opened(w) = [hour |-> hours[seg.hour], seg |-> seg]
    BY <1>1 DEF Opened
  <2>2. Opened(w).seg = seg /\ [seg |-> seg].seg = seg
    BY <2>1
  <2>3. Heard = truth.heard
    BY <1>1 DEF Heard, NewFile, w
  <2>4. Follows(Opened(w), sid, truth.heard) /\ (conn = "down" => Bare(Opened(w)))
    BY <1>1, <2>2 DEF GapInv, Followed, Follows, Bare
  <2> QED BY <2>3, <2>4 DEF w
<1>2. CASE ~(~rotated /\ seg.hour = HourOf(w))
  <2> DEFINE x == HourOf(w)
             b == Baked[x]
  <2>1. Opened(w) = [hour |-> b, seg |-> [NoSegment EXCEPT !.hour = x]]
    BY <1>2 DEF Opened
  <2>2. Heard = {}
    BY <1>2 DEF Heard, NewFile, w
  <2> HIDE DEF b, x
  <2>3. Opened(w).seg.markets = [m \in Markets |-> NoMarket]
    BY <2>1 DEF NoSegment
  <2>4. \A m \in Markets : ~Opened(w).seg.markets[m].on
    BY <2>3 DEF NoMarket
  <2>5. \A s : Follows(Opened(w), s, {})
    BY <2>4 DEF Follows
  <2> QED BY <2>2, <2>5 DEF Bare, w
<1> QED BY <1>1, <1>2

(* What holds of the file to be written, of a gap before and of the one of this instant. *)
LEMMA OpenedHonest ==
  ASSUME GapInv, HourOf(wall') \in Hours, NEW records, Written(records, mono + 1)
  PROVE  /\ Opened(wall') \in Interps
         /\ \A g \in truth.gaps : /\ g.mono \in Int /\ g.left \in SUBSET Markets /\ g.mono < mono + 1
                                  /\ Tells(Opened(wall'), sid, g.mono, g.left)
         /\ \A s, L : Tells(Opened(wall'), s, mono + 1, L)
<1>1. Recorded /\ Structured(hours, seg) /\ mono \in Nat
  BY DEF GapInv, TapeInv, Recorded, Clocked
<1>2. Opened(wall') \in Interps /\ \A h \in Hours : \A s, L : Tells(Reading(hours, seg, h), s, mono + 1, L)
  BY <1>1, Fed
<1>3. ASSUME NEW g \in truth.gaps
      PROVE  /\ g.mono \in Int /\ g.left \in SUBSET Markets /\ g.mono < mono + 1
             /\ Tells(Opened(wall'), sid, g.mono, g.left)
  <2>1. g \in [mono : Int, left : SUBSET Markets] /\ g.mono <= mono
        /\ \A h \in Hours : Tells(Reading(hours, seg, h), sid, g.mono, g.left)
    BY DEF GapInv, Truthful, Honest
  <2>2. g.mono \in Int /\ g.left \in SUBSET Markets /\ g.mono < mono + 1
    BY <1>1, <2>1
  <2> QED BY <1>1, <2>1, <2>2, OpenedTells
<1>4. ASSUME NEW s, NEW L PROVE Tells(Opened(wall'), s, mono + 1, L)
  BY <1>1, <1>2, OpenedTells
<1> QED BY <1>2, <1>3, <1>4

LEMMA Concluded ==
  ASSUME GapInv, TapeInv', HourOf(wall') \in Hours, mono' = mono + 1,
         NEW records, Written(records, mono + 1), Tapes(wall', records),
         NEW kind, NEW gaps, NEW heard, Told(kind, gaps, heard),
         NEW i, i = FeedAll(Opened(wall'), records),
         \/ records[Len(records)].kind = "close"
         \/ Follows(i, sid', heard) /\ (conn' = "down" => Bare(i)),
         \A g \in gaps : /\ g \in [mono : Int, left : SUBSET Markets]
                         /\ Tells(i, sid', g.mono, g.left)
                         /\ \/ g.mono = mono + 1
                            \/ sid' = sid /\ \E f \in truth.gaps : g.mono = f.mono /\ g.left \subseteq f.left
  PROVE  GapInv'
<1>1. Recorded /\ mono \in Nat
  BY DEF GapInv, TapeInv, Recorded, Clocked
<1>2. truth'.gaps = gaps /\ truth'.heard = heard /\ DOMAIN truth' = DOMAIN truth
  BY DEF Told, GapInv, Truthful
<1>3. Truthful'
  BY <1>2 DEF Truthful, GapInv
<1>4. Followed'
  <2>1. seg' = i.seg /\ rotated' = (records[Len(records)].kind = "close")
    BY DEF Tapes, FeedAll
  <2>2. [seg |-> seg'].seg = i.seg
    BY <2>1
  <2>3. ASSUME ~rotated' PROVE Follows([seg |-> seg'], sid', heard) /\ (conn' = "down" => Bare([seg |-> seg']))
    BY <2>1, <2>2, <2>3 DEF Follows, Bare
  <2> QED BY <1>2, <2>3 DEF Followed
<1>5. ASSUME NEW g \in gaps
      PROVE  g.mono <= mono' /\ \A h \in Hours : Tells(Reading(hours', seg', h), sid', g.mono, g.left)
  <2>1. g.mono \in Int /\ g.left \in SUBSET Markets
    OBVIOUS
  <2>2. CASE g.mono = mono + 1
    <3>1. \A h \in Hours : Tells(Reading(hours, seg, h), sid', g.mono, g.left)
      BY <1>1, <2>2, Fed
    <3>2. \A h \in Hours : Tells(Reading(hours', seg', h), sid', g.mono, g.left)
      BY <1>1, <3>1, TapesTell
    <3> QED BY <1>1, <2>2, <3>2
  <2>3. CASE sid' = sid /\ \E f \in truth.gaps : g.mono = f.mono /\ g.left \subseteq f.left
    <3>1. PICK f \in truth.gaps : g.mono = f.mono /\ g.left \subseteq f.left
      BY <2>3
    <3>2. f.mono <= mono /\ \A h \in Hours : Tells(Reading(hours, seg, h), sid, f.mono, f.left)
      BY DEF GapInv, Honest
    <3>3. \A h \in Hours : Tells(Reading(hours', seg', h), sid, g.mono, g.left)
      BY <1>1, <2>3, <3>1, <3>2, TapesTell
    <3>4. g.mono <= mono'
      BY <1>1, <2>1, <3>1, <3>2
    <3> QED BY <2>3, <3>3, <3>4
  <2> QED BY <2>2, <2>3
<1>6. Honest'
  BY <1>2, <1>5 DEF Honest
<1> QED BY <1>3, <1>4, <1>6 DEF GapInv

LEMMA InstantHour ==
  ASSUME GapInv, Instant
  PROVE  mono' = mono + 1 /\ HourOf(wall') \in Hours /\ sid \in {1, 2}
<1>1. /\ wall \in Nat /\ wall' = wall + 1 /\ wall < MaxWall /\ mono' = mono + 1
      /\ MaxWall \in Nat /\ SleepLength \in Nat /\ sid \in {1, 2}
  BY TapeAssumption DEF GapInv, TapeInv, Recorded, Controlled, Clocked, Instant
<1>2. wall' \in Nat /\ wall' <= MaxWall + SleepLength
  BY <1>1
<1> QED BY <1>1, <1>2, HoursKnown

LEMMA RecordSays ==
  ASSUME NEW kind \in RecordKinds, NEW m, NEW n
  PROVE  /\ Record(kind, m, n).market = m
         /\ kind \notin {"trade", "undecodable"} => Record(kind, m, n).sid = sid
         /\ kind = "trade" => Record(kind, m, n).sid = TradeSid
BY DEF Record

(* What happens besides the frames: one record that says nothing of books or gaps. *)
LEMMA SilentConcluded ==
  ASSUME GapInv, TapeInv', HourOf(wall') \in Hours, mono' = mono + 1,
         NEW a \in RecordSet, a.mono = mono + 1, a.kind \in SilentKinds, Tapes(wall', <<a>>),
         NEW kind, Told(kind, truth.gaps, Heard), sid' = sid, conn' = conn
  PROVE  GapInv'
<1> DEFINE q == <<a>>
           o == Opened(wall')
           i == Feed(o, a)
<1>1. Written(q, mono + 1)
  BY WrittenOne
<1>2. FeedAll(o, q) = i
  BY OneFed
<1> HIDE DEF q
<1>3. /\ o \in Interps
      /\ \A g \in truth.gaps : Tells(o, sid, g.mono, g.left)
  BY <1>1, OpenedHonest
<1>4. Follows(o, sid, Heard) /\ (conn = "down" => Bare(o))
  BY OpenedFollows
<1> HIDE DEF o
<1>5. /\ \A g \in truth.gaps : Tells(i, sid, g.mono, g.left)
      /\ Follows(i, sid, Heard) /\ (conn = "down" => Bare(i))
  BY <1>3, <1>4, FeedSilent DEF Bare
<1> HIDE DEF i
<1>6. \A g \in truth.gaps : /\ g \in [mono : Int, left : SUBSET Markets]
                            /\ Tells(i, sid', g.mono, g.left)
                            /\ sid' = sid /\ \E f \in truth.gaps : g.mono = f.mono /\ g.left \subseteq f.left
  BY <1>5 DEF GapInv, Truthful
<1> QED BY <1>1, <1>2, <1>5, <1>6, Concluded DEF q, o

LEMMA SilentHonest ==
  ASSUME GapInv, TapeInv', AttemptFails \/ UndecodableArrives \/ HostSleeps \/ \E m \in Markets : AuditEnds(m)
  PROVE  GapInv'
<1>0. TapeInv
  BY DEF GapInv
<1>1. CASE AttemptFails
  <2> DEFINE a == Record("error", None, 0)
  <2>1. a \in RecordSet /\ a.kind = "error" /\ a.mono = mono + 1
    BY <1>0, RecordOf, Bucketed DEF RecordKinds
  <2>2. Instant /\ Tapes(wall', <<a>>) /\ Told("error", truth.gaps, Heard) /\ sid' = sid /\ conn' = conn
    BY <1>1 DEF AttemptFails
  <2> HIDE DEF a
  <2> QED BY <2>1, <2>2, InstantHour, SilentConcluded DEF SilentKinds
<1>2. CASE UndecodableArrives
  <2> DEFINE a == Record("undecodable", None, 0)
  <2>1. a \in RecordSet /\ a.kind = "undecodable" /\ a.mono = mono + 1
    BY <1>0, RecordOf, Bucketed DEF RecordKinds
  <2>2. Instant /\ Tapes(wall', <<a>>) /\ Told("frame", truth.gaps, Heard) /\ sid' = sid /\ conn' = conn
    BY <1>2 DEF UndecodableArrives
  <2> HIDE DEF a
  <2> QED BY <2>1, <2>2, InstantHour, SilentConcluded DEF SilentKinds
<1>3. CASE \E m \in Markets : AuditEnds(m)
  <2>1. PICK m \in Markets : AuditEnds(m)
    BY <1>3
  <2> DEFINE a == Record("audit", m, 0)
  <2>2. a \in RecordSet /\ a.kind = "audit" /\ a.mono = mono + 1
    BY <1>0, RecordOf, Bucketed DEF RecordKinds
  <2>3. Instant /\ Tapes(wall', <<a>>) /\ Told("audit", truth.gaps, Heard) /\ sid' = sid /\ conn' = conn
    BY <2>1 DEF AuditEnds
  <2> HIDE DEF a
  <2> QED BY <2>2, <2>3, InstantHour, SilentConcluded DEF SilentKinds
<1>4. CASE HostSleeps
  <2> DEFINE b == Record("clock_jump", None, SleepLength)
             a == [b EXCEPT !.wall = wall']
  <2>1. /\ wall \in Nat /\ wall < MaxWall /\ wall' = wall + 1 + SleepLength /\ mono' = mono + 1
        /\ MaxWall \in Nat /\ SleepLength \in Nat
    BY <1>0, <1>4, TapeAssumption DEF TapeInv, Recorded, Clocked, HostSleeps
  <2>2. wall' \in Nat /\ wall' \in Int /\ wall' <= MaxWall + SleepLength
    BY <2>1
  <2>3. HourOf(wall') \in Hours
    BY <2>2, HoursKnown
  <2>4. b \in RecordSet /\ b.kind = "clock_jump" /\ b.mono = mono + 1
    BY <1>0, <2>1, RecordOf, Bucketed DEF RecordKinds
  <2>5. Tapes(wall', <<a>>) /\ Told("clock_jump", truth.gaps, Heard) /\ sid' = sid /\ conn' = conn
    BY <1>4 DEF HostSleeps
  <2> HIDE DEF b
  <2>6. a \in RecordSet /\ a.mono = mono + 1 /\ a.kind = "clock_jump"
    BY <2>2, <2>4, Changed, Zenon
  <2> HIDE DEF a
  <2> QED BY <2>1, <2>3, <2>5, <2>6, SilentConcluded DEF SilentKinds
<1> QED BY <1>1, <1>2, <1>3, <1>4

LEMMA ConnectHonest ==
  ASSUME GapInv, TapeInv', Connect
  PROVE  GapInv'
<1> DEFINE a == Record("open", None, 0)
           b == [Record("subscribe", None, 0) EXCEPT !.sid = 1]
           c == [Record("subscribed", None, 0) EXCEPT !.sid = 1]
           q == <<a, b, c>>
           o == Opened(wall')
           i == FeedAll(o, q)
<1>0. TapeInv
  BY DEF GapInv
<1>1. a \in RecordSet /\ a.kind = "open" /\ a.mono = mono + 1
  BY <1>0, RecordOf, Bucketed DEF RecordKinds
<1>2. b \in RecordSet /\ b.kind = "subscribe" /\ b.mono = mono + 1
  <2>1. Record("subscribe", None, 0) \in RecordSet /\ Record("subscribe", None, 0).kind = "subscribe"
        /\ Record("subscribe", None, 0).mono = mono + 1
    BY <1>0, RecordOf, Bucketed DEF RecordKinds
  <2>2. 1 \in Int
    OBVIOUS
  <2> QED BY <2>1, <2>2, Changed, Zenon
<1>3. c \in RecordSet /\ c.kind = "subscribed" /\ c.mono = mono + 1
  <2>1. Record("subscribed", None, 0) \in RecordSet /\ Record("subscribed", None, 0).kind = "subscribed"
        /\ Record("subscribed", None, 0).mono = mono + 1
    BY <1>0, RecordOf, Bucketed DEF RecordKinds
  <2>2. 1 \in Int
    OBVIOUS
  <2> QED BY <2>1, <2>2, Changed, Zenon
<1>4. /\ Instant /\ Tapes(wall', <<a, b, c>>) /\ Told("open", {}, {})
      /\ conn = "down" /\ conn' = "open"
  BY DEF Connect
<1> HIDE DEF a, b, c
<1>5. Written(q, mono + 1)
  <2>1. TableOf(a) \notin Tables /\ TableOf(b) \notin Tables /\ TableOf(c) \notin Tables
    BY <1>1, <1>2, <1>3, TableNone
  <2> QED BY <1>1, <1>2, <1>3, <2>1, WrittenThree
<1>6. i = Feed(Feed(Feed(o, a), b), c)
  <2> HIDE DEF o
  <2> QED BY ThreeFed
<1>7. mono' = mono + 1 /\ HourOf(wall') \in Hours
  BY <1>4, InstantHour
<1> HIDE DEF q
<1>8. o \in Interps /\ Bare(o)
  BY <1>4, <1>5, <1>7, OpenedHonest, OpenedFollows
<1> HIDE DEF o, i
<1>9. Bare(i)
  <2>1. Feed(o, a) \in Interps /\ Bare(Feed(o, a))
    BY <1>1, <1>8, FeedSilent DEF SilentKinds, Bare
  <2>2. Feed(Feed(o, a), b) \in Interps /\ Bare(Feed(Feed(o, a), b))
    BY <1>2, <2>1, FeedSilent DEF SilentKinds, Bare
  <2> QED BY <1>3, <1>6, <2>2, FeedSilent DEF SilentKinds, Bare
<1>10. Follows(i, sid', {}) /\ (conn' = "down" => Bare(i))
  BY <1>9 DEF Bare
<1> QED BY <1>4, <1>5, <1>7, <1>10, Concluded DEF q, o, i

LEMMA CloseHonest ==
  ASSUME GapInv, TapeInv', Close
  PROVE  GapInv'
<1> DEFINE a == Record("close", None, 0)
           q == <<a>>
           i == FeedAll(Opened(wall'), q)
<1>0. TapeInv
  BY DEF GapInv
<1>1. a \in RecordSet /\ a.kind = "close" /\ a.mono = mono + 1
  BY <1>0, RecordOf, Bucketed DEF RecordKinds
<1>2. Instant /\ Tapes(wall', q) /\ Told("close", {}, {})
  BY DEF Close
<1> HIDE DEF a
<1>3. Written(q, mono + 1) /\ q[Len(q)].kind = "close"
  BY <1>1, WrittenOne
<1> HIDE DEF q, i
<1> QED BY <1>2, <1>3, InstantHour, Concluded DEF i

LEMMA ResubscribeHonest ==
  ASSUME GapInv, TapeInv', Resubscribe
  PROVE  GapInv'
<1> DEFINE a == Record("unsubscribe", None, 0)
           b == [Record("subscribe", None, 0) EXCEPT !.sid = 2]
           c == [Record("subscribed", None, 0) EXCEPT !.sid = 2]
           q == <<a, b, c>>
           o == Opened(wall')
           i == FeedAll(o, q)
<1>0. TapeInv
  BY DEF GapInv
<1>1. a \in RecordSet /\ a.kind = "unsubscribe" /\ a.mono = mono + 1 /\ a.sid = sid
  BY <1>0, RecordOf, RecordSays, Bucketed DEF RecordKinds
<1>2. b \in RecordSet /\ b.kind = "subscribe" /\ b.mono = mono + 1
  <2>1. Record("subscribe", None, 0) \in RecordSet /\ Record("subscribe", None, 0).kind = "subscribe"
        /\ Record("subscribe", None, 0).mono = mono + 1
    BY <1>0, RecordOf, Bucketed DEF RecordKinds
  <2>2. 2 \in Int
    OBVIOUS
  <2> QED BY <2>1, <2>2, Changed, Zenon
<1>3. c \in RecordSet /\ c.kind = "subscribed" /\ c.mono = mono + 1
  <2>1. Record("subscribed", None, 0) \in RecordSet /\ Record("subscribed", None, 0).kind = "subscribed"
        /\ Record("subscribed", None, 0).mono = mono + 1
    BY <1>0, RecordOf, Bucketed DEF RecordKinds
  <2>2. 2 \in Int
    OBVIOUS
  <2> QED BY <2>1, <2>2, Changed, Zenon
<1>4. Instant /\ Tapes(wall', <<a, b, c>>) /\ Told("command", {}, {}) /\ conn = "open" /\ conn' = conn
  BY DEF Resubscribe
<1> HIDE DEF a, b, c
<1>5. Written(q, mono + 1)
  <2>1. TableOf(a) \notin Tables /\ TableOf(b) \notin Tables /\ TableOf(c) \notin Tables
    BY <1>1, <1>2, <1>3, TableNone
  <2> QED BY <1>1, <1>2, <1>3, <2>1, WrittenThree
<1>6. i = Feed(Feed(Feed(o, a), b), c)
  <2> HIDE DEF o
  <2> QED BY ThreeFed
<1>7. mono' = mono + 1 /\ HourOf(wall') \in Hours
  BY <1>4, InstantHour
<1> HIDE DEF q
<1>8. o \in Interps /\ Follows(o, sid, Heard)
  BY <1>5, <1>7, OpenedHonest, OpenedFollows
<1> HIDE DEF o, i
<1>9. Bare(i)
  <2>1. Feed(o, a) \in Interps /\ Bare(Feed(o, a))
    BY <1>1, <1>8, FeedLeaves DEF Bare
  <2>2. Feed(Feed(o, a), b) \in Interps /\ Bare(Feed(Feed(o, a), b))
    BY <1>2, <2>1, FeedSilent DEF SilentKinds, Bare
  <2> QED BY <1>3, <1>6, <2>2, FeedSilent DEF SilentKinds, Bare
<1>10. Follows(i, sid', {}) /\ (conn' = "down" => Bare(i))
  BY <1>9 DEF Bare
<1> QED BY <1>4, <1>5, <1>7, <1>10, Concluded DEF q, o, i

(* A trade tells nothing of books, and its gap nothing of theirs. *)
LEMMA TradeHonest ==
  ASSUME GapInv, TapeInv', NEW m \in Markets, TradeArrives(m)
  PROVE  GapInv'
<1> DEFINE a == Record("trade", m, 0)
           g == GapRecord(a.sid)
           q == FrameAndGap(a)
           o == Opened(wall')
           i == FeedAll(o, q)
<1>0. TapeInv
  BY DEF GapInv
<1>1. a \in RecordSet /\ a.kind = "trade" /\ a.mono = mono + 1 /\ a.sid = TradeSid
  BY <1>0, RecordOf, RecordSays, Bucketed DEF RecordKinds
<1>2. g \in RecordSet /\ g.kind = "gap" /\ g.sid = TradeSid
  <2>1. Record("gap", None, 0) \in RecordSet /\ Record("gap", None, 0).kind = "gap"
    BY <1>0, RecordOf, Bucketed DEF RecordKinds
  <2>2. g = [Record("gap", None, 0) EXCEPT !.sid = TradeSid] /\ TradeSid \in Int
    BY <1>1 DEF GapRecord, TradeSid
  <2>3. g \in RecordSet /\ g.kind = "gap"
    BY <2>1, <2>2, Changed
  <2>4. [Record("gap", None, 0) EXCEPT !.sid = TradeSid].sid = TradeSid
    BY <2>1 DEF RecordSet
  <2> QED BY <2>2, <2>3, <2>4
<1>3. /\ Instant /\ Tapes(wall', q) /\ Told("frame", truth.gaps, Heard)
      /\ conn = "open" /\ conn' = conn /\ sid' = sid
  BY DEF TradeArrives
<1>4. mono' = mono + 1 /\ HourOf(wall') \in Hours /\ sid # TradeSid
  BY <1>3, InstantHour DEF TradeSid
<1>5. q = IF a.sid \in hole THEN <<a, g>> ELSE <<a>>
  <2>1. q = IF a.sid \in hole THEN <<a, g>> \o << >> ELSE <<a>>
    BY <1>1, <1>4 DEF FrameAndGap
  <2> HIDE DEF a, g, q
  <2> QED BY <2>1, Tuples
<1> HIDE DEF a, g
<1>6. Written(q, mono + 1)
  BY <1>0, <1>1, FrameWritten
<1> HIDE DEF q
<1>7. /\ o \in Interps /\ Follows(o, sid, Heard)
      /\ \A f \in truth.gaps : Tells(o, sid, f.mono, f.left)
  BY <1>4, <1>6, OpenedHonest, OpenedFollows
<1> HIDE DEF o
<1>8. i = IF a.sid \in hole THEN Feed(Feed(o, a), g) ELSE Feed(o, a)
  BY <1>5, OneFed, TwoFed
<1> HIDE DEF i
<1>9. /\ Feed(o, a) \in Interps /\ Follows(Feed(o, a), sid, Heard)
      /\ \A f \in truth.gaps : Tells(Feed(o, a), sid, f.mono, f.left)
  BY <1>1, <1>7, FeedSilent DEF SilentKinds
<1>10. /\ Follows(Feed(Feed(o, a), g), sid, Heard)
       /\ \A f \in truth.gaps : Tells(Feed(Feed(o, a), g), sid, f.mono, f.left)
  BY <1>2, <1>4, <1>9, FeedGap
<1>11. Follows(i, sid, Heard) /\ \A f \in truth.gaps : Tells(i, sid, f.mono, f.left)
  BY <1>8, <1>9, <1>10
<1>12. \A f \in truth.gaps : /\ f \in [mono : Int, left : SUBSET Markets]
                             /\ Tells(i, sid', f.mono, f.left)
                             /\ sid' = sid /\ \E e \in truth.gaps : f.mono = e.mono /\ f.left \subseteq e.left
  BY <1>3, <1>11 DEF GapInv, Truthful
<1> QED BY <1>3, <1>4, <1>6, <1>11, <1>12, Concluded DEF o, i

(* A market leaves, and its part in the gaps ends. *)
LEMMA LeavesHonest ==
  ASSUME GapInv, TapeInv', NEW m \in Markets, MarketLeaves(m)
  PROVE  GapInv'
<1> DEFINE a == Record("delete_markets", m, 0)
           q == <<a>>
           o == Opened(wall')
           i == Feed(o, a)
<1>0. TapeInv
  BY DEF GapInv
<1>1. a \in RecordSet /\ a.kind = "delete_markets" /\ a.mono = mono + 1 /\ a.market = m
  BY <1>0, RecordOf, RecordSays, Bucketed DEF RecordKinds
<1>2. /\ Instant /\ Tapes(wall', <<a>>) /\ Told("command", GapsAfter(m), Heard \ {m})
      /\ conn = "open" /\ conn' = conn /\ sid' = sid
  BY DEF MarketLeaves
<1> HIDE DEF a
<1>3. Written(q, mono + 1)
  BY <1>1, WrittenOne
<1>4. FeedAll(o, q) = i
  BY OneFed
<1>5. mono' = mono + 1 /\ HourOf(wall') \in Hours
  BY <1>2, InstantHour
<1> HIDE DEF q
<1>6. /\ o \in Interps /\ Follows(o, sid, Heard)
      /\ \A f \in truth.gaps : Tells(o, sid, f.mono, f.left)
  BY <1>3, <1>5, OpenedHonest, OpenedFollows
<1> HIDE DEF o
<1>7. Follows(i, sid, Heard \ {m}) /\ \A f \in truth.gaps : Tells(i, sid, f.mono, f.left)
  BY <1>1, <1>6, FeedLeaves
<1> HIDE DEF i
<1>8. \A f \in GapsAfter(m) : /\ f \in [mono : Int, left : SUBSET Markets]
                              /\ \E e \in truth.gaps : f.mono = e.mono /\ f.left = e.left \ {m}
  BY DEF GapInv, Truthful, GapsAfter
<1>9. \A f \in GapsAfter(m) : /\ f \in [mono : Int, left : SUBSET Markets]
                              /\ Tells(i, sid', f.mono, f.left)
                              /\ sid' = sid /\ \E e \in truth.gaps : f.mono = e.mono /\ f.left \subseteq e.left
  <2> SUFFICES ASSUME NEW f \in GapsAfter(m)
               PROVE  Tells(i, sid', f.mono, f.left)
                      /\ \E e \in truth.gaps : f.mono = e.mono /\ f.left \subseteq e.left
    BY <1>2, <1>8
  <2>1. PICK e \in truth.gaps : f.mono = e.mono /\ f.left = e.left \ {m}
    BY <1>8
  <2>2. f.left \subseteq e.left
    BY <2>1
  <2>3. Tells(i, sid, f.mono, f.left)
    BY <1>7, <2>1, <2>2, TellsLess
  <2> QED BY <1>2, <2>1, <2>2, <2>3
<1> QED BY <1>2, <1>3, <1>4, <1>5, <1>7, <1>9, Concluded DEF q, o

-----------------------------------------------------------------------------
(* The frames of the books.  A snapshot ends its book's part in the gaps. *)

Ended(a) == IF a.kind = "snapshot" THEN {a.market} ELSE {}

(* What a frame leaves of the gaps. *)
LeftOf(gaps, a) ==
  \A g \in gaps : /\ g \in [mono : Int, left : SUBSET Markets]
                  /\ \E f \in truth.gaps : g.mono = f.mono /\ g.left = f.left \ Ended(a)

BookFrame(a, m) ==
  a \in RecordSet /\ a.kind \in {"delta", "snapshot"} /\ a.mono = mono + 1 /\ a.sid = sid /\ a.market = m

LEMMA Framed ==
  ASSUME GapInv, HourOf(wall') \in Hours, NEW records, Written(records, mono + 1),
         NEW m, NEW a, BookFrame(a, m), NEW k, k = Feed(Opened(wall'), a)
  PROVE  /\ k \in Interps /\ sid \in k.seg.sids /\ Follows(k, sid, Heard \cup {m})
         /\ \A f \in truth.gaps : Tells(k, sid, f.mono, f.left \ Ended(a))
         /\ \A L : Tells(k, sid, mono + 1, L)
<1> DEFINE o == Opened(wall')
<1>1. /\ o \in Interps /\ \A f \in truth.gaps : Tells(o, sid, f.mono, f.left)
      /\ Tells(o, sid, mono + 1, {None})
  BY OpenedHonest
<1>2. Follows(o, sid, Heard)
  BY OpenedFollows
<1>3. k = Feed(o, a)
  OBVIOUS
<1>4. None \notin Markets
  BY TapeAssumption
<1> HIDE DEF o
<1>5. CASE a.kind = "delta"
  <2>1. k \in Interps /\ sid \in k.seg.sids /\ Follows(k, sid, Heard \cup {m})
    BY <1>1, <1>2, <1>3, <1>5, FeedDelta DEF BookFrame
  <2>2. \A s, x, L : Tells(o, s, x, L) => Tells(k, s, x, L)
    BY <1>1, <1>3, <1>5, FeedDelta DEF BookFrame
  <2>3. \A L : Tells(k, sid, mono + 1, L)
    BY <1>1, <2>1, <2>2, NoneWaits
  <2>4. \A f \in truth.gaps : f.left \ Ended(a) = f.left
    BY <1>5 DEF Ended
  <2> QED BY <1>1, <2>1, <2>2, <2>3, <2>4
<1>6. CASE a.kind = "snapshot"
  <2>1. k \in Interps /\ sid \in k.seg.sids /\ Follows(k, sid, Heard \cup {m})
    BY <1>1, <1>2, <1>3, <1>6, FeedSnapshot DEF BookFrame
  <2>2. \A s, x, L : Tells(o, s, x, L) => Tells(k, s, x, L \ {m})
    BY <1>1, <1>3, <1>6, FeedSnapshot DEF BookFrame
  <2>3. m \in Markets
    BY <1>6, InMarkets DEF BookFrame
  <2>4. {None} \ {m} = {None}
    BY <1>4, <2>3
  <2>5. Tells(k, sid, mono + 1, {None})
    BY <1>1, <2>2, <2>4
  <2>6. \A L : Tells(k, sid, mono + 1, L)
    BY <2>1, <2>5, NoneWaits
  <2>7. Ended(a) = {m}
    BY <1>6 DEF Ended, BookFrame
  <2> QED BY <1>1, <2>1, <2>2, <2>6, <2>7
<1> QED BY <1>5, <1>6 DEF BookFrame

(* A frame that shows no gap, with or without a request after it. *)
LEMMA PlainFrame ==
  ASSUME GapInv, TapeInv', Instant, NEW m \in Markets, NEW a, BookFrame(a, m),
         NEW b \in RecordSet, b.kind = "get_snapshot", b.mono = mono + 1,
         NEW records, records = <<a>> \/ records = <<a, b>>, Tapes(wall', records),
         NEW gaps, LeftOf(gaps, a), Told("frame", gaps, Heard \cup {m}),
         conn = "open", conn' = conn, sid' = sid
  PROVE  GapInv'
<1> DEFINE o == Opened(wall')
           k == Feed(o, a)
           i == FeedAll(o, records)
<1>1. mono' = mono + 1 /\ HourOf(wall') \in Hours
  BY InstantHour
<1>2. Written(records, mono + 1)
  <2>1. a \in RecordSet /\ a.mono = mono + 1
    BY DEF BookFrame
  <2>2. TableOf(b) \notin Tables
    BY TableNone
  <2>3. TableOf(a) \in Tables
    BY DEF BookFrame, TableOf, Tables
  <2>4. Written(<<a>>, mono + 1) /\ Written(<<a, b>>, mono + 1)
    BY <2>1, <2>2, <2>3, WrittenOne, WrittenTwo
  <2> QED BY <2>4
<1>3. i = k \/ i = Feed(k, b)
  <2> HIDE DEF o
  <2>1. FeedAll(o, <<a>>) = k /\ FeedAll(o, <<a, b>>) = Feed(k, b)
    BY OneFed, TwoFed
  <2> QED BY <2>1
<1>4. /\ k \in Interps /\ Follows(k, sid, Heard \cup {m})
      /\ \A f \in truth.gaps : Tells(k, sid, f.mono, f.left \ Ended(a))
  BY <1>1, <1>2, Framed
<1> HIDE DEF k
<1>5. /\ Follows(i, sid, Heard \cup {m})
      /\ \A f \in truth.gaps : Tells(i, sid, f.mono, f.left \ Ended(a))
  <2>1. /\ \A s, x, L : Tells(k, s, x, L) => Tells(Feed(k, b), s, x, L)
        /\ \A s, H : Follows(k, s, H) => Follows(Feed(k, b), s, H)
    BY <1>4, FeedSilent DEF SilentKinds
  <2> HIDE DEF i
  <2> QED BY <1>3, <1>4, <2>1
<1>6. \A g \in gaps : /\ g \in [mono : Int, left : SUBSET Markets]
                      /\ Tells(i, sid', g.mono, g.left)
                      /\ sid' = sid /\ \E f \in truth.gaps : g.mono = f.mono /\ g.left \subseteq f.left
  <2> HIDE DEF i
  <2> QED BY <1>5 DEF LeftOf
<1> HIDE DEF o
<1> QED BY <1>1, <1>2, <1>5, <1>6, Concluded DEF o

(* A frame that shows a gap: the gap is noted after it, and the books it staled are to
   come again. *)
LEMMA GapFrame ==
  ASSUME GapInv, TapeInv', Instant, NEW m \in Markets, NEW a, BookFrame(a, m), BookGap,
         Tapes(wall', FrameAndGap(a)),
         NEW old, LeftOf(old, a), Told("frame", old \cup {GapAt(m)}, Heard \cup {m}),
         conn = "open", conn' = conn, sid' = sid
  PROVE  GapInv'
<1> DEFINE g == GapRecord(a.sid)
           b == Record("get_snapshot", None, 0)
           q == FrameAndGap(a)
           o == Opened(wall')
           k == Feed(o, a)
           l == Feed(k, g)
           i == FeedAll(o, q)
<1>0. TapeInv /\ a \in RecordSet /\ a.mono = mono + 1 /\ a.sid = sid
  BY DEF GapInv, BookFrame
<1>1. b \in RecordSet /\ b.kind = "get_snapshot" /\ b.mono = mono + 1
  BY <1>0, RecordOf, Bucketed DEF RecordKinds
<1>2. g \in RecordSet /\ g.kind = "gap" /\ g.sid = sid /\ g.mono = mono + 1
  <2>1. Record("gap", None, 0) \in RecordSet /\ Record("gap", None, 0).kind = "gap"
        /\ Record("gap", None, 0).mono = mono + 1
    BY <1>0, RecordOf, Bucketed DEF RecordKinds
  <2>2. g = [Record("gap", None, 0) EXCEPT !.sid = sid] /\ sid \in Int
    BY <1>0 DEF GapRecord, RecordSet
  <2>3. g \in RecordSet /\ g.kind = "gap" /\ g.mono = mono + 1
    BY <2>1, <2>2, Changed
  <2>4. [Record("gap", None, 0) EXCEPT !.sid = sid].sid = sid
    BY <2>1 DEF RecordSet
  <2> QED BY <2>2, <2>3, <2>4
<1>3. q = <<a, g, b>>
  <2>1. q = <<a, g>> \o <<b>>
    BY <1>0 DEF FrameAndGap, BookGap
  <2> HIDE DEF g, b, q
  <2> QED BY <2>1, Tuples
<1>4. mono' = mono + 1 /\ HourOf(wall') \in Hours
  BY InstantHour
<1>5. Written(q, mono + 1)
  BY <1>0, FrameWritten DEF BookFrame
<1> HIDE DEF g, b, q
<1>6. i = Feed(l, b)
  <2> HIDE DEF o
  <2>1. FeedAll(o, <<a, g, b>>) = Feed(l, b)
    BY ThreeFed
  <2> QED BY <1>3, <2>1
<1>7. /\ k \in Interps /\ sid \in k.seg.sids /\ Follows(k, sid, Heard \cup {m})
      /\ \A f \in truth.gaps : Tells(k, sid, f.mono, f.left \ Ended(a))
      /\ \A L : Tells(k, sid, mono + 1, L)
  BY <1>4, <1>5, Framed
<1> HIDE DEF k
<1>8. l \in Interps /\ Follows(l, sid, Heard \cup {m})
  BY <1>2, <1>7, FeedGap
<1>9. ASSUME NEW f \in truth.gaps PROVE Tells(l, sid, f.mono, f.left \ Ended(a))
  <2>1. f.mono \in Int /\ f.mono < mono + 1
    BY <1>4, <1>5, OpenedHonest
  <2>2. f.mono # g.mono
    BY <1>0, <1>2, <2>1 DEF TapeInv, Recorded, Clocked
  <2> QED BY <1>2, <1>7, <2>2, FeedGap
<1>10. Tells(l, sid, mono + 1, On \cap (Heard \cup {m}))
  <2>1. On \cap (Heard \cup {m}) \subseteq Heard \cup {m} /\ On \cap (Heard \cup {m}) \subseteq Markets
    BY DEF On
  <2>2. \A x, L, H : Tells(k, sid, x, L) /\ sid \in k.seg.sids /\ Follows(k, sid, H)
                     /\ L \subseteq H /\ L \subseteq Markets => Tells(l, sid, x, L)
    BY <1>2, <1>7, FeedGap
  <2> QED BY <1>7, <2>1, <2>2
<1> HIDE DEF l
<1>11. /\ \A s, x, L : Tells(l, s, x, L) => Tells(i, s, x, L)
       /\ \A s, H : Follows(l, s, H) => Follows(i, s, H)
  BY <1>1, <1>6, <1>8, FeedSilent DEF SilentKinds
<1> HIDE DEF i
<1>12. ASSUME NEW x \in old \cup {GapAt(m)}
       PROVE  /\ x \in [mono : Int, left : SUBSET Markets]
              /\ Tells(i, sid', x.mono, x.left)
              /\ \/ x.mono = mono + 1
                 \/ sid' = sid /\ \E f \in truth.gaps : x.mono = f.mono /\ x.left \subseteq f.left
  <2>1. CASE x \in old
    <3>1. x \in [mono : Int, left : SUBSET Markets]
      BY <2>1 DEF LeftOf
    <3>2. PICK f \in truth.gaps : x.mono = f.mono /\ x.left = f.left \ Ended(a)
      BY <2>1 DEF LeftOf
    <3>3. Tells(i, sid', x.mono, x.left) /\ x.left \subseteq f.left
      BY <1>9, <1>11, <3>2
    <3> QED BY <3>1, <3>2, <3>3
  <2>2. CASE x = GapAt(m)
    <3>1. x.mono = mono + 1 /\ x.left = On \cap (Heard \cup {m})
      BY <1>4, <2>2 DEF GapAt
    <3>2. mono + 1 \in Int
      BY <1>0 DEF TapeInv, Recorded, Clocked
    <3>3. x \in [mono : Int, left : SUBSET Markets]
      BY <1>4, <2>2, <3>2 DEF GapAt, On
    <3>4. Tells(i, sid', x.mono, x.left)
      BY <1>10, <1>11, <3>1
    <3> QED BY <3>1, <3>3, <3>4
  <2> QED BY <2>1, <2>2
<1> QED BY <1>4, <1>5, <1>8, <1>11, <1>12, Concluded DEF i, o, q

LEMMA BookFrameOf ==
  ASSUME GapInv, NEW m \in Markets, NEW kind \in {"delta", "snapshot"}, NEW n \in Int
  PROVE  /\ BookFrame(Record(kind, m, n), m) /\ Record(kind, m, n).kind = kind
         /\ Record("get_snapshot", None, 0) \in RecordSet
         /\ Record("get_snapshot", None, 0).kind = "get_snapshot"
         /\ Record("get_snapshot", None, 0).mono = mono + 1
<1>1. TapeInv /\ kind \in RecordKinds /\ kind \notin {"trade", "undecodable"}
  BY DEF GapInv, RecordKinds
<1>2. Record(kind, m, n) \in RecordSet /\ Record(kind, m, n).kind = kind /\ Record(kind, m, n).mono = mono + 1
  BY <1>1, RecordOf, Bucketed
<1>3. Record(kind, m, n).sid = sid /\ Record(kind, m, n).market = m
  BY <1>1, RecordSays
<1>4. /\ Record("get_snapshot", None, 0) \in RecordSet
      /\ Record("get_snapshot", None, 0).kind = "get_snapshot"
      /\ Record("get_snapshot", None, 0).mono = mono + 1
  BY <1>1, RecordOf, Bucketed DEF RecordKinds
<1> QED BY <1>2, <1>3, <1>4 DEF BookFrame

LEMMA DeltaHonest ==
  ASSUME GapInv, TapeInv', NEW m \in Markets, DeltaArrives(m)
  PROVE  GapInv'
<1> DEFINE a == Record("delta", m, 1)
           b == Record("get_snapshot", None, 0)
           gaps == truth.gaps \cup (IF BookGap THEN {GapAt(m)} ELSE {})
<1>1. /\ BookFrame(a, m) /\ a.kind = "delta"
      /\ b \in RecordSet /\ b.kind = "get_snapshot" /\ b.mono = mono + 1
  BY BookFrameOf
<1>2. /\ Instant /\ Tapes(wall', FrameAndGap(a)) /\ Told("frame", gaps, Heard \cup {m})
      /\ conn = "open" /\ conn' = conn /\ sid' = sid
  BY DEF DeltaArrives
<1>3. ~BookGap => FrameAndGap(a) = <<a>>
  BY <1>1 DEF FrameAndGap, BookGap, BookFrame
<1> HIDE DEF a, b
<1>4. LeftOf(truth.gaps, a)
  BY <1>1 DEF LeftOf, Ended, GapInv, Truthful
<1>5. CASE BookGap
  <2>1. gaps = truth.gaps \cup {GapAt(m)}
    BY <1>5
  <2> HIDE DEF gaps
  <2> QED BY <1>1, <1>2, <1>4, <1>5, <2>1, GapFrame
<1>6. CASE ~BookGap
  <2> DEFINE records == <<a>>
  <2>1. gaps = truth.gaps /\ FrameAndGap(a) = records
    BY <1>3, <1>6
  <2>2. records = <<a>> \/ records = <<a, b>>
    OBVIOUS
  <2> HIDE DEF gaps, records
  <2> QED BY <1>1, <1>2, <1>4, <2>1, <2>2, PlainFrame
<1> QED BY <1>5, <1>6

LEMMA SnapshotHonest ==
  ASSUME GapInv, TapeInv', NEW m \in Markets, SnapshotArrives(m)
  PROVE  GapInv'
<1> DEFINE a == Record("snapshot", m, exch[m])
           b == Record("get_snapshot", None, 0)
           gap == BookGap /\ resyncing = {}
           records == IF gap THEN FrameAndGap(a) ELSE <<a>>
           gaps == GapsAfter(m) \cup (IF gap THEN {GapAt(m)} ELSE {})
<1>0. exch[m] \in Int
  BY DEF GapInv, TapeInv, Controlled
<1>1. /\ BookFrame(a, m) /\ a.kind = "snapshot"
      /\ b \in RecordSet /\ b.kind = "get_snapshot" /\ b.mono = mono + 1
  BY <1>0, BookFrameOf
<1>2. /\ Instant /\ Tapes(wall', records) /\ Told("frame", gaps, Heard \cup {m})
      /\ conn = "open" /\ conn' = conn /\ sid' = sid
  BY DEF SnapshotArrives
<1> HIDE DEF a, b
<1>3. LeftOf(GapsAfter(m), a)
  BY <1>1 DEF LeftOf, Ended, GapsAfter, GapInv, Truthful, BookFrame
<1>4. CASE gap
  <2>1. gaps = GapsAfter(m) \cup {GapAt(m)} /\ records = FrameAndGap(a)
    BY <1>4
  <2> HIDE DEF gaps, records
  <2> QED BY <1>1, <1>2, <1>3, <1>4, <2>1, GapFrame
<1>5. CASE ~gap
  <2>1. gaps = GapsAfter(m) /\ records = <<a>>
    BY <1>5
  <2> HIDE DEF gaps, records
  <2> QED BY <1>1, <1>2, <1>3, <2>1, PlainFrame
<1> QED BY <1>4, <1>5

LEMMA RepeatedHonest ==
  ASSUME GapInv, TapeInv', NEW m \in Markets, DeltaRepeated(m) \/ Straggler(m)
  PROVE  GapInv'
<1> DEFINE a == Record("delta", m, 1)
           b == Record("get_snapshot", None, 0)
           asking == <<a>> \o (IF On \subseteq resyncing THEN << >> ELSE <<b>>)
<1>1. /\ BookFrame(a, m) /\ a.kind = "delta"
      /\ b \in RecordSet /\ b.kind = "get_snapshot" /\ b.mono = mono + 1
  BY BookFrameOf
<1>2. /\ Instant /\ Told("frame", truth.gaps, Heard \cup {m})
      /\ conn = "open" /\ conn' = conn /\ sid' = sid
      /\ Tapes(wall', asking) \/ Tapes(wall', <<a>>)
  BY DEF DeltaRepeated, Straggler
<1> HIDE DEF a, b
<1>3. asking = <<a>> \/ asking = <<a, b>>
  BY Tuples
<1> HIDE DEF asking
<1>4. LeftOf(truth.gaps, a)
  BY <1>1 DEF LeftOf, Ended, GapInv, Truthful
<1>5. CASE Tapes(wall', asking)
  BY <1>1, <1>2, <1>3, <1>4, <1>5, PlainFrame
<1>6. CASE Tapes(wall', <<a>>)
  <2> DEFINE records == <<a>>
  <2>1. (records = <<a>> \/ records = <<a, b>>) /\ Tapes(wall', records)
    BY <1>6
  <2> HIDE DEF records
  <2> QED BY <1>1, <1>2, <1>4, <2>1, PlainFrame
<1> QED BY <1>2, <1>5, <1>6

(* What writes nothing. *)
LEMMA UnwrittenHonest ==
  ASSUME GapInv, TapeInv', FrameLost \/ ClockStepsBack \/ KeyframeWritten \/ UNCHANGED tapeVars
  PROVE  GapInv'
<1>1. UNCHANGED <<mono, conn, sid, rotated, seg, hours>>
  BY DEF FrameLost, ClockStepsBack, KeyframeWritten, tapeVars
<1>2. DOMAIN truth' = DOMAIN truth /\ truth'.gaps = truth.gaps /\ truth'.heard = truth.heard
  BY DEF FrameLost, ClockStepsBack, KeyframeWritten, tapeVars, GapInv, Truthful
<1>3. Truthful' /\ Followed'
  BY <1>1, <1>2 DEF GapInv, Truthful, Followed
<1>4. Honest'
  BY <1>1, <1>2 DEF GapInv, Honest
<1> QED BY <1>3, <1>4 DEF GapInv

LEMMA RestartHonest ==
  ASSUME GapInv, TapeInv', HostRestarts
  PROVE  GapInv'
<1>1. /\ rotated' = TRUE /\ truth' = [truth EXCEPT !.restarted = TRUE, !.gaps = {}]
  BY DEF HostRestarts
<1>2. DOMAIN truth' = DOMAIN truth /\ truth'.gaps = {}
  BY <1>1 DEF GapInv, Truthful
<1> QED BY <1>1, <1>2 DEF GapInv, Truthful, Followed, Honest

LEMMA GapStarts ==
  ASSUME TapeInit
  PROVE  GapInv
<1>1. TapeInv
  BY TapeStarts
<1>2. rotated = TRUE /\ truth.gaps = {} /\ {"gaps", "heard"} \subseteq DOMAIN truth
  BY DEF TapeInit
<1> QED BY <1>1, <1>2 DEF GapInv, Truthful, Followed, Honest

LEMMA GapSteps ==
  ASSUME GapInv, [TapeNext]_tapeVars
  PROVE  GapInv'
<1>1. TapeInv'
  BY TapeSteps DEF GapInv
<1> QED BY <1>1, ConnectHonest, CloseHonest, ResubscribeHonest, SilentHonest, UnwrittenHonest, RestartHonest,
           SnapshotHonest, DeltaHonest, RepeatedHonest, LeavesHonest, TradeHonest DEF TapeNext

LEMMA GapsTold ==
  ASSUME GapInv
  PROVE  GapsResolved
<1> DEFINE final == Baked
           order == CHOOSE o \in BucketOrders : TRUE
<1>1. order \in BucketOrders
  BY SomeOrder
<1> HIDE DEF order
<1>2. Structured(hours, seg)
  BY DEF GapInv, TapeInv, Recorded
<1>3. ASSUME NEW h \in Hours, NEW t \in {"deltas", "snapshots", "gaps"},
             NEW e \in RowsOf(Parts(final[h].tables[t], order))
      PROVE  e \in RowsHeld([hour |-> final[h], seg |-> NoSegment])
  <2> DEFINE i == [hour |-> final[h], seg |-> NoSegment]
             w == i.hour.tables[t]
  <2>1. Sound(i) /\ t \in Tables /\ i.hour = final[h]
    BY <1>2, BakedSound DEF Tables
  <2>2. e \in RowsOf(Parts(w, order))
    OBVIOUS
  <2> HIDE DEF i, final
  <2>3. TableOK(w)
    BY <2>1 DEF Sound, Kept
  <2>4. e \in Held(w)
    <3> HIDE DEF w
    <3> QED BY <1>1, <2>2, <2>3, PartsHold
  <2>5. e \in RowsHeld(i)
    BY <2>1, <2>4 DEF RowsHeld
  <2> QED BY <2>5 DEF i, final
<1>4. ASSUME NEW e \in Changes
      PROVE  \E h \in Hours : e \in RowsHeld([hour |-> final[h], seg |-> NoSegment])
  <2>1. PICK h \in Hours, t \in {"deltas", "snapshots", "gaps"} :
               e \in RowsOf(Parts(final[h].tables[t], order))
    BY DEF Changes, order
  <2> HIDE DEF final
  <2> QED BY <1>3, <2>1
<1>5. ASSUME NEW g \in truth.gaps, NEW e \in Changes,
             e.table = "gaps" /\ e.mono = g.mono /\ e.sid = sid, e.n # None
      PROVE  g.left = {}
  <2>1. PICK h \in Hours : e \in RowsHeld([hour |-> final[h], seg |-> NoSegment])
    BY <1>4
  <2>2. \A x \in Hours : Tells(Reading(hours, seg, x), sid, g.mono, g.left)
    BY DEF GapInv, Honest
  <2>3. Tells([hour |-> final[h], seg |-> NoSegment], sid, g.mono, g.left)
    BY <1>2, <2>2, BakedTells
  <2> HIDE DEF final
  <2> QED BY <1>5, <2>1, <2>3 DEF Tells, Patient
<1> QED BY <1>5 DEF GapsResolved

(* _resolve_gaps in interpret.py, with the recorder that it reads: whatever the frames, the
   files, the clocks and the connection do, a row says that a gap is over only when every
   book the gap staled, of those with a message in the file, has had its snapshot since or
   has left the subscription. *)
THEOREM GapsAlwaysResolved == TapeSpec => []GapsResolved
<1>1. TapeInit => GapInv
  BY GapStarts
<1>2. GapInv /\ [TapeNext]_tapeVars => GapInv'
  BY GapSteps
<1>3. GapInv => GapsResolved
  BY GapsTold
<1> QED BY <1>1, <1>2, <1>3, PTL DEF TapeSpec
=============================================================================
