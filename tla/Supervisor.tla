----------------------------- MODULE Supervisor -----------------------------
(***************************************************************************)
(* The life of one connection supervisor (src/tape/recorder/supervisor.py): *)
(* run, _run_connection, _end_connection, _back_off and stop.  What the    *)
(* frames do to the books is the subject of BookSync; here a frame may make *)
(* some book fresh.                                                        *)
(***************************************************************************)
EXTENDS Integers, Sequences

CONSTANTS
  Limit,      \* max_consecutive_failures; NoLimit for None
  MaxDoubles, \* doublings after which backoff_max_ns caps the delay
  MaxConns    \* bound: connection attempts

NoLimit == -1

ASSUME LoopAssumption ==
  /\ Limit \in Nat \cup {NoLimit}
  /\ MaxDoubles \in Nat /\ MaxConns \in Nat

VARIABLES
  phase,    \* where run is
  session,  \* WsSession: "none" | "new" | "ready" (its reader has not begun) | "open" | "failed" |
            \* "closed" | "mute" (closed, and its frames never end)
  stop,     \* _stop_requested
  opened,   \* _run_connection: the handshake succeeded
  failure,  \* _run_connection: its result is a failure
  frames,   \* _frames_this_connection > 0
  failures, \* _consecutive_failures
  delay,    \* doublings in the delay being slept
  fresh,    \* some book is fresh
  tape,     \* the CONNECTION records and rotations, in order
  result,   \* how run ended
  conns,    \* connection attempts
  inARow    \* history: connections lost since one that carried frames

vars == <<phase, session, stop, opened, failure, frames, failures, delay, fresh, tape,
          result, conns, inARow>>

Phases == {"idle", "connecting", "connected", "consuming", "ending", "backoff", "exited"}

Init ==
  /\ phase = "idle" /\ session = "none" /\ stop = FALSE
  /\ opened = FALSE /\ failure = FALSE /\ frames = FALSE
  /\ failures = 0 /\ delay = 0 /\ fresh = FALSE /\ tape = << >>
  /\ result = "none" /\ conns = 0 /\ inARow = 0

(* Mutant: the session outlives its connection. *)
ForgetKeepsSession == session' = session /\ frames' = FALSE

(* _forget_connection *)
Forget == session' = "none" /\ frames' = FALSE

(* run: the loop's test, then _begin_connection. *)
Begin ==
  /\ phase = "idle" /\ ~stop /\ conns < MaxConns
  /\ phase' = "connecting" /\ session' = "new" /\ frames' = FALSE
  /\ conns' = conns + 1
  /\ UNCHANGED <<stop, opened, failure, failures, delay, fresh, tape, result, inARow>>

LeaveLoop ==
  /\ phase = "idle" /\ stop
  /\ phase' = "exited" /\ result' = "returned"
  /\ UNCHANGED <<session, stop, opened, failure, frames, failures, delay, fresh, tape, conns,
                 inARow>>

(* WsSession.connect: its task is done, and the one of _read_loop is made. *)
HandshakeDone ==
  /\ phase = "connecting" /\ session = "new"
  /\ phase' = "connected" /\ session' = "ready"
  /\ UNCHANGED <<stop, opened, failure, frames, failures, delay, fresh, tape, result, conns, inARow>>

(* _read_loop: its first step, which comes before run resumes. *)
ReaderBegins ==
  /\ session = "ready" /\ session' = "open"
  /\ UNCHANGED <<phase, stop, opened, failure, frames, failures, delay, fresh, tape, result, conns,
                 inARow>>

(* _unless_stopped found connect done, be it stopped too; the connection event. *)
Connected ==
  /\ phase = "connected" /\ session # "ready"
  /\ phase' = "consuming" /\ opened' = TRUE
  /\ tape' = Append(tape, "open")
  /\ UNCHANGED <<session, stop, failure, frames, failures, delay, fresh, result, conns, inARow>>

ConnectFails ==
  /\ phase = "connecting"
  /\ phase' = "ending" /\ failure' = ~stop
  /\ UNCHANGED <<session, stop, opened, frames, failures, delay, fresh, tape, result, conns,
                 inARow>>

(* _handle_frames: a session that failed or was closed still yields what it has
   buffered. *)
Frame ==
  /\ phase = "consuming" /\ session # "mute"
  /\ frames' = TRUE /\ fresh' \in BOOLEAN
  /\ UNCHANGED <<phase, session, stop, opened, failure, failures, delay, tape, result, conns,
                 inARow>>

(* The peer closes, a keepalive or a send fails, or set_group closes a session it
   could not send on. *)
SessionFails ==
  /\ session = "open"
  /\ session' = "failed"
  /\ UNCHANGED <<phase, stop, opened, failure, frames, failures, delay, fresh, tape, result, conns,
                 inARow>>

(* _consume: the stream ended, or a subscribe outlived its reply deadline. *)
Consumed ==
  /\ phase = "consuming"
  /\ phase' = "ending" /\ failure' = ~stop
  /\ UNCHANGED <<session, stop, opened, frames, failures, delay, fresh, tape, result, conns,
                 inARow>>

ConsumeEnds == session \notin {"open", "mute"} /\ Consumed

DeadlinePasses == session = "open" /\ Consumed

Least(m, n) == IF m < n THEN m ELSE n

(* _back_off, on the connection _forget_connection has just forgotten. *)
BackOff ==
  LET before == IF frames' THEN 0 ELSE failures
  IN /\ failures' = before + 1
     /\ IF Limit # NoLimit /\ before + 1 > Limit
        THEN phase' = "exited" /\ result' = "raised" /\ delay' = delay
        ELSE phase' = "backoff" /\ result' = result /\ delay' = Least(before, MaxDoubles)

(* run returns when _run_connection reports no failure. *)
AfterConnection ==
  IF failure THEN BackOff
  ELSE phase' = "exited" /\ result' = "returned" /\ UNCHANGED <<failures, delay>>

EndEvents ==
  CASE opened              -> <<"close", "rotate">>
    [] ~opened /\ failure  -> <<"error">>
    [] OTHER               -> << >>

(* _end_connection, after session.close and the command lock, then run. *)
EndConnection ==
  /\ phase = "ending"
  /\ Forget
  /\ tape' = tape \o EndEvents
  /\ fresh' = (fresh /\ ~opened) /\ opened' = FALSE
  /\ inARow' = IF frames THEN 1 ELSE inARow + 1
  /\ AfterConnection
  /\ UNCHANGED <<stop, failure, conns>>

(* The sleep ends, or _unless_stopped cancels it. *)
Wake ==
  /\ phase = "backoff"
  /\ phase' = "idle"
  /\ UNCHANGED <<session, stop, opened, failure, frames, failures, delay, fresh, tape, result, conns,
                 inARow>>

(* stop sets the event and closes the session.  close cancels the reader, which queues the
   end of the stream as it ends, unless it had not begun. *)
Stop ==
  /\ ~stop /\ stop' = TRUE
  /\ session' = CASE session = "none"  -> "none"
                  [] session = "ready" -> "mute"
                  [] OTHER             -> "closed"
  /\ UNCHANGED <<phase, opened, failure, frames, failures, delay, fresh, tape, result, conns, inARow>>

Loop ==
  \/ Begin \/ LeaveLoop \/ HandshakeDone \/ ReaderBegins \/ Connected \/ ConnectFails \/ ConsumeEnds \/ EndConnection \/ Wake

Next == Loop \/ Frame \/ SessionFails \/ DeadlinePasses \/ Stop

Spec == Init /\ [][Next]_vars

-----------------------------------------------------------------------------
Events == {"open", "close", "rotate", "error"}

(* Every variable holds a value of its kind, a session exists exactly while a
   connection does, and a book is fresh only while one carries it. *)
TypeOK ==
  /\ phase \in Phases /\ session \in {"none", "new", "ready", "open", "failed", "closed", "mute"}
  /\ {stop, opened, failure, frames, fresh} \subseteq BOOLEAN
  /\ failures \in 0 .. conns /\ conns \in 0 .. MaxConns /\ delay \in 0 .. MaxDoubles
  /\ tape \in Seq(Events) /\ result \in {"none", "returned", "raised"}
  /\ session = "none" <=> phase \in {"idle", "backoff", "exited"}
  /\ fresh => phase \in {"consuming", "ending"}
  /\ result # "none" <=> phase = "exited"

(* _end_connection: every opened connection is closed on the tape and rotated, a
   stopped one too, before the next event of the connection. *)
EventsPaired ==
  \A i \in DOMAIN tape :
    /\ tape[i] = "open" => \/ i = Len(tape) /\ opened
                           \/ i + 2 <= Len(tape) /\ tape[i + 1] = "close" /\ tape[i + 2] = "rotate"
    /\ tape[i] = "close" => i > 1 /\ tape[i - 1] = "open"

(* run raises if the connection was lost more than max_consecutive_failures times
   in a row (supervisor.py, run): a connection that carried frames starts the
   count again. *)
RaisesInARow == result = "raised" => inARow > Limit
=============================================================================
