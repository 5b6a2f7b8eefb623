------------------------------ MODULE Recorder ------------------------------
(***************************************************************************)
(* A recorder's run from start to shutdown (src/tape/recorder/recorder.py): *)
(* one taped connection's supervisor and its sink, the internal loops, the  *)
(* periodic tasks, and whoever cancels run, stops it or waits for it.       *)
(***************************************************************************)
EXTENDS Supervisor

VARIABLES
  run,       \* "new" | "starting" | "capturing" | "shutting" | "over"
  outcome,   \* how run ended
  cancels,   \* cancellations of run so far
  asked,     \* a signal, stop or a cancellation asked for the end
  stopping,  \* Recorder._stop_requested
  stage,     \* how far _shutdown_once is; "no" before it
  finished,  \* _finished
  loops,     \* the universe, keyframe and status loops, as one task
  periodic,  \* the periodic tasks, as one
  writer,    \* the sink: its thread, and whether it is closed
  lateput,   \* history: a record was put on a closed sink
  noted,     \* _failures is not empty
  startFailed,
  stopper    \* a caller of stop

recVars == <<run, outcome, cancels, asked, stopping, stage, finished, loops, periodic, writer, lateput,
             noted, startFailed, stopper>>

RecInit ==
  /\ Init
  /\ run = "new" /\ outcome = "none" /\ cancels = 0 /\ asked = FALSE /\ stopping = FALSE
  /\ stage = "no" /\ finished = FALSE /\ loops = "off" /\ periodic = "off"
  /\ writer = [thread |-> "off", closed |-> FALSE] /\ lateput = FALSE
  /\ noted = FALSE /\ startFailed = FALSE /\ stopper = "idle"
-----------------------------------------------------------------------------
(* What the tasks do by themselves. *)

Started == loops # "off"

\* The supervisor's task; what it records, it puts on its sink.
SupervisorStep ==
  /\ Started
  /\ Loop \/ Frame \/ SessionFails \/ DeadlinePasses
  /\ lateput' = (lateput \/ (writer.closed /\ (tape' # tape \/ phase = "consuming")))
  /\ UNCHANGED <<run, outcome, cancels, asked, stopping, stage, finished, loops, periodic, writer,
                 noted, startFailed, stopper>>

WriterDies ==
  /\ writer.thread = "running" /\ writer' = [writer EXCEPT !.thread = "failed"]
  /\ UNCHANGED <<vars, run, outcome, cancels, asked, stopping, stage, finished, loops, periodic,
                 lateput, noted, startFailed, stopper>>

\* _until_stopped in every loop ends it; the status loop raises for a failed
\* sink; anything a loop does not catch ends it too.
LoopsEnd(how) ==
  /\ loops = "running" /\ loops' = how
  /\ UNCHANGED <<vars, run, outcome, cancels, asked, stopping, stage, finished, periodic, writer,
                 lateput, noted, startFailed, stopper>>
LoopsReturn == stopping /\ LoopsEnd("returned")
StatusNotices == writer.thread = "failed" /\ LoopsEnd("failed")
LoopFails == LoopsEnd("failed")

\* _run_periodic: a failure is logged, and capture continues.
PeriodicEnds ==
  /\ periodic = "running" /\ periodic' = "over"
  /\ UNCHANGED <<vars, run, outcome, cancels, asked, stopping, stage, finished, loops, writer, lateput,
                 noted, startFailed, stopper>>
-----------------------------------------------------------------------------
(* run *)

\* _shutdown: the first caller starts the sequence.
BeginShutdown == IF stage = "no" THEN stage' = "periodic" /\ stopping' = TRUE
                                 ELSE UNCHANGED <<stage, stopping>>

RunCalled ==
  /\ run = "new"
  /\ IF stopping THEN run' = "shutting" /\ BeginShutdown
                 ELSE run' = "starting" /\ UNCHANGED <<stage, stopping>>
  /\ UNCHANGED <<vars, outcome, cancels, asked, finished, loops, periodic, writer, lateput, noted,
                 startFailed, stopper>>

\* _start ends, fails, or is cut short by a stop.
StartFails ==
  /\ run = "starting" /\ run' = "shutting" /\ startFailed' = TRUE /\ BeginShutdown
  /\ UNCHANGED <<vars, outcome, cancels, asked, finished, loops, periodic, writer, lateput, noted, stopper>>
StartStopped ==
  /\ run = "starting" /\ stopping /\ run' = "shutting" /\ BeginShutdown
  /\ UNCHANGED <<vars, outcome, cancels, asked, finished, loops, periodic, writer, lateput, noted,
                 startFailed, stopper>>
\* _capture, up to its wait.
Capture ==
  /\ run = "starting" /\ ~stopping /\ run' = "capturing"
  /\ loops' = "running" /\ periodic' = "running" /\ writer' = [writer EXCEPT !.thread = "running"]
  /\ UNCHANGED <<vars, outcome, cancels, asked, stopping, stage, finished, lateput, noted, startFailed,
                 stopper>>

\* _capture from its wait: a task that is done failed, unless it returned after a stop.
SupervisorFailed == result = "raised" \/ (result = "returned" /\ ~stopping)
LoopsFailed == loops = "failed"
Noticed ==
  /\ run = "capturing" /\ (stopping \/ phase = "exited" \/ loops # "running")
  /\ noted' = (noted \/ SupervisorFailed \/ LoopsFailed)
  /\ run' = "shutting" /\ BeginShutdown
  /\ UNCHANGED <<vars, outcome, cancels, asked, finished, loops, periodic, writer, lateput, startFailed,
                 stopper>>

\* Cancelled before its shutdown, run still shuts down; cancelled in it, run leaves it to go on.
CancelledBefore ==
  /\ run \in {"starting", "capturing"} /\ cancels = 0
  /\ cancels' = 1 /\ asked' = TRUE /\ run' = "shutting" /\ BeginShutdown
  /\ UNCHANGED <<vars, outcome, finished, loops, periodic, writer, lateput, noted, startFailed, stopper>>
CancelledInUnset ==
  /\ run = "shutting" /\ cancels < 2
  /\ cancels' = cancels + 1 /\ asked' = TRUE /\ run' = "over" /\ outcome' = "cancelled"
  /\ UNCHANGED <<vars, stopping, stage, finished, loops, periodic, writer, lateput, noted, startFailed, stopper>>
CancelledIn ==
  /\ run = "shutting" /\ cancels < 2
  /\ cancels' = cancels + 1 /\ asked' = TRUE /\ run' = "over" /\ outcome' = "cancelled"
  /\ finished' = TRUE
  /\ UNCHANGED <<vars, stopping, stage, loops, periodic, writer, lateput, noted, startFailed, stopper>>

RunEnds ==
  /\ run = "shutting" /\ stage = "done"
  /\ run' = "over" /\ finished' = TRUE
  /\ outcome' = IF cancels > 0 THEN "cancelled"
                ELSE IF startFailed \/ noted THEN "raised" ELSE "returned"
  /\ UNCHANGED <<vars, cancels, asked, stopping, stage, loops, periodic, writer, lateput, noted,
                 startFailed, stopper>>
-----------------------------------------------------------------------------
(* _shutdown_once: the periodic tasks, the loops, the keyframe, the supervisors, the sinks. *)

\* _drain, with its deadline: a straggler is cancelled.
DrainPeriodic ==
  /\ stage = "periodic" /\ stage' = "loops"
  /\ periodic' = IF periodic = "running" THEN "over" ELSE periodic
  /\ UNCHANGED <<vars, run, outcome, cancels, asked, stopping, finished, loops, writer, lateput, noted,
                 startFailed, stopper>>
DrainLoops ==
  /\ stage = "loops" /\ stage' = "keyframe"
  /\ loops' = IF loops = "running" THEN "cancelled" ELSE loops
  /\ noted' = (noted \/ LoopsFailed)
  /\ UNCHANGED <<vars, run, outcome, cancels, asked, stopping, finished, periodic, writer, lateput,
                 startFailed, stopper>>

\* After the shutdown keyframe, every supervisor is told to stop.
StopSupervisorHasty ==
  /\ stage = "keyframe" /\ stage' = "sinks" /\ Stop
  /\ UNCHANGED <<run, outcome, cancels, asked, stopping, finished, loops, periodic, writer, lateput,
                 noted, startFailed, stopper>>
StopSupervisor ==
  /\ stage = "keyframe" /\ stage' = "supervisors" /\ Stop
  /\ UNCHANGED <<run, outcome, cancels, asked, stopping, finished, loops, periodic, writer, lateput,
                 noted, startFailed, stopper>>

DrainSilently ==
  /\ stage = "supervisors" /\ (phase = "exited" \/ ~Started) /\ stage' = "sinks"
  /\ UNCHANGED <<vars, run, outcome, cancels, asked, stopping, finished, loops, periodic, writer,
                 lateput, noted, startFailed, stopper>>
DrainSupervisor ==
  /\ stage = "supervisors" /\ (phase = "exited" \/ ~Started) /\ stage' = "sinks"
  /\ noted' = (noted \/ result = "raised")
  /\ UNCHANGED <<vars, run, outcome, cancels, asked, stopping, finished, loops, periodic, writer,
                 lateput, startFailed, stopper>>

\* The deadline: a supervisor whose frames do not end is cancelled, and closes its connection.
CancelSupervisor ==
  /\ stage = "supervisors" /\ Consumed
  /\ UNCHANGED recVars

\* _close_sinks, on a worker thread
CloseSinks ==
  /\ stage = "sinks" /\ stage' = "done"
  /\ writer' = [thread |-> IF writer.thread = "running" THEN "returned" ELSE writer.thread,
                closed |-> TRUE]
  /\ noted' = (noted \/ writer.thread = "failed")
  /\ UNCHANGED <<vars, run, outcome, cancels, asked, stopping, finished, loops, periodic, lateput,
                 startFailed, stopper>>

Shutdown == DrainPeriodic \/ DrainLoops \/ StopSupervisor \/ CancelSupervisor \/ DrainSupervisor \/ CloseSinks
-----------------------------------------------------------------------------
(* request_stop, and stop *)

RequestStop ==
  /\ ~stopping /\ stopping' = TRUE /\ asked' = TRUE
  /\ UNCHANGED <<vars, run, outcome, cancels, stage, finished, loops, periodic, writer, lateput, noted,
                 startFailed, stopper>>

StopCalled ==
  /\ stopper = "idle" /\ asked' = TRUE /\ stopping' = TRUE
  /\ IF run = "new" THEN stopper' = "shutdown" /\ stage' = (IF stage = "no" THEN "periodic" ELSE stage)
                    ELSE stopper' = "run" /\ UNCHANGED stage
  /\ UNCHANGED <<vars, run, outcome, cancels, finished, loops, periodic, writer, lateput, noted, startFailed>>
StopGoesOn ==
  /\ stopper = "run" /\ finished /\ stopper' = "shutdown" /\ BeginShutdown
  /\ UNCHANGED <<vars, run, outcome, cancels, asked, finished, loops, periodic, writer, lateput, noted,
                 startFailed>>
StopReturns ==
  /\ stopper = "shutdown" /\ stage = "done" /\ stopper' = "returned" /\ finished' = TRUE
  /\ UNCHANGED <<vars, run, outcome, cancels, asked, stopping, stage, loops, periodic, writer, lateput,
                 noted, startFailed>>
-----------------------------------------------------------------------------
Tasks == LoopsReturn \/ StatusNotices \/ Noticed \/ StartStopped \/ RunEnds \/ Shutdown
           \/ StopGoesOn \/ StopReturns

RecNext ==
  \/ SupervisorStep \/ Tasks \/ WriterDies \/ LoopFails \/ PeriodicEnds
  \/ RunCalled \/ StartFails \/ Capture \/ CancelledBefore \/ CancelledIn
  \/ RequestStop \/ StopCalled

allVars == <<vars, recVars>>

\* The handshake, session.close, the sleeps and every stage of the shutdown have
\* deadlines, and a session that failed or was closed ends its stream unless it is mute:
\* the supervisor and what waits for it go on. No one need call stop or cancel run, and nothing need fail.
RecSpec == RecInit /\ [][RecNext]_allVars /\ WF_vars(Started /\ Loop) /\ WF_allVars(Tasks)
-----------------------------------------------------------------------------
\* Nothing is put on a sink that was closed, and once it is closed its tape is whole:
\* every connection on it was closed and rotated, a stopped one too, before the next
\* began (recorder.py:1799, supervisor.py:629).
TapeComplete == EventsPaired /\ ~lateput /\ (writer.closed => ~opened)

\* run returns only if someone asked it to and nothing failed, and raises only if
\* something did (recorder.py:836): a supervisor that lost its connection more often
\* than its limit allows, a loop, the writer thread of the sink, or the start.
EndsForCause ==
  /\ outcome = "returned" => asked /\ result # "raised" /\ ~LoopsFailed /\ writer.thread # "failed"
  /\ outcome = "raised" => startFailed \/ LoopsFailed \/ writer.thread = "failed" \/ result = "raised"
  /\ result = "returned" => stop
  /\ result = "raised" => Limit # NoLimit /\ failures > Limit

\* A caller of stop gets its answer, and only when the sinks are closed, from wherever
\* run is and whoever cancels it; a failed writer thread ends the run too.
StopAnswered ==
  /\ stopper # "idle" ~> stopper = "returned" /\ writer.closed
  /\ Started /\ writer.thread = "failed" ~> run = "over"
=============================================================================
