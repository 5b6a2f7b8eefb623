---------------------------- MODULE SegmentSink ----------------------------
(***************************************************************************)
(* The hand-off of one taped connection from the event loop to disk        *)
(* (src/tape/recorder/writer.py, src/tape/segment/segment.py): producers   *)
(* call put, rotate and close under a lock, one writer thread drains the   *)
(* queue into hourly segment files, the disk may refuse any operation, the *)
(* wall clock may step either way and the process may crash and be started *)
(* again over the same directory.                                          *)
(*                                                                         *)
(* A record is its number among the put calls on an open, living sink.    *)
(* stream is everything ever queued by this process and taken counts       *)
(* the items the thread has removed from it.                               *)
(***************************************************************************)
EXTENDS Integers, Sequences, FiniteSets

CONSTANTS
  MaxQueue,     \* max_queued_records
  MaxSegments,  \* MAX_SEGMENTS_PER_HOUR
  Hours,        \* the UTC hours the wall clock may show
  MaxPuts,      \* bound: put calls
  MaxRotates,   \* bound: rotate calls
  MaxCalls,     \* bound: put and rotate calls together
  MaxTroubles   \* bound: disk errors, unexpected exceptions and process crashes

ASSUME SinkAssumption ==
  /\ MaxQueue \in Nat \ {0}
  /\ MaxSegments \in Nat \ {0}
  /\ Hours \subseteq Nat /\ Hours # {}
  /\ {MaxPuts, MaxRotates, MaxCalls, MaxTroubles} \subseteq Nat

VARIABLES
  puts,         \* put calls on an open, living sink: the number of the latest record
  stream,       \* every item this process queued, oldest first
  taken,        \* items the thread has removed from the queue
  refused,      \* _refused
  unreported,   \* _unreported_refusals
  rotatePending, lastQueuedRotate,
  closer,       \* progress of close(): it leaves the lock before it sets _stopping
  stopping,     \* the _stopping event
  thread,       \* "off" | "top" | "get" | "done": where _run is
  sawStop,      \* the local `stopping` of _run
  failed,       \* _failure is set
  w,            \* what only the writer thread touches, and the files
  hour,         \* the hour of the wall clock
  rotations,    \* history: the value of puts at each rotate call of an open sink
  base,         \* history: the value of puts when this process started
  crashes

producerVars == <<puts, stream, refused, unreported, rotatePending, lastQueuedRotate, rotations, base>>
threadVars   == <<taken, thread, sawStop, failed, w>>
vars == <<producerVars, threadVars, closer, stopping, hour, crashes>>

-----------------------------------------------------------------------------
(* Queue items: a record, an overflow notice for n refusals, a marker.     *)

Item(kind, id, n) == [kind |-> kind, id |-> id, n |-> n]

Items == [kind : {"record", "notice", "rotate", "wake"}, id : Nat, n : Nat]

IsRecord(it) == it.kind \in {"record", "notice"}

QueueLen == Len(stream) - taken

(* Mutant: one slot fewer. *)
ControlSlotsShort == 3

ControlSlots == 4

Capacity == MaxQueue + ControlSlots

Closed == closer # "open"

(* The queue after _queue_overflow_notice. *)
Noticed ==
  IF unreported = 0 THEN stream ELSE Append(stream, Item("notice", puts, unreported))

(* ... and after the rotation that waited for room, which put queues next. *)
Marked == IF rotatePending THEN Append(Noticed, Item("rotate", puts, 0)) ELSE Noticed

-----------------------------------------------------------------------------
(* Segment files.  recs is what was appended, durable how much of it is    *)
(* flushed to the OS: what a crash cannot take away.                       *)

NoFile == 0

Taken(disk) == {<<disk[i].hour, disk[i].counter>> : i \in DOMAIN disk}

(* Where a step of the thread meets the disk it may fail while faults last. *)
CanFault(s) == s.faults + crashes < MaxTroubles

Fault(s) == [s EXCEPT !.faults = @ + 1]

(* _close_writer: the outcomes of finishing and closing the open file. *)
CloseWriter(s) ==
  IF s.file = NoFile THEN {[s EXCEPT !.dirty = FALSE]}
  ELSE {[s EXCEPT !.file = NoFile, !.dirty = FALSE, !.flushDue = FALSE,
                  !.disk[s.file].durable = Len(s.disk[s.file].recs)]}
       \cup (IF CanFault(s)
             THEN {[Fault(s) EXCEPT !.file = NoFile, !.dirty = FALSE, !.flushDue = FALSE]} ELSE {})

(* The names _open may still claim in this hour; an hour change restarts the
   counter, an existing file is skipped, never truncated. *)
NextCounter(s) == IF s.counterHour = hour THEN s.next ELSE 0

FreeCounters(s) ==
  {c \in NextCounter(s) .. MaxSegments - 1 : <<hour, c>> \notin Taken(s.disk)}

Least(S) == CHOOSE c \in S : \A d \in S : c <= d

(* Mutant: no exclusive create, the next counter is taken whoever has it. *)
OpenClobbers(s) ==
  LET c == NextCounter(s)
      empty == [hour |-> hour, counter |-> c, recs |-> << >>, durable |-> 0]
      same == {i \in DOMAIN s.disk : s.disk[i].hour = hour /\ s.disk[i].counter = c}
      i == IF same = {} THEN Len(s.disk) + 1 ELSE Least(same)
  IN IF c = MaxSegments THEN {s}
     ELSE {[s EXCEPT !.counterHour = hour, !.next = c + 1, !.file = i,
                     !.disk = IF same = {} THEN Append(@, empty) ELSE [@ EXCEPT ![i] = empty]]}

(* Mutant: the file an hour already has is opened again for appending. *)
OpenReuses(s) ==
  LET same == {i \in DOMAIN s.disk : s.disk[i].hour = hour}
  IN IF same # {} THEN {[s EXCEPT !.counterHour = hour, !.file = Least(same)]}
     ELSE {[s EXCEPT !.counterHour = hour, !.file = Len(s.disk) + 1,
                     !.disk = Append(@, [hour |-> hour, counter |-> 0,
                                         recs |-> << >>, durable |-> 0])]}

(* _open: the next free name is claimed, then the writer opened on it.
   A file whose writer could not be opened stays on disk, empty. *)
Claimed(s, c) ==
  [s EXCEPT !.counterHour = hour, !.next = c + 1,
            !.disk = Append(@, [hour |-> hour, counter |-> c, recs |-> << >>, durable |-> 0])]

FirstFree(s) == {c \in FreeCounters(s) : \A d \in FreeCounters(s) : c <= d}

Open(s) ==
  (IF FreeCounters(s) = {} THEN {[s EXCEPT !.counterHour = hour, !.next = MaxSegments]} ELSE {})
  \cup {[Claimed(s, c) EXCEPT !.file = Len(s.disk) + 1] : c \in FirstFree(s)}
  \cup (IF CanFault(s)
        THEN {[Fault(s) EXCEPT !.counterHour = hour, !.next = NextCounter(s)]}
               \cup {Fault(Claimed(s, c)) : c \in FirstFree(s)}
        ELSE {})

(* _writer_for: the open writer of the current hour, rotating as needed. *)
WriterFor(s) ==
  LET kept == IF s.file # NoFile /\ s.disk[s.file].hour # hour THEN CloseWriter(s) ELSE {s}
  IN UNION {IF t.file = NoFile THEN Open(t) ELSE {t} : t \in kept}

(* _write: an OSError counts the record as lost and abandons the file, which
   may hold it all the same; an oversized payload is lost and keeps the file. *)
Lose(s) == [s EXCEPT !.lost = @ + 1]

Appended(t, it) == [t EXCEPT !.disk[t.file].recs = Append(@, it)]

(* Mutant: a record the disk refused is not counted. *)
WriteOneUncounted(t, it) ==
  IF t.file = NoFile THEN CloseWriter(t)
  ELSE {[Appended(t, it) EXCEPT !.written = @ + 1, !.dirty = TRUE]}
       \cup (IF CanFault(t) THEN CloseWriter(Fault(t)) ELSE {})

WriteOne(t, it) ==
  IF t.file = NoFile THEN CloseWriter(Lose(t))
  ELSE {[Appended(t, it) EXCEPT !.written = @ + 1, !.dirty = TRUE]}
       \cup (IF CanFault(t)
             THEN CloseWriter(Lose(Fault(t))) \cup CloseWriter(Lose(Fault(Appended(t, it))))
                    \cup {Lose(Fault(t))}
             ELSE {})

Write(s, it) == UNION {WriteOne(t, it) : t \in WriterFor(s)}

(* _flush, and _tick: close a file whose hour ended, flush one that waited. *)
Flush(s) ==
  IF s.file = NoFile THEN {[s EXCEPT !.dirty = FALSE, !.flushDue = FALSE]}
  ELSE {[s EXCEPT !.dirty = FALSE, !.flushDue = FALSE,
                  !.disk[s.file].durable = Len(s.disk[s.file].recs)]}
       \cup (IF CanFault(s) THEN CloseWriter(Fault([s EXCEPT !.flushDue = FALSE])) ELSE {})

(* Mutant: the thread closes the file of an ended hour and flushes nothing. *)
TickNoFlush(s) ==
  IF s.file # NoFile /\ s.disk[s.file].hour # hour THEN CloseWriter(s) ELSE {s}

Tick(s) ==
  LET kept == IF s.file # NoFile /\ s.disk[s.file].hour # hour THEN CloseWriter(s) ELSE {s}
  IN UNION {IF t.dirty /\ t.flushDue THEN Flush(t) ELSE {t} : t \in kept}

-----------------------------------------------------------------------------
(* A new process over whatever the directory holds. *)

FreshWriter(disk, faults) ==
  [file |-> NoFile, counterHour |-> -1, next |-> 0, dirty |-> FALSE, flushDue |-> FALSE,
   written |-> 0, lost |-> 0, disk |-> disk, faults |-> faults]

Init ==
  /\ puts = 0 /\ stream = << >> /\ taken = 0 /\ refused = 0 /\ unreported = 0
  /\ rotatePending = FALSE /\ lastQueuedRotate = FALSE
  /\ closer = "open" /\ stopping = FALSE
  /\ thread = "off" /\ sawStop = FALSE /\ failed = FALSE
  /\ hour \in Hours
  /\ w = FreshWriter(<< >>, 0)
  /\ rotations = {} /\ base = 0 /\ crashes = 0

(* Producer side. *)

Start ==
  /\ thread = "off" /\ ~Closed
  /\ thread' = "top"
  /\ UNCHANGED <<producerVars, taken, sawStop, failed, w, closer, stopping, hour, crashes>>

CallsLeft == puts + Cardinality(rotations) < MaxCalls

PutRefusedDead ==
  /\ puts + refused < MaxPuts /\ CallsLeft
  /\ Closed \/ failed
  /\ refused' = refused + 1
  /\ UNCHANGED <<puts, stream, unreported, rotatePending, lastQueuedRotate, rotations, base,
                 threadVars, closer, stopping, hour, crashes>>

QueueFull == QueueLen >= MaxQueue

PutRefusedFull ==
  /\ puts < MaxPuts /\ CallsLeft
  /\ ~Closed /\ ~failed /\ QueueFull
  /\ puts' = puts + 1 /\ refused' = refused + 1 /\ unreported' = unreported + 1
  /\ UNCHANGED <<stream, rotatePending, lastQueuedRotate, rotations, base,
                 threadVars, closer, stopping, hour, crashes>>

(* Mutant: the notice does not reset the count it reports. *)
PutAcceptedNoReset ==
  /\ puts < MaxPuts /\ CallsLeft
  /\ ~Closed /\ ~failed /\ ~QueueFull
  /\ puts' = puts + 1
  /\ stream' = Append(Marked, Item("record", puts + 1, 0))
  /\ rotatePending' = FALSE /\ lastQueuedRotate' = FALSE
  /\ UNCHANGED <<refused, unreported, rotations, base, threadVars, closer, stopping, hour,
                 crashes>>

(* Mutant: a queued marker is still taken for the last item of the queue. *)
PutAcceptedKeepsFlag ==
  /\ puts < MaxPuts /\ CallsLeft
  /\ ~Closed /\ ~failed /\ ~QueueFull
  /\ puts' = puts + 1
  /\ stream' = Append(Marked, Item("record", puts + 1, 0))
  /\ unreported' = 0 /\ rotatePending' = FALSE
  /\ UNCHANGED <<refused, lastQueuedRotate, rotations, base, threadVars, closer, stopping, hour,
                 crashes>>

PutAccepted ==
  /\ puts < MaxPuts /\ CallsLeft
  /\ ~Closed /\ ~failed /\ ~QueueFull
  /\ puts' = puts + 1
  /\ stream' = Append(Marked, Item("record", puts + 1, 0))
  /\ unreported' = 0 /\ rotatePending' = FALSE /\ lastQueuedRotate' = FALSE
  /\ UNCHANGED <<refused, rotations, base, threadVars, closer, stopping, hour, crashes>>

RotateWhenFull ==
  /\ Cardinality(rotations) < MaxRotates /\ CallsLeft
  /\ ~Closed /\ QueueFull
  /\ rotatePending' = TRUE
  /\ rotations' = rotations \cup {puts}
  /\ UNCHANGED <<puts, stream, refused, unreported, lastQueuedRotate, base,
                 threadVars, closer, stopping, hour, crashes>>

RotateQueued ==
  /\ Cardinality(rotations) < MaxRotates /\ CallsLeft
  /\ ~Closed /\ ~QueueFull
  /\ LET coalesced == lastQueuedRotate /\ unreported = 0
     IN stream' = IF coalesced THEN stream ELSE Append(Noticed, Item("rotate", puts, 0))
  /\ unreported' = 0 /\ lastQueuedRotate' = TRUE
  /\ rotations' = rotations \cup {puts}
  /\ UNCHANGED <<puts, refused, rotatePending, base, threadVars, closer, stopping, hour, crashes>>

(* close: under the lock, then the event, then the wake-up, then the join.
   A sink that was never started is drained on the calling thread. *)

CloseLocked ==
  /\ closer = "open"
  /\ closer' = "closed"
  /\ LET reports == unreported > 0 /\ QueueLen < Capacity
     IN /\ stream' = IF reports THEN Noticed ELSE stream
        /\ unreported' = IF reports THEN 0 ELSE unreported
        /\ lastQueuedRotate' = (lastQueuedRotate /\ ~reports)
  /\ UNCHANGED <<puts, refused, rotatePending, rotations, base, threadVars, stopping, hour, crashes>>

CloseSetStopping ==
  /\ closer = "closed"
  /\ closer' = "stopping" /\ stopping' = TRUE
  /\ UNCHANGED <<producerVars, threadVars, hour, crashes>>

(* Mutant: a sink that was never started is not drained. *)
CloseWakeNoDrain ==
  /\ closer = "stopping"
  /\ closer' = "joining"
  /\ stream' = IF QueueLen < Capacity THEN Append(stream, Item("wake", puts, 0)) ELSE stream
  /\ UNCHANGED <<puts, refused, unreported, rotatePending, lastQueuedRotate, rotations, base,
                 taken, thread, sawStop, failed, w, stopping, hour, crashes>>

CloseWake ==
  /\ closer = "stopping"
  /\ closer' = "joining"
  /\ stream' = IF QueueLen < Capacity THEN Append(stream, Item("wake", puts, 0)) ELSE stream
  /\ thread' = IF thread = "off" THEN "top" ELSE thread
  /\ UNCHANGED <<puts, refused, unreported, rotatePending, lastQueuedRotate, rotations, base,
                 taken, sawStop, failed, w, stopping, hour, crashes>>

(* Writer thread: _run. *)

ReadStopping ==
  /\ thread = "top"
  /\ thread' = "get" /\ sawStop' = stopping
  /\ UNCHANGED <<producerVars, taken, failed, w, closer, stopping, hour, crashes>>

Handled(s, it) ==
  CASE IsRecord(it)        -> Write(s, it)
    [] it.kind = "rotate"  -> CloseWriter(s)
    [] OTHER               -> {s}

GetItem ==
  /\ thread = "get" /\ QueueLen > 0
  /\ thread' = "top" /\ taken' = taken + 1
  /\ \E s \in Handled(w, stream[taken + 1]) : w' \in Tick(s)
  /\ UNCHANGED <<producerVars, sawStop, failed, closer, stopping, hour, crashes>>

(* Any exception but a disk error ends the thread, before or after the item in
   hand was handled; the items still queued are lost uncounted. *)
GetItemFails ==
  /\ thread = "get" /\ QueueLen > 0 /\ CanFault(w)
  /\ thread' = "done" /\ taken' = taken + 1 /\ failed' = TRUE
  /\ \E s \in {w} \cup Handled(w, stream[taken + 1]) : w' \in CloseWriter(Fault(s))
  /\ UNCHANGED <<producerVars, sawStop, closer, stopping, hour, crashes>>

GetTimesOut ==
  /\ thread = "get" /\ QueueLen = 0 /\ ~sawStop
  /\ thread' = "top"
  /\ w' \in Tick(w)
  /\ UNCHANGED <<producerVars, taken, sawStop, failed, closer, stopping, hour, crashes>>

(* Mutant: the thread leaves as soon as it sees the stop. *)
DrainedEarly ==
  /\ thread = "get" /\ sawStop
  /\ thread' = "done"
  /\ w' \in CloseWriter(w)
  /\ UNCHANGED <<producerVars, taken, sawStop, failed, closer, stopping, hour, crashes>>

Drained ==
  /\ thread = "get" /\ QueueLen = 0 /\ sawStop
  /\ thread' = "done"
  /\ w' \in CloseWriter(w)
  /\ UNCHANGED <<producerVars, taken, sawStop, failed, closer, stopping, hour, crashes>>

(* Environment. *)

WallClock ==
  /\ hour' \in Hours \ {hour}
  /\ UNCHANGED <<producerVars, threadVars, closer, stopping, crashes>>

FlushIntervalPasses ==
  /\ w.file # NoFile /\ ~w.flushDue
  /\ w' = [w EXCEPT !.flushDue = TRUE]
  /\ UNCHANGED <<producerVars, taken, thread, sawStop, failed, closer, stopping, hour, crashes>>

(* The process dies: a file keeps what was flushed and may keep more, and a
   new process starts over the same directory. *)
(* Mutant: flushed records do not survive. *)
SurvivorsLoseFlushed(f) ==
  {[f EXCEPT !.recs = SubSeq(@, 1, n)] : n \in 0 .. Len(f.recs)}

Survivors(f) ==
  {[f EXCEPT !.recs = SubSeq(@, 1, n), !.durable = n] : n \in f.durable .. Len(f.recs)}

Crash ==
  /\ w.faults + crashes < MaxTroubles
  /\ crashes' = crashes + 1
  /\ \E disk \in [DOMAIN w.disk -> UNION {Survivors(w.disk[i]) : i \in DOMAIN w.disk}] :
       /\ \A i \in DOMAIN w.disk : disk[i] \in Survivors(w.disk[i])
       /\ w' = FreshWriter(disk, w.faults)
  /\ stream' = << >> /\ taken' = 0 /\ refused' = 0 /\ unreported' = 0
  /\ rotatePending' = FALSE /\ lastQueuedRotate' = FALSE
  /\ closer' = "open" /\ stopping' = FALSE
  /\ thread' = "off" /\ sawStop' = FALSE /\ failed' = FALSE
  /\ base' = puts
  /\ UNCHANGED <<puts, rotations, hour>>

Put      == PutRefusedDead \/ PutRefusedFull \/ PutAccepted
Rotate   == RotateWhenFull \/ RotateQueued
Close    == CloseLocked \/ CloseSetStopping \/ CloseWake
Run      == ReadStopping \/ GetItem \/ GetItemFails \/ GetTimesOut \/ Drained
Producer == Start \/ Put \/ Rotate \/ Close
Env      == WallClock \/ FlushIntervalPasses \/ Crash

Next == Producer \/ Run \/ Env

Spec == Init /\ [][Next]_vars

(* Fair: the started thread keeps running, a close once begun runs on, and
   monotonic time passes. *)
Fairness == WF_vars(Run) /\ WF_vars(CloseSetStopping \/ CloseWake) /\ WF_vars(FlushIntervalPasses)

FairSpec == Spec /\ Fairness

-----------------------------------------------------------------------------
Segments == [hour : Hours, counter : Nat, recs : Seq(Items), durable : Nat]

Writers ==
  [file : Nat, counterHour : Hours \cup {-1}, next : Nat, dirty : BOOLEAN, flushDue : BOOLEAN,
   written : Nat, lost : Nat, disk : Seq(Segments), faults : Nat]

CountsOK ==
  /\ puts \in Nat /\ refused \in Nat /\ unreported \in Nat /\ base \in Nat /\ crashes \in Nat
  /\ stream \in Seq(Items) /\ taken \in 0 .. Len(stream)
  /\ hour \in Hours /\ rotations \subseteq Nat

FlagsOK ==
  /\ rotatePending \in BOOLEAN /\ lastQueuedRotate \in BOOLEAN
  /\ stopping \in BOOLEAN /\ sawStop \in BOOLEAN /\ failed \in BOOLEAN
  /\ closer \in {"open", "closed", "stopping", "joining"}
  /\ thread \in {"off", "top", "get", "done"}

SoundWriter(s) ==
  /\ s \in Writers
  /\ s.file \in 0 .. Len(s.disk)
  /\ \A i \in 1 .. Len(s.disk) : s.disk[i].durable <= Len(s.disk[i].recs)

(* Every variable holds a value of its kind, the open file is a file of the
   disk, and a file is never flushed past its end. *)
TypeOK == CountsOK /\ FlagsOK /\ SoundWriter(w)

(* _CONTROL_SLOTS: no marker of put, rotate or close ever meets a full queue,
   so put_nowait never raises under the lock and close loses no notice. *)
ControlSlotsSuffice ==
  /\ QueueLen <= Capacity
  /\ ~Closed => QueueLen <= Capacity - 2
  /\ closer \in {"closed", "stopping"} => QueueLen < Capacity

(* What the items before a position account for: the put calls that the
   records, and the refusals that the notices, stand for. *)
Explains(it) == IF it.kind = "record" THEN 1 ELSE IF it.kind = "notice" THEN it.n ELSE 0

Chained(q, b) ==
  \A i \in 1 .. Len(q) : q[i].id = (IF i = 1 THEN b ELSE q[i - 1].id) + Explains(q[i])

LastId(q, b) == IF Len(q) = 0 THEN b ELSE q[Len(q)].id

HolesCounted == Chained(stream, base) /\ puts = LastId(stream, base) + unreported
CloseReports == Closed => unreported = 0

(* put, rotate and _queue_overflow_notice: on the queue the records are in put
   order, and a run of refused records is followed by a notice that counts
   exactly that run before anything else is queued; the refusals not yet on the
   queue are the ones counted in _unreported_refusals.; and
   close leaves none of those behind for want of room. *)
HolesReported == HolesCounted /\ CloseReports

(* The tape of a connection: its record numbers, file after file. *)
RecordIds(recs) == {recs[i].id : i \in {j \in DOMAIN recs : recs[j].kind = "record"}}

(* rotate: no file holds a record put before a rotate call and one put after
   it, though the marker may wait for room, be merged with an earlier one, or
   meet an hour change or a disk error on its way. *)
RotationSeparates ==
  \A i \in DOMAIN w.disk, n \in rotations :
    LET ids == RecordIds(w.disk[i].recs)
    IN (\E a \in ids : a <= n) => (\A b \in ids : b <= n)

(* _open and _write: read in the order the files were opened, across faults,
   clock steps and restarts, the tape holds no record twice and none out of
   order. *)
TapeOrder ==
  /\ \A i \in DOMAIN w.disk :
       LET recs == w.disk[i].recs
       IN \A a, b \in DOMAIN recs :
            a < b /\ recs[a].kind = "record" /\ recs[b].kind = "record" => recs[a].id < recs[b].id
  /\ \A i, j \in DOMAIN w.disk :
       i < j => \A a \in RecordIds(w.disk[i].recs), b \in RecordIds(w.disk[j].recs) : a < b

(* The exclusive create of _open: a file once claimed keeps its name, no other
   takes it, and what was flushed to it stays, whatever the process does next. *)
FlushedStays ==
  \A i \in DOMAIN w.disk :
    /\ i \in DOMAIN w'.disk
    /\ w'.disk[i].hour = w.disk[i].hour /\ w'.disk[i].counter = w.disk[i].counter
    /\ w.disk[i].durable <= Len(w'.disk[i].recs)
    /\ \A k \in 1 .. w.disk[i].durable : w'.disk[i].recs[k] = w.disk[i].recs[k]
    /\ \A j \in DOMAIN w'.disk \ {i} :
         <<w'.disk[j].hour, w'.disk[j].counter>> # <<w'.disk[i].hour, w'.disk[i].counter>>

FlushedStaysForever == [][FlushedStays]_vars

(* SinkStats: records the thread took are written or counted as dropped, and
   a clean _dirty means the open file is flushed to its end, so the sum is
   exact unless the thread died. *)
CountersExact ==
  /\ ~failed => w.written + w.lost = Cardinality({i \in 1 .. taken : IsRecord(stream[i])})
  /\ w.file # NoFile /\ ~w.dirty => w.disk[w.file].durable = Len(w.disk[w.file].recs)

(* close: once the thread has ended without a fault no record is queued and
   every record it was given is on disk, flushed. *)
DrainedAtEnd ==
  thread = "done" /\ w.faults = 0 =>
    /\ \A i \in taken + 1 .. Len(stream) : stream[i].kind = "wake"
    /\ w.file = NoFile
    /\ \A i \in DOMAIN w.disk : w.disk[i].durable = Len(w.disk[i].recs)

(* flush_interval_ns: a written record does not stay unflushed. *)
DirtyIsFlushed == w.dirty ~> ~w.dirty

(* close drains and ends the thread, whatever it finds in the queue. *)
CloseEnds == (closer = "closed") ~> (thread = "done" \/ closer = "open")
=============================================================================
