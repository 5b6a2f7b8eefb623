------------------------- MODULE SegmentSinkProofs -------------------------
(***************************************************************************)
(* Proofs about SegmentSink for every queue size, segment limit, set of    *)
(* hours and number of calls, faults and crashes.                          *)
(***************************************************************************)
EXTENDS SegmentSink, SequenceTheorems, FiniteSetTheorems, TLAPS

-----------------------------------------------------------------------------
(* The queue: what one more item does to it. *)

(* An item that accounts for the put calls since the last one extends an
   unbroken queue. *)
LEMMA AppendChained ==
  ASSUME NEW q \in Seq(Items), NEW b \in Nat, NEW it \in Items,
         Chained(q, b), it.id = LastId(q, b) + Explains(it)
  PROVE  /\ Append(q, it) \in Seq(Items)
         /\ Len(Append(q, it)) = Len(q) + 1
         /\ Chained(Append(q, it), b)
         /\ LastId(Append(q, it), b) = it.id
<1> DEFINE r == Append(q, it)
<1>1. r \in Seq(Items) /\ Len(r) = Len(q) + 1 /\ r[Len(q) + 1] = it
  OBVIOUS
<1>2. \A i \in 1 .. Len(q) : r[i] = q[i]
  OBVIOUS
<1>3. LastId(r, b) = it.id
  BY <1>1 DEF LastId
<1>4. ASSUME NEW i \in 1 .. Len(r)
      PROVE  r[i].id = (IF i = 1 THEN b ELSE r[i - 1].id) + Explains(r[i])
  <2>1. CASE i = Len(r)
    <3>1. (IF i = 1 THEN b ELSE r[i - 1].id) = LastId(q, b)
      BY <1>1, <1>2, <2>1 DEF LastId
    <3> QED BY <1>1, <2>1, <3>1
  <2>2. CASE i # Len(r)
    <3>1. i \in 1 .. Len(q) /\ r[i] = q[i] /\ (i # 1 => r[i - 1] = q[i - 1])
      BY <1>1, <1>2, <2>2
    <3> QED BY <3>1 DEF Chained
  <2> QED BY <2>1, <2>2
<1> HIDE DEF r
<1> QED BY <1>1, <1>3, <1>4 DEF Chained, r

LEMMA LastIdType ==
  ASSUME NEW q \in Seq(Items), NEW b \in Nat
  PROVE  LastId(q, b) \in Nat
<1>1. CASE Len(q) = 0
  BY <1>1 DEF LastId
<1>2. CASE Len(q) # 0
  <2>1. q[Len(q)] \in Items
    BY <1>2
  <2> QED BY <1>2, <2>1 DEF LastId, Items
<1> QED BY <1>1, <1>2

(* The inductive invariant of the queue. *)
QueueInv == CountsOK /\ ControlSlotsSuffice /\ HolesCounted /\ CloseReports

LEMMA QueueInit == ASSUME Init PROVE QueueInv
<1>1. stream \in Seq(Items) /\ Len(stream) = 0 /\ QueueLen = 0
  BY EmptySeq DEF Init, QueueLen
<1>2. Capacity \in Nat /\ Capacity > 4
  BY SinkAssumption DEF SinkAssumption, Capacity, ControlSlots
<1>3. CountsOK
  BY <1>1 DEF Init, CountsOK
<1>4. ControlSlotsSuffice
  BY <1>1, <1>2 DEF Init, ControlSlotsSuffice, Closed
<1>5. HolesCounted
  BY <1>1 DEF Init, HolesCounted, Chained, LastId
<1>6. CloseReports
  BY DEF Init, CloseReports
<1> QED BY <1>3, <1>4, <1>5, <1>6 DEF QueueInv

(* What _queue_overflow_notice and a waiting rotation leave. *)
LEMMA NoticedQueue ==
  ASSUME CountsOK, HolesCounted
  PROVE  /\ Noticed \in Seq(Items) /\ Chained(Noticed, base) /\ LastId(Noticed, base) = puts
         /\ Len(stream) <= Len(Noticed) /\ Len(Noticed) <= Len(stream) + 1
<1>1. CASE unreported = 0
  BY <1>1, LastIdType DEF CountsOK, HolesCounted, Noticed
<1>2. CASE unreported # 0
  <2> DEFINE it == Item("notice", puts, unreported)
  <2>1. it \in Items /\ it.id = puts /\ Explains(it) = unreported
    BY DEF CountsOK, Item, Items, Explains
  <2> QED BY <1>2, <2>1, AppendChained DEF CountsOK, HolesCounted, Noticed
<1> QED BY <1>1, <1>2

LEMMA MarkedQueue ==
  ASSUME CountsOK, HolesCounted
  PROVE  /\ Marked \in Seq(Items) /\ Chained(Marked, base) /\ LastId(Marked, base) = puts
         /\ Len(stream) <= Len(Marked) /\ Len(Marked) <= Len(stream) + 2
<1> DEFINE it == Item("rotate", puts, 0)
<1>1. it \in Items /\ it.id = puts + Explains(it) /\ it.id = puts
  BY DEF CountsOK, Item, Items, Explains
<1> QED BY <1>1, NoticedQueue, AppendChained DEF Marked, CountsOK

(* A step that leaves the producer's side and the queue alone, but for what the
   thread takes. *)
LEMMA TakeQueue ==
  ASSUME QueueInv, UNCHANGED producerVars, UNCHANGED <<closer, crashes>>, hour' \in Hours,
         taken' \in {taken, taken + 1}, taken' <= Len(stream)
  PROVE  QueueInv'
<1> USE DEF QueueInv, producerVars
<1>1. CountsOK'
  BY DEF CountsOK
<1>2. ControlSlotsSuffice'
  BY SinkAssumption DEF CountsOK, ControlSlotsSuffice, QueueLen, Closed, Capacity, ControlSlots,
     SinkAssumption
<1>3. HolesCounted' /\ CloseReports'
  BY DEF HolesCounted, CloseReports, Closed
<1> QED BY <1>1, <1>2, <1>3

LEMMA PutAcceptedQueue == ASSUME QueueInv, PutAccepted PROVE QueueInv'
<1> DEFINE it == Item("record", puts + 1, 0)
<1> USE DEF QueueInv
<1>1. it \in Items /\ it.id = puts + Explains(it) /\ it.id = puts + 1
  BY DEF CountsOK, Item, Items, Explains
<1>2. /\ stream' = Append(Marked, it) /\ stream' \in Seq(Items)
      /\ Chained(stream', base) /\ LastId(stream', base) = puts + 1
      /\ Len(stream) <= Len(stream') /\ Len(stream') <= Len(stream) + 3
  BY <1>1, MarkedQueue, AppendChained DEF PutAccepted, CountsOK
<1>3. CountsOK'
  BY <1>2 DEF PutAccepted, CountsOK, threadVars
<1>4. ControlSlotsSuffice'
  BY <1>2, SinkAssumption DEF PutAccepted, CountsOK, threadVars, ControlSlotsSuffice,
     QueueLen, QueueFull, Closed, Capacity, ControlSlots, SinkAssumption
<1>5. HolesCounted'
  BY <1>2 DEF PutAccepted, HolesCounted, CountsOK
<1>6. CloseReports'
  BY DEF PutAccepted, CloseReports
<1> QED BY <1>3, <1>4, <1>5, <1>6

LEMMA RotateQueuedQueue == ASSUME QueueInv, RotateQueued PROVE QueueInv'
<1> DEFINE it == Item("rotate", puts, 0)
<1> USE DEF QueueInv
<1>1. it \in Items /\ it.id = puts + Explains(it) /\ it.id = puts
  BY DEF CountsOK, Item, Items, Explains
<1>2. /\ stream' \in Seq(Items)
      /\ Chained(stream', base) /\ LastId(stream', base) = puts
      /\ Len(stream) <= Len(stream') /\ Len(stream') <= Len(stream) + 2
  <2>1. CASE lastQueuedRotate /\ unreported = 0
    BY <2>1, LastIdType DEF RotateQueued, CountsOK, HolesCounted
  <2>2. CASE ~(lastQueuedRotate /\ unreported = 0)
    BY <2>2, <1>1, NoticedQueue, AppendChained DEF RotateQueued, CountsOK
  <2> QED BY <2>1, <2>2
<1>3. CountsOK'
  BY <1>2 DEF RotateQueued, CountsOK, threadVars
<1>4. ControlSlotsSuffice'
  BY <1>2, SinkAssumption DEF RotateQueued, CountsOK, threadVars, ControlSlotsSuffice,
     QueueLen, QueueFull, Closed, Capacity, ControlSlots, SinkAssumption
<1>5. HolesCounted'
  BY <1>2 DEF RotateQueued, HolesCounted, CountsOK
<1>6. CloseReports'
  BY DEF RotateQueued, CloseReports
<1> QED BY <1>3, <1>4, <1>5, <1>6

LEMMA CloseLockedQueue == ASSUME QueueInv, CloseLocked PROVE QueueInv'
<1> USE DEF QueueInv
<1>1. QueueLen < Capacity
  BY SinkAssumption DEF CloseLocked, CountsOK, ControlSlotsSuffice, QueueLen, Closed, Capacity,
     ControlSlots, SinkAssumption
<1>2. stream' = Noticed /\ unreported' = 0
  BY <1>1 DEF CloseLocked, Noticed, CountsOK
<1>3. CountsOK'
  BY <1>2, NoticedQueue DEF CloseLocked, CountsOK, threadVars
<1>4. ControlSlotsSuffice'
  BY <1>2, NoticedQueue, SinkAssumption DEF CloseLocked, CountsOK, threadVars,
     ControlSlotsSuffice, QueueLen, Closed, Capacity, ControlSlots, SinkAssumption
<1>5. HolesCounted' /\ CloseReports'
  BY <1>2, NoticedQueue DEF CloseLocked, CountsOK, HolesCounted, CloseReports
<1> QED BY <1>3, <1>4, <1>5

LEMMA CloseWakeQueue == ASSUME QueueInv, CloseWake PROVE QueueInv'
<1> DEFINE it == Item("wake", puts, 0)
<1> USE DEF QueueInv
<1>1. it \in Items /\ it.id = puts + Explains(it) /\ it.id = puts
  BY DEF CountsOK, Item, Items, Explains
<1>2. unreported = 0 /\ QueueLen < Capacity
  BY DEF CloseWake, CloseReports, Closed, ControlSlotsSuffice
<1>3. /\ stream' = Append(stream, it) /\ stream' \in Seq(Items) /\ Len(stream') = Len(stream) + 1
      /\ Chained(stream', base) /\ LastId(stream', base) = puts
  <2>1. stream' = Append(stream, it)
    BY <1>2 DEF CloseWake
  <2>2. it.id = LastId(stream, base) + Explains(it) /\ Chained(stream, base)
    BY <1>1, <1>2, LastIdType DEF CountsOK, HolesCounted
  <2> HIDE DEF it
  <2> QED BY <1>1, <2>1, <2>2, AppendChained DEF CountsOK
<1>4. CountsOK'
  BY <1>3 DEF CloseWake, CountsOK
<1>5. ControlSlotsSuffice'
  BY <1>2, <1>3, SinkAssumption DEF CloseWake, CountsOK, ControlSlotsSuffice, QueueLen, Closed,
     Capacity, ControlSlots, SinkAssumption
<1>6. HolesCounted' /\ CloseReports'
  BY <1>2, <1>3 DEF CloseWake, CountsOK, HolesCounted, CloseReports
<1> QED BY <1>4, <1>5, <1>6

LEMMA CrashQueue == ASSUME QueueInv, Crash PROVE QueueInv'
<1> USE DEF QueueInv
<1>1. stream' \in Seq(Items) /\ Len(stream') = 0 /\ QueueLen' = 0
  BY EmptySeq DEF Crash, QueueLen
<1>2. Capacity \in Nat /\ Capacity > 4
  BY SinkAssumption DEF SinkAssumption, Capacity, ControlSlots
<1>3. CountsOK'
  BY <1>1 DEF Crash, CountsOK
<1>4. ControlSlotsSuffice'
  BY <1>1, <1>2 DEF Crash, ControlSlotsSuffice, Closed, Capacity, ControlSlots
<1>5. HolesCounted' /\ CloseReports'
  BY <1>1 DEF Crash, HolesCounted, CloseReports, Chained, LastId, CountsOK
<1> QED BY <1>3, <1>4, <1>5

LEMMA QueueStep == ASSUME QueueInv, [Next]_vars PROVE QueueInv'
<1> USE DEF QueueInv
<1>1. CASE Start
  BY <1>1, TakeQueue DEF Start, CountsOK
<1>2. CASE PutRefusedDead
  BY <1>2 DEF PutRefusedDead, threadVars, CountsOK, ControlSlotsSuffice, HolesCounted,
     CloseReports, QueueLen, Closed
<1>3. CASE PutRefusedFull
  <2>1. CountsOK' /\ ControlSlotsSuffice' /\ CloseReports'
    BY <1>3 DEF PutRefusedFull, threadVars, CountsOK, ControlSlotsSuffice, CloseReports,
       QueueLen, Closed
  <2>2. HolesCounted'
    <3>1. LastId(stream, base) \in Nat
      BY LastIdType DEF CountsOK
    <3> QED BY <1>3, <3>1 DEF PutRefusedFull, CountsOK, HolesCounted
  <2> QED BY <2>1, <2>2
<1>4. CASE PutAccepted
  BY <1>4, PutAcceptedQueue
<1>5. CASE RotateWhenFull
  BY <1>5 DEF RotateWhenFull, threadVars, CountsOK, ControlSlotsSuffice, HolesCounted,
     CloseReports, QueueLen, Closed
<1>6. CASE RotateQueued
  BY <1>6, RotateQueuedQueue
<1>7. CASE CloseLocked
  BY <1>7, CloseLockedQueue
<1>8. CASE CloseSetStopping
  BY <1>8 DEF CloseSetStopping, producerVars, threadVars, CountsOK, ControlSlotsSuffice,
     HolesCounted, CloseReports, QueueLen, Closed
<1>9. CASE CloseWake
  BY <1>9, CloseWakeQueue
<1>10. CASE Run
  <2>1. taken' = taken \/ (taken' = taken + 1 /\ QueueLen > 0)
    <3>1. CASE ReadStopping \/ GetTimesOut \/ Drained
      BY <3>1 DEF ReadStopping, GetTimesOut, Drained
    <3>2. CASE GetItem
      BY <3>2 DEF GetItem
    <3>3. CASE GetItemFails
      BY <3>3 DEF GetItemFails
    <3> QED BY <1>10, <3>1, <3>2, <3>3 DEF Run
  <2>3. taken' \in {taken, taken + 1} /\ taken' <= Len(stream)
    BY <2>1 DEF QueueLen, CountsOK
  <2>2. UNCHANGED producerVars /\ UNCHANGED <<closer, crashes>> /\ hour' \in Hours
    BY <1>10 DEF Run, ReadStopping, GetItem, GetItemFails, GetTimesOut, Drained, CountsOK
  <2> QED BY <2>2, <2>3, TakeQueue
<1>11. CASE WallClock
  BY <1>11, TakeQueue DEF WallClock, CountsOK, threadVars
<1>12. CASE FlushIntervalPasses
  BY <1>12, TakeQueue DEF FlushIntervalPasses, CountsOK
<1>13. CASE Crash
  BY <1>13, CrashQueue
<1>14. CASE UNCHANGED vars
  BY <1>14, TakeQueue DEF vars, CountsOK, threadVars
<1> QED BY <1>1, <1>2, <1>3, <1>4, <1>5, <1>6, <1>7, <1>8, <1>9, <1>10, <1>11, <1>12, <1>13,
           <1>14 DEF Next, Producer, Put, Rotate, Close, Env

(* put, rotate and close: the four control slots are enough for every queue
   bound, so no put_nowait under the lock raises queue.Full. *)
THEOREM ControlSlotsAlwaysSuffice == Spec => []ControlSlotsSuffice
<1>1. Spec => []QueueInv
  BY QueueInit, QueueStep, PTL DEF Spec
<1>2. QueueInv => ControlSlotsSuffice
  BY DEF QueueInv
<1> QED BY <1>1, <1>2, PTL

(* _queue_overflow_notice: every run of refused records is counted on the queue
   at the place of the hole, and none is left out at close. *)
THEOREM EveryHoleReported == Spec => []HolesReported
<1>1. Spec => []QueueInv
  BY QueueInit, QueueStep, PTL DEF Spec
<1>2. QueueInv => HolesReported
  BY DEF QueueInv, HolesReported
<1> QED BY <1>1, <1>2, PTL

-----------------------------------------------------------------------------
(* The files: every step of the writer thread leaves a sound disk that still
   holds what was flushed. *)

SoundFile(f) == f \in Segments /\ f.durable <= Len(f.recs)

SoundDisk(d) ==
  /\ d \in Seq(Segments)
  /\ \A i \in 1 .. Len(d) : SoundFile(d[i])
  /\ \A i, j \in 1 .. Len(d) : d[i].hour = d[j].hour /\ d[i].counter = d[j].counter => i = j

(* g is f, perhaps with more records, and no fewer of them flushed. *)
KeepsFlushed(f, g) ==
  /\ g.hour = f.hour /\ g.counter = f.counter /\ f.durable <= g.durable
  /\ \A k \in 1 .. f.durable : g.recs[k] = f.recs[k]

Grown(d, e) == Len(d) <= Len(e) /\ \A i \in 1 .. Len(d) : KeepsFlushed(d[i], e[i])

LEMMA GrownReflexive == ASSUME NEW d, SoundDisk(d) PROVE Grown(d, d)
  BY DEF SoundDisk, Grown, KeepsFlushed, SoundFile, Segments

LEMMA GrownTransitive ==
  ASSUME NEW d, NEW e, NEW f, SoundDisk(d), SoundDisk(e), SoundDisk(f), Grown(d, e), Grown(e, f)
  PROVE  Grown(d, f)
<1>1. Len(d) <= Len(f)
  BY DEF SoundDisk, Grown
<1>2. ASSUME NEW i \in 1 .. Len(d) PROVE KeepsFlushed(d[i], f[i])
  <2>1. i \in 1 .. Len(e) /\ i \in 1 .. Len(f)
    BY <1>1 DEF SoundDisk, Grown
  <2>2. KeepsFlushed(d[i], e[i]) /\ KeepsFlushed(e[i], f[i])
    BY <2>1 DEF Grown
  <2>3. d[i].durable \in Nat /\ e[i].durable \in Nat /\ f[i].durable \in Nat
    BY <2>1 DEF SoundDisk, SoundFile, Segments
  <2> QED BY <2>2, <2>3 DEF KeepsFlushed
<1> QED BY <1>1, <1>2 DEF Grown

(* Replacing one file by one that keeps its name and what was flushed. *)
LEMMA ReplaceFile ==
  ASSUME NEW d, SoundDisk(d), NEW i \in 1 .. Len(d), NEW g, SoundFile(g), KeepsFlushed(d[i], g)
  PROVE  LET e == [d EXCEPT ![i] = g]
         IN SoundDisk(e) /\ Grown(d, e) /\ Len(e) = Len(d)
<1> DEFINE e == [d EXCEPT ![i] = g]
<1>1. e \in Seq(Segments) /\ Len(e) = Len(d)
  BY DEF SoundDisk, SoundFile
<1>2. \A j \in 1 .. Len(d) : e[j] = IF j = i THEN g ELSE d[j]
  BY DEF SoundDisk
<1>3. SoundDisk(e)
  BY <1>1, <1>2 DEF SoundDisk, KeepsFlushed
<1>4. Grown(d, e)
  <2> HIDE DEF e
  <2>1. ASSUME NEW j \in 1 .. Len(d) PROVE KeepsFlushed(d[j], e[j])
    <3>1. CASE j = i
      BY <1>2, <3>1
    <3>2. CASE j # i
      <4>1. e[j] = d[j] /\ d[j].durable \in Nat
        BY <1>2, <3>2 DEF SoundDisk, SoundFile, Segments
      <4> QED BY <4>1 DEF KeepsFlushed
    <3> QED BY <3>1, <3>2
  <2> QED BY <2>1, <1>1 DEF Grown, SoundDisk
<1> QED BY <1>1, <1>3, <1>4

LEMMA FlushFile ==
  ASSUME NEW d, SoundDisk(d), NEW i \in 1 .. Len(d)
  PROVE  LET e == [d EXCEPT ![i].durable = Len(d[i].recs)]
         IN SoundDisk(e) /\ Grown(d, e) /\ Len(e) = Len(d)
<1> DEFINE g == [d[i] EXCEPT !.durable = Len(d[i].recs)]
<1>1. d[i] \in Segments /\ d[i].durable <= Len(d[i].recs)
  BY DEF SoundDisk, SoundFile
<1>2. SoundFile(g) /\ KeepsFlushed(d[i], g)
  BY <1>1 DEF SoundFile, Segments, KeepsFlushed
<1>3. [d EXCEPT ![i].durable = Len(d[i].recs)] = [d EXCEPT ![i] = g]
  OBVIOUS
<1> QED BY <1>2, <1>3, ReplaceFile

LEMMA AppendFile ==
  ASSUME NEW d, SoundDisk(d), NEW i \in 1 .. Len(d), NEW it \in Items
  PROVE  LET e == [d EXCEPT ![i].recs = Append(@, it)]
         IN SoundDisk(e) /\ Grown(d, e) /\ Len(e) = Len(d)
<1> DEFINE g == [d[i] EXCEPT !.recs = Append(@, it)]
<1>1. d[i] \in Segments /\ d[i].durable <= Len(d[i].recs)
  BY DEF SoundDisk, SoundFile
<1>2. /\ d[i].recs \in Seq(Items) /\ Append(d[i].recs, it) \in Seq(Items)
      /\ Len(Append(d[i].recs, it)) = Len(d[i].recs) + 1
      /\ \A k \in 1 .. Len(d[i].recs) : Append(d[i].recs, it)[k] = d[i].recs[k]
  BY <1>1 DEF Segments
<1>3. SoundFile(g) /\ KeepsFlushed(d[i], g)
  <2>1. g.recs = Append(d[i].recs, it) /\ g.durable = d[i].durable
    BY <1>1 DEF Segments
  <2>2. g.hour = d[i].hour /\ g.counter = d[i].counter /\ d[i].durable \in Nat
    BY <1>1 DEF Segments
  <2>3. g \in Segments
    BY <1>1, <1>2 DEF Segments
  <2> HIDE DEF g
  <2> QED BY <1>1, <1>2, <2>1, <2>2, <2>3 DEF SoundFile, KeepsFlushed
<1>4. [d EXCEPT ![i].recs = Append(@, it)] = [d EXCEPT ![i] = g]
  OBVIOUS
<1> QED BY <1>3, <1>4, ReplaceFile

LEMMA NewFile ==
  ASSUME NEW d, SoundDisk(d), NEW h \in Hours, NEW c \in Nat, <<h, c>> \notin Taken(d)
  PROVE  LET e == Append(d, [hour |-> h, counter |-> c, recs |-> << >>, durable |-> 0])
         IN SoundDisk(e) /\ Grown(d, e) /\ Len(e) = Len(d) + 1
<1> DEFINE g == [hour |-> h, counter |-> c, recs |-> << >>, durable |-> 0]
           e == Append(d, g)
<1>1. SoundFile(g)
  BY EmptySeq DEF SoundFile, Segments
<1>2. e \in Seq(Segments) /\ Len(e) = Len(d) + 1 /\ e[Len(d) + 1] = g
  BY <1>1 DEF SoundDisk, SoundFile
<1>3. \A j \in 1 .. Len(d) : e[j] = d[j]
  BY DEF SoundDisk
<1>4. \A j \in 1 .. Len(d) : ~(d[j].hour = h /\ d[j].counter = c)
  BY DEF Taken, SoundDisk
<1>5. g.hour = h /\ g.counter = c
  OBVIOUS
<1> HIDE DEF g, e
<1>6. SoundDisk(e)
  BY <1>1, <1>2, <1>3, <1>4, <1>5, SMTT(60) DEF SoundDisk
<1>7. Grown(d, e)
  <2>1. Grown(d, d) /\ Len(d) \in Nat
    BY GrownReflexive DEF SoundDisk
  <2> QED BY <1>2, <1>3, <2>1 DEF Grown
<1> QED BY <1>2, <1>6, <1>7 DEF g, e

(* A writer state t that the thread may reach from s by handling an item. *)
SoundState(s) ==
  /\ s \in Writers
  /\ SoundDisk(s.disk)
  /\ s.file \in 0 .. Len(s.disk)

Follows(s, t) == SoundState(t) /\ Grown(s.disk, t.disk)

LEMMA FollowsReflexive == ASSUME NEW s, SoundState(s) PROVE Follows(s, s)
  BY GrownReflexive DEF SoundState, Follows

LEMMA FollowsTransitive ==
  ASSUME NEW r, NEW s, NEW t, SoundState(r), Follows(r, s), Follows(s, t) PROVE Follows(r, t)
  BY GrownTransitive DEF SoundState, Follows

(* Changes that leave the disk alone, and a fault or a loss counted. *)
LEMMA CountedFollows ==
  ASSUME NEW s, SoundState(s)
  PROVE  Follows(s, Fault(s)) /\ Follows(s, Lose(s))
<1>1. Fault(s) \in Writers /\ Fault(s).disk = s.disk /\ Fault(s).file = s.file
  BY DEF SoundState, Writers, Fault
<1>2. Lose(s) \in Writers /\ Lose(s).disk = s.disk /\ Lose(s).file = s.file
  BY DEF SoundState, Writers, Lose
<1> QED BY <1>1, <1>2, GrownReflexive DEF SoundState, Follows

LEMMA CloseWriterFollows ==
  ASSUME NEW s, SoundState(s), NEW t \in CloseWriter(s)
  PROVE  Follows(s, t)
<1> DEFINE i == s.file
           e == [s.disk EXCEPT ![i].durable = Len(s.disk[i].recs)]
<1>1. CASE s.file = NoFile
  <2>1. t \in Writers /\ t.disk = s.disk /\ t.file = s.file
    BY <1>1 DEF CloseWriter, SoundState, Writers
  <2> QED BY <2>1, GrownReflexive DEF SoundState, Follows
<1>2. CASE s.file # NoFile
  <2>1. i \in 1 .. Len(s.disk)
    BY <1>2 DEF SoundState, NoFile, SoundDisk
  <2>2. SoundDisk(e) /\ Grown(s.disk, e) /\ Len(e) = Len(s.disk)
    BY <2>1, FlushFile DEF SoundState
  <2>3. \/ t = [s EXCEPT !.file = NoFile, !.dirty = FALSE, !.flushDue = FALSE, !.disk = e]
        \/ t = [Fault(s) EXCEPT !.file = NoFile, !.dirty = FALSE, !.flushDue = FALSE]
    BY <1>2 DEF CloseWriter
  <2>4. CASE t = [s EXCEPT !.file = NoFile, !.dirty = FALSE, !.flushDue = FALSE, !.disk = e]
    <3>1. t \in Writers /\ t.disk = e /\ t.file = 0
      BY <2>4, <2>2 DEF SoundState, Writers, NoFile, SoundDisk
    <3> QED BY <2>2, <3>1 DEF Follows, SoundState, SoundDisk
  <2>5. CASE t = [Fault(s) EXCEPT !.file = NoFile, !.dirty = FALSE, !.flushDue = FALSE]
    <3> DEFINE r == Fault(s)
    <3>1. r \in Writers /\ r.disk = s.disk
      BY DEF SoundState, Writers, Fault
    <3> HIDE DEF r
    <3>2. t \in Writers /\ t.disk = r.disk /\ t.file = 0
      BY <2>5, <3>1 DEF Writers, NoFile, r
    <3> QED BY <3>1, <3>2, GrownReflexive, SMTT(60) DEF Follows, SoundState, SoundDisk
  <2> QED BY <2>3, <2>4, <2>5
<1> QED BY <1>1, <1>2

LEMMA OpenFollows ==
  ASSUME NEW s, SoundState(s), hour \in Hours, s.file = NoFile, NEW t \in Open(s)
  PROVE  Follows(s, t)
<1>0. NextCounter(s) \in Nat /\ MaxSegments \in Nat /\ s \in Writers
  BY SinkAssumption DEF NextCounter, SoundState, Writers, SinkAssumption
<1>1. ASSUME NEW c \in FirstFree(s)
      PROVE  Follows(s, Claimed(s, c)) /\ Len(Claimed(s, c).disk) = Len(s.disk) + 1
  <2> DEFINE e == Append(s.disk, [hour |-> hour, counter |-> c, recs |-> << >>, durable |-> 0])
  <2>1. c \in Nat /\ <<hour, c>> \notin Taken(s.disk)
    BY <1>0 DEF FirstFree, FreeCounters
  <2>2. SoundDisk(e) /\ Grown(s.disk, e) /\ Len(e) = Len(s.disk) + 1
    BY <2>1, NewFile DEF SoundState
  <2>3. Claimed(s, c) \in Writers /\ Claimed(s, c).disk = e /\ Claimed(s, c).file = s.file
    <3>1. PICK n \in Nat : n = c + 1
      BY <2>1
    <3>2. hour \in Hours \cup {-1} /\ e \in Seq(Segments)
      BY <2>2 DEF SoundDisk
    <3>3. Claimed(s, c) = [s EXCEPT !.counterHour = hour, !.next = n, !.disk = e]
      BY <3>1 DEF Claimed
    <3> HIDE DEF e
    <3> QED BY <1>0, <3>2, <3>3 DEF Writers
  <2> QED BY <2>2, <2>3 DEF Follows, SoundState, NoFile, SoundDisk
<1>2. CASE t = [s EXCEPT !.counterHour = hour, !.next = MaxSegments]
  <2>1. t \in Writers /\ t.disk = s.disk /\ t.file = s.file
    BY <1>0, <1>2 DEF Writers
  <2> QED BY <2>1, GrownReflexive DEF Follows, SoundState
<1>3. ASSUME NEW c \in FirstFree(s), t = [Claimed(s, c) EXCEPT !.file = Len(s.disk) + 1]
      PROVE  Follows(s, t)
  <2> DEFINE r == Claimed(s, c)
  <2>1. Follows(s, r) /\ Len(r.disk) = Len(s.disk) + 1
    BY <1>1, <1>3
  <2> HIDE DEF r
  <2>2. PICK n \in Nat : n = Len(s.disk) + 1
    BY DEF SoundState, SoundDisk
  <2>4. t = [r EXCEPT !.file = n] /\ r \in Writers
    BY <1>3, <2>1, <2>2 DEF r, Follows, SoundState
  <2>5. t \in Writers /\ t.disk = r.disk /\ t.file = n
    BY <2>4 DEF Writers
  <2>3. t \in Writers /\ t.disk = r.disk /\ t.file = Len(s.disk) + 1
    BY <2>2, <2>5
  <2> QED BY <2>1, <2>3 DEF Follows, SoundState, SoundDisk
<1>4. CASE t = [Fault(s) EXCEPT !.counterHour = hour, !.next = NextCounter(s)]
  <2> DEFINE r == Fault(s)
  <2>1. r \in Writers /\ r.disk = s.disk /\ r.file = s.file
    BY <1>0 DEF Writers, Fault
  <2> HIDE DEF r
  <2>2. hour \in Hours \cup {-1}
    OBVIOUS
  <2>3. t \in Writers /\ t.disk = r.disk /\ t.file = r.file
    BY <1>0, <1>4, <2>1, <2>2 DEF Writers, r
  <2> QED BY <2>1, <2>3, GrownReflexive DEF Follows, SoundState
<1>5. ASSUME NEW c \in FirstFree(s), t = Fault(Claimed(s, c))
      PROVE  Follows(s, t)
  BY <1>1, <1>5, CountedFollows, FollowsTransitive DEF Follows
<1> QED BY <1>2, <1>3, <1>4, <1>5 DEF Open

LEMMA WriterForFollows ==
  ASSUME NEW s, SoundState(s), hour \in Hours, NEW t \in WriterFor(s)
  PROVE  Follows(s, t)
<1> DEFINE kept == IF s.file # NoFile /\ s.disk[s.file].hour # hour THEN CloseWriter(s) ELSE {s}
<1>1. PICK r \in kept : t \in IF r.file = NoFile THEN Open(r) ELSE {r}
  BY DEF WriterFor
<1>2. Follows(s, r)
  BY CloseWriterFollows, FollowsReflexive
<1>3. Follows(r, t)
  BY <1>1, <1>2, OpenFollows, FollowsReflexive DEF Follows
<1> QED BY <1>2, <1>3, FollowsTransitive

LEMMA AppendedFollows ==
  ASSUME NEW s, SoundState(s), s.file # NoFile, NEW it \in Items
  PROVE  Follows(s, Appended(s, it))
<1> DEFINE e == [s.disk EXCEPT ![s.file].recs = Append(@, it)]
<1>1. s.file \in 1 .. Len(s.disk)
  BY DEF SoundState, NoFile, SoundDisk
<1>2. SoundDisk(e) /\ Grown(s.disk, e) /\ Len(e) = Len(s.disk)
  BY <1>1, AppendFile DEF SoundState
<1>3. Appended(s, it) \in Writers /\ Appended(s, it).disk = e /\ Appended(s, it).file = s.file
  BY <1>2 DEF Appended, SoundState, Writers, SoundDisk
<1> QED BY <1>2, <1>3 DEF Follows, SoundState

LEMMA WriteFollows ==
  ASSUME NEW s, SoundState(s), hour \in Hours, NEW it \in Items, NEW t \in Write(s, it)
  PROVE  Follows(s, t)
<1>1. PICK r \in WriterFor(s) : t \in WriteOne(r, it)
  BY DEF Write
<1>2. Follows(s, r) /\ SoundState(r)
  BY WriterForFollows DEF Follows
<1>3. ASSUME NEW u, Follows(r, u), t \in CloseWriter(u) PROVE Follows(r, t)
  BY <1>2, <1>3, CloseWriterFollows, FollowsTransitive DEF Follows
<1>4. ASSUME r.file = NoFile PROVE Follows(r, t)
  BY <1>1, <1>2, <1>3, <1>4, CountedFollows DEF WriteOne
<1>5. ASSUME r.file # NoFile PROVE Follows(r, t)
  <2> DEFINE a == Appended(r, it)
  <2>1. Follows(r, a) /\ SoundState(a)
    BY <1>2, <1>5, AppendedFollows DEF Follows
  <2>2. Follows(r, Lose(Fault(r))) /\ Follows(r, Lose(Fault(a)))
    BY <1>2, <2>1, CountedFollows, FollowsTransitive DEF Follows
  <2>3. CASE t = [a EXCEPT !.written = @ + 1, !.dirty = TRUE]
    <3> HIDE DEF a
    <3>1. PICK n \in Nat : n = a.written + 1
      BY <2>1 DEF SoundState, Writers
    <3>2. a \in Writers /\ t = [a EXCEPT !.written = n, !.dirty = TRUE]
      BY <2>1, <2>3, <3>1 DEF SoundState
    <3>3. t \in Writers /\ t.disk = a.disk /\ t.file = a.file
      BY <3>2 DEF Writers
    <3> QED BY <2>1, <3>3 DEF Follows, SoundState
  <2>4. \/ t = [a EXCEPT !.written = @ + 1, !.dirty = TRUE]
        \/ t \in CloseWriter(Lose(Fault(r))) \/ t \in CloseWriter(Lose(Fault(a)))
        \/ t = Lose(Fault(r))
    BY <1>1, <1>5 DEF WriteOne
  <2> QED BY <1>3, <2>2, <2>3, <2>4
<1> QED BY <1>2, <1>4, <1>5, FollowsTransitive

LEMMA FlushFollows ==
  ASSUME NEW s, SoundState(s), NEW t \in Flush(s)
  PROVE  Follows(s, t)
<1> DEFINE e == [s.disk EXCEPT ![s.file].durable = Len(s.disk[s.file].recs)]
           r == [s EXCEPT !.flushDue = FALSE]
<1>0. CASE s.file = NoFile
  <2>1. t \in Writers /\ t.disk = s.disk /\ t.file = s.file
    BY <1>0 DEF Flush, SoundState, Writers
  <2> QED BY <2>1, GrownReflexive DEF SoundState, Follows
<1>1. s.file # NoFile => s.file \in 1 .. Len(s.disk)
  BY DEF SoundState, NoFile, SoundDisk
<1>2. CASE s.file # NoFile /\ t = [s EXCEPT !.dirty = FALSE, !.flushDue = FALSE, !.disk = e]
  <2>1. SoundDisk(e) /\ Grown(s.disk, e) /\ Len(e) = Len(s.disk)
    BY <1>1, <1>2, FlushFile DEF SoundState
  <2>2. t \in Writers /\ t.disk = e /\ t.file = s.file
    BY <1>2, <2>1 DEF SoundState, Writers, SoundDisk
  <2> QED BY <2>1, <2>2 DEF Follows, SoundState
<1>3. CASE s.file # NoFile /\ t \in CloseWriter(Fault(r))
  <2>1. r \in Writers /\ r.disk = s.disk /\ r.file = s.file
    BY DEF SoundState, Writers
  <2>2. Follows(s, r)
    BY <2>1, GrownReflexive DEF Follows, SoundState
  <2> HIDE DEF r
  <2> QED BY <1>3, <2>2, CountedFollows, CloseWriterFollows, FollowsTransitive DEF Follows
<1> QED BY <1>0, <1>2, <1>3 DEF Flush

LEMMA TickFollows ==
  ASSUME NEW s, SoundState(s), NEW t \in Tick(s)
  PROVE  Follows(s, t)
<1> DEFINE kept == IF s.file # NoFile /\ s.disk[s.file].hour # hour THEN CloseWriter(s) ELSE {s}
<1>1. PICK r \in kept : t \in IF r.dirty /\ r.flushDue THEN Flush(r) ELSE {r}
  BY DEF Tick
<1>2. Follows(s, r) /\ SoundState(r)
  BY CloseWriterFollows, FollowsReflexive DEF Follows
<1>3. Follows(r, t)
  BY <1>1, <1>2, FlushFollows, FollowsReflexive
<1> QED BY <1>2, <1>3, FollowsTransitive

(* What one step does to the writer state and the files. *)
WriterInv == CountsOK /\ SoundState(w)

LEMMA WriterStep ==
  ASSUME WriterInv, QueueInv, [Next]_vars
  PROVE  SoundState(w') /\ Len(w.disk) <= Len(w'.disk) /\ FlushedStays
<1> USE DEF WriterInv
<1>1. ASSUME Follows(w, w')
      PROVE  SoundState(w') /\ Len(w.disk) <= Len(w'.disk) /\ FlushedStays
  <2>1. SoundState(w') /\ Len(w.disk) <= Len(w'.disk)
    BY <1>1 DEF Follows, Grown
  <2>2. DOMAIN w.disk = 1 .. Len(w.disk) /\ DOMAIN w'.disk = 1 .. Len(w'.disk)
    BY <2>1 DEF SoundState, SoundDisk
  <2>3. ASSUME NEW i \in 1 .. Len(w.disk)
        PROVE  /\ i \in 1 .. Len(w'.disk) /\ KeepsFlushed(w.disk[i], w'.disk[i])
               /\ w.disk[i].durable <= Len(w'.disk[i].recs)
    <3>1. i \in 1 .. Len(w'.disk) /\ KeepsFlushed(w.disk[i], w'.disk[i])
      BY <1>1, <2>1 DEF Follows, Grown, SoundState, SoundDisk
    <3>2. w'.disk[i].durable <= Len(w'.disk[i].recs) /\ w'.disk[i] \in Segments
      BY <2>1, <3>1 DEF SoundState, SoundDisk, SoundFile
    <3>3. w.disk[i].durable \in Nat
      BY DEF SoundState, SoundDisk, SoundFile, Segments
    <3> QED BY <3>1, <3>2, <3>3 DEF KeepsFlushed, Segments
  <2>4. \A i, j \in 1 .. Len(w'.disk) :
          i # j => <<w'.disk[j].hour, w'.disk[j].counter>> # <<w'.disk[i].hour, w'.disk[i].counter>>
    BY <2>1 DEF SoundState, SoundDisk
  <2>5. FlushedStays
    BY <2>2, <2>3, <2>4 DEF FlushedStays, KeepsFlushed
  <2> QED BY <2>1, <2>5
<1>2. UNCHANGED w => Follows(w, w')
  BY FollowsReflexive
<1>3. CASE Producer \/ WallClock \/ ReadStopping \/ UNCHANGED vars
  BY <1>1, <1>2, <1>3 DEF Producer, Start, Put, PutRefusedDead, PutRefusedFull, PutAccepted,
     Rotate, RotateWhenFull, RotateQueued, Close, CloseLocked, CloseSetStopping, CloseWake,
     WallClock, ReadStopping, vars, threadVars
<1>4. hour \in Hours
  BY DEF CountsOK
<1>5. QueueLen > 0 => stream[taken + 1] \in Items
  BY DEF QueueLen, CountsOK
<1>6. ASSUME NEW it \in Items, NEW s \in Handled(w, it) PROVE Follows(w, s)
  BY <1>4, <1>6, WriteFollows, CloseWriterFollows, FollowsReflexive DEF Handled
<1>7. CASE GetItem
  <2>1. PICK s \in Handled(w, stream[taken + 1]) : w' \in Tick(s)
    BY <1>7 DEF GetItem
  <2>2. Follows(w, s)
    BY <1>5, <1>6, <1>7, <2>1 DEF GetItem
  <2> QED BY <1>1, <2>1, <2>2, TickFollows, FollowsTransitive DEF Follows
<1>8. CASE GetItemFails
  <2>1. PICK s \in {w} \cup Handled(w, stream[taken + 1]) : w' \in CloseWriter(Fault(s))
    BY <1>8 DEF GetItemFails
  <2>2. Follows(w, s)
    BY <1>5, <1>6, <1>8, <2>1, FollowsReflexive DEF GetItemFails
  <2>3. Follows(w, Fault(s))
    BY <2>2, CountedFollows, FollowsTransitive DEF Follows
  <2> QED BY <1>1, <2>1, <2>3, CloseWriterFollows, FollowsTransitive DEF Follows
<1>9. CASE GetTimesOut
  BY <1>1, <1>9, TickFollows DEF GetTimesOut
<1>10. CASE Drained
  BY <1>1, <1>10, CloseWriterFollows DEF Drained
<1>11. CASE FlushIntervalPasses
  <2>1. w' \in Writers /\ w'.disk = w.disk /\ w'.file = w.file
    BY <1>11 DEF FlushIntervalPasses, SoundState, Writers
  <2> QED BY <1>1, <2>1, GrownReflexive DEF SoundState, Follows
<1>12. CASE Crash
  <2>1. PICK disk \in [DOMAIN w.disk -> UNION {Survivors(w.disk[i]) : i \in DOMAIN w.disk}] :
          /\ \A i \in DOMAIN w.disk : disk[i] \in Survivors(w.disk[i])
          /\ w' = FreshWriter(disk, w.faults)
    BY <1>12 DEF Crash
  <2>2. DOMAIN disk = 1 .. Len(w.disk) /\ DOMAIN w.disk = 1 .. Len(w.disk) /\ Len(w.disk) \in Nat
    BY <2>1 DEF SoundState, SoundDisk
  <2>3. ASSUME NEW i \in 1 .. Len(w.disk)
        PROVE  SoundFile(disk[i]) /\ KeepsFlushed(w.disk[i], disk[i])
    <3> DEFINE f == w.disk[i]
    <3>1. f \in Segments /\ f.durable <= Len(f.recs)
      BY DEF SoundState, SoundDisk, SoundFile
    <3>2. PICK n \in f.durable .. Len(f.recs) :
            disk[i] = [f EXCEPT !.recs = SubSeq(@, 1, n), !.durable = n]
      BY <2>1, <2>2 DEF Survivors
    <3>3. /\ f.recs \in Seq(Items) /\ n \in Nat /\ n <= Len(f.recs) /\ f.durable <= n
          /\ f.durable \in Nat
      BY <3>1, <3>2 DEF Segments
    <3>4. /\ SubSeq(f.recs, 1, n) \in Seq(Items) /\ Len(SubSeq(f.recs, 1, n)) = n
          /\ \A k \in 1 .. n : SubSeq(f.recs, 1, n)[k] = f.recs[k]
      BY <3>3, SubSeqProperties
    <3>5. /\ disk[i] \in Segments /\ disk[i].recs = SubSeq(f.recs, 1, n) /\ disk[i].durable = n
          /\ disk[i].hour = f.hour /\ disk[i].counter = f.counter
      BY <3>1, <3>2, <3>3, <3>4 DEF Segments
    <3>6. SoundFile(disk[i])
      BY <3>3, <3>4, <3>5 DEF SoundFile
    <3>7. \A k \in 1 .. f.durable : k \in 1 .. n
      BY <3>3
    <3>8. KeepsFlushed(f, disk[i])
      BY <3>3, <3>4, <3>5, <3>7 DEF KeepsFlushed
    <3> QED BY <3>6, <3>8
  <2>4. disk \in Seq(Segments) /\ Len(disk) = Len(w.disk)
    <3>1. disk \in [1 .. Len(w.disk) -> Segments]
      BY <2>1, <2>2, <2>3 DEF SoundFile
    <3> QED BY <2>2, <3>1
  <2>5. SoundDisk(disk)
    BY <2>3, <2>4 DEF SoundDisk, KeepsFlushed, SoundState
  <2>6. Grown(w.disk, disk)
    BY <2>2, <2>3, <2>4 DEF Grown
  <2>7. w' \in Writers /\ w'.disk = disk /\ w'.file = 0
    <3>1. w.faults \in Nat
      BY DEF SoundState, Writers
    <3> QED BY <2>1, <2>4, <3>1 DEF FreshWriter, Writers, NoFile
  <2>8. Follows(w, w')
    BY <2>4, <2>5, <2>6, <2>7, <2>2 DEF Follows, SoundState
  <2> QED BY <1>1, <2>8
<1> QED BY <1>3, <1>7, <1>8, <1>9, <1>10, <1>11, <1>12 DEF Next, Run, Env

LEMMA FlagsStep == ASSUME FlagsOK, [Next]_vars PROVE FlagsOK'
<1>1. CASE Producer
  BY <1>1, ZenonT(60) DEF FlagsOK, Producer, Start, Put, PutRefusedDead, PutRefusedFull, PutAccepted,
     Rotate, RotateWhenFull, RotateQueued, Close, CloseLocked, CloseSetStopping, CloseWake,
     threadVars, producerVars
<1>2. CASE Run
  BY <1>2, Zenon DEF FlagsOK, Run, ReadStopping, GetItem, GetItemFails, GetTimesOut, Drained,
     producerVars
<1>3. CASE Env
  BY <1>3, Zenon DEF FlagsOK, Env, WallClock, FlushIntervalPasses, Crash, threadVars, producerVars
<1>4. CASE UNCHANGED vars
  BY <1>4, Zenon DEF FlagsOK, vars, threadVars, producerVars
<1> QED BY <1>1, <1>2, <1>3, <1>4 DEF Next

(* The inductive invariant of the whole sink. *)
SinkInv == QueueInv /\ FlagsOK /\ SoundState(w)

LEMMA SinkInitially == ASSUME Init PROVE SinkInv
<1>1. FlagsOK
  BY Zenon DEF Init, FlagsOK
<1>2. w \in Writers /\ w.disk = << >> /\ w.file = 0
  <2>1. << >> \in Seq(Segments)
    BY EmptySeq
  <2> QED BY <2>1 DEF Init, FreshWriter, Writers, NoFile
<1>3. SoundDisk(w.disk)
  BY <1>2, EmptySeq DEF SoundDisk
<1> QED BY <1>1, <1>2, <1>3, QueueInit, EmptySeq DEF SinkInv, SoundState

LEMMA SinkStep == ASSUME SinkInv, [Next]_vars PROVE SinkInv' /\ FlushedStays
<1>1. WriterInv
  BY DEF SinkInv, WriterInv, QueueInv
<1> QED BY <1>1, QueueStep, FlagsStep, WriterStep DEF SinkInv

(* TypeOK: the open file is always a file of the disk and no file claims more
   flushed records than it holds. *)
THEOREM TypeCorrect == Spec => []TypeOK
<1>1. Spec => []SinkInv
  BY SinkInitially, SinkStep, PTL DEF Spec
<1>2. SinkInv => TypeOK
  BY DEF SinkInv, QueueInv, TypeOK, SoundState, SoundDisk, SoundFile, SoundWriter
<1> QED BY <1>1, <1>2, PTL

(* _open, _write, _flush, _close_writer and a crash: a flushed record is never
   lost, moved or overwritten and no two files share a name. *)
THEOREM FlushedAlwaysStays == Spec => FlushedStaysForever
<1>1. ASSUME SinkInv, [Next]_vars PROVE [FlushedStays]_vars
  BY <1>1, SinkStep
<1>2. Spec => []SinkInv
  BY SinkInitially, SinkStep, PTL DEF Spec
<1> QED BY <1>1, <1>2, PTL DEF Spec, FlushedStaysForever
-----------------------------------------------------------------------------
(* The tape: what is on disk, against what was put and rotated. *)

(* The ids of the queue grow along it, strictly at a record. *)
Ascending(q, b, top) ==
  \A j \in 1 .. Len(q) :
    /\ b <= q[j].id /\ q[j].id <= top
    /\ q[j].kind = "record" => b < q[j].id
    /\ \A i \in 1 .. j - 1 : q[i].id <= q[j].id /\ (q[j].kind = "record" => q[i].id < q[j].id)

UpTo(q, m, n) == \A k \in 1 .. m : q[k].kind = "record" => q[k].id <= n

(* Every record put before a rotate call has a marker behind it on the queue,
   before any record put after the call, or the rotation still waits for room. *)
Fenced(q, p, n) == \E j \in p + 1 .. Len(q) : q[j].kind = "rotate" /\ UpTo(q, j, n)

Waiting(q, pending, n) == pending /\ UpTo(q, Len(q), n)

InPlace(q, pending, N) ==
  \A n \in N, p \in 1 .. Len(q) :
    q[p].kind = "record" /\ q[p].id <= n => Fenced(q, p, n) \/ Waiting(q, pending, n)

MarkersInPlace ==
  /\ \A n \in rotations : n <= puts
  /\ InPlace(stream, rotatePending, rotations)
  /\ lastQueuedRotate /\ ~Closed => Len(stream) > 0 /\ stream[Len(stream)].kind = "rotate"

(* The last id the thread took, and the records it took since the last marker:
   the only ones the open file may hold. *)
LastTaken == IF taken = 0 THEN base ELSE stream[taken].id

Held ==
  {stream[p].id : p \in {q \in 1 .. taken : /\ stream[q].kind = "record"
                                            /\ \A j \in q + 1 .. taken : stream[j].kind # "rotate"}}

IdsUpTo(d, b) ==
  \A i \in 1 .. Len(d) : \A k \in 1 .. Len(d[i].recs) :
    d[i].recs[k].kind = "record" => d[i].recs[k].id <= b

OrderedWithin(d) ==
  \A i \in 1 .. Len(d) : \A k, l \in 1 .. Len(d[i].recs) :
    k < l /\ d[i].recs[k].kind = "record" /\ d[i].recs[l].kind = "record" =>
      d[i].recs[k].id < d[i].recs[l].id

OrderedAcross(d) ==
  \A i, j \in 1 .. Len(d) : i < j =>
    \A k \in 1 .. Len(d[i].recs), l \in 1 .. Len(d[j].recs) :
      d[i].recs[k].kind = "record" /\ d[j].recs[l].kind = "record" =>
        d[i].recs[k].id < d[j].recs[l].id

Separated(d, N) ==
  \A i \in 1 .. Len(d), n \in N : \A k, l \in 1 .. Len(d[i].recs) :
    d[i].recs[k].kind = "record" /\ d[i].recs[l].kind = "record" /\ d[i].recs[k].id <= n =>
      d[i].recs[l].id <= n

HoldsOnly(s, A) ==
  s.file # NoFile =>
    \A k \in 1 .. Len(s.disk[s.file].recs) :
      s.disk[s.file].recs[k].kind = "record" => s.disk[s.file].recs[k].id \in A

Tidy(s, b, A, N) ==
  /\ s.file \in {NoFile, Len(s.disk)}
  /\ IdsUpTo(s.disk, b) /\ OrderedWithin(s.disk) /\ OrderedAcross(s.disk)
  /\ Separated(s.disk, N) /\ HoldsOnly(s, A)

(* A clean open file is flushed to its end, and so is every closed one as long
   as nothing failed. *)
Clean(s) ==
  s.file # NoFile /\ ~s.dirty => s.disk[s.file].durable = Len(s.disk[s.file].recs)

Saved(s) ==
  s.faults = 0 =>
    \A i \in 1 .. Len(s.disk) : i # s.file => s.disk[i].durable = Len(s.disk[i].recs)

(* What ends the thread. *)
EndInv ==
  /\ sawStop => stopping
  /\ stopping => closer \in {"stopping", "joining"}
  /\ failed => w.faults > 0
  /\ thread = "done" => w.file = NoFile
  /\ thread = "done" /\ ~failed => sawStop /\ \A i \in taken + 1 .. Len(stream) : stream[i].kind = "wake"

Handed == {i \in 1 .. taken : IsRecord(stream[i])}

Counted == ~failed => w.written + w.lost = Cardinality(Handed)

TapeInv ==
  /\ Ascending(stream, base, puts) /\ MarkersInPlace
  /\ Tidy(w, LastTaken, Held, rotations)
  /\ Clean(w) /\ Saved(w) /\ EndInv /\ Counted

Total(s) == s.written + s.lost

(* What an operation of the thread does to the records on disk: none is added,
   n more are counted, at most new files are claimed and only the newest of
   them may be open. *)
Kept(s, t, n) ==
  /\ Len(s.disk) <= Len(t.disk)
  /\ \A i \in 1 .. Len(s.disk) : t.disk[i].recs = s.disk[i].recs
  /\ \A i \in Len(s.disk) + 1 .. Len(t.disk) : Len(t.disk[i].recs) = 0
  /\ \/ t.file = NoFile
     \/ t.file = s.file /\ Len(t.disk) = Len(s.disk)
     \/ t.file = Len(t.disk) /\ Len(s.disk) < Len(t.disk)
  /\ Total(t) = Total(s) + n
  /\ s.faults <= t.faults
  /\ Clean(s) => Clean(t)
  /\ Saved(s) => Saved(t)

LEMMA SoundCounts ==
  ASSUME NEW s, SoundState(s)
  PROVE  /\ Len(s.disk) \in Nat /\ s.file \in Nat /\ s.file <= Len(s.disk)
         /\ s.faults \in Nat /\ Total(s) \in Nat
<1>1. s \in Writers /\ s.disk \in Seq(Segments) /\ s.file \in 0 .. Len(s.disk)
  BY DEF SoundState, SoundDisk
<1>2. s.written \in Nat /\ s.lost \in Nat /\ s.faults \in Nat
  BY <1>1 DEF Writers
<1> QED BY <1>1, <1>2 DEF Total

LEMMA KeptTransitive ==
  ASSUME NEW r, SoundState(r), NEW s, SoundState(s), NEW t, SoundState(t),
         NEW m \in Nat, NEW n \in Nat, Kept(r, s, m), Kept(s, t, n)
  PROVE  Kept(r, t, m + n)
<1>1. /\ Len(r.disk) \in Nat /\ Len(s.disk) \in Nat /\ Len(t.disk) \in Nat
      /\ r.faults \in Nat /\ s.faults \in Nat /\ t.faults \in Nat
      /\ Total(r) \in Nat /\ Total(s) \in Nat /\ Total(t) \in Nat
  BY SoundCounts
<1>2. Len(r.disk) <= Len(t.disk) /\ r.faults <= t.faults
  <2>1. /\ Len(r.disk) <= Len(s.disk) /\ Len(s.disk) <= Len(t.disk)
        /\ r.faults <= s.faults /\ s.faults <= t.faults
    BY DEF Kept
  <2> QED BY <1>1, <2>1, SMTT(60)
<1>0. Total(t) = Total(r) + (m + n)
  <2>1. Total(s) = Total(r) + m /\ Total(t) = Total(s) + n
    BY DEF Kept
  <2> QED BY <1>1, <2>1
<1>3. \A i \in 1 .. Len(r.disk) : t.disk[i].recs = r.disk[i].recs
  BY <1>1 DEF Kept
<1>4. \A i \in Len(r.disk) + 1 .. Len(t.disk) : Len(t.disk[i].recs) = 0
  <2>1. ASSUME NEW i \in Len(r.disk) + 1 .. Len(t.disk) PROVE Len(t.disk[i].recs) = 0
    <3>1. CASE i \in Len(r.disk) + 1 .. Len(s.disk)
      <4>1. Len(s.disk[i].recs) = 0 /\ i \in 1 .. Len(s.disk)
        BY <1>1, <3>1 DEF Kept
      <4> QED BY <4>1 DEF Kept
    <3>2. CASE i \in Len(s.disk) + 1 .. Len(t.disk)
      BY <3>2 DEF Kept
    <3> QED BY <1>1, <3>1, <3>2
  <2> QED BY <2>1
<1>5. \/ t.file = NoFile
      \/ t.file = r.file /\ Len(t.disk) = Len(r.disk)
      \/ t.file = Len(t.disk) /\ Len(r.disk) < Len(t.disk)
  <2>1. \/ s.file = NoFile
        \/ s.file = r.file /\ Len(s.disk) = Len(r.disk)
        \/ s.file = Len(s.disk) /\ Len(r.disk) < Len(s.disk)
    BY DEF Kept
  <2>2. \/ t.file = NoFile
        \/ t.file = s.file /\ Len(t.disk) = Len(s.disk)
        \/ t.file = Len(t.disk) /\ Len(s.disk) < Len(t.disk)
    BY DEF Kept
  <2>3. Len(r.disk) <= Len(s.disk) /\ Len(s.disk) <= Len(t.disk)
    BY DEF Kept
  <2> QED BY <1>1, <2>1, <2>2, <2>3
<1>6. (Clean(r) => Clean(t)) /\ (Saved(r) => Saved(t))
  BY DEF Kept
<1> QED BY <1>0, <1>2, <1>3, <1>4, <1>5, <1>6 DEF Kept

(* Operations that touch no file. *)
LEMMA KeptSameDisk ==
  ASSUME NEW s, SoundState(s), NEW t, SoundState(t), NEW n \in Nat, t.disk = s.disk,
         t.file = NoFile \/ t.file = s.file, Total(t) = Total(s) + n,
         s.faults <= t.faults,
         t.file # NoFile => t.dirty = s.dirty \/ t.dirty,
         t.file # s.file => t.faults > 0
  PROVE  Kept(s, t, n)
<1>1. Len(s.disk) \in Nat /\ s.faults \in Nat /\ t.faults \in Nat
  BY DEF SoundState, SoundDisk, Writers
<1>2. Clean(s) => Clean(t)
  BY DEF Clean
<1>3. Saved(s) => Saved(t)
  BY <1>1 DEF Saved
<1> QED BY <1>1, <1>2, <1>3 DEF Kept

(* Flushing the open file, and perhaps closing it. *)
LEMMA KeptFlushed ==
  ASSUME NEW s, SoundState(s), NEW t, SoundState(t), s.file # NoFile,
         t.disk = [s.disk EXCEPT ![s.file].durable = Len(s.disk[s.file].recs)],
         t.file = NoFile \/ t.file = s.file, Total(t) = Total(s),
         t.faults = s.faults
  PROVE  Kept(s, t, 0)
<1>1. /\ s.file \in 1 .. Len(s.disk) /\ Len(s.disk) \in Nat /\ Len(t.disk) = Len(s.disk)
      /\ s.faults \in Nat /\ Total(s) \in Nat
  BY DEF SoundState, SoundDisk, Writers, NoFile, Total
<1>2. \A i \in 1 .. Len(s.disk) : s.disk[i] \in Segments
  BY DEF SoundState, SoundDisk, SoundFile
<1>3. /\ \A i \in 1 .. Len(s.disk) : i # s.file => t.disk[i] = s.disk[i]
      /\ t.disk[s.file] = [s.disk[s.file] EXCEPT !.durable = Len(s.disk[s.file].recs)]
  BY <1>1 DEF SoundState, SoundDisk
<1>4. /\ t.disk[s.file].recs = s.disk[s.file].recs
      /\ t.disk[s.file].durable = Len(t.disk[s.file].recs)
  BY <1>1, <1>2, <1>3 DEF Segments
<1>5. \A i \in 1 .. Len(s.disk) : t.disk[i].recs = s.disk[i].recs
  BY <1>3, <1>4
<1>6. Clean(t)
  BY <1>4 DEF Clean
<1>7. Saved(s) => Saved(t)
  BY <1>1, <1>3, <1>4 DEF Saved
<1> QED BY <1>1, <1>5, <1>6, <1>7 DEF Kept

LEMMA FaultKept ==
  ASSUME NEW s, SoundState(s)
  PROVE  /\ SoundState(Fault(s)) /\ SoundState(Lose(s))
         /\ Kept(s, Fault(s), 0) /\ Kept(s, Lose(s), 1) /\ Fault(s).faults > 0
         /\ Fault(s).file = s.file /\ Fault(s).disk = s.disk
         /\ Total(Fault(s)) = Total(s) /\ Fault(s).faults = s.faults + 1
         /\ Lose(s).file = s.file /\ Lose(s).disk = s.disk
         /\ Total(Lose(s)) = Total(s) + 1 /\ Lose(s).faults = s.faults
<1>1. SoundState(Fault(s)) /\ SoundState(Lose(s))
  BY CountedFollows DEF Follows
<1>2. s \in Writers /\ s.written \in Nat /\ s.lost \in Nat /\ s.faults \in Nat
  BY DEF SoundState, Writers, Total
<1>3. /\ Fault(s).disk = s.disk /\ Fault(s).file = s.file /\ Fault(s).dirty = s.dirty
      /\ Total(Fault(s)) = Total(s)
      /\ Fault(s).faults = s.faults + 1
  BY <1>2 DEF Fault, Writers, Total
<1>4. /\ Lose(s).disk = s.disk /\ Lose(s).file = s.file /\ Lose(s).dirty = s.dirty
      /\ Total(Lose(s)) = Total(s) + 1
      /\ Lose(s).faults = s.faults
  BY <1>2 DEF Lose, Writers, Total
<1>5. Kept(s, Fault(s), 0)
  <2>1. Total(Fault(s)) = Total(s) + 0 /\ s.faults <= Fault(s).faults /\ Fault(s).faults > 0
    BY <1>2, <1>3, SoundCounts
  <2> QED BY <1>1, <1>3, <2>1, KeptSameDisk
<1>6. Kept(s, Lose(s), 1)
  BY <1>1, <1>2, <1>4, KeptSameDisk
<1> QED BY <1>1, <1>2, <1>3, <1>4, <1>5, <1>6

LEMMA CloseWriterKept ==
  ASSUME NEW s, SoundState(s), NEW t \in CloseWriter(s)
  PROVE  SoundState(t) /\ Kept(s, t, 0) /\ t.file = NoFile
<1>0. SoundState(t)
  BY CloseWriterFollows DEF Follows
<1>1. s \in Writers /\ Total(s) \in Nat /\ s.faults \in Nat
  BY DEF SoundState, Writers, Total
<1>2. CASE s.file = NoFile
  <2>1. /\ t.disk = s.disk /\ t.file = s.file /\ Total(t) = Total(s)
        /\ t.faults = s.faults
    BY <1>1, <1>2 DEF CloseWriter, Writers, Total
  <2> QED BY <1>0, <1>1, <1>2, <2>1, KeptSameDisk
<1>3. CASE s.file # NoFile
  <2> DEFINE e == [s.disk EXCEPT ![s.file].durable = Len(s.disk[s.file].recs)]
  <2>1. CASE t = [s EXCEPT !.file = NoFile, !.dirty = FALSE, !.flushDue = FALSE, !.disk = e]
    <3> HIDE DEF e
    <3>1. /\ t.disk = e /\ t.file = NoFile /\ Total(t) = Total(s)
          /\ t.faults = s.faults
      BY <1>1, <2>1 DEF Writers, Total
    <3> QED BY <1>0, <1>3, <3>1, KeptFlushed DEF e
  <2>2. CASE t = [Fault(s) EXCEPT !.file = NoFile, !.dirty = FALSE, !.flushDue = FALSE]
    <3> DEFINE r == Fault(s)
    <3>1. SoundState(r) /\ Kept(s, r, 0) /\ r.faults > 0
      BY FaultKept
    <3> HIDE DEF r
    <3>2. r \in Writers
      BY <3>1 DEF SoundState
    <3>3. /\ t.disk = r.disk /\ t.file = NoFile /\ Total(t) = Total(r)
          /\ t.faults = r.faults
      BY <2>2, <3>2 DEF Writers, Total, r
    <3>4. Kept(r, t, 0)
      <4>1. Total(r) \in Nat /\ r.faults \in Nat
        BY <3>2 DEF Writers, Total
      <4> QED BY <1>0, <3>1, <3>3, <4>1, KeptSameDisk
    <3>5. Kept(s, t, 0 + 0)
      BY <1>0, <3>1, <3>4, KeptTransitive
    <3> QED BY <1>0, <3>3, <3>5
  <2> QED BY <1>3, <2>1, <2>2 DEF CloseWriter
<1> QED BY <1>0, <1>2, <1>3

LEMMA ClaimedKept ==
  ASSUME NEW s, SoundState(s), hour \in Hours, s.file = NoFile, NEW c \in FirstFree(s)
  PROVE  /\ SoundState(Claimed(s, c)) /\ Kept(s, Claimed(s, c), 0)
         /\ Len(Claimed(s, c).disk) = Len(s.disk) + 1
         /\ Len(Claimed(s, c).disk[Len(s.disk) + 1].recs) = 0
         /\ Claimed(s, c).disk[Len(s.disk) + 1].durable = 0
         /\ Claimed(s, c).file = NoFile
<1> DEFINE f == [hour |-> hour, counter |-> c, recs |-> << >>, durable |-> 0]
           e == Append(s.disk, f)
           t == Claimed(s, c)
<1>0. c \in Nat /\ <<hour, c>> \notin Taken(s.disk) /\ c + 1 \in Nat
  <2>1. NextCounter(s) \in Nat /\ MaxSegments \in Nat
    BY SinkAssumption DEF NextCounter, SoundState, Writers, SinkAssumption
  <2>2. c \in NextCounter(s) .. MaxSegments - 1 /\ <<hour, c>> \notin Taken(s.disk)
    BY DEF FirstFree, FreeCounters
  <2> QED BY <2>1, <2>2
<1>1. SoundDisk(e) /\ Len(e) = Len(s.disk) + 1
  BY <1>0, NewFile DEF SoundState
<1>2. /\ f.durable = 0 /\ Len(f.recs) = 0 /\ e[Len(s.disk) + 1] = f
      /\ \A i \in 1 .. Len(s.disk) : e[i] = s.disk[i]
  <2>1. f \in Segments
    BY <1>0, EmptySeq DEF Segments
  <2>2. s.disk \in Seq(Segments)
    BY DEF SoundState, SoundDisk
  <2>3. f.durable = 0 /\ Len(f.recs) = 0
    BY EmptySeq
  <2> HIDE DEF f
  <2> QED BY <2>1, <2>2, <2>3
<1> HIDE DEF f, e
<1>3. t \in Writers /\ t.disk = e /\ t.file = s.file /\ t.faults = s.faults /\ Total(t) = Total(s)
  <2>1. PICK n \in Nat : n = c + 1
    BY <1>0
  <2>2. s \in Writers /\ hour \in Hours \cup {-1} /\ e \in Seq(Segments)
    BY <1>1 DEF SoundDisk, SoundState
  <2>3. t = [s EXCEPT !.counterHour = hour, !.next = n, !.disk = e]
    BY <2>1 DEF Claimed, e, f
  <2> HIDE DEF t
  <2> QED BY <2>2, <2>3 DEF Writers, Total
<1> HIDE DEF t
<1>4. SoundState(t)
  BY <1>1, <1>3, SoundCounts DEF SoundState, NoFile
<1>5. Saved(s) => Saved(t)
  <2>1. ASSUME Saved(s), t.faults = 0, NEW i \in 1 .. Len(e) PROVE e[i].durable = Len(e[i].recs)
    <3>1. CASE i = Len(s.disk) + 1
      BY <1>2, <3>1
    <3>2. CASE i # Len(s.disk) + 1
      <4>1. i \in 1 .. Len(s.disk)
        BY <1>1, <3>2, SoundCounts
      <4> QED BY <1>2, <1>3, <2>1, <4>1 DEF Saved, NoFile
    <3> QED BY <3>1, <3>2
  <2> QED BY <1>3, <2>1 DEF Saved
<1>6. Kept(s, t, 0)
  <2>1. Clean(t)
    BY <1>3 DEF Clean
  <2>2. \A i \in Len(s.disk) + 1 .. Len(e) : Len(e[i].recs) = 0
    BY <1>1, <1>2, SoundCounts
  <2>3. Total(t) = Total(s) + 0 /\ s.faults <= t.faults /\ Len(s.disk) <= Len(e)
    BY <1>1, <1>3, SoundCounts
  <2> QED BY <1>2, <1>3, <1>5, <2>1, <2>2, <2>3 DEF Kept
<1> QED BY <1>1, <1>2, <1>3, <1>4, <1>6 DEF t

LEMMA OpenKept ==
  ASSUME NEW s, SoundState(s), hour \in Hours, s.file = NoFile, NEW t \in Open(s)
  PROVE  SoundState(t) /\ Kept(s, t, 0)
<1>0. SoundState(t) /\ s \in Writers
  BY OpenFollows DEF Follows, SoundState
<1>1. CASE t = [s EXCEPT !.counterHour = hour, !.next = MaxSegments]
  <2>1. t.disk = s.disk /\ t.file = s.file /\ Total(t) = Total(s) /\ t.faults = s.faults
        /\ t.dirty = s.dirty
    BY <1>0, <1>1 DEF Writers, Total
  <2>2. Total(t) = Total(s) + 0 /\ s.faults <= t.faults
    BY <2>1, SoundCounts
  <2> QED BY <1>0, <2>1, <2>2, KeptSameDisk
<1>2. ASSUME NEW c \in FirstFree(s), t = [Claimed(s, c) EXCEPT !.file = Len(s.disk) + 1]
      PROVE  Kept(s, t, 0)
  <2> DEFINE r == Claimed(s, c)
  <2>1. /\ SoundState(r) /\ Kept(s, r, 0) /\ Len(r.disk) = Len(s.disk) + 1
        /\ Len(r.disk[Len(s.disk) + 1].recs) = 0 /\ r.disk[Len(s.disk) + 1].durable = 0
        /\ r.file = NoFile
    BY ClaimedKept
  <2> HIDE DEF r
  <2>2. r \in Writers
    BY <2>1 DEF SoundState
  <2>3. t.disk = r.disk /\ t.file = Len(s.disk) + 1 /\ Total(t) = Total(r) /\ t.faults = r.faults
    BY <1>2, <2>2 DEF r, Writers, Total
  <2>4. Clean(t)
    BY <2>1, <2>3 DEF Clean
  <2>5. Saved(r) => Saved(t)
    BY <2>1, <2>3 DEF Saved, NoFile
  <2> QED BY <2>1, <2>3, <2>4, <2>5, SoundCounts DEF Kept
<1>3. CASE t = [Fault(s) EXCEPT !.counterHour = hour, !.next = NextCounter(s)]
  <2> DEFINE r == Fault(s)
  <2>1. SoundState(r) /\ Kept(s, r, 0) /\ r.file = s.file
    BY FaultKept
  <2>2. r \in Writers
    BY <2>1 DEF SoundState
  <2> HIDE DEF r
  <2>3. t.disk = r.disk /\ t.file = r.file /\ Total(t) = Total(r) /\ t.faults = r.faults
        /\ t.dirty = r.dirty
    BY <1>3, <2>2 DEF r, Writers, Total
  <2>4. Total(t) = Total(r) + 0 /\ r.faults <= t.faults
    BY <2>1, <2>3, SoundCounts
  <2>5. Kept(r, t, 0)
    BY <1>0, <2>1, <2>3, <2>4, KeptSameDisk
  <2>6. Kept(s, t, 0 + 0)
    BY <1>0, <2>1, <2>5, KeptTransitive
  <2> QED BY <1>0, <2>6
<1>4. ASSUME NEW c \in FirstFree(s), t = Fault(Claimed(s, c))
      PROVE  Kept(s, t, 0)
  <2>1. SoundState(Claimed(s, c)) /\ Kept(s, Claimed(s, c), 0)
    BY ClaimedKept
  <2>2. Kept(Claimed(s, c), t, 0)
    BY <1>4, <2>1, FaultKept
  <2>3. Kept(s, t, 0 + 0)
    BY <1>0, <2>1, <2>2, KeptTransitive
  <2> QED BY <2>3
<1> QED BY <1>0, <1>1, <1>2, <1>3, <1>4 DEF Open

LEMMA KeptReflexive == ASSUME NEW s, SoundState(s) PROVE Kept(s, s, 0)
  BY SoundCounts DEF Kept

LEMMA KeptThen ==
  ASSUME NEW r, SoundState(r), NEW s, SoundState(s), NEW t, SoundState(t),
         NEW n \in Nat, Kept(r, s, 0), Kept(s, t, n)
  PROVE  Kept(r, t, n)
<1>1. Kept(r, t, 0 + n)
  BY KeptTransitive
<1> QED BY <1>1

LEMMA WriterForKept ==
  ASSUME NEW s, SoundState(s), hour \in Hours, NEW t \in WriterFor(s)
  PROVE  SoundState(t) /\ Kept(s, t, 0)
<1> DEFINE kept == IF s.file # NoFile /\ s.disk[s.file].hour # hour THEN CloseWriter(s) ELSE {s}
<1>1. PICK r \in kept : t \in IF r.file = NoFile THEN Open(r) ELSE {r}
  BY DEF WriterFor
<1>2. SoundState(r) /\ Kept(s, r, 0)
  BY CloseWriterKept, KeptReflexive
<1>3. SoundState(t) /\ Kept(r, t, 0)
  BY <1>1, <1>2, OpenKept, KeptReflexive
<1> QED BY <1>2, <1>3, KeptThen

LEMMA FlushKept ==
  ASSUME NEW s, SoundState(s), NEW t \in Flush(s)
  PROVE  SoundState(t) /\ Kept(s, t, 0)
<1> DEFINE e == [s.disk EXCEPT ![s.file].durable = Len(s.disk[s.file].recs)]
           r == [s EXCEPT !.flushDue = FALSE]
<1>0. SoundState(t) /\ s \in Writers
  BY FlushFollows DEF Follows, SoundState
<1>1. CASE s.file = NoFile
  <2>1. t.disk = s.disk /\ t.file = s.file /\ Total(t) = Total(s) /\ t.faults = s.faults
    BY <1>0, <1>1 DEF Flush, Writers, Total
  <2>2. Total(t) = Total(s) + 0 /\ s.faults <= t.faults
    BY <2>1, SoundCounts
  <2> QED BY <1>0, <1>1, <2>1, <2>2, KeptSameDisk
<1>2. CASE s.file # NoFile /\ t = [s EXCEPT !.dirty = FALSE, !.flushDue = FALSE, !.disk = e]
  <2> HIDE DEF e
  <2>1. t.disk = e /\ t.file = s.file /\ Total(t) = Total(s) /\ t.faults = s.faults
    BY <1>0, <1>2 DEF Writers, Total
  <2> QED BY <1>0, <1>2, <2>1, KeptFlushed DEF e
<1>3. CASE s.file # NoFile /\ t \in CloseWriter(Fault(r))
  <2>1. /\ r \in Writers /\ r.disk = s.disk /\ r.file = s.file /\ r.dirty = s.dirty
        /\ Total(r) = Total(s) /\ r.faults = s.faults
    BY <1>0 DEF Writers, Total
  <2> HIDE DEF r
  <2>2. SoundState(r) /\ Total(r) = Total(s) + 0 /\ s.faults <= r.faults
    BY <2>1, SoundCounts DEF SoundState
  <2>3. Kept(s, r, 0)
    BY <2>1, <2>2, KeptSameDisk
  <2>4. SoundState(Fault(r)) /\ Kept(r, Fault(r), 0)
    BY <2>2, FaultKept
  <2>5. Kept(s, Fault(r), 0)
    BY <2>2, <2>3, <2>4, KeptThen
  <2>6. Kept(Fault(r), t, 0)
    BY <1>3, <2>4, CloseWriterKept
  <2> QED BY <1>0, <2>4, <2>5, <2>6, KeptThen
<1> QED BY <1>0, <1>1, <1>2, <1>3 DEF Flush

LEMMA TickKept ==
  ASSUME NEW s, SoundState(s), NEW t \in Tick(s)
  PROVE  SoundState(t) /\ Kept(s, t, 0)
<1> DEFINE kept == IF s.file # NoFile /\ s.disk[s.file].hour # hour THEN CloseWriter(s) ELSE {s}
<1>1. PICK r \in kept : t \in IF r.dirty /\ r.flushDue THEN Flush(r) ELSE {r}
  BY DEF Tick
<1>2. SoundState(r) /\ Kept(s, r, 0)
  BY CloseWriterKept, KeptReflexive
<1>3. SoundState(t) /\ Kept(r, t, 0)
  BY <1>1, <1>2, FlushKept, KeptReflexive
<1> QED BY <1>2, <1>3, KeptThen

(* Writing an item: either no record reaches the disk, or the item is appended
   to the file that is open by then; it is counted in both cases. *)
LEMMA WriteKept ==
  ASSUME NEW s, SoundState(s), hour \in Hours, NEW it \in Items, NEW t \in Write(s, it)
  PROVE  /\ SoundState(t)
         /\ \/ Kept(s, t, 1)
            \/ \E r : /\ SoundState(r) /\ r.file # NoFile /\ Kept(s, r, 0)
                      /\ \E a : /\ SoundState(a) /\ a.file \in {NoFile, r.file}
                                /\ a.disk = Appended(r, it).disk
                                /\ Total(a) = Total(r) + 1 /\ r.faults <= a.faults
                                /\ Clean(a) /\ (Saved(r) => Saved(a))
                                /\ Kept(a, t, 0)
<1>1. PICK r \in WriterFor(s) : t \in WriteOne(r, it)
  BY DEF Write
<1>2. SoundState(r) /\ Kept(s, r, 0) /\ r \in Writers
  BY WriterForKept DEF SoundState
<1>3. SoundState(t)
  BY WriteFollows DEF Follows
<1>4. ASSUME NEW u, SoundState(u), Kept(r, u, 1), t \in CloseWriter(u) PROVE Kept(s, t, 1)
  <2>1. Kept(s, u, 1) /\ Kept(u, t, 0)
    BY <1>2, <1>4, KeptThen, CloseWriterKept
  <2>2. Kept(s, t, 1 + 0)
    BY <1>3, <1>4, <2>1, KeptTransitive
  <2> QED BY <2>2
<1>5. SoundState(Lose(r)) /\ Kept(r, Lose(r), 1)
  BY <1>2, FaultKept
<1>6. SoundState(Fault(r)) /\ Kept(r, Fault(r), 0)
  BY <1>2, FaultKept
<1>7. SoundState(Lose(Fault(r))) /\ Kept(r, Lose(Fault(r)), 1)
  BY <1>2, <1>6, FaultKept, KeptThen
<1>8. CASE r.file = NoFile
  BY <1>1, <1>3, <1>4, <1>5, <1>8 DEF WriteOne
<1>9. CASE r.file # NoFile
  <2> DEFINE p == Appended(r, it)
  <2>1. /\ SoundState(p) /\ p.disk = Appended(r, it).disk /\ p \in Writers
    BY <1>2, <1>9, AppendedFollows DEF Follows, SoundState
  <2>2. /\ p.file = r.file /\ Total(p) = Total(r) /\ p.faults = r.faults
    BY <1>2 DEF Appended, Writers, Total
  <2>3. \A i \in 1 .. Len(r.disk) : i # r.file => p.disk[i] = r.disk[i]
    BY <1>2 DEF Appended, Writers
  <2>4. Len(p.disk) = Len(r.disk)
    BY <1>2 DEF Appended, Writers
  <2>5. Saved(r) => Saved(p)
    BY <2>2, <2>3, <2>4 DEF Saved
  <2> HIDE DEF p
  <2>6. CASE t = [p EXCEPT !.written = @ + 1, !.dirty = TRUE]
    <3>1. /\ t.disk = p.disk /\ t.file = p.file /\ Total(t) = Total(p) + 1
          /\ t.faults = p.faults /\ t.dirty = TRUE
      BY <2>1, <2>6 DEF Writers, Total
    <3>2. Clean(t) /\ (Saved(r) => Saved(t))
      BY <2>5, <3>1 DEF Clean, Saved
    <3>3. Kept(t, t, 0) /\ Total(t) = Total(r) + 1 /\ r.faults <= t.faults /\ t.file \in {NoFile, r.file}
      BY <1>2, <1>3, <2>2, <3>1, KeptReflexive, SoundCounts
    <3>4. t.disk = Appended(r, it).disk
      BY <2>1, <3>1
    <3> QED BY <1>2, <1>3, <1>9, <3>2, <3>3, <3>4
  <2>7. CASE t \in CloseWriter(Lose(Fault(p)))
    <3> DEFINE q == Fault(p)
               u == Lose(q)
    <3>1. SoundState(q) /\ q.disk = p.disk /\ q.faults = p.faults + 1 /\ Total(q) = Total(p) /\ q \in Writers
      BY <2>1, FaultKept DEF SoundState
    <3> HIDE DEF q
    <3>2. SoundState(u) /\ u.disk = q.disk /\ u.faults = q.faults /\ Total(u) = Total(q) + 1 /\ u \in Writers
      BY <3>1, FaultKept DEF SoundState
    <3> HIDE DEF u
    <3> DEFINE a == [u EXCEPT !.file = NoFile]
    <3>3. a \in Writers /\ a.disk = u.disk /\ a.faults = u.faults /\ Total(a) = Total(u) /\ a.file = NoFile
      BY <3>2 DEF Writers, Total, NoFile
    <3> HIDE DEF a
    <3>4. SoundState(a)
      BY <3>2, <3>3, SoundCounts DEF SoundState, NoFile
    <3>5. Kept(u, t, 0) /\ t.file = NoFile
      BY <2>7, <3>2, CloseWriterKept DEF u, q
    <3>6. u.faults > 0 /\ r.faults <= u.faults /\ Total(u) = Total(r) + 1
      BY <1>2, <2>2, <3>1, <3>2, SoundCounts
    <3>7. Clean(a) /\ Saved(a) /\ Clean(t)
      BY <3>3, <3>5, <3>6 DEF Clean, Saved
    <3>8. t.faults > 0
      BY <1>3, <3>2, <3>5, <3>6, SoundCounts DEF Kept
    <3>9. Saved(t)
      BY <3>8 DEF Saved
    <3>10. Kept(a, t, 0)
      BY <3>3, <3>5, <3>7, <3>9 DEF Kept
    <3>11. a.disk = Appended(r, it).disk /\ Total(a) = Total(r) + 1 /\ r.faults <= a.faults
           /\ a.file \in {NoFile, r.file}
      BY <2>1, <3>1, <3>2, <3>3, <3>6
    <3> QED BY <1>2, <1>3, <1>9, <3>4, <3>7, <3>10, <3>11
  <2>8. CASE t \in CloseWriter(Lose(Fault(r)))
    BY <1>3, <1>4, <1>7, <2>8
  <2>9. CASE t = Lose(Fault(r))
    BY <1>2, <1>3, <1>7, <2>9, KeptThen
  <2> QED BY <1>1, <1>9, <2>6, <2>7, <2>8, <2>9 DEF WriteOne, p
<1> QED BY <1>8, <1>9

-----------------------------------------------------------------------------
(* What that means for the order of the tape. *)

LEMMA RecordType ==
  ASSUME NEW s, SoundState(s), NEW i \in 1 .. Len(s.disk), NEW k \in 1 .. Len(s.disk[i].recs)
  PROVE  s.disk[i].recs[k] \in Items /\ s.disk[i].recs[k].id \in Nat
<1>1. s.disk[i] \in Segments
  BY DEF SoundState, SoundDisk, SoundFile
<1>2. s.disk[i].recs \in Seq(Items)
  BY <1>1 DEF Segments
<1>3. s.disk[i].recs[k] \in Items
  BY <1>2, ElementOfSeq
<1> QED BY <1>3 DEF Items

LEMMA TidyKept ==
  ASSUME NEW s, SoundState(s), NEW t, SoundState(t), NEW n \in Nat, Kept(s, t, n),
         NEW b, NEW A, NEW N, Tidy(s, b, A, N)
  PROVE  Tidy(t, b, A, N)
<1> DEFINE d == s.disk
           e == t.disk
<1>1. Len(d) \in Nat /\ Len(e) \in Nat /\ Len(d) <= Len(e)
  BY SoundCounts DEF Kept
<1>2. ASSUME NEW i \in 1 .. Len(e), NEW k \in 1 .. Len(e[i].recs)
      PROVE  i \in 1 .. Len(d) /\ e[i].recs = d[i].recs /\ k \in 1 .. Len(d[i].recs)
  <2>1. i \in 1 .. Len(d)
    <3>1. ASSUME i \in Len(d) + 1 .. Len(e) PROVE FALSE
      <4>1. Len(e[i].recs) = 0
        BY <3>1 DEF Kept
      <4> QED BY <1>2, <4>1
    <3> QED BY <1>1, <3>1
  <2> QED BY <1>2, <2>1 DEF Kept
<1>3. t.file \in {NoFile, Len(e)}
  <2>1. s.file \in {NoFile, Len(d)}
    BY DEF Tidy
  <2> QED BY <2>1 DEF Kept
<1>4. IdsUpTo(e, b)
  BY <1>2 DEF IdsUpTo, Tidy
<1>5. OrderedWithin(e)
  BY <1>2 DEF OrderedWithin, Tidy
<1>6. OrderedAcross(e)
  BY <1>2 DEF OrderedAcross, Tidy
<1>7. Separated(e, N)
  BY <1>2 DEF Separated, Tidy
<1>8. HoldsOnly(t, A)
  <2>1. ASSUME t.file # NoFile, NEW k \in 1 .. Len(e[t.file].recs), e[t.file].recs[k].kind = "record"
        PROVE  e[t.file].recs[k].id \in A
    <3>1. t.file \in 1 .. Len(e)
      BY <2>1, SoundCounts DEF NoFile
    <3>2. /\ t.file \in 1 .. Len(d) /\ e[t.file].recs = d[t.file].recs
          /\ k \in 1 .. Len(d[t.file].recs)
      BY <1>2, <3>1, <2>1
    <3>3. s.file = t.file
      BY <1>1, <2>1, <3>1, <3>2 DEF Kept
    <3> QED BY <2>1, <3>2, <3>3 DEF HoldsOnly, Tidy
  <2> QED BY <2>1 DEF HoldsOnly
<1> HIDE DEF e
<1> QED BY <1>3, <1>4, <1>5, <1>6, <1>7, <1>8 DEF Tidy, e

(* A later bound, more records that the open file may hold. *)
LEMMA TidyWeaker ==
  ASSUME NEW s, SoundState(s), NEW b \in Nat, NEW c \in Nat, b <= c,
         NEW A, NEW B, A \subseteq B \/ s.file = NoFile,
         NEW N, Tidy(s, b, A, N)
  PROVE  Tidy(s, c, B, N)
<1>1. IdsUpTo(s.disk, c)
  <2>1. ASSUME NEW i \in 1 .. Len(s.disk), NEW k \in 1 .. Len(s.disk[i].recs)
        PROVE  s.disk[i].recs[k].id \in Nat
    BY RecordType
  <2> QED BY <2>1 DEF IdsUpTo, Tidy
<1>2. HoldsOnly(s, B)
  BY DEF HoldsOnly, Tidy
<1> QED BY <1>1, <1>2 DEF Tidy

(* A rotate call that comes after every record on disk. *)
LEMMA TidyRotated ==
  ASSUME NEW s, SoundState(s), NEW b \in Nat, NEW n \in Nat, b <= n,
         NEW A, NEW N, Tidy(s, b, A, N)
  PROVE  Tidy(s, b, A, N \cup {n})
<1>1. Separated(s.disk, N \cup {n})
  <2>1. ASSUME NEW i \in 1 .. Len(s.disk), NEW l \in 1 .. Len(s.disk[i].recs),
               s.disk[i].recs[l].kind = "record"
        PROVE  s.disk[i].recs[l].id <= n
    <3>1. s.disk[i].recs[l].id \in Nat
      BY RecordType
    <3> QED BY <2>1, <3>1 DEF IdsUpTo, Tidy
  <2> QED BY <2>1 DEF Separated, Tidy
<1> QED BY <1>1 DEF Tidy

(* An item appended to the open file, the last one of the disk. *)
LEMMA TidyAppended ==
  ASSUME NEW s, SoundState(s), NEW a, SoundState(a), NEW it \in Items, s.file # NoFile,
         a.disk = Appended(s, it).disk, a.file \in {NoFile, s.file},
         NEW b \in Nat, b <= it.id, it.kind = "record" => b < it.id,
         NEW N \in SUBSET Nat, NEW A \in SUBSET Nat, NEW B, A \subseteq B,
         it.kind = "record" => it.id \in B,
         it.kind = "record" => \A n \in N, x \in A : x <= n => it.id <= n,
         Tidy(s, b, A, N)
  PROVE  Tidy(a, it.id, B, N)
<1> DEFINE d == s.disk
           e == a.disk
           f == s.file
           Old(i, k) == k \in 1 .. Len(d[i].recs) /\ e[i].recs[k] = d[i].recs[k]
           New(i, k) == i = f /\ k = Len(d[f].recs) + 1 /\ e[i].recs[k] = it
<1>0. it.id \in Nat
  BY DEF Items
<1>1. f \in 1 .. Len(d) /\ Len(d) \in Nat /\ f = Len(d)
  BY SoundCounts DEF NoFile, Tidy
<1>2. d[f] \in Segments /\ d \in Seq(Segments) /\ s \in Writers
  BY <1>1 DEF SoundState, SoundDisk, SoundFile
<1>3. e = [d EXCEPT ![f].recs = Append(@, it)]
  BY <1>2 DEF Appended, Writers
<1>4. /\ Len(e) = Len(d) /\ \A i \in 1 .. Len(d) : i # f => e[i] = d[i]
      /\ e[f].recs = Append(d[f].recs, it)
  BY <1>1, <1>2, <1>3, SMTT(60) DEF Segments
<1>14. \A i \in 1 .. Len(d) : d[i].recs \in Seq(Items) /\ Len(d[i].recs) \in Nat
  <2>1. ASSUME NEW i \in 1 .. Len(d) PROVE d[i].recs \in Seq(Items) /\ Len(d[i].recs) \in Nat
    <3>1. d[i] \in Segments
      BY DEF SoundState, SoundDisk, SoundFile
    <3>2. d[i].recs \in Seq(Items)
      BY <3>1 DEF Segments
    <3> QED BY <3>2
  <2> QED BY <2>1
<1>5. /\ d[f].recs \in Seq(Items) /\ Len(d[f].recs) \in Nat
      /\ Len(e[f].recs) = Len(d[f].recs) + 1 /\ e[f].recs[Len(d[f].recs) + 1] = it
      /\ \A k \in 1 .. Len(d[f].recs) : e[f].recs[k] = d[f].recs[k]
  <2> DEFINE g == d[f].recs
             h == e[f].recs
  <2>1. g \in Seq(Items) /\ h = Append(g, it)
    BY <1>1, <1>4, <1>14
  <2> HIDE DEF g, h
  <2>2. Len(g) \in Nat /\ Len(h) = Len(g) + 1 /\ h[Len(g) + 1] = it /\ \A k \in 1 .. Len(g) : h[k] = g[k]
    BY <2>1
  <2> QED BY <2>1, <2>2 DEF g, h
<1>6. ASSUME NEW i \in 1 .. Len(e), NEW k \in 1 .. Len(e[i].recs)
      PROVE  i \in 1 .. Len(d) /\ k \in Nat /\ (Old(i, k) \/ New(i, k))
  <2>1. CASE i = f
    <3>1. k \in 1 .. Len(d[f].recs) + 1
      BY <1>5, <2>1
    <3>2. k \in 1 .. Len(d[f].recs) \/ k = Len(d[f].recs) + 1
      <4> HIDE DEF d, e, f
      <4>1. PICK m \in Nat : m = Len(d[f].recs)
        BY <1>5
      <4> QED BY <3>1, <4>1
    <3>3. k \in Nat
      BY <3>1
    <3> HIDE DEF d, e, f
    <3> QED BY <1>1, <1>5, <2>1, <3>2, <3>3
  <2>2. CASE i # f
    <3>1. i \in 1 .. Len(d) /\ e[i] = d[i]
      BY <1>4, <2>2
    <3> QED BY <1>14, <3>1
  <2> QED BY <2>1, <2>2
<1>7. ASSUME NEW i \in 1 .. Len(d), NEW k \in 1 .. Len(d[i].recs), d[i].recs[k].kind = "record"
      PROVE  /\ d[i].recs[k].id \in Nat /\ d[i].recs[k].id <= b
             /\ it.kind = "record" => d[i].recs[k].id < it.id
             /\ i = f => d[i].recs[k].id \in A
  <2>1. d[i].recs[k].id \in Nat
    BY RecordType
  <2>2. d[i].recs[k].id <= b
    BY <1>7 DEF Tidy, IdsUpTo
  <2>3. i = f => d[i].recs[k].id \in A
    BY <1>7 DEF Tidy, HoldsOnly
  <2> QED BY <1>0, <2>1, <2>2, <2>3
<1> HIDE DEF d, e, f
<1>8. IdsUpTo(e, it.id)
  <2>1. ASSUME NEW i \in 1 .. Len(e), NEW k \in 1 .. Len(e[i].recs), e[i].recs[k].kind = "record"
        PROVE  e[i].recs[k].id <= it.id
    <3>1. CASE Old(i, k)
      <4>1. d[i].recs[k].id \in Nat /\ d[i].recs[k].id <= b
        BY <1>6, <1>7, <2>1, <3>1
      <4> QED BY <1>0, <3>1, <4>1
    <3>2. CASE New(i, k)
      BY <1>0, <3>2
    <3> QED BY <1>6, <3>1, <3>2
  <2> QED BY <2>1 DEF IdsUpTo
<1>9. OrderedWithin(e)
  <2>1. ASSUME NEW i \in 1 .. Len(e), NEW k \in 1 .. Len(e[i].recs), NEW l \in 1 .. Len(e[i].recs),
               k < l, e[i].recs[k].kind = "record", e[i].recs[l].kind = "record"
        PROVE  e[i].recs[k].id < e[i].recs[l].id
    <3>0. i \in 1 .. Len(d) /\ k \in Nat /\ l \in Nat
      BY <1>6
    <3>1. CASE Old(i, k) /\ Old(i, l)
      BY <2>1, <3>0, <3>1 DEF Tidy, OrderedWithin, d
    <3>2. CASE Old(i, k) /\ New(i, l)
      BY <1>7, <2>1, <3>0, <3>2
    <3>3. CASE New(i, k)
      BY <1>5, <1>6, <2>1, <3>3
    <3> QED BY <1>6, <3>1, <3>2, <3>3
  <2> QED BY <2>1 DEF OrderedWithin
<1>10. OrderedAcross(e)
  <2>1. ASSUME NEW i \in 1 .. Len(e), NEW j \in 1 .. Len(e), i < j,
               NEW k \in 1 .. Len(e[i].recs), NEW l \in 1 .. Len(e[j].recs),
               e[i].recs[k].kind = "record", e[j].recs[l].kind = "record"
        PROVE  e[i].recs[k].id < e[j].recs[l].id
    <3>0. i \in 1 .. Len(d) /\ j \in 1 .. Len(d) /\ i # f
      BY <1>1, <1>4, <1>6, <2>1
    <3>1. Old(i, k)
      BY <1>6, <3>0
    <3>2. CASE Old(j, l)
      BY <2>1, <3>0, <3>1, <3>2 DEF Tidy, OrderedAcross, d
    <3>3. CASE New(j, l)
      BY <1>7, <2>1, <3>0, <3>1, <3>3
    <3> QED BY <1>6, <3>2, <3>3
  <2> QED BY <2>1 DEF OrderedAcross
<1>11. Separated(e, N)
  <2>1. ASSUME NEW i \in 1 .. Len(e), NEW n \in N, NEW k \in 1 .. Len(e[i].recs),
               NEW l \in 1 .. Len(e[i].recs),
               e[i].recs[k].kind = "record", e[i].recs[l].kind = "record", e[i].recs[k].id <= n
        PROVE  e[i].recs[l].id <= n
    <3>0. i \in 1 .. Len(d) /\ n \in Nat
      BY <1>6
    <3>1. CASE Old(i, k) /\ Old(i, l)
      BY <2>1, <3>0, <3>1 DEF Tidy, Separated, d
    <3>2. CASE Old(i, k) /\ New(i, l)
      <4>1. e[i].recs[k].id \in A
        BY <1>7, <2>1, <3>0, <3>2
      <4> QED BY <2>1, <3>2, <4>1
    <3>3. CASE New(i, k) /\ Old(i, l)
      <4>1. e[i].recs[l].id \in Nat /\ e[i].recs[l].id < it.id
        BY <1>7, <2>1, <3>0, <3>3
      <4> QED BY <1>0, <2>1, <3>0, <3>3, <4>1
    <3>4. CASE New(i, k) /\ New(i, l)
      BY <2>1, <3>4
    <3> QED BY <1>6, <3>1, <3>2, <3>3, <3>4
  <2> QED BY <2>1 DEF Separated
<1>12. HoldsOnly(a, B)
  <2>1. ASSUME a.file # NoFile, NEW k \in 1 .. Len(e[f].recs), e[f].recs[k].kind = "record"
        PROVE  e[f].recs[k].id \in B
    <3>1. CASE Old(f, k)
      BY <1>1, <1>7, <2>1, <3>1
    <3>2. CASE New(f, k)
      BY <2>1, <3>2
    <3> QED BY <1>1, <1>4, <1>6, <3>1, <3>2
  <2> QED BY <2>1 DEF HoldsOnly, e, f
<1>13. a.file \in {NoFile, Len(e)}
  BY <1>1, <1>4 DEF f
<1> QED BY <1>8, <1>9, <1>10, <1>11, <1>12, <1>13 DEF Tidy, e

-----------------------------------------------------------------------------
(* The queue between a rotate call and the thread. *)

(* r is q with more items behind. *)
Extended(q, r) == Len(q) <= Len(r) /\ \A i \in 1 .. Len(q) : r[i] = q[i]

LEMMA AppendExtended ==
  ASSUME NEW q \in Seq(Items), NEW it \in Items
  PROVE  /\ Append(q, it) \in Seq(Items) /\ Len(Append(q, it)) = Len(q) + 1
         /\ Append(q, it)[Len(q) + 1] = it /\ Extended(q, Append(q, it))
  BY DEF Extended

LEMMA AscendingAppend ==
  ASSUME NEW q \in Seq(Items), NEW it \in Items, NEW b \in Nat, NEW top \in Nat, b <= top,
         Ascending(q, b, top), top <= it.id, it.kind = "record" => top < it.id
  PROVE  Ascending(Append(q, it), b, it.id)
<1> DEFINE r == Append(q, it)
<1>1. r \in Seq(Items) /\ Len(r) = Len(q) + 1 /\ r[Len(q) + 1] = it /\ Len(q) \in Nat
  OBVIOUS
<1>2. \A i \in 1 .. Len(q) : r[i] = q[i] /\ q[i].id \in Nat
  <2>1. \A i \in 1 .. Len(q) : r[i] = q[i] /\ q[i] \in Items
    OBVIOUS
  <2> QED BY <2>1 DEF Items
<1>3. it.id \in Nat
  BY DEF Items
<1> HIDE DEF r
<1>4. ASSUME NEW j \in 1 .. Len(r)
      PROVE  /\ b <= r[j].id /\ r[j].id <= it.id
             /\ r[j].kind = "record" => b < r[j].id
             /\ \A i \in 1 .. j - 1 : r[i].id <= r[j].id /\ (r[j].kind = "record" => r[i].id < r[j].id)
  <2>1. CASE j \in 1 .. Len(q)
    <3>1. /\ b <= q[j].id /\ q[j].id <= top /\ (q[j].kind = "record" => b < q[j].id)
          /\ \A i \in 1 .. j - 1 : q[i].id <= q[j].id /\ (q[j].kind = "record" => q[i].id < q[j].id)
      BY <2>1 DEF Ascending
    <3>2. \A i \in 1 .. j - 1 : i \in 1 .. Len(q)
      BY <1>1, <2>1
    <3> QED BY <1>2, <1>3, <2>1, <3>1, <3>2, SMTT(60)
  <2>2. CASE j = Len(q) + 1
    <3>1. r[j] = it
      BY <1>1, <2>2
    <3>2. \A i \in 1 .. j - 1 : r[i].id \in Nat /\ r[i].id <= top
      <4>1. \A i \in 1 .. j - 1 : i \in 1 .. Len(q)
        BY <1>1, <2>2
      <4>2. \A i \in 1 .. Len(q) : q[i].id <= top
        BY DEF Ascending
      <4> QED BY <1>2, <4>1, <4>2
    <3> QED BY <1>3, <3>1, <3>2
  <2> QED BY <1>1, <2>1, <2>2
<1> QED BY <1>4 DEF Ascending, r

LEMMA AscendingWeaker ==
  ASSUME NEW q \in Seq(Items), NEW b, NEW top \in Nat, NEW n \in Nat, top <= n, Ascending(q, b, top)
  PROVE  Ascending(q, b, n) /\ UpTo(q, Len(q), n)
<1>1. \A i \in 1 .. Len(q) : q[i].id \in Nat
  <2>1. \A i \in 1 .. Len(q) : q[i] \in Items
    OBVIOUS
  <2> QED BY <2>1 DEF Items
<1> QED BY <1>1 DEF Ascending, UpTo

LEMMA UpToExtended ==
  ASSUME NEW q \in Seq(Items), NEW r \in Seq(Items), Extended(q, r), NEW m \in 0 .. Len(q), NEW n
  PROVE  UpTo(q, m, n) <=> UpTo(r, m, n)
  BY DEF Extended, UpTo

(* Another item leaves the markers where they were; a marker replaces a
   rotation that waited. *)
LEMMA FencedExtended ==
  ASSUME NEW q \in Seq(Items), NEW r \in Seq(Items), Extended(q, r),
         NEW p \in 1 .. Len(q), NEW n, Fenced(q, p, n)
  PROVE  Fenced(r, p, n)
<1>1. PICK j \in p + 1 .. Len(q) : q[j].kind = "rotate" /\ UpTo(q, j, n)
  BY DEF Fenced
<1>2. j \in p + 1 .. Len(r) /\ j \in 0 .. Len(q) /\ j \in 1 .. Len(q)
  BY DEF Extended
<1>3. r[j].kind = "rotate" /\ UpTo(r, j, n)
  BY <1>1, <1>2, UpToExtended DEF Extended
<1> QED BY <1>2, <1>3 DEF Fenced

LEMMA InPlaceAppend ==
  ASSUME NEW q \in Seq(Items), NEW it \in Items, NEW N \in SUBSET Nat,
         NEW old \in BOOLEAN, NEW new \in BOOLEAN, InPlace(q, old, N),
         \/ it.kind = "rotate"
         \/ it.kind # "record" /\ new = old
         \/ it.kind = "record" /\ old = FALSE /\ new = FALSE /\ \A n \in N : n < it.id
  PROVE  InPlace(Append(q, it), new, N)
<1> DEFINE r == Append(q, it)
<1>1. /\ r \in Seq(Items) /\ Len(r) = Len(q) + 1 /\ r[Len(q) + 1] = it /\ Extended(q, r)
      /\ Len(q) \in Nat
  BY AppendExtended
<1> HIDE DEF r
<1>2. ASSUME NEW n \in N, NEW p \in 1 .. Len(r), r[p].kind = "record", r[p].id <= n
      PROVE  Fenced(r, p, n) \/ Waiting(r, new, n)
  <2>1. CASE p = Len(q) + 1
    <3>1. it.kind = "record" /\ it.id <= n /\ it.id \in Nat /\ n \in Nat
      BY <1>1, <1>2, <2>1 DEF Items
    <3> QED BY <3>1
  <2>2. CASE p \in 1 .. Len(q)
    <3>1. Fenced(q, p, n) \/ Waiting(q, old, n)
      BY <1>1, <1>2, <2>2 DEF Extended, InPlace
    <3>2. CASE Fenced(q, p, n)
      BY <1>1, <2>2, <3>2, FencedExtended
    <3>3. CASE Waiting(q, old, n)
      <4>1. UpTo(r, Len(q), n) /\ old
        BY <1>1, <3>3, UpToExtended DEF Waiting
      <4>2. CASE it.kind = "rotate"
        <5>1. UpTo(r, Len(q) + 1, n)
          BY <1>1, <4>1, <4>2 DEF UpTo
        <5>2. Len(q) + 1 \in p + 1 .. Len(r)
          BY <1>1, <2>2
        <5> QED BY <1>1, <4>2, <5>1, <5>2 DEF Fenced
      <4>3. CASE it.kind # "record" /\ new = old
        <5>1. UpTo(r, Len(r), n)
          BY <1>1, <4>1, <4>3 DEF UpTo
        <5> QED BY <4>1, <4>3, <5>1 DEF Waiting
      <4> QED BY <4>1, <4>2, <4>3
    <3> QED BY <3>1, <3>2, <3>3
  <2> QED BY <1>1, <2>1, <2>2
<1> QED BY <1>2 DEF InPlace, r

(* A rotate call after everything queued: it waits, or the last item marks it. *)
LEMMA InPlaceRotated ==
  ASSUME NEW q \in Seq(Items), NEW N \in SUBSET Nat, NEW n \in Nat, NEW old \in BOOLEAN,
         NEW new \in BOOLEAN, InPlace(q, old, N), UpTo(q, Len(q), n), old => new,
         new \/ (Len(q) > 0 /\ q[Len(q)].kind = "rotate")
  PROVE  InPlace(q, new, N \cup {n})
<1>1. ASSUME NEW m \in N, NEW p \in 1 .. Len(q), q[p].kind = "record", q[p].id <= m
      PROVE  Fenced(q, p, m) \/ Waiting(q, new, m)
  BY <1>1 DEF InPlace, Waiting
<1>2. ASSUME NEW p \in 1 .. Len(q), q[p].kind = "record"
      PROVE  Fenced(q, p, n) \/ Waiting(q, new, n)
  <2>1. CASE new
    BY <2>1 DEF Waiting
  <2>2. CASE Len(q) > 0 /\ q[Len(q)].kind = "rotate"
    <3>1. Len(q) \in p + 1 .. Len(q)
      BY <1>2, <2>2
    <3> QED BY <2>2, <3>1 DEF Fenced
  <2> QED BY <2>1, <2>2
<1> QED BY <1>1, <1>2 DEF InPlace

(* What a producer leaves of the thread's view of the queue. *)
LEMMA ViewExtended ==
  ASSUME CountsOK, stream' \in Seq(Items), Extended(stream, stream'), UNCHANGED <<taken, base>>
  PROVE  LastTaken' = LastTaken /\ Held' = Held /\ Handed' = Handed
<1>1. \A i \in 1 .. taken : stream'[i] = stream[i]
  BY DEF CountsOK, Extended
<1>2. \A i \in 1 .. taken : \A j \in i + 1 .. taken : j \in 1 .. taken
  BY DEF CountsOK
<1>3. LastTaken' = LastTaken
  BY <1>1 DEF CountsOK, LastTaken
<1>4. Handed' = Handed
  BY <1>1 DEF Handed
<1>5. {q \in 1 .. taken : stream'[q].kind = "record" /\ \A j \in q + 1 .. taken : stream'[j].kind # "rotate"}
        = {q \in 1 .. taken : stream[q].kind = "record" /\ \A j \in q + 1 .. taken : stream[j].kind # "rotate"}
  BY <1>1, <1>2
<1>6. Held' = Held
  BY <1>1, <1>5 DEF Held
<1> QED BY <1>3, <1>4, <1>6

(* The queue side of TapeInv. *)
LineInv == Ascending(stream, base, puts) /\ MarkersInPlace

LEMMA LineSimple ==
  ASSUME QueueInv, LineInv, stream' = stream, UNCHANGED <<rotations, base>>,
         puts' \in Nat, puts <= puts', rotatePending' = rotatePending, lastQueuedRotate' = lastQueuedRotate, Closed => Closed'
  PROVE  LineInv'
<1>1. Ascending(stream, base, puts')
  BY AscendingWeaker DEF QueueInv, CountsOK, LineInv
<1>2. \A n \in rotations : n <= puts'
  BY DEF QueueInv, CountsOK, LineInv, MarkersInPlace
<1> QED BY <1>1, <1>2 DEF LineInv, MarkersInPlace

LEMMA BaseBelow == ASSUME QueueInv, LineInv PROVE base <= puts
<1>1. CASE Len(stream) = 0
  BY <1>1 DEF QueueInv, CountsOK, HolesCounted, LastId
<1>2. CASE Len(stream) # 0
  <2>1. 1 \in 1 .. Len(stream) /\ stream[1] \in Items
    BY <1>2 DEF QueueInv, CountsOK
  <2>2. stream[1].id \in Nat
    BY <2>1 DEF Items
  <2> QED BY <2>1, <2>2 DEF LineInv, Ascending, QueueInv, CountsOK
<1> QED BY <1>1, <1>2

LEMMA NoticedLine ==
  ASSUME QueueInv, FlagsOK, LineInv
  PROVE  /\ Noticed \in Seq(Items) /\ Extended(stream, Noticed)
         /\ Ascending(Noticed, base, puts) /\ InPlace(Noticed, rotatePending, rotations)
         /\ Noticed # stream => Len(Noticed) > 0 /\ Noticed[Len(Noticed)].kind = "notice"
<1> USE DEF QueueInv, CountsOK, LineInv, MarkersInPlace
<1>1. CASE unreported = 0
  BY <1>1 DEF Noticed, Extended
<1>2. CASE unreported # 0
  <2> DEFINE it == Item("notice", puts, unreported)
  <2>1. it \in Items /\ it.id = puts /\ it.kind = "notice"
    BY DEF Item, Items
  <2> HIDE DEF it
  <2>2. Noticed = Append(stream, it)
    BY <1>2 DEF Noticed, it
  <2>3. Ascending(Noticed, base, puts)
    BY <2>1, <2>2, BaseBelow, AscendingAppend
  <2>4. InPlace(Noticed, rotatePending, rotations)
    BY <2>1, <2>2, InPlaceAppend DEF FlagsOK
  <2> QED BY <2>1, <2>2, <2>3, <2>4, AppendExtended
<1> QED BY <1>1, <1>2

LEMMA MarkerLine ==
  ASSUME QueueInv, FlagsOK, LineInv
  PROVE  LET q == Append(Noticed, Item("rotate", puts, 0))
         IN /\ q \in Seq(Items) /\ Extended(stream, q) /\ Ascending(q, base, puts)
            /\ InPlace(q, FALSE, rotations) /\ InPlace(q, rotatePending, rotations)
            /\ Len(q) > 0 /\ q[Len(q)].kind = "rotate"
<1> DEFINE it == Item("rotate", puts, 0)
           q == Append(Noticed, it)
<1>1. it \in Items /\ it.id = puts /\ it.kind = "rotate"
  BY DEF Item, Items, QueueInv, CountsOK
<1> HIDE DEF it
<1>2. q \in Seq(Items) /\ Extended(stream, q) /\ Len(q) > 0 /\ q[Len(q)] = it
  BY <1>1, NoticedLine, AppendExtended DEF Extended, QueueInv, CountsOK
<1>3. Ascending(q, base, puts)
  BY <1>1, NoticedLine, BaseBelow, AscendingAppend DEF QueueInv, CountsOK
<1>4. InPlace(q, FALSE, rotations) /\ InPlace(q, rotatePending, rotations)
  BY <1>1, NoticedLine, InPlaceAppend DEF QueueInv, CountsOK, FlagsOK
<1> QED BY <1>1, <1>2, <1>3, <1>4 DEF it

LEMMA PutAcceptedLine ==
  ASSUME QueueInv, FlagsOK, LineInv, PutAccepted
  PROVE  LineInv' /\ stream' \in Seq(Items) /\ Extended(stream, stream')
<1> DEFINE it == Item("record", puts + 1, 0)
<1>1. it \in Items /\ it.id = puts + 1 /\ it.kind = "record"
  BY DEF Item, Items, QueueInv, CountsOK
<1> HIDE DEF it
<1>2. /\ Marked \in Seq(Items) /\ Extended(stream, Marked) /\ Ascending(Marked, base, puts)
      /\ InPlace(Marked, FALSE, rotations)
  BY NoticedLine, MarkerLine DEF Marked, FlagsOK
<1>3. stream' = Append(Marked, it) /\ puts' = puts + 1 /\ puts \in Nat /\ base \in Nat
  BY DEF PutAccepted, it, QueueInv, CountsOK
<1>4. stream' \in Seq(Items) /\ Extended(stream, stream')
  <2>1. /\ Append(Marked, it) \in Seq(Items) /\ Extended(Marked, Append(Marked, it))
    BY <1>1, <1>2, AppendExtended
  <2> QED BY <1>2, <1>3, <2>1 DEF Extended, QueueInv, CountsOK
<1>5. Ascending(stream', base, puts')
  BY <1>1, <1>2, <1>3, BaseBelow, AscendingAppend
<1>6. InPlace(stream', FALSE, rotations)
  <2>1. \A n \in rotations : n < it.id
    BY <1>1 DEF QueueInv, CountsOK, LineInv, MarkersInPlace
  <2> QED BY <1>1, <1>2, <1>3, <2>1, InPlaceAppend DEF QueueInv, CountsOK
<1>8. \A n \in rotations : n <= puts'
  BY <1>3 DEF QueueInv, CountsOK, LineInv, MarkersInPlace
<1>7. LineInv'
  BY <1>5, <1>6, <1>8 DEF PutAccepted, LineInv, MarkersInPlace
<1> QED BY <1>4, <1>7

LEMMA RotateQueuedLine ==
  ASSUME QueueInv, FlagsOK, LineInv, RotateQueued
  PROVE  LineInv' /\ stream' \in Seq(Items) /\ Extended(stream, stream')
<1> DEFINE q == Append(Noticed, Item("rotate", puts, 0))
<1>0. /\ stream \in Seq(Items) /\ rotations \in SUBSET Nat /\ puts \in Nat /\ base \in Nat
      /\ rotatePending \in BOOLEAN
  BY DEF QueueInv, CountsOK, FlagsOK
<1>1. /\ stream' \in Seq(Items) /\ Extended(stream, stream') /\ Ascending(stream', base, puts)
      /\ InPlace(stream', rotatePending, rotations)
      /\ Len(stream') > 0 /\ stream'[Len(stream')].kind = "rotate"
  <2>1. CASE lastQueuedRotate /\ unreported = 0
    <3>1. stream' = stream
      BY <2>1 DEF RotateQueued
    <3> QED BY <1>0, <2>1, <3>1 DEF LineInv, MarkersInPlace, Extended, RotateQueued
  <2>2. CASE ~(lastQueuedRotate /\ unreported = 0)
    <3>1. stream' = q
      BY <2>2 DEF RotateQueued
    <3> QED BY <3>1, MarkerLine
  <2> QED BY <2>1, <2>2
<1>2. UpTo(stream', Len(stream'), puts)
  BY <1>0, <1>1, AscendingWeaker
<1>3. InPlace(stream', rotatePending, rotations \cup {puts})
  BY <1>0, <1>1, <1>2, InPlaceRotated
<1>4. \A n \in rotations \cup {puts} : n <= puts
  BY <1>0 DEF LineInv, MarkersInPlace
<1>5. rotations' = rotations \cup {puts} /\ UNCHANGED <<puts, rotatePending, base>>
  BY DEF RotateQueued
<1> QED BY <1>1, <1>3, <1>4, <1>5 DEF LineInv, MarkersInPlace

LEMMA RotateWhenFullLine ==
  ASSUME QueueInv, FlagsOK, LineInv, RotateWhenFull
  PROVE  LineInv'
<1>0. /\ stream \in Seq(Items) /\ rotations \in SUBSET Nat /\ puts \in Nat
      /\ rotatePending \in BOOLEAN
  BY DEF QueueInv, CountsOK, FlagsOK
<1>1. UpTo(stream, Len(stream), puts)
  BY <1>0, AscendingWeaker DEF LineInv
<1>2. InPlace(stream, TRUE, rotations \cup {puts})
  BY <1>0, <1>1, InPlaceRotated DEF LineInv, MarkersInPlace
<1>3. \A n \in rotations \cup {puts} : n <= puts
  BY <1>0 DEF LineInv, MarkersInPlace
<1> QED BY <1>2, <1>3 DEF RotateWhenFull, LineInv, MarkersInPlace, Closed

LEMMA CloseLockedLine ==
  ASSUME QueueInv, FlagsOK, LineInv, CloseLocked
  PROVE  LineInv' /\ stream' \in Seq(Items) /\ Extended(stream, stream')
<1>1. stream' = stream \/ stream' = Noticed
  BY DEF CloseLocked
<1>2. /\ stream' \in Seq(Items) /\ Extended(stream, stream') /\ Ascending(stream', base, puts)
      /\ InPlace(stream', rotatePending, rotations)
  <2>1. CASE stream' = stream
    BY <2>1 DEF QueueInv, CountsOK, LineInv, MarkersInPlace, Extended
  <2>2. CASE stream' = Noticed
    BY <2>2, NoticedLine
  <2> QED BY <1>1, <2>1, <2>2
<1> QED BY <1>2 DEF CloseLocked, LineInv, MarkersInPlace, Closed

LEMMA CloseWakeLine ==
  ASSUME QueueInv, FlagsOK, LineInv, CloseWake
  PROVE  /\ LineInv' /\ stream' \in Seq(Items) /\ Extended(stream, stream')
         /\ \A i \in Len(stream) + 1 .. Len(stream') : stream'[i].kind = "wake"
<1> DEFINE it == Item("wake", puts, 0)
<1>0. /\ stream \in Seq(Items) /\ rotations \in SUBSET Nat /\ puts \in Nat /\ base \in Nat
      /\ rotatePending \in BOOLEAN /\ Len(stream) \in Nat
  BY DEF QueueInv, CountsOK, FlagsOK
<1>1. it \in Items /\ it.id = puts /\ it.kind = "wake"
  BY <1>0 DEF Item, Items
<1> HIDE DEF it
<1>2. stream' = stream \/ stream' = Append(stream, it)
  BY DEF CloseWake, it
<1>3. /\ stream' \in Seq(Items) /\ Extended(stream, stream') /\ Ascending(stream', base, puts)
      /\ InPlace(stream', rotatePending, rotations)
      /\ \A i \in Len(stream) + 1 .. Len(stream') : stream'[i].kind = "wake"
  <2>1. CASE stream' = stream
    BY <1>0, <2>1 DEF LineInv, MarkersInPlace, Extended
  <2>2. CASE stream' = Append(stream, it)
    <3>1. Ascending(stream', base, puts)
      BY <1>0, <1>1, <2>2, BaseBelow, AscendingAppend DEF LineInv
    <3>2. InPlace(stream', rotatePending, rotations)
      BY <1>0, <1>1, <2>2, InPlaceAppend DEF LineInv, MarkersInPlace
    <3>3. /\ stream' \in Seq(Items) /\ Extended(stream, stream') /\ Len(stream') = Len(stream) + 1
          /\ stream'[Len(stream) + 1] = it
      BY <1>0, <1>1, <2>2, AppendExtended
    <3>4. \A i \in Len(stream) + 1 .. Len(stream') : stream'[i].kind = "wake"
      BY <1>0, <1>1, <3>3
    <3> QED BY <3>1, <3>2, <3>3, <3>4
  <2> QED BY <1>2, <2>1, <2>2
<1> QED BY <1>3 DEF CloseWake, LineInv, MarkersInPlace, Closed

-----------------------------------------------------------------------------
(* The thread takes an item. *)

LEMMA TidyWrite ==
  ASSUME NEW s, SoundState(s), hour \in Hours, NEW it \in Items, NEW t \in Write(s, it),
         NEW b \in Nat, b <= it.id, it.kind = "record" => b < it.id,
         NEW N \in SUBSET Nat, NEW A \in SUBSET Nat, NEW B, A \subseteq B,
         it.kind = "record" => it.id \in B,
         it.kind = "record" => \A n \in N, x \in A : x <= n => it.id <= n,
         Tidy(s, b, A, N), Clean(s)
  PROVE  /\ SoundState(t) /\ Tidy(t, it.id, B, N) /\ Clean(t) /\ (Saved(s) => Saved(t))
         /\ Total(t) = Total(s) + 1 /\ s.faults <= t.faults
<1>0. SoundState(t) /\ it.id \in Nat
  BY WriteKept DEF Items
<1>1. CASE Kept(s, t, 1)
  <2>1. Tidy(t, b, A, N)
    BY <1>0, <1>1, TidyKept
  <2>2. Tidy(t, it.id, B, N)
    BY <1>0, <2>1, TidyWeaker
  <2> QED BY <1>0, <1>1, <2>2 DEF Kept
<1>2. ASSUME NEW r, SoundState(r), r.file # NoFile, Kept(s, r, 0),
             NEW a, SoundState(a), a.file \in {NoFile, r.file}, a.disk = Appended(r, it).disk,
             Total(a) = Total(r) + 1, r.faults <= a.faults, Clean(a), Saved(r) => Saved(a),
             Kept(a, t, 0)
      PROVE  /\ Tidy(t, it.id, B, N) /\ Clean(t) /\ (Saved(s) => Saved(t))
             /\ Total(t) = Total(s) + 1 /\ s.faults <= t.faults
  <2>1. Tidy(r, b, A, N)
    BY <1>2, TidyKept
  <2>2. Tidy(a, it.id, B, N)
    BY <1>2, <2>1, TidyAppended
  <2>3. Tidy(t, it.id, B, N)
    BY <1>0, <1>2, <2>2, TidyKept
  <2>4. Clean(t) /\ (Saved(s) => Saved(t))
    BY <1>2 DEF Kept
  <2>5. s.faults <= r.faults /\ a.faults <= t.faults
        /\ Total(r) = Total(s) + 0 /\ Total(t) = Total(a) + 0
    BY <1>2 DEF Kept
  <2>6. s.faults \in Nat /\ r.faults \in Nat /\ a.faults \in Nat /\ t.faults \in Nat
        /\ Total(s) \in Nat /\ Total(r) \in Nat /\ Total(a) \in Nat
    BY <1>0, <1>2, SoundCounts
  <2>7. Total(t) = Total(s) + 1 /\ s.faults <= t.faults
    BY <1>2, <2>5, <2>6
  <2> QED BY <2>3, <2>4, <2>7
<1> QED BY <1>0, <1>1, <1>2, WriteKept

(* The item in hand, against the thread's view before and after it. *)
Takes == taken < Len(stream) /\ taken' = taken + 1 /\ UNCHANGED <<stream, base>>

LEMMA ViewTaken ==
  ASSUME QueueInv, LineInv, Takes
  PROVE  LET it == stream[taken + 1]
         IN /\ it \in Items /\ it.id \in Nat /\ LastTaken \in Nat /\ LastTaken' = it.id
            /\ LastTaken <= it.id /\ (it.kind = "record" => LastTaken < it.id)
            /\ Held \in SUBSET Nat
            /\ it.kind # "rotate" => Held \subseteq Held'
            /\ it.kind = "record" => it.id \in Held'
            /\ it.kind = "record" => \A n \in rotations, x \in Held : x <= n => it.id <= n
<1> DEFINE it == stream[taken + 1]
<1>0. /\ stream \in Seq(Items) /\ taken \in Nat /\ Len(stream) \in Nat /\ taken + 1 \in 1 .. Len(stream)
      /\ base \in Nat /\ taken' = taken + 1 /\ stream' = stream /\ rotations \in SUBSET Nat
  BY DEF QueueInv, CountsOK, Takes
<1>1. it \in Items /\ it.id \in Nat /\ \A i \in 1 .. Len(stream) : stream[i].id \in Nat
  <2>1. \A i \in 1 .. Len(stream) : stream[i] \in Items
    BY <1>0
  <2> QED BY <1>0, <2>1 DEF Items
<1>2. LastTaken \in Nat /\ LastTaken <= it.id /\ (it.kind = "record" => LastTaken < it.id)
  <2>1. /\ base <= it.id /\ (it.kind = "record" => base < it.id)
        /\ \A i \in 1 .. taken : stream[i].id <= it.id /\ (it.kind = "record" => stream[i].id < it.id)
    BY <1>0 DEF LineInv, Ascending
  <2>2. taken # 0 => taken \in 1 .. taken /\ taken \in 1 .. Len(stream)
    BY <1>0
  <2> QED BY <1>0, <1>1, <2>1, <2>2 DEF LastTaken
<1>3. LastTaken' = it.id
  BY <1>0 DEF LastTaken
<1>4. ASSUME NEW x \in Held
      PROVE  /\ x \in Nat
             /\ it.kind # "rotate" => x \in Held'
             /\ it.kind = "record" => \A n \in rotations : x <= n => it.id <= n
  <2>1. PICK p \in 1 .. taken : /\ stream[p].kind = "record" /\ stream[p].id = x
                                /\ \A j \in p + 1 .. taken : stream[j].kind # "rotate"
    BY DEF Held
  <2>2. p \in 1 .. Len(stream) /\ p \in 1 .. taken' /\ x \in Nat
    BY <1>0, <1>1, <2>1
  <2>3. ASSUME it.kind # "rotate" PROVE x \in Held'
    <3>1. \A j \in p + 1 .. taken' : stream'[j].kind # "rotate"
      BY <1>0, <2>1, <2>3
    <3> QED BY <1>0, <2>1, <2>2, <3>1 DEF Held
  <2>4. ASSUME it.kind = "record", NEW n \in rotations, x <= n PROVE it.id <= n
    <3>1. Fenced(stream, p, n) \/ Waiting(stream, rotatePending, n)
      BY <2>1, <2>2, <2>4 DEF LineInv, MarkersInPlace, InPlace
    <3>2. CASE Waiting(stream, rotatePending, n)
      BY <1>0, <2>4, <3>2 DEF Waiting, UpTo
    <3>3. CASE Fenced(stream, p, n)
      <4>1. PICK j \in p + 1 .. Len(stream) : stream[j].kind = "rotate" /\ UpTo(stream, j, n)
        BY <3>3 DEF Fenced
      <4>2. j # taken + 1 /\ ~(j \in p + 1 .. taken)
        BY <2>1, <2>4, <4>1
      <4>3. taken + 1 \in 1 .. j
        BY <1>0, <2>1, <4>1, <4>2
      <4> QED BY <2>4, <4>1, <4>3 DEF UpTo
    <3> QED BY <3>1, <3>2, <3>3
  <2> QED BY <2>2, <2>3, <2>4
<1>5. it.kind = "record" => it.id \in Held'
  <2>1. \A j \in taken' + 1 .. taken' : stream'[j].kind # "rotate"
    BY <1>0
  <2>2. taken' \in 1 .. taken' /\ stream'[taken'] = it
    BY <1>0
  <2> HIDE DEF it
  <2> QED BY <2>1, <2>2 DEF Held
<1> QED BY <1>1, <1>2, <1>3, <1>4, <1>5

LEMMA CountTaken ==
  ASSUME QueueInv, Takes
  PROVE  /\ Cardinality(Handed) \in Nat
         /\ IsRecord(stream[taken + 1]) => Cardinality(Handed') = Cardinality(Handed) + 1
         /\ ~IsRecord(stream[taken + 1]) => Handed' = Handed
<1>0. taken \in Nat /\ taken' = taken + 1 /\ stream' = stream
  BY DEF QueueInv, CountsOK, Takes
<1>1. IsFiniteSet(Handed) /\ Cardinality(Handed) \in Nat
  <2>1. IsFiniteSet(1 .. taken) /\ Handed \in SUBSET (1 .. taken)
    BY <1>0, FS_Interval DEF Handed
  <2>2. IsFiniteSet(Handed)
    BY <2>1, FS_Subset
  <2> QED BY <2>2, FS_CardinalityType
<1>2. ASSUME IsRecord(stream[taken + 1]) PROVE Cardinality(Handed') = Cardinality(Handed) + 1
  <2>1. Handed' = Handed \cup {taken + 1} /\ taken + 1 \notin Handed
    BY <1>0, <1>2 DEF Handed
  <2> QED BY <1>1, <2>1, FS_AddElement
<1>3. ASSUME ~IsRecord(stream[taken + 1]) PROVE Handed' = Handed
  BY <1>0, <1>3 DEF Handed
<1> QED BY <1>1, <1>2, <1>3

(* What the thread leaves after an item, before and after _tick. *)
After(s, t, n) ==
  /\ SoundState(t) /\ Tidy(t, LastTaken', Held', rotations) /\ Clean(t) /\ (Saved(s) => Saved(t))
  /\ Total(t) = Total(s) + n /\ s.faults <= t.faults

LEMMA HandledTape ==
  ASSUME QueueInv, LineInv, Takes, hour \in Hours, NEW s, SoundState(s),
         Tidy(s, LastTaken, Held, rotations), Clean(s), NEW t \in Handled(s, stream[taken + 1])
  PROVE  After(s, t, IF IsRecord(stream[taken + 1]) THEN 1 ELSE 0)
<1> DEFINE it == stream[taken + 1]
<1>0. /\ it \in Items /\ it.id \in Nat /\ LastTaken \in Nat /\ LastTaken' = it.id
      /\ LastTaken <= it.id /\ (it.kind = "record" => LastTaken < it.id)
      /\ Held \in SUBSET Nat
      /\ it.kind # "rotate" => Held \subseteq Held'
      /\ it.kind = "record" => it.id \in Held'
      /\ it.kind = "record" => \A n \in rotations, x \in Held : x <= n => it.id <= n
      /\ rotations \in SUBSET Nat
  BY ViewTaken DEF QueueInv, CountsOK
<1>9. it.kind \in {"record", "notice", "rotate", "wake"}
  BY <1>0 DEF Items
<1> HIDE DEF it
<1>1. CASE IsRecord(it)
  <2>1. t \in Write(s, it) /\ it.kind # "rotate"
    BY <1>1 DEF Handled, IsRecord, it
  <2>2. /\ SoundState(t) /\ Tidy(t, it.id, Held', rotations) /\ Clean(t) /\ (Saved(s) => Saved(t))
        /\ Total(t) = Total(s) + 1 /\ s.faults <= t.faults
    BY <1>0, <2>1, TidyWrite
  <2> QED BY <1>0, <1>1, <2>2 DEF After, it
<1>2. CASE it.kind = "rotate"
  <2>1. t \in CloseWriter(s) /\ ~IsRecord(it)
    BY <1>2 DEF Handled, IsRecord, it
  <2>2. SoundState(t) /\ Kept(s, t, 0) /\ t.file = NoFile
    BY <2>1, CloseWriterKept
  <2>3. Tidy(t, LastTaken, Held, rotations)
    BY <2>2, TidyKept
  <2>4. Tidy(t, it.id, Held', rotations)
    BY <1>0, <2>2, <2>3, TidyWeaker
  <2> QED BY <1>0, <2>1, <2>2, <2>4 DEF After, Kept, it
<1>3. CASE it.kind = "wake"
  <2>1. t = s /\ ~IsRecord(it) /\ it.kind # "rotate"
    BY <1>3 DEF Handled, IsRecord, it
  <2>2. Tidy(s, it.id, Held', rotations)
    BY <1>0, <2>1, TidyWeaker
  <2>3. Total(s) = Total(s) + 0 /\ s.faults <= s.faults
    BY SoundCounts
  <2> QED BY <1>0, <2>1, <2>2, <2>3 DEF After, it
<1> QED BY <1>1, <1>2, <1>3, <1>9 DEF IsRecord

-----------------------------------------------------------------------------
(* The inductive invariant of the tape. *)

TapeSound == SinkInv /\ TapeInv

LEMMA LastTakenBelow == ASSUME QueueInv, LineInv PROVE LastTaken \in Nat /\ LastTaken <= puts
<1>1. CASE taken = 0
  BY <1>1, BaseBelow DEF LastTaken, QueueInv, CountsOK
<1>2. CASE taken # 0
  <2>1. taken \in 1 .. Len(stream) /\ stream[taken] \in Items
    BY <1>2 DEF QueueInv, CountsOK
  <2>2. stream[taken].id \in Nat
    BY <2>1 DEF Items
  <2> QED BY <1>2, <2>1, <2>2 DEF LastTaken, LineInv, Ascending
<1> QED BY <1>1, <1>2

LEMMA TapeInitially == ASSUME Init PROVE TapeInv
<1>1. /\ Len(stream) = 0 /\ taken = 0 /\ rotations = {} /\ lastQueuedRotate = FALSE
      /\ thread = "off" /\ sawStop = FALSE /\ stopping = FALSE /\ failed = FALSE
  BY EmptySeq DEF Init
<1>2. w.file = NoFile /\ Len(w.disk) = 0 /\ w.written = 0 /\ w.lost = 0
  BY EmptySeq DEF Init, FreshWriter
<1>3. Ascending(stream, base, puts) /\ MarkersInPlace
  BY <1>1 DEF Ascending, MarkersInPlace, InPlace
<1>4. Tidy(w, LastTaken, Held, rotations)
  BY <1>2 DEF Tidy, IdsUpTo, OrderedWithin, OrderedAcross, Separated, HoldsOnly
<1>5. Clean(w) /\ Saved(w) /\ EndInv
  BY <1>1, <1>2 DEF Clean, Saved, EndInv
<1>6. Counted
  <2>1. Handed = {}
    BY <1>1 DEF Handed
  <2> QED BY <1>2, <2>1, FS_EmptySet DEF Counted
<1> QED BY <1>3, <1>4, <1>5, <1>6 DEF TapeInv

(* A producer: the thread and the files stay as they are. *)
LEMMA ProducerTape ==
  ASSUME SinkInv, TapeInv, LineInv', stream' \in Seq(Items), Extended(stream, stream'),
         UNCHANGED <<taken, base, w, failed>>, Tidy(w, LastTaken, Held, rotations'), EndInv'
  PROVE  TapeInv'
<1>1. LastTaken' = LastTaken /\ Held' = Held /\ Handed' = Handed
  BY ViewExtended DEF SinkInv, QueueInv
<1>2. Tidy(w, LastTaken, Held, rotations)'
  BY <1>1
<1>3. Clean(w)' /\ Saved(w)' /\ Counted'
  BY <1>1 DEF TapeInv, Counted
<1> QED BY <1>2, <1>3 DEF TapeInv, LineInv

LEMMA ProducerStep == ASSUME SinkInv, TapeInv, Producer \/ WallClock PROVE TapeInv'
<1>0. /\ QueueInv /\ FlagsOK /\ LineInv /\ EndInv /\ SoundState(w)
      /\ Tidy(w, LastTaken, Held, rotations)
      /\ stream \in Seq(Items) /\ Extended(stream, stream)
      /\ puts \in Nat /\ rotations \in SUBSET Nat
  BY DEF SinkInv, TapeInv, LineInv, Extended, QueueInv, CountsOK
<1>1. CASE Start \/ PutRefusedDead \/ CloseSetStopping \/ WallClock
  <2>1. /\ UNCHANGED <<stream, rotations, base, taken, w, failed, puts, rotatePending>>
        /\ lastQueuedRotate' = lastQueuedRotate
    BY <1>1 DEF Start, PutRefusedDead, CloseSetStopping, WallClock, producerVars, threadVars
  <2>2. LineInv'
    BY <1>0, <1>1, <2>1, LineSimple DEF Start, PutRefusedDead, CloseSetStopping, WallClock, Closed
  <2>3. EndInv'
    BY <1>0, <1>1, <2>1 DEF EndInv, Start, PutRefusedDead, CloseSetStopping, WallClock,
       producerVars, threadVars
  <2> QED BY <1>0, <2>1, <2>2, <2>3, ProducerTape
<1>2. CASE PutRefusedFull
  <2>1. /\ UNCHANGED <<stream, rotations, base, taken, w, failed, rotatePending>>
        /\ lastQueuedRotate' = lastQueuedRotate /\ puts' = puts + 1 /\ closer' = closer
    BY <1>2 DEF PutRefusedFull, threadVars
  <2>2. LineInv'
    BY <1>0, <2>1, LineSimple DEF Closed
  <2>3. EndInv'
    BY <1>0, <1>2 DEF EndInv, PutRefusedFull, threadVars
  <2> QED BY <1>0, <2>1, <2>2, <2>3, ProducerTape
<1>3. ASSUME EndInv, ~Closed, UNCHANGED <<sawStop, stopping, failed, w, thread, taken>>,
             closer' \in {closer, "closed"}
      PROVE  EndInv'
  BY <1>3 DEF EndInv, Closed
<1>4. CASE PutAccepted
  <2>1. EndInv'
    BY <1>0, <1>3, <1>4 DEF PutAccepted, threadVars
  <2>2. LineInv' /\ stream' \in Seq(Items) /\ Extended(stream, stream')
    BY <1>0, <1>4, PutAcceptedLine
  <2>3. UNCHANGED <<rotations, base, taken, w, failed>>
    BY <1>4 DEF PutAccepted, threadVars
  <2> QED BY <1>0, <2>1, <2>2, <2>3, ProducerTape
<1>5. Tidy(w, LastTaken, Held, rotations \cup {puts})
  BY <1>0, LastTakenBelow, TidyRotated
<1>6. CASE RotateWhenFull
  <2>1. /\ UNCHANGED <<stream, base, taken, w, failed>> /\ rotations' = rotations \cup {puts}
    BY <1>6 DEF RotateWhenFull, threadVars
  <2>2. LineInv'
    BY <1>0, <1>6, RotateWhenFullLine
  <2>3. EndInv'
    BY <1>0, <1>3, <1>6 DEF RotateWhenFull, threadVars
  <2> QED BY <1>0, <1>5, <2>1, <2>2, <2>3, ProducerTape
<1>7. CASE RotateQueued
  <2>1. /\ UNCHANGED <<base, taken, w, failed>> /\ rotations' = rotations \cup {puts}
    BY <1>7 DEF RotateQueued, threadVars
  <2>2. LineInv' /\ stream' \in Seq(Items) /\ Extended(stream, stream')
    BY <1>0, <1>7, RotateQueuedLine
  <2>3. EndInv'
    BY <1>0, <1>3, <1>7 DEF RotateQueued, threadVars
  <2> QED BY <1>0, <1>5, <2>1, <2>2, <2>3, ProducerTape
<1>8. CASE CloseLocked
  <2>1. UNCHANGED <<base, taken, w, failed, rotations>>
    BY <1>8 DEF CloseLocked, threadVars
  <2>2. LineInv' /\ stream' \in Seq(Items) /\ Extended(stream, stream')
    BY <1>0, <1>8, CloseLockedLine
  <2>3. EndInv'
    BY <1>0, <1>3, <1>8 DEF CloseLocked, threadVars, Closed
  <2> QED BY <1>0, <2>1, <2>2, <2>3, ProducerTape
<1>9. CASE CloseWake
  <2>1. UNCHANGED <<base, taken, w, failed, rotations, sawStop, stopping>>
    BY <1>9 DEF CloseWake
  <2>2. /\ LineInv' /\ stream' \in Seq(Items) /\ Extended(stream, stream')
        /\ \A i \in Len(stream) + 1 .. Len(stream') : stream'[i].kind = "wake"
    BY <1>0, <1>9, CloseWakeLine
  <2>3. thread' = "done" => thread = "done"
    BY <1>9 DEF CloseWake
  <2>4. ASSUME thread' = "done", ~failed, NEW i \in taken + 1 .. Len(stream')
        PROVE  stream'[i].kind = "wake"
    <3>1. i \in taken + 1 .. Len(stream) \/ i \in Len(stream) + 1 .. Len(stream')
      BY <2>2 DEF SinkInv, QueueInv, CountsOK, Extended
    <3>2. CASE i \in taken + 1 .. Len(stream)
      <4>1. i \in 1 .. Len(stream)
        BY <3>2 DEF SinkInv, QueueInv, CountsOK
      <4> QED BY <1>0, <2>2, <2>3, <2>4, <3>2, <4>1 DEF EndInv, Extended
    <3> QED BY <2>2, <3>1, <3>2
  <2>5. EndInv'
    <3>1. (sawStop => stopping)' /\ (failed => w.faults > 0)' /\ (thread = "done" => w.file = NoFile)'
      BY <1>0, <2>1, <2>3 DEF EndInv
    <3>2. (stopping => closer \in {"stopping", "joining"})'
      BY <1>9 DEF CloseWake
    <3>3. thread' = "done" /\ ~failed' =>
            sawStop' /\ \A i \in taken' + 1 .. Len(stream') : stream'[i].kind = "wake"
      BY <1>0, <2>1, <2>3, <2>4 DEF EndInv
    <3> QED BY <3>1, <3>2, <3>3 DEF EndInv
  <2> QED BY <1>0, <2>1, <2>2, <2>5, ProducerTape
<1> QED BY <1>1, <1>2, <1>4, <1>6, <1>7, <1>8, <1>9 DEF Producer, Put, Rotate, Close

(* The thread: the queue stays as it is but for the item taken. *)
LEMMA ThreadTape ==
  ASSUME SinkInv, TapeInv, UNCHANGED producerVars, UNCHANGED closer,
         Tidy(w', LastTaken', Held', rotations), Clean(w'), Saved(w'), EndInv', Counted'
  PROVE  TapeInv'
<1>1. LineInv'
  BY LineSimple DEF SinkInv, TapeInv, LineInv, producerVars, Closed, QueueInv, CountsOK
<1>2. Tidy(w, LastTaken, Held, rotations)'
  BY DEF producerVars
<1>3. Clean(w)' /\ Saved(w)'
  OBVIOUS
<1> QED BY <1>1, <1>2, <1>3 DEF TapeInv, LineInv

(* A step of the thread that takes no item. *)
LEMMA IdleTape ==
  ASSUME SinkInv, TapeInv, UNCHANGED producerVars, UNCHANGED <<closer, taken, failed, stopping>>,
         SoundState(w'), Kept(w, w', 0),
         \/ thread' # "done" /\ sawStop' \in {sawStop, stopping}
         \/ sawStop /\ sawStop' /\ QueueLen = 0 /\ w'.file = NoFile
  PROVE  TapeInv'
<1>1. LastTaken' = LastTaken /\ Held' = Held /\ Handed' = Handed
  BY DEF producerVars, LastTaken, Held, Handed
<1>2. Tidy(w', LastTaken, Held, rotations)
  BY TidyKept DEF SinkInv, TapeInv
<1>3. Clean(w') /\ Saved(w')
  BY DEF TapeInv, Kept
<1>4. Total(w') = Total(w)
  <2>1. Total(w') = Total(w) + 0 /\ Total(w) \in Nat
    BY SoundCounts DEF Kept, SinkInv
  <2> QED BY <2>1
<1>5. Counted'
  BY <1>1, <1>4 DEF TapeInv, Counted, Total
<1>6. EndInv'
  <2>1. failed => w'.faults > 0
    BY SoundCounts DEF TapeInv, EndInv, Kept, SinkInv
  <2>2. QueueLen = 0 => taken + 1 .. Len(stream) = {}
    BY DEF QueueLen, SinkInv, QueueInv, CountsOK
  <2>3. stream' = stream
    BY DEF producerVars
  <2> QED BY <2>1, <2>2, <2>3 DEF TapeInv, EndInv
<1> QED BY <1>1, <1>2, <1>3, <1>5, <1>6, ThreadTape

LEMMA ThreadStep == ASSUME SinkInv, TapeInv, SinkInv', Run \/ FlushIntervalPasses PROVE TapeInv'
<1>0. /\ QueueInv /\ LineInv /\ EndInv /\ SoundState(w) /\ Tidy(w, LastTaken, Held, rotations)
      /\ Clean(w) /\ Saved(w) /\ hour \in Hours /\ SoundState(w')
  BY DEF SinkInv, TapeInv, LineInv, QueueInv, CountsOK
<1>1. CASE ReadStopping
  <2>1. /\ UNCHANGED producerVars /\ UNCHANGED <<closer, taken, failed, stopping, w>>
        /\ thread' # "done" /\ sawStop' = stopping
    BY <1>1 DEF ReadStopping
  <2> QED BY <1>0, <2>1, KeptReflexive, IdleTape
<1>2. CASE GetTimesOut
  <2>1. /\ UNCHANGED producerVars /\ UNCHANGED <<closer, taken, failed, stopping, sawStop>>
        /\ thread' # "done" /\ w' \in Tick(w)
    BY <1>2 DEF GetTimesOut
  <2> QED BY <1>0, <2>1, TickKept, IdleTape
<1>3. CASE Drained
  <2>1. /\ UNCHANGED producerVars /\ UNCHANGED <<closer, taken, failed, stopping, sawStop>>
        /\ sawStop /\ QueueLen = 0 /\ w' \in CloseWriter(w)
    BY <1>3 DEF Drained
  <2> QED BY <1>0, <2>1, CloseWriterKept, IdleTape
<1>4. CASE FlushIntervalPasses
  <2>1. /\ UNCHANGED producerVars /\ UNCHANGED <<closer, taken, failed, stopping, sawStop, thread>>
        /\ w' = [w EXCEPT !.flushDue = TRUE] /\ w.file # NoFile
    BY <1>4 DEF FlushIntervalPasses
  <2>2. /\ w'.disk = w.disk /\ w'.file = w.file /\ Total(w') = Total(w) /\ w'.faults = w.faults
        /\ w'.dirty = w.dirty
    BY <1>0, <2>1 DEF SoundState, Writers, Total
  <2>3. Total(w') = Total(w) + 0 /\ w.faults <= w'.faults
    BY <1>0, <2>2, SoundCounts
  <2>4. Kept(w, w', 0)
    BY <1>0, <2>2, <2>3, KeptSameDisk
  <2>5. thread # "done"
    BY <1>0, <2>1 DEF EndInv
  <2> QED BY <1>0, <2>1, <2>4, <2>5, IdleTape
<1>5. ASSUME GetItem \/ GetItemFails PROVE Takes /\ UNCHANGED producerVars /\ UNCHANGED <<closer, stopping, sawStop>>
  BY <1>0, <1>5 DEF GetItem, GetItemFails, Takes, producerVars, QueueLen, QueueInv, CountsOK
<1>6. CASE GetItem
  <2> DEFINE it == stream[taken + 1]
             n == IF IsRecord(it) THEN 1 ELSE 0
  <2>1. PICK s \in Handled(w, it) : w' \in Tick(s)
    BY <1>6 DEF GetItem
  <2>2. After(w, s, n)
    BY <1>0, <1>5, <1>6, <2>1, HandledTape
  <2>3. SoundState(s) /\ Kept(s, w', 0)
    BY <2>1, <2>2, TickKept DEF After
  <2>4. Tidy(w', LastTaken', Held', rotations)
    BY <1>0, <2>2, <2>3, TidyKept DEF After
  <2>5. Clean(w') /\ Saved(w')
    BY <1>0, <2>2, <2>3 DEF After, Kept
  <2>6. w.faults <= w'.faults /\ Total(w') = Total(w) + n
    <3>1. Total(w) \in Nat /\ Total(s) \in Nat /\ Total(w') \in Nat
          /\ w.faults \in Nat /\ s.faults \in Nat /\ w'.faults \in Nat
      BY <1>0, <2>3, SoundCounts
    <3>2. Total(s) = Total(w) + n /\ w.faults <= s.faults
      BY <2>2 DEF After
    <3>3. Total(w') = Total(s) + 0 /\ s.faults <= w'.faults
      BY <2>3 DEF Kept
    <3>4. n \in Nat
      OBVIOUS
    <3> HIDE DEF n
    <3> QED BY <3>1, <3>2, <3>3, <3>4
  <2>7. EndInv'
    BY <1>0, <1>5, <1>6, <2>6, SoundCounts DEF EndInv, GetItem
  <2>8. Counted'
    <3>1. Total(w) \in Nat /\ (~failed => Total(w) = Cardinality(Handed))
      BY <1>0, SoundCounts DEF TapeInv, Counted, Total
    <3>2. /\ Cardinality(Handed) \in Nat
          /\ IsRecord(it) => Cardinality(Handed') = Cardinality(Handed) + 1
          /\ ~IsRecord(it) => Handed' = Handed
      BY <1>0, <1>5, <1>6, CountTaken
    <3>3. failed' = failed
      BY <1>6 DEF GetItem
    <3>4. ASSUME ~failed PROVE Total(w') = Cardinality(Handed')
      <4>1. CASE IsRecord(it)
        BY <2>6, <3>1, <3>2, <3>4, <4>1
      <4>2. CASE ~IsRecord(it)
        <5>1. Total(w') = Total(w) + 0 /\ Handed' = Handed
          BY <2>6, <3>2, <4>2
        <5> QED BY <3>1, <3>4, <5>1
      <4> QED BY <4>1, <4>2
    <3> QED BY <3>3, <3>4 DEF Counted, Total
  <2> QED BY <1>0, <1>5, <1>6, <2>4, <2>5, <2>7, <2>8, ThreadTape
<1>7. CASE GetItemFails
  <2> DEFINE it == stream[taken + 1]
             n == IF IsRecord(it) THEN 1 ELSE 0
  <2>1. PICK s \in {w} \cup Handled(w, it) : w' \in CloseWriter(Fault(s))
    BY <1>7 DEF GetItemFails
  <2>2. SoundState(s) /\ Clean(s) /\ \E b \in Nat : \E A : b <= LastTaken' /\ LastTaken' \in Nat /\ Tidy(s, b, A, rotations)
    <3>1. CASE s = w
      BY <1>0, <1>5, <1>7, <3>1, ViewTaken
    <3>2. CASE s \in Handled(w, it)
      <4>1. After(w, s, n)
        BY <1>0, <1>5, <1>7, <3>2, HandledTape
      <4>2. LastTaken' \in Nat /\ LastTaken' <= LastTaken'
        BY <1>0, <1>5, <1>7, ViewTaken
      <4> QED BY <4>1, <4>2 DEF After
    <3> QED BY <2>1, <3>1, <3>2
  <2>11. PICK b \in Nat : \E A : b <= LastTaken' /\ LastTaken' \in Nat /\ Tidy(s, b, A, rotations)
    BY <2>2
  <2>3. PICK A : b <= LastTaken' /\ LastTaken' \in Nat /\ Tidy(s, b, A, rotations)
    BY <2>11
  <2>4. SoundState(Fault(s)) /\ Kept(s, Fault(s), 0) /\ Fault(s).faults > 0
    BY <2>2, FaultKept
  <2>5. Kept(Fault(s), w', 0) /\ w'.file = NoFile
    BY <2>1, <2>4, CloseWriterKept
  <2>6. Tidy(w', b, A, rotations)
    BY <1>0, <2>2, <2>3, <2>4, <2>5, TidyKept
  <2>7. Tidy(w', LastTaken', Held', rotations)
    BY <1>0, <2>3, <2>5, <2>6, TidyWeaker
  <2>8. w'.faults > 0
    BY <1>0, <2>4, <2>5, SoundCounts DEF Kept
  <2>9. Clean(w') /\ Saved(w') /\ Counted'
    BY <1>7, <2>5, <2>8 DEF Clean, Saved, Counted, GetItemFails
  <2>10. EndInv'
    BY <1>0, <1>5, <1>7, <2>5, <2>8 DEF EndInv, GetItemFails
  <2> QED BY <1>0, <1>5, <1>7, <2>7, <2>9, <2>10, ThreadTape
<1> QED BY <1>1, <1>2, <1>3, <1>4, <1>6, <1>7 DEF Run

(* A crash cuts every file at or behind what was flushed. *)
LEMMA CrashFiles ==
  ASSUME SoundState(w), Crash
  PROVE  /\ w'.file = NoFile /\ Total(w') = 0 /\ Len(w'.disk) = Len(w.disk)
         /\ \A i \in 1 .. Len(w.disk) :
              /\ w'.disk[i].durable = Len(w'.disk[i].recs)
              /\ \A k \in 1 .. Len(w'.disk[i].recs) :
                   k \in 1 .. Len(w.disk[i].recs) /\ w'.disk[i].recs[k] = w.disk[i].recs[k]
<1>1. PICK disk \in [DOMAIN w.disk -> UNION {Survivors(w.disk[i]) : i \in DOMAIN w.disk}] :
        /\ \A i \in DOMAIN w.disk : disk[i] \in Survivors(w.disk[i])
        /\ w' = FreshWriter(disk, w.faults)
  BY DEF Crash
<1>2. w'.disk = disk /\ w'.file = NoFile /\ Total(w') = 0
  BY <1>1 DEF FreshWriter, Total
<1>3. DOMAIN disk = 1 .. Len(w.disk) /\ DOMAIN w.disk = 1 .. Len(w.disk) /\ Len(w.disk) \in Nat
  BY <1>1 DEF SoundState, SoundDisk
<1>4. Len(disk) = Len(w.disk)
  BY <1>3
<1>5. ASSUME NEW i \in 1 .. Len(w.disk)
      PROVE  /\ disk[i].durable = Len(disk[i].recs)
             /\ \A k \in 1 .. Len(disk[i].recs) :
                  k \in 1 .. Len(w.disk[i].recs) /\ disk[i].recs[k] = w.disk[i].recs[k]
  <2> DEFINE f == w.disk[i]
  <2>1. f \in Segments /\ f.durable <= Len(f.recs)
    BY DEF SoundState, SoundDisk, SoundFile
  <2>2. PICK n \in f.durable .. Len(f.recs) :
          disk[i] = [f EXCEPT !.recs = SubSeq(@, 1, n), !.durable = n]
    BY <1>1, <1>3 DEF Survivors
  <2>3. f.recs \in Seq(Items) /\ n \in Nat /\ n <= Len(f.recs) /\ Len(f.recs) \in Nat
    BY <2>1, <2>2 DEF Segments
  <2>4. /\ Len(SubSeq(f.recs, 1, n)) = n /\ \A k \in 1 .. n : SubSeq(f.recs, 1, n)[k] = f.recs[k]
    BY <2>3, SubSeqProperties
  <2>5. disk[i].recs = SubSeq(f.recs, 1, n) /\ disk[i].durable = n
    BY <2>1, <2>2 DEF Segments
  <2> HIDE DEF f
  <2>6. \A k \in 1 .. n : k \in 1 .. Len(f.recs)
    BY <2>3
  <2> QED BY <2>4, <2>5, <2>6 DEF f
<1> QED BY <1>2, <1>4, <1>5

LEMMA CrashTape == ASSUME SinkInv, TapeInv, SinkInv', Crash PROVE TapeInv'
<1>0. /\ QueueInv /\ LineInv /\ SoundState(w) /\ Tidy(w, LastTaken, Held, rotations)
      /\ SoundState(w') /\ puts \in Nat /\ rotations \in SUBSET Nat
  BY DEF SinkInv, TapeInv, LineInv, QueueInv, CountsOK
<1>1. /\ Len(stream') = 0 /\ taken' = 0 /\ base' = puts /\ puts' = puts /\ rotations' = rotations
      /\ lastQueuedRotate' = FALSE /\ thread' = "off" /\ sawStop' = FALSE /\ stopping' = FALSE
      /\ failed' = FALSE
  BY EmptySeq DEF Crash
<1>2. LineInv'
  BY <1>0, <1>1 DEF LineInv, Ascending, MarkersInPlace, InPlace
<1>3. Tidy(w, puts, Held, rotations)
  BY <1>0, LastTakenBelow, TidyWeaker
<1>4. LastTaken' = puts
  BY <1>1 DEF LastTaken
<1>5. /\ IdsUpTo(w'.disk, puts) /\ OrderedWithin(w'.disk) /\ Separated(w'.disk, rotations)
  <2>1. ASSUME NEW i \in 1 .. Len(w'.disk), NEW k \in 1 .. Len(w'.disk[i].recs)
        PROVE  /\ i \in 1 .. Len(w.disk) /\ k \in 1 .. Len(w.disk[i].recs)
               /\ w'.disk[i].recs[k] = w.disk[i].recs[k]
    BY <1>0, CrashFiles
  <2>2. IdsUpTo(w'.disk, puts)
    BY <1>3, <2>1 DEF Tidy, IdsUpTo
  <2>3. OrderedWithin(w'.disk)
    BY <1>3, <2>1 DEF Tidy, OrderedWithin
  <2>4. ASSUME NEW i \in 1 .. Len(w'.disk), NEW n \in rotations,
               NEW k \in 1 .. Len(w'.disk[i].recs), NEW l \in 1 .. Len(w'.disk[i].recs),
               w'.disk[i].recs[k].kind = "record", w'.disk[i].recs[l].kind = "record",
               w'.disk[i].recs[k].id <= n
        PROVE  w'.disk[i].recs[l].id <= n
    <3>1. /\ i \in 1 .. Len(w.disk)
          /\ k \in 1 .. Len(w.disk[i].recs) /\ w'.disk[i].recs[k] = w.disk[i].recs[k]
      BY <2>1
    <3>2. l \in 1 .. Len(w.disk[i].recs) /\ w'.disk[i].recs[l] = w.disk[i].recs[l]
      BY <2>1
    <3>3. Separated(w.disk, rotations)
      BY <1>3 DEF Tidy
    <3> QED BY <2>4, <3>1, <3>2, <3>3 DEF Separated
  <2>5. Separated(w'.disk, rotations)
    BY <2>4 DEF Separated
  <2> QED BY <2>2, <2>3, <2>5
<1>6. OrderedAcross(w'.disk)
  <2>1. ASSUME NEW i \in 1 .. Len(w'.disk), NEW j \in 1 .. Len(w'.disk), i < j,
               NEW k \in 1 .. Len(w'.disk[i].recs), NEW l \in 1 .. Len(w'.disk[j].recs),
               w'.disk[i].recs[k].kind = "record", w'.disk[j].recs[l].kind = "record"
        PROVE  w'.disk[i].recs[k].id < w'.disk[j].recs[l].id
    <3>1. /\ i \in 1 .. Len(w.disk) /\ j \in 1 .. Len(w.disk)
          /\ k \in 1 .. Len(w.disk[i].recs) /\ w'.disk[i].recs[k] = w.disk[i].recs[k]
          /\ l \in 1 .. Len(w.disk[j].recs) /\ w'.disk[j].recs[l] = w.disk[j].recs[l]
      BY <1>0, CrashFiles
    <3> QED BY <1>3, <2>1, <3>1 DEF Tidy, OrderedAcross
  <2> QED BY <2>1 DEF OrderedAcross
<1>7. Tidy(w, LastTaken, Held, rotations)'
  BY <1>0, <1>1, <1>4, <1>5, <1>6, CrashFiles DEF Tidy, HoldsOnly
<1>8. Clean(w)' /\ Saved(w)' /\ EndInv'
  BY <1>0, <1>1, CrashFiles DEF Clean, Saved, EndInv
<1>9. Counted'
  <2>1. Handed' = {}
    BY <1>1 DEF Handed
  <2> QED BY <1>0, <2>1, CrashFiles, FS_EmptySet DEF Counted, Total
<1> QED BY <1>2, <1>7, <1>8, <1>9 DEF TapeInv, LineInv

LEMMA TapeStep == ASSUME TapeSound, [Next]_vars PROVE TapeSound'
<1>1. SinkInv'
  BY SinkStep DEF TapeSound
<1>2. CASE UNCHANGED vars
  BY <1>1, <1>2 DEF TapeSound, TapeInv, vars, producerVars, threadVars, Ascending, MarkersInPlace,
     LastTaken, Held, EndInv, Counted, Handed, Closed
<1>3. CASE Producer \/ WallClock
  BY <1>1, <1>3, ProducerStep DEF TapeSound
<1>4. CASE Run \/ FlushIntervalPasses
  BY <1>1, <1>4, ThreadStep DEF TapeSound
<1>5. CASE Crash
  BY <1>1, <1>5, CrashTape DEF TapeSound
<1> QED BY <1>2, <1>3, <1>4, <1>5 DEF Next, Env

LEMMA TapeAlways == Spec => []TapeSound
<1>1. Init => TapeSound
  BY SinkInitially, TapeInitially DEF TapeSound
<1> QED BY <1>1, TapeStep, PTL DEF Spec

(* _open, _write and _close_writer: for every number of faults, crashes, clock
   steps and rotations, the tape read in file order has the records in put
   order, none of them twice. *)
THEOREM TapeAlwaysOrdered == Spec => []TapeOrder
<1>1. TapeSound => TapeOrder
  <2>1. SUFFICES ASSUME TapeSound PROVE TapeOrder
    OBVIOUS
  <2>2. /\ DOMAIN w.disk = 1 .. Len(w.disk) /\ OrderedWithin(w.disk) /\ OrderedAcross(w.disk)
        /\ \A i \in 1 .. Len(w.disk) : DOMAIN w.disk[i].recs = 1 .. Len(w.disk[i].recs)
    <3>1. \A i \in 1 .. Len(w.disk) : w.disk[i] \in Segments
      BY <2>1 DEF TapeSound, SinkInv, SoundState, SoundDisk, SoundFile
    <3>2. \A i \in 1 .. Len(w.disk) : w.disk[i].recs \in Seq(Items)
      BY <3>1 DEF Segments
    <3> QED BY <2>1, <3>2 DEF TapeSound, SinkInv, SoundState, SoundDisk, TapeInv, Tidy
  <2>3. ASSUME NEW i \in 1 .. Len(w.disk)
        PROVE  \A a, b \in DOMAIN w.disk[i].recs :
                 /\ a < b /\ w.disk[i].recs[a].kind = "record" /\ w.disk[i].recs[b].kind = "record"
                 => w.disk[i].recs[a].id < w.disk[i].recs[b].id
    BY <2>2 DEF OrderedWithin
  <2>4. ASSUME NEW i \in 1 .. Len(w.disk), NEW j \in 1 .. Len(w.disk), i < j,
               NEW a \in RecordIds(w.disk[i].recs), NEW b \in RecordIds(w.disk[j].recs)
        PROVE  a < b
    <3>1. PICK k \in 1 .. Len(w.disk[i].recs) :
            w.disk[i].recs[k].kind = "record" /\ a = w.disk[i].recs[k].id
      BY <2>2 DEF RecordIds
    <3>2. PICK l \in 1 .. Len(w.disk[j].recs) :
            w.disk[j].recs[l].kind = "record" /\ b = w.disk[j].recs[l].id
      BY <2>2 DEF RecordIds
    <3> QED BY <2>2, <2>4, <3>1, <3>2 DEF OrderedAcross
  <2> QED BY <2>2, <2>3, <2>4 DEF TapeOrder
<1> QED BY <1>1, TapeAlways, PTL

(* rotate, put and close: no file holds records from both sides of a rotate
   call, whatever delayed, merged or postponed its marker. *)
THEOREM RotationAlwaysSeparates == Spec => []RotationSeparates
<1>1. TapeSound => RotationSeparates
  <2>1. SUFFICES ASSUME TapeSound PROVE RotationSeparates
    OBVIOUS
  <2>2. /\ DOMAIN w.disk = 1 .. Len(w.disk) /\ Separated(w.disk, rotations)
        /\ \A i \in 1 .. Len(w.disk) : DOMAIN w.disk[i].recs = 1 .. Len(w.disk[i].recs)
    <3>1. \A i \in 1 .. Len(w.disk) : w.disk[i] \in Segments
      BY <2>1 DEF TapeSound, SinkInv, SoundState, SoundDisk, SoundFile
    <3>2. \A i \in 1 .. Len(w.disk) : w.disk[i].recs \in Seq(Items)
      BY <3>1 DEF Segments
    <3> QED BY <2>1, <3>2 DEF TapeSound, SinkInv, SoundState, SoundDisk, TapeInv, Tidy
  <2> QED BY <2>2 DEF RotationSeparates, Separated, RecordIds
<1> QED BY <1>1, TapeAlways, PTL

(* SinkStats and _dirty: every record taken is counted once, as written or as
   lost, and an open file that is not dirty is flushed to its end. *)
THEOREM CountersAlwaysExact == Spec => []CountersExact
<1>1. TapeSound => CountersExact
  BY DEF TapeSound, TapeInv, Counted, Handed, Clean, CountersExact
<1> QED BY <1>1, TapeAlways, PTL

(* close: once the thread has ended and nothing failed, no record is left on
   the queue and every record it wrote is flushed. *)
THEOREM DrainedAlwaysAtEnd == Spec => []DrainedAtEnd
<1>1. TapeSound => DrainedAtEnd
  <2>1. SUFFICES ASSUME TapeSound, thread = "done", w.faults = 0
                 PROVE  /\ \A i \in taken + 1 .. Len(stream) : stream[i].kind = "wake"
                        /\ w.file = NoFile
                        /\ \A i \in DOMAIN w.disk : w.disk[i].durable = Len(w.disk[i].recs)
    BY DEF DrainedAtEnd
  <2>2. ~failed
    BY <2>1 DEF TapeSound, TapeInv, EndInv
  <2>3. DOMAIN w.disk = 1 .. Len(w.disk)
    BY <2>1 DEF TapeSound, SinkInv, SoundState, SoundDisk
  <2> QED BY <2>1, <2>2, <2>3 DEF TapeSound, TapeInv, EndInv, Saved, NoFile
<1> QED BY <1>1, TapeAlways, PTL
=============================================================================
