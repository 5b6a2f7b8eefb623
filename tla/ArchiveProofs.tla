---------------------------- MODULE ArchiveProofs ----------------------------
(***************************************************************************)
(* Proofs about Archive: for every set of hours, names and tables, every   *)
(* grace, retention and bound, a segment that is gone was recorded as      *)
(* pruned, and every step of the archive is a step of HourStore.           *)
(***************************************************************************)
EXTENDS Archive, FiniteSetTheorems, SequenceTheorems, WellFoundedInduction, TLAPS

-----------------------------------------------------------------------------
(* The least element of a set of naturals, which the code's sorted() starts with. *)

Less == {pair \in Nat \X Nat : pair[1] < pair[2]}

LEMMA LessWellFounded == IsWellFoundedOn(Less, Nat)
  BY NatLessThanWellFounded DEF OpToRel, Less

LEMMA MinIn == ASSUME NEW S \in SUBSET Nat, S # {} PROVE Min(S) \in S
<1>1. PICK x \in S : \A y \in S : ~(<<y, x>> \in Less)
  BY LessWellFounded, WFMin
<1>2. ASSUME NEW y \in S PROVE x =< y
  <2>1. x \in Nat /\ y \in Nat /\ <<y, x>> \in Nat \X Nat
    OBVIOUS
  <2>2. ~(<<y, x>> \in Less)
    BY <1>1
  <2>3. ~(y < x)
    BY <2>1, <2>2 DEF Less
  <2> QED BY <2>1, <2>3
<1> QED BY <1>2, Zenon DEF Min

-----------------------------------------------------------------------------
(* Types. *)

Bakes ==
  [pc : {"idle", "next", "list", "read", "reading", "swap", "record"}, ver : Versions,
   todo : SUBSET Hours, hour : Hours \cup {0}, names : SUBSET Names, file : SUBSET Files,
   segs : SUBSET Files, table : Tables]

Prunes == [pc : {"idle", "record", "unlink"}, segs : SUBSET Entries]

Spents == [back : Nat, stops : Nat, faults : Nat]

InHour == bake.pc \notin {"idle", "next"}

ClockType ==
  /\ now \in 0 .. MaxNow /\ version \in Versions
  /\ spent \in Spents

TapeType ==
  /\ raw \in [Hours -> SUBSET Files]
  /\ tape \in Seq(Entries) /\ Len(tape) <= MaxFiles /\ open \in 0 .. Len(tape)

PartsType == parts \in [Hours -> [Tables -> SUBSET (Rows \cup {Rot})]]

ManifestType == manifest \in [hours : [Hours -> HourBakes], pruned : SUBSET Entries]

BakeType == bake \in Bakes /\ (InHour => bake.hour \in Hours)

PruneType == prune \in Prunes

Types == ClockType /\ TapeType /\ PartsType /\ ManifestType /\ BakeType /\ PruneType

LockInv == (bake.pc # "idle" <=> lock = "bake") /\ (prune.pc # "idle" <=> lock = "prune")

LEMMA Constants ==
  /\ Hours \subseteq Nat /\ Names \subseteq Nat /\ 1 \in Tables /\ Tables \subseteq Nat
  /\ Grace \in Nat /\ Retention \in Nat /\ MaxNow \in Nat /\ MaxFiles \in Nat
  /\ MaxRecords \in Nat \ {0} /\ MaxBack \in Nat /\ MaxTroubles \in Nat
  /\ Versions = 1 .. MaxTroubles + 1 /\ 1 \in Versions
<1>1. Cardinality(Tables) \in Nat
  BY ArchiveAssumption, FS_CardinalityType
<1>2. Tables = 1 .. Cardinality(Tables) /\ Tables # {}
  BY ArchiveAssumption
<1> QED BY <1>1, <1>2, ArchiveAssumption DEF Versions

LEMMA SpentMore ==
  ASSUME NEW s \in Spents
  PROVE  /\ [s EXCEPT !.back = @ + 1] \in Spents /\ [s EXCEPT !.stops = @ + 1] \in Spents
         /\ [s EXCEPT !.faults = @ + 1] \in Spents
  BY DEF Spents

LEMMA ClockTypeStep == ASSUME Types, [Next]_vars PROVE ClockType'
<1> USE Constants DEF Types, ClockType
<1>1. CASE RecorderWrites \/ RecorderCloses \/ BakeIsRun \/ Bake \/ PruneStarts \/ Prune
  BY <1>1 DEF RecorderWrites, RecorderCloses, BakeIsRun, BakeStarts, Bake, BakeTakesHour,
     BakeLists, BakeOpensSegment, BakeReadsSegment, BakeMovesOldAside, BakeMovesNewIn, BakeRecords,
     BakeEnds, PruneStarts, Prune, PruneRecords, PruneUnlinks, PruneEnds
<1>2. CASE ClockAdvances
  BY <1>2 DEF ClockAdvances
<1>3. CASE ClockStepsBack
  <2>1. now' \in 0 .. MaxNow /\ version' \in Versions
    BY <1>3 DEF ClockStepsBack
  <2>2. spent' = [spent EXCEPT !.back = @ + 1]
    BY <1>3 DEF ClockStepsBack
  <2> QED BY <2>1, <2>2, SpentMore
<1>4. CASE BakeHourFails \/ BakeCrashes \/ PruneStops
  <2>1. now' \in 0 .. MaxNow /\ version' \in Versions
    BY <1>4 DEF BakeHourFails, BakeCrashes, PruneStops
  <2>2. spent' = [spent EXCEPT !.stops = @ + 1]
    BY <1>4 DEF BakeHourFails, BakeCrashes, PruneStops, Stopped
  <2> QED BY <2>1, <2>2, SpentMore
<1>7. CASE \E h \in Hours, t \in Tables : PartsDamaged(h, t)
  <2>1. now' \in 0 .. MaxNow /\ version' \in Versions
    BY <1>7 DEF PartsDamaged
  <2>2. spent' = [spent EXCEPT !.faults = @ + 1]
    BY <1>7 DEF PartsDamaged
  <2> QED BY <2>1, <2>2, SpentMore
<1>5. CASE Deploy
  BY <1>5 DEF Deploy, Trouble, Spents
<1>6. CASE UNCHANGED vars
  BY <1>6 DEF vars
<1> QED BY <1>1, <1>2, <1>3, <1>4, <1>5, <1>6, <1>7 DEF Next

LEMMA Opened ==
  ASSUME NEW h \in Hours, NEW bad \in BOOLEAN, raw \in [Hours -> SUBSET Files], OpenFile(h, bad),
         tape \in Seq(Entries)
  PROVE  \E f \in Files : /\ f.name \notin NamesIn(raw[h]) /\ f.id = Len(tape) + 1 /\ f.n = 1
                          /\ Len(tape) < MaxFiles
                          /\ raw' = [raw EXCEPT ![h] = @ \cup {f}]
                          /\ tape' = Append(tape, [hour |-> h, file |-> f])
                          /\ open' = f.id
<1> DEFINE name == Min(Names \ NamesIn(raw[h]))
           f == [name |-> name, id |-> Len(tape) + 1, n |-> 1, bad |-> bad]
<1>1. name \in Names \ NamesIn(raw[h])
  BY Constants, MinIn DEF OpenFile
<1>2. Len(tape) \in Nat /\ Len(tape) < MaxFiles
  BY LenProperties DEF OpenFile
<1>3. f \in Files
  BY <1>1, <1>2, Constants DEF Files, Ids
<1>4. /\ raw' = [raw EXCEPT ![h] = @ \cup {f}]
      /\ tape' = Append(tape, [hour |-> h, file |-> f])
      /\ open' = f.id
  BY DEF OpenFile
<1> QED BY <1>1, <1>2, <1>3, <1>4

LEMMA OneMore ==
  ASSUME NEW f \in Files, f.n < MaxRecords
  PROVE  LET g == [f EXCEPT !.n = @ + 1]
         IN g \in Files /\ g.name = f.name /\ g.id = f.id /\ g.bad = f.bad /\ g.n = f.n + 1
<1> DEFINE g == [f EXCEPT !.n = @ + 1]
<1>1. g.name = f.name /\ g.id = f.id /\ g.bad = f.bad /\ g.n = f.n + 1
  BY DEF Files
<1>2. f.n + 1 \in 1 .. MaxRecords
  BY Constants DEF Files
<1>3. g \in Files
  BY <1>2 DEF Files
<1> QED BY <1>1, <1>3

LEMMA Appended ==
  ASSUME NEW h \in Hours, NEW f \in Files, f.id \in 1 .. Len(tape), tape \in Seq(Entries),
         tape[f.id] = [hour |-> h, file |-> f], AppendTo(h, f)
  PROVE  \E g \in Files : /\ g.name = f.name /\ g.id = f.id /\ g.bad = f.bad /\ g.n = f.n + 1
                          /\ f.id = open /\ open' = open
                          /\ raw' = [raw EXCEPT ![h] = (@ \ {f}) \cup {g}]
                          /\ tape' = [tape EXCEPT ![f.id] = [hour |-> h, file |-> g]]
<1> DEFINE g == [f EXCEPT !.n = @ + 1]
<1>1. g \in Files /\ g.name = f.name /\ g.id = f.id /\ g.bad = f.bad /\ g.n = f.n + 1
  BY OneMore DEF AppendTo
<1>2. f.id = open /\ open' = open /\ raw' = [raw EXCEPT ![h] = (@ \ {f}) \cup {g}]
  BY DEF AppendTo
<1>3. [tape[f.id] EXCEPT !.file = g] = [hour |-> h, file |-> g]
  BY DEF Files
<1>4. tape' = [tape EXCEPT ![f.id].file = g]
  BY DEF AppendTo
<1>5. tape' = [tape EXCEPT ![f.id] = [hour |-> h, file |-> g]]
  BY <1>3, <1>4
<1> QED BY <1>1, <1>2, <1>5

-----------------------------------------------------------------------------
(* The segment files.  Two files of an hour have different names, and each is on
   the tape as it is on disk. *)

SingleNames(files) == \A f, g \in files : f.name = g.name => f = g

OnTape(h, f) == f.id \in 1 .. Len(tape) /\ tape[f.id] = [hour |-> h, file |-> f]

RawInv ==
  /\ \A h \in Hours : SingleNames(raw[h])
  /\ \A h \in Hours : \A f \in raw[h] : OnTape(h, f)
  /\ \A i \in 1 .. Len(tape) : tape[i].file.id = i
  /\ open # 0 => tape[open].hour = now

Replaced(files, i, g) == {f \in files : f.id # i} \cup {g}

(* What RecorderWrites does: i is a new entry of the tape or the open one, whose
   file g takes the place of the one it was. *)
WritesTape(i, h, g) ==
  /\ i \in 1 .. Len(tape) + 1 /\ i \in 1 .. Len(tape') /\ Len(tape) <= Len(tape')
  /\ Len(tape') <= MaxFiles
  /\ tape' \in Seq(Entries)
  /\ tape'[i] = [hour |-> h, file |-> g]
  /\ \A j \in 1 .. Len(tape') : j # i => j \in 1 .. Len(tape) /\ tape'[j] = tape[j]

WritesFile(i, h, g) ==
  /\ open' = i
  /\ i \in 1 .. Len(tape) => /\ i = open /\ tape[i].file \in raw[h] /\ tape[i].file.n < g.n
                             /\ tape[i].hour = h /\ tape[i].file.name = g.name
  /\ i \notin 1 .. Len(tape) => \A f \in raw[h] : f.name # g.name
  /\ raw' = [raw EXCEPT ![h] = Replaced(raw[h], i, g)]

Writes(i, h, g) ==
  h = now /\ h \in Hours /\ g \in Files /\ g.id = i /\ WritesTape(i, h, g) /\ WritesFile(i, h, g)

LEMMA WritesOne ==
  ASSUME TapeType, RawInv, RecorderWrites
  PROVE  \E i, h, g : Writes(i, h, g)
<1>1. now \in Hours /\ raw[now] \in SUBSET Files /\ tape \in Seq(Entries) /\ Len(tape) \in Nat
  BY LenProperties DEF RecorderWrites, TapeType
<1>4. SingleNames(raw[now]) /\ \A f \in raw[now] : OnTape(now, f)
  BY <1>1 DEF RawInv
<1>5. ASSUME NEW f \in raw[now] PROVE f.id \in 1 .. Len(tape) /\ tape[f.id].file = f /\ tape[f.id].hour = now
  <2>1. OnTape(now, f)
    BY <1>4, <1>5
  <2> QED BY <2>1 DEF OnTape
<1>2. CASE open = 0
  <2>1. PICK bad \in BOOLEAN : OpenFile(now, bad)
    BY <1>2 DEF RecorderWrites
  <2>2. PICK f \in Files : /\ f.name \notin NamesIn(raw[now]) /\ f.id = Len(tape) + 1 /\ f.n = 1
                           /\ Len(tape) < MaxFiles
                           /\ raw' = [raw EXCEPT ![now] = @ \cup {f}]
                           /\ tape' = Append(tape, [hour |-> now, file |-> f])
                           /\ open' = f.id
    BY <1>1, <2>1, Opened DEF TapeType
  <2>3. [hour |-> now, file |-> f] \in Entries
    BY <1>1 DEF Entries
  <2>4. /\ tape' \in Seq(Entries) /\ Len(tape') = Len(tape) + 1
        /\ \A j \in 1 .. Len(tape) : tape'[j] = tape[j]
        /\ tape'[Len(tape) + 1] = [hour |-> now, file |-> f]
    BY <1>1, <2>2, <2>3, AppendProperties
  <2>5. \A g \in raw[now] : g.name # f.name /\ g.id # f.id
    <3>1. \A g \in raw[now] : g.name \in NamesIn(raw[now])
      BY DEF NamesIn
    <3>2. \A g \in raw[now] : g.id \in 1 .. Len(tape)
      BY <1>4 DEF OnTape
    <3> QED BY <1>1, <2>2, <3>1, <3>2
  <2>6. raw' = [raw EXCEPT ![now] = Replaced(raw[now], f.id, f)]
    <3>1. Replaced(raw[now], f.id, f) = raw[now] \cup {f}
      BY <2>5 DEF Replaced
    <3> QED BY <2>2, <3>1
  <2>7. /\ Len(tape') <= MaxFiles /\ Len(tape) + 1 \in 1 .. Len(tape')
        /\ Len(tape) + 1 \notin 1 .. Len(tape)
        /\ \A j \in 1 .. Len(tape') : j # Len(tape) + 1 => j \in 1 .. Len(tape)
    BY <1>1, <2>2, <2>4, Constants
  <2>8. WritesTape(f.id, now, f)
    BY <1>1, <2>2, <2>4, <2>7 DEF WritesTape
  <2>9. WritesFile(f.id, now, f)
    BY <2>2, <2>5, <2>6, <2>7 DEF WritesFile
  <2> QED BY <1>1, <2>2, <2>8, <2>9 DEF Writes
<1>3. CASE open # 0
  <2>1. PICK f \in raw[now] : AppendTo(now, f)
    BY <1>3 DEF RecorderWrites
  <2>2. f \in Files /\ f.id \in 1 .. Len(tape) /\ tape[f.id] = [hour |-> now, file |-> f]
    BY <1>1, <1>4, <2>1 DEF OnTape
  <2>3. PICK g \in Files : /\ g.name = f.name /\ g.id = f.id /\ g.bad = f.bad /\ g.n = f.n + 1
                           /\ f.id = open /\ open' = open
                           /\ raw' = [raw EXCEPT ![now] = (@ \ {f}) \cup {g}]
                           /\ tape' = [tape EXCEPT ![f.id] = [hour |-> now, file |-> g]]
    BY <1>1, <2>1, <2>2, Appended
  <2>4. [hour |-> now, file |-> g] \in Entries
    BY <1>1 DEF Entries
  <2>5. /\ tape' \in Seq(Entries) /\ Len(tape') = Len(tape)
        /\ \A j \in 1 .. Len(tape) : tape'[j] = IF j = f.id THEN [hour |-> now, file |-> g] ELSE tape[j]
    BY <1>1, <2>2, <2>3, <2>4, ExceptSeq
  <2>6. \A e \in raw[now] : e.id = f.id => e = f
    BY <1>5
  <2>7. raw' = [raw EXCEPT ![now] = Replaced(raw[now], f.id, g)]
    <3>1. Replaced(raw[now], f.id, g) = (raw[now] \ {f}) \cup {g}
      BY <2>6, <2>1 DEF Replaced
    <3> QED BY <2>3, <3>1
  <2>8. f.n \in Nat /\ tape[f.id].file = f /\ tape[f.id].hour = now
    BY <1>5, <2>2, Constants DEF Files
  <2>9. f.n < g.n /\ f.id \in 1 .. Len(tape) + 1 /\ Len(tape) <= MaxFiles
    BY <1>1, <2>2, <2>3, <2>8, Constants DEF TapeType
  <2>10. WritesTape(f.id, now, g)
    BY <1>1, <2>2, <2>5, <2>9 DEF WritesTape
  <2>11. WritesFile(f.id, now, g)
    BY <2>1, <2>2, <2>3, <2>7, <2>8, <2>9 DEF WritesFile
  <2> QED BY <1>1, <2>3, <2>10, <2>11 DEF Writes
<1> QED BY <1>2, <1>3

LEMMA WritesKept ==
  ASSUME TapeType, RawInv, now' = now, NEW i, NEW h, NEW g, Writes(i, h, g)
  PROVE  TapeType' /\ RawInv'
<1>1. /\ h = now /\ h \in Hours /\ g \in Files /\ g.id = i /\ open' = i
      /\ raw \in [Hours -> SUBSET Files] /\ raw' = [raw EXCEPT ![h] = Replaced(raw[h], i, g)]
      /\ tape' \in Seq(Entries) /\ Len(tape') \in Nat /\ Len(tape) \in Nat
      /\ Len(tape) <= Len(tape')
  BY LenProperties DEF Writes, WritesTape, WritesFile, TapeType
<1>2. /\ i \in 1 .. Len(tape') /\ tape'[i] = [hour |-> h, file |-> g] /\ Len(tape') <= MaxFiles
      /\ \A j \in 1 .. Len(tape') : j # i => j \in 1 .. Len(tape) /\ tape'[j] = tape[j]
  BY DEF Writes, WritesTape
<1>3. Replaced(raw[h], i, g) \in SUBSET Files
  BY <1>1 DEF Replaced
<1>4. TapeType'
  BY <1>1, <1>2, <1>3 DEF TapeType
<1>5. ASSUME NEW f \in raw[h], f.id # i PROVE f.name # g.name
  <2>1. SingleNames(raw[h])
    BY <1>1 DEF RawInv
  <2>2. CASE i \in 1 .. Len(tape)
    <3>1. tape[i].file \in raw[h] /\ tape[i].file.name = g.name /\ tape[i].file.id = i
      BY <2>2 DEF Writes, WritesFile, RawInv
    <3> QED BY <1>5, <2>1, <3>1 DEF SingleNames
  <2> QED BY <2>2 DEF Writes, WritesFile
<1>6. ASSUME NEW k \in Hours PROVE SingleNames(raw'[k])
  <2>1. SingleNames(raw[k])
    BY DEF RawInv
  <2>2. CASE k = h
    <3>1. raw'[k] = Replaced(raw[h], i, g)
      BY <1>1, <2>2
    <3>2. \A f \in raw'[k] : f = g \/ (f \in raw[h] /\ f.name # g.name)
      BY <3>1, <1>5 DEF Replaced
    <3> QED BY <2>1, <2>2, <3>2 DEF SingleNames
  <2>3. CASE k # h
    BY <1>1, <2>1, <2>3
  <2> QED BY <2>2, <2>3
<1>7. ASSUME NEW k \in Hours, NEW f \in raw'[k]
      PROVE  f.id \in 1 .. Len(tape') /\ tape'[f.id] = [hour |-> k, file |-> f]
  <2>1. CASE k = h /\ f = g
    BY <1>1, <1>2, <2>1
  <2>2. CASE f \in raw[k]
    <3>1. f.id \in 1 .. Len(tape) /\ tape[f.id] = [hour |-> k, file |-> f]
      BY <2>2 DEF RawInv, OnTape
    <3>2. CASE f.id # i
      BY <1>1, <1>2, <3>1, <3>2
    <3>3. CASE f.id = i /\ f # g
      <4>1. k = h
        <5>1. tape[i].hour = h
          BY <3>1, <3>3 DEF Writes, WritesFile
        <5> QED BY <3>1, <3>3, <5>1
      <4> QED BY <1>1, <1>7, <3>3, <4>1 DEF Replaced
    <3>4. CASE f.id = i /\ f = g
      <4>1. tape[i].file.n < g.n
        BY <3>1, <3>4 DEF Writes, WritesFile
      <4>2. tape[i].file = g /\ g.n \in Int
        BY <1>1, <3>1, <3>4, Constants DEF Files
      <4> QED BY <4>1, <4>2
    <3> QED BY <3>2, <3>3, <3>4
  <2> QED BY <1>1, <1>7, <2>1, <2>2 DEF Replaced
<1>8. \A j \in 1 .. Len(tape') : tape'[j].file.id = j
  BY <1>1, <1>2 DEF RawInv
<1>9. tape'[open'].hour = now'
  BY <1>1, <1>2
<1> QED BY <1>4, <1>6, <1>7, <1>8, <1>9 DEF RawInv, OnTape

LEMMA FewerFiles ==
  ASSUME TapeType, RawInv, UNCHANGED tape, raw' \in [Hours -> SUBSET Files],
         \A h \in Hours : raw'[h] \subseteq raw[h],
         open' = 0 \/ UNCHANGED <<open, now>>
  PROVE  TapeType' /\ RawInv'
<1>1. TapeType'
  BY LenProperties DEF TapeType
<1>2. \A h \in Hours : SingleNames(raw'[h])
  BY DEF RawInv, SingleNames
<1>3. \A h \in Hours : \A f \in raw'[h] : OnTape(h, f)
  BY DEF RawInv
<1>4. \A i \in 1 .. Len(tape) : tape[i].file.id = i
  BY DEF RawInv
<1>5. open' # 0 => tape[open'].hour = now'
  BY DEF RawInv
<1> QED BY <1>1, <1>2, <1>3, <1>4, <1>5 DEF RawInv, OnTape

LEMMA RawStep ==
  ASSUME Types, RawInv, [Next]_vars
  PROVE  TapeType' /\ RawInv'
<1>0. TapeType /\ raw \in [Hours -> SUBSET Files]
  BY DEF Types, TapeType
<1>1. CASE RecorderWrites
  <2>1. UNCHANGED now
    BY <1>1 DEF RecorderWrites
  <2> QED BY <1>0, <1>1, <2>1, WritesOne, WritesKept
<1>2. CASE RecorderCloses \/ ClockAdvances \/ ClockStepsBack
  BY <1>0, <1>2, FewerFiles DEF RecorderCloses, ClockAdvances, ClockStepsBack
<1>3. CASE BakeIsRun \/ Bake \/ BakeHourFails \/ BakeCrashes
  BY <1>0, <1>3, FewerFiles DEF BakeIsRun, BakeStarts, Bake, BakeTakesHour,
     BakeLists, BakeOpensSegment, BakeReadsSegment, BakeMovesOldAside, BakeMovesNewIn, BakeRecords,
     BakeEnds, BakeHourFails, BakeCrashes
<1>4. CASE PruneStarts \/ PruneRecords \/ PruneEnds \/ PruneStops
  BY <1>0, <1>4, FewerFiles DEF PruneStarts, PruneRecords, PruneEnds, PruneStops
<1>5. ASSUME NEW p \in prune.segs, PruneUnlinks(p) PROVE TapeType' /\ RawInv'
  <2>1. /\ raw' = [raw EXCEPT ![p.hour] = {f \in @ : f.name # p.file.name}]
        /\ UNCHANGED <<tape, open, now>>
    BY <1>5 DEF PruneUnlinks
  <2>2. p.hour \in Hours
    BY DEF Types, PruneType, Prunes, Entries
  <2>3. {f \in raw[p.hour] : f.name # p.file.name} \subseteq raw[p.hour]
    OBVIOUS
  <2>4. raw' \in [Hours -> SUBSET Files] /\ \A h \in Hours : raw'[h] \subseteq raw[h]
    BY <1>0, <2>1, <2>2, <2>3
  <2> QED BY <1>0, <2>1, <2>4, FewerFiles
<1>6. CASE (\E h \in Hours, t \in Tables : PartsDamaged(h, t)) \/ Deploy
  BY <1>0, <1>6, FewerFiles DEF PartsDamaged, Deploy
<1>7. CASE UNCHANGED vars
  BY <1>0, <1>7, FewerFiles DEF vars
<1> QED BY <1>1, <1>2, <1>3, <1>4, <1>5, <1>6, <1>7 DEF Next, Prune

-----------------------------------------------------------------------------
(* tape bake: what each of its steps leaves in the record of the running command. *)

LEMMA IdleBakeType == IdleBake \in Bakes
  BY Constants DEF IdleBake, Bakes

LEMMA LeftType ==
  ASSUME BakeType, BakeLeavesHour
  PROVE  /\ bake' \in Bakes /\ bake'.pc = "next" /\ bake'.segs = {} /\ bake'.file = {}
         /\ bake'.names = {} /\ bake'.ver = bake.ver
<1>1. bake.ver \in Versions /\ bake.todo \ {bake.hour} \in SUBSET Hours
  BY DEF BakeType, Bakes
<1>2. bake' = [pc |-> "next", ver |-> bake.ver, todo |-> bake.todo \ {bake.hour}, hour |-> 0,
               names |-> {}, file |-> {}, segs |-> {}, table |-> 1]
  BY DEF BakeLeavesHour, IdleBake
<1> QED BY <1>1, <1>2, Constants DEF Bakes

LEMMA TakesHourType ==
  ASSUME BakeType, BakeTakesHour
  PROVE  LET h == Min(bake.todo)
         IN /\ h \in Hours
            /\ bake' = IF HasPruned(h) THEN [bake EXCEPT !.todo = @ \ {h}]
                       ELSE [bake EXCEPT !.pc = "list", !.hour = h]
            /\ bake' \in Bakes
<1> DEFINE h == Min(bake.todo)
<1>1. bake.todo \in SUBSET Hours /\ bake.todo # {}
  BY DEF BakeType, Bakes, BakeTakesHour
<1>2. h \in Hours
  BY <1>1, Constants, MinIn
<1>3. bake' = IF HasPruned(h) THEN [bake EXCEPT !.todo = @ \ {h}]
              ELSE [bake EXCEPT !.pc = "list", !.hour = h]
  BY DEF BakeTakesHour
<1>4. bake.todo \ {h} \in SUBSET Hours
  BY <1>1
<1> HIDE DEF h
<1>5. bake' \in Bakes
  BY <1>2, <1>3, <1>4 DEF BakeType, Bakes
<1> QED BY <1>2, <1>3, <1>5 DEF h

LEMMA BakeTypeStep == ASSUME Types, [Next]_vars PROVE BakeType'
<1> USE DEF BakeType, InHour
<1>0. BakeType /\ version \in Versions
  BY DEF Types, ClockType
<1>1. CASE RecorderWrites \/ RecorderCloses \/ ClockAdvances \/ ClockStepsBack
  BY <1>0, <1>1 DEF RecorderWrites, RecorderCloses, ClockAdvances, ClockStepsBack
<1>2. CASE BakeIsRun
  <2>1. PICK force \in BOOLEAN, hours \in {Hours} \cup {{h} : h \in Hours} : BakeStarts(force, hours)
    BY <1>2 DEF BakeIsRun
  <2>2. HoursToBake(force) \cap hours \in SUBSET Hours
    BY DEF HoursToBake
  <2>3. bake' = [IdleBake EXCEPT !.pc = "next", !.ver = version,
                                 !.todo = HoursToBake(force) \cap hours]
    BY <2>1 DEF BakeStarts
  <2>4. bake' \in Bakes /\ bake'.pc = "next"
    BY <1>0, <2>2, <2>3, IdleBakeType DEF Bakes, IdleBake
  <2> QED BY <2>4
<1>3. CASE BakeTakesHour
  <2>1. bake.pc = "next"
    BY <1>3 DEF BakeTakesHour
  <2> DEFINE h == Min(bake.todo)
  <2>2. /\ h \in Hours /\ bake' \in Bakes
        /\ bake' = IF HasPruned(h) THEN [bake EXCEPT !.todo = @ \ {h}]
                   ELSE [bake EXCEPT !.pc = "list", !.hour = h]
    BY <1>0, <1>3, TakesHourType
  <2> HIDE DEF h
  <2>3. bake'.pc = "next" \/ bake'.hour = h
    BY <1>0, <2>1, <2>2 DEF Bakes
  <2> QED BY <2>2, <2>3
<1>4. CASE BakeLists
  <2>1. NamesIn(raw[bake.hour]) \in SUBSET Names
    BY <1>0, <1>4 DEF BakeLists, NamesIn, Types, TapeType, Files
  <2>2. bake' = [bake EXCEPT !.pc = "read", !.names = NamesIn(raw[bake.hour])] /\ bake.pc = "list"
    BY <1>4 DEF BakeLists
  <2> QED BY <1>0, <2>1, <2>2 DEF Bakes
<1>5. CASE BakeOpensSegment
  <2> DEFINE f == {g \in raw[bake.hour] : g.name = Min(bake.names)}
  <2>1. bake.pc = "read" /\ f \in SUBSET Files
    BY <1>0, <1>5 DEF BakeOpensSegment, Types, TapeType
  <2>2. BakeLeavesHour \/ bake' = [bake EXCEPT !.pc = "reading", !.file = f]
    BY <1>5 DEF BakeOpensSegment
  <2> HIDE DEF f
  <2>3. CASE bake' = [bake EXCEPT !.pc = "reading", !.file = f]
    BY <1>0, <2>1, <2>3 DEF Bakes
  <2> QED BY <1>0, <2>2, <2>3, LeftType
<1>6. CASE BakeReadsSegment
  <2> DEFINE least == Min(bake.names)
  <2>1. BakeLeavesHour \/ bake' = [bake EXCEPT !.pc = "read", !.names = @ \ {least}, !.file = {},
                                               !.segs = @ \cup bake.file]
    BY <1>6 DEF BakeReadsSegment
  <2>2. bake.pc = "reading"
    BY <1>6 DEF BakeReadsSegment
  <2> HIDE DEF least
  <2>3. CASE bake' = [bake EXCEPT !.pc = "read", !.names = @ \ {least}, !.file = {},
                                  !.segs = @ \cup bake.file]
    BY <1>0, <2>2, <2>3 DEF Bakes
  <2> QED BY <1>0, <2>1, <2>3, LeftType
<1>7. CASE BakeMovesOldAside
  BY <1>0, <1>7 DEF BakeMovesOldAside, BakeGoesTo, Bakes
<1>8. CASE BakeMovesNewIn
  BY <1>0, <1>8 DEF BakeMovesNewIn, Bakes
<1>9. CASE BakeRecords \/ BakeHourFails
  BY <1>0, <1>9, LeftType DEF BakeRecords, BakeHourFails
<1>10. CASE BakeEnds \/ BakeCrashes
  BY <1>10, IdleBakeType DEF BakeEnds, BakeCrashes, IdleBake
<1>11. CASE PruneStarts \/ Prune \/ PruneStops
  BY <1>0, <1>11 DEF PruneStarts, Prune, PruneRecords, PruneUnlinks, PruneEnds, PruneStops
<1>12. CASE (\E h \in Hours, t \in Tables : PartsDamaged(h, t)) \/ Deploy
  BY <1>0, <1>12 DEF PartsDamaged, Deploy
<1>13. CASE UNCHANGED vars
  BY <1>0, <1>13 DEF vars
<1> QED BY <1>1, <1>2, <1>3, <1>4, <1>5, <1>6, <1>7, <1>8, <1>9, <1>10, <1>11, <1>12, <1>13
        DEF Next, Bake

-----------------------------------------------------------------------------
(* What was read of a segment stays something the tape holds: a file only grows. *)

Past(f) == f.id \in 1 .. Len(tape) /\ f.n <= tape[f.id].file.n

LEMMA OnlyTheRecorderWrites ==
  ASSUME [Next]_vars, ~RecorderWrites
  PROVE  UNCHANGED tape
<1> USE DEF vars
<1>1. CASE BakeIsRun \/ Bake \/ BakeHourFails \/ BakeCrashes
  BY <1>1 DEF BakeIsRun, BakeStarts, Bake, BakeTakesHour, BakeLists, BakeOpensSegment,
     BakeReadsSegment, BakeMovesOldAside, BakeMovesNewIn, BakeRecords, BakeEnds, BakeHourFails,
     BakeCrashes
<1>2. CASE PruneStarts \/ Prune \/ PruneStops
  BY <1>2 DEF PruneStarts, Prune, PruneRecords, PruneUnlinks, PruneEnds, PruneStops
<1>3. CASE RecorderCloses \/ ClockAdvances \/ ClockStepsBack \/ Deploy
  BY <1>3 DEF RecorderCloses, ClockAdvances, ClockStepsBack, Deploy
<1>4. CASE \E h \in Hours, t \in Tables : PartsDamaged(h, t)
  BY <1>4 DEF PartsDamaged
<1> QED BY <1>1, <1>2, <1>3, <1>4 DEF Next

LEMMA PastStep ==
  ASSUME TapeType, RawInv, [Next]_vars, NEW f \in Files, Past(f)
  PROVE  Past(f)'
<1>1. CASE RecorderWrites
  <2>1. PICK i, h, g : Writes(i, h, g)
    BY <1>1, WritesOne
  <2>2. /\ tape'[i] = [hour |-> h, file |-> g] /\ g \in Files /\ Len(tape) <= Len(tape')
        /\ Len(tape) \in Nat /\ Len(tape') \in Nat
        /\ \A j \in 1 .. Len(tape') : j # i => tape'[j] = tape[j]
        /\ i \in 1 .. Len(tape) => tape[i].file.n < g.n
    BY <2>1, LenProperties DEF Writes, WritesTape, WritesFile, TapeType
  <2>3. f.id \in 1 .. Len(tape) /\ f.n <= tape[f.id].file.n
    BY DEF Past
  <2>4. tape[f.id].file \in Files
    <3>1. tape[f.id] \in Entries
      BY <2>3, ElementOfSeq DEF TapeType
    <3> QED BY <3>1 DEF Entries
  <2>5. f.n \in Int /\ g.n \in Int /\ tape[f.id].file.n \in Int
    BY <2>2, <2>4, Constants DEF Files
  <2>6. f.n <= tape'[f.id].file.n
    <3>1. CASE f.id = i
      BY <2>2, <2>3, <2>5, <3>1
    <3>2. CASE f.id # i
      BY <2>2, <2>3, <3>2
    <3> QED BY <3>1, <3>2
  <2> QED BY <2>2, <2>3, <2>6 DEF Past
<1>2. CASE ~RecorderWrites
  BY <1>2, OnlyTheRecorderWrites DEF Past
<1> QED BY <1>1, <1>2

LEMMA OnDiskIsPast ==
  ASSUME TapeType, RawInv, NEW h \in Hours, NEW f \in raw[h]
  PROVE  Past(f)
<1>1. OnTape(h, f) /\ f \in Files
  BY DEF RawInv, TapeType
<1>2. tape[f.id].file = f /\ f.n \in Int
  BY <1>1, Constants DEF OnTape, Files
<1> QED BY <1>1, <1>2 DEF OnTape, Past

-----------------------------------------------------------------------------
(* The hour that tape bake reads.  It takes the names in their order, each once, so
   the segments it has read have different names. *)

ReadInv ==
  /\ bake.pc \in {"idle", "next", "list"} => bake.segs = {} /\ bake.file = {}
  /\ SingleNames(bake.segs) /\ SingleNames(bake.file)
  /\ \A f \in bake.segs : f.name \notin bake.names
  /\ bake.pc = "reading" => bake.names # {} /\ \A f \in bake.file : f.name = Min(bake.names)
  /\ \A f \in bake.segs \cup bake.file : Past(f)

LEMMA NothingRead ==
  ASSUME bake'.segs = {}, bake'.file = {}, bake'.pc # "reading"
  PROVE  ReadInv'
  BY DEF ReadInv, SingleNames

LEMMA SameRead ==
  ASSUME Types, RawInv, ReadInv, [Next]_vars, UNCHANGED <<bake.segs, bake.file, bake.names>>,
         bake'.pc \in {"idle", "next", "list"} => bake.pc \in {"idle", "next", "list"},
         bake'.pc = "reading" => bake.pc = "reading"
  PROVE  ReadInv'
<1>1. \A f \in bake.segs \cup bake.file : Past(f)'
  BY PastStep DEF ReadInv, Types, BakeType, Bakes
<1> QED BY <1>1 DEF ReadInv, SingleNames

LEMMA ReadStep == ASSUME Types, RawInv, ReadInv, [Next]_vars PROVE ReadInv'
<1>0. BakeType /\ bake \in Bakes /\ TapeType
  BY DEF Types, BakeType
<1>1. CASE UNCHANGED bake
  BY <1>1, SameRead
<1>2. CASE BakeIsRun \/ BakeEnds \/ BakeCrashes
  <2> DEFINE started(todo) == [IdleBake EXCEPT !.pc = "next", !.ver = version, !.todo = todo]
  <2>1. bake' = IdleBake \/ \E todo : bake' = started(todo)
    BY <1>2, Zenon DEF BakeIsRun, BakeStarts, BakeEnds, BakeCrashes
  <2>2. /\ IdleBake.segs = {} /\ IdleBake.file = {} /\ IdleBake.pc = "idle"
        /\ \A todo : /\ started(todo).segs = {} /\ started(todo).file = {}
                     /\ started(todo).pc = "next"
    BY DEF IdleBake
  <2> HIDE DEF started
  <2>3. bake'.segs = {} /\ bake'.file = {} /\ bake'.pc # "reading"
    BY <2>1, <2>2
  <2> QED BY <2>3, NothingRead
<1>3. CASE BakeLeavesHour
  BY <1>0, <1>3, LeftType, NothingRead
<1>4. CASE BakeTakesHour
  <2> DEFINE h == Min(bake.todo)
  <2>1. bake' = IF HasPruned(h) THEN [bake EXCEPT !.todo = @ \ {h}]
                ELSE [bake EXCEPT !.pc = "list", !.hour = h]
    BY <1>0, <1>4, TakesHourType
  <2>2. bake.pc = "next" /\ bake.segs = {} /\ bake.file = {}
    BY <1>4 DEF BakeTakesHour, ReadInv
  <2> HIDE DEF h
  <2>3. bake'.segs = {} /\ bake'.file = {} /\ bake'.pc # "reading"
    BY <1>0, <2>1, <2>2 DEF Bakes
  <2> QED BY <2>3, NothingRead
<1>5. CASE BakeLists
  <2>1. bake.pc = "list" /\ bake.segs = {} /\ bake.file = {}
    BY <1>5 DEF BakeLists, ReadInv
  <2>2. bake'.segs = {} /\ bake'.file = {} /\ bake'.pc = "read"
    BY <1>0, <1>5, <2>1 DEF BakeLists, Bakes
  <2> QED BY <2>2, NothingRead
<1>6. CASE BakeOpensSegment /\ ~BakeLeavesHour
  <2> DEFINE file == {g \in raw[bake.hour] : g.name = Min(bake.names)}
  <2>1. bake.pc = "read" /\ bake.names # {} /\ bake' = [bake EXCEPT !.pc = "reading", !.file = file]
    BY <1>6 DEF BakeOpensSegment
  <2>2. \A g \in file : g \in raw[bake.hour] /\ g.name = Min(bake.names)
    OBVIOUS
  <2> HIDE DEF file
  <2>3. bake.hour \in Hours
    BY <1>0, <2>1 DEF BakeType, InHour
  <2>4. SingleNames(file)
    BY <2>2, <2>3 DEF RawInv, SingleNames
  <2>5. \A g \in file : g \in Files /\ Past(g)
    BY <1>0, <2>2, <2>3, OnDiskIsPast DEF TapeType
  <2>6. \A g \in file : Past(g)'
    BY <1>0, <2>5, PastStep
  <2>7. \A g \in bake.segs : Past(g)'
    BY <1>0, PastStep DEF ReadInv, Bakes
  <2>8. /\ bake'.pc = "reading" /\ bake'.file = file /\ bake'.segs = bake.segs
        /\ bake'.names = bake.names
    BY <1>0, <2>1 DEF Bakes
  <2> QED BY <2>1, <2>2, <2>4, <2>6, <2>7, <2>8 DEF ReadInv
<1>7. CASE BakeReadsSegment /\ ~BakeLeavesHour
  <2> DEFINE least == Min(bake.names)
  <2>1. /\ bake.pc = "reading"
        /\ bake' = [bake EXCEPT !.pc = "read", !.names = @ \ {least}, !.file = {},
                                !.segs = @ \cup bake.file]
    BY <1>7 DEF BakeReadsSegment
  <2>2. least \in bake.names
    BY <1>0, <2>1, Constants, MinIn DEF ReadInv, Bakes
  <2>3. \A f \in bake.file : f.name = least
    BY <2>1 DEF ReadInv
  <2> HIDE DEF least
  <2>4. /\ bake'.pc = "read" /\ bake'.file = {} /\ bake'.segs = bake.segs \cup bake.file
        /\ bake'.names = bake.names \ {least}
    BY <1>0, <2>1 DEF Bakes
  <2>5. \A f \in bake'.segs : Past(f)'
    BY <1>0, <2>4, PastStep DEF ReadInv, Bakes
  <2>6. SingleNames(bake'.segs)
    BY <2>2, <2>3, <2>4 DEF ReadInv, SingleNames
  <2>7. \A f \in bake'.segs : f.name \notin bake'.names
    BY <2>3, <2>4 DEF ReadInv
  <2> QED BY <2>4, <2>5, <2>6, <2>7 DEF ReadInv, SingleNames
<1>8. CASE BakeMovesOldAside
  <2>1. /\ bake.pc = "read" /\ bake'.pc = "swap" /\ bake'.file = bake.file
        /\ bake'.segs = bake.segs /\ bake'.names = bake.names
    BY <1>0, <1>8 DEF BakeMovesOldAside, BakeGoesTo, Bakes
  <2> QED BY <2>1, SameRead
<1>9. CASE BakeMovesNewIn
  <2>1. /\ bake.pc = "swap" /\ bake'.pc \in {"read", "record"} /\ bake'.file = bake.file
        /\ bake'.segs = bake.segs /\ bake'.names = bake.names
    BY <1>0, <1>9 DEF BakeMovesNewIn, Bakes
  <2> QED BY <2>1, SameRead
<1>10. CASE BakeRecords \/ BakeHourFails
  BY <1>3, <1>10 DEF BakeRecords, BakeHourFails
<1>11. CASE RecorderWrites \/ RecorderCloses \/ ClockAdvances \/ ClockStepsBack \/ Deploy
  BY <1>1, <1>11 DEF RecorderWrites, RecorderCloses, ClockAdvances, ClockStepsBack, Deploy
<1>12. CASE PruneStarts \/ Prune \/ PruneStops \/ UNCHANGED vars
  BY <1>1, <1>12 DEF PruneStarts, Prune, PruneRecords, PruneUnlinks, PruneEnds, PruneStops, vars
<1>13. CASE \E h \in Hours, t \in Tables : PartsDamaged(h, t)
  BY <1>1, <1>13 DEF PartsDamaged
<1> QED BY <1>2, <1>3, <1>4, <1>5, <1>6, <1>7, <1>8, <1>9, <1>10, <1>11, <1>12, <1>13
        DEF Next, Bake

-----------------------------------------------------------------------------
(* The part files, the manifest and the lock. *)

PartsInv ==
  /\ \A h \in Hours, t \in Tables : \A r \in parts[h][t] : r = Rot \/ Past(r.file)
  /\ bake.pc = "swap" => parts[bake.hour][bake.table] = {}

LEMMA BakedRowsPast ==
  ASSUME Types, ReadInv
  PROVE  BakedRows \in SUBSET Rows /\ \A r \in BakedRows : r.file \in bake.segs /\ Past(r.file)
<1>1. bake.ver \in Versions /\ bake.segs \in SUBSET Files
  BY DEF Types, BakeType, Bakes
<1>2. \A f \in bake.segs : Past(f)
  BY DEF ReadInv
<1> QED BY <1>1, <1>2 DEF BakedRows, Rows

(* A step that puts the set into the place of one table's part files. *)
PutsParts(h, t, set) == parts' = [parts EXCEPT ![h][t] = set]

LEMMA PartsPut ==
  ASSUME PartsType, NEW h \in Hours, NEW t \in Tables, NEW set \in SUBSET (Rows \cup {Rot}),
         PutsParts(h, t, set)
  PROVE  /\ PartsType'
         /\ \A k \in Hours, u \in Tables :
              parts'[k][u] = IF k = h /\ u = t THEN set ELSE parts[k][u]
<1>1. parts' = [parts EXCEPT ![h] = [parts[h] EXCEPT ![t] = set]]
  BY DEF PutsParts
<1>2. parts[h] \in [Tables -> SUBSET (Rows \cup {Rot})]
  BY DEF PartsType
<1> DEFINE row == [parts[h] EXCEPT ![t] = set]
<1>3. row \in [Tables -> SUBSET (Rows \cup {Rot})] /\ \A u \in Tables : row[u] = IF u = t THEN set ELSE parts[h][u]
  BY <1>2
<1>4. parts' = [parts EXCEPT ![h] = row]
  BY <1>1
<1> HIDE DEF row
<1>5. PartsType'
  BY <1>3, <1>4 DEF PartsType
<1>6. \A k \in Hours : parts'[k] = IF k = h THEN row ELSE parts[k]
  BY <1>4 DEF PartsType
<1> QED BY <1>3, <1>5, <1>6

LEMMA PastRows ==
  ASSUME Types, RawInv, PartsInv, [Next]_vars, NEW h \in Hours, NEW t \in Tables,
         NEW r \in parts[h][t]
  PROVE  r = Rot \/ Past(r.file)'
<1>1. r = Rot \/ (r \in Rows /\ Past(r.file))
  BY DEF Types, PartsType, PartsInv
<1>2. CASE r \in Rows /\ Past(r.file)
  BY <1>2, PastStep DEF Rows, Types
<1> QED BY <1>1, <1>2

LEMMA PartsKept ==
  ASSUME Types, RawInv, PartsInv, [Next]_vars, UNCHANGED parts, bake'.pc # "swap" \/ UNCHANGED bake
  PROVE  PartsType' /\ PartsInv'
<1>1. PartsType'
  BY DEF Types, PartsType
<1>2. \A h \in Hours, t \in Tables : \A r \in parts[h][t] : r = Rot \/ Past(r.file)'
  BY PastRows
<1>3. \A h \in Hours, t \in Tables : \A r \in parts'[h][t] : r = Rot \/ Past(r.file)'
  BY <1>2
<1>4. bake'.pc = "swap" => parts'[bake'.hour][bake'.table] = {}
  BY DEF PartsInv
<1> QED BY <1>1, <1>3, <1>4 DEF PartsInv

LEMMA PartsStep == ASSUME Types, RawInv, ReadInv, PartsInv, [Next]_vars PROVE PartsType' /\ PartsInv'
<1>0. PartsType /\ BakeType /\ bake \in Bakes
  BY DEF Types, BakeType
<1>1. CASE BakeMovesOldAside
  <2> DEFINE h == bake.hour
             t == bake.table
  <2>1. h \in Hours /\ t \in Tables
    BY <1>0, <1>1 DEF BakeMovesOldAside, BakeType, InHour, Bakes
  <2>2. PutsParts(h, t, {}) /\ bake' = [bake EXCEPT !.pc = "swap"]
    BY <1>1 DEF BakeMovesOldAside, BakeGoesTo, PutsParts
  <2>3. bake'.hour = h /\ bake'.table = t
    BY <1>0, <2>2 DEF Bakes
  <2> HIDE DEF h, t
  <2>4. /\ PartsType'
        /\ \A k \in Hours, u \in Tables :
             parts'[k][u] = IF k = h /\ u = t THEN {} ELSE parts[k][u]
    BY <1>0, <2>1, <2>2, PartsPut
  <2>5. \A k \in Hours, u \in Tables : \A r \in parts'[k][u] : r = Rot \/ Past(r.file)'
    BY <2>4, PastRows
  <2>6. parts'[bake'.hour][bake'.table] = {}
    BY <2>1, <2>3, <2>4
  <2> QED BY <2>4, <2>5, <2>6 DEF PartsInv
<1>2. CASE BakeMovesNewIn
  <2> DEFINE h == bake.hour
             t == bake.table
  <2>1. h \in Hours /\ t \in Tables
    BY <1>0, <1>2 DEF BakeMovesNewIn, BakeType, InHour, Bakes
  <2>2. PutsParts(h, t, BakedRows) /\ bake'.pc # "swap"
    BY <1>0, <1>2 DEF BakeMovesNewIn, PutsParts, Bakes
  <2>3. BakedRows \in SUBSET (Rows \cup {Rot})
    BY BakedRowsPast
  <2> HIDE DEF h, t
  <2>4. /\ PartsType'
        /\ \A k \in Hours, u \in Tables :
             parts'[k][u] = IF k = h /\ u = t THEN BakedRows ELSE parts[k][u]
    BY <1>0, <2>1, <2>2, <2>3, PartsPut
  <2>5. \A r \in BakedRows : Past(r.file)'
    BY BakedRowsPast, PastStep DEF Types, BakeType, Bakes
  <2>6. \A k \in Hours, u \in Tables : \A r \in parts'[k][u] : r = Rot \/ Past(r.file)'
    BY <2>4, <2>5, PastRows
  <2> QED BY <2>2, <2>4, <2>6 DEF PartsInv
<1>3. ASSUME NEW h \in Hours, NEW t \in Tables, PartsDamaged(h, t) PROVE PartsType' /\ PartsInv'
  <2>1. PICK left \in {{}, {Rot}} : PutsParts(h, t, left)
    BY <1>3 DEF PartsDamaged, PutsParts
  <2>2. parts[h][t] # {} /\ UNCHANGED bake
    BY <1>3 DEF PartsDamaged
  <2>3. /\ PartsType'
        /\ \A k \in Hours, u \in Tables :
             parts'[k][u] = IF k = h /\ u = t THEN left ELSE parts[k][u]
    BY <1>0, <2>1, PartsPut
  <2>4. \A k \in Hours, u \in Tables : \A r \in parts'[k][u] : r = Rot \/ Past(r.file)'
    BY <2>3, PastRows
  <2>5. CASE bake.pc = "swap"
    <3>1. bake.hour \in Hours /\ bake.table \in Tables
      BY <1>0, <2>5 DEF BakeType, InHour, Bakes
    <3>2. parts'[bake.hour][bake.table] = {}
      BY <2>2, <2>3, <2>5, <3>1 DEF PartsInv
    <3> QED BY <2>2, <2>3, <2>4, <3>2 DEF PartsInv
  <2> QED BY <2>2, <2>3, <2>4, <2>5 DEF PartsInv
<1>4. CASE BakeLeavesHour /\ UNCHANGED parts
  BY <1>0, <1>4, LeftType, PartsKept
<1>5. CASE BakeIsRun \/ BakeEnds \/ BakeCrashes
  <2> DEFINE started(todo) == [IdleBake EXCEPT !.pc = "next", !.ver = version, !.todo = todo]
  <2>1. (bake' = IdleBake \/ \E todo : bake' = started(todo)) /\ UNCHANGED parts
    BY <1>5, Zenon DEF BakeIsRun, BakeStarts, BakeEnds, BakeCrashes
  <2>2. IdleBake.pc = "idle" /\ \A todo : started(todo).pc = "next"
    BY DEF IdleBake
  <2> HIDE DEF started
  <2> QED BY <2>1, <2>2, PartsKept
<1>6. CASE BakeTakesHour \/ BakeLists \/ ((BakeOpensSegment \/ BakeReadsSegment) /\ ~BakeLeavesHour)
  <2>1. UNCHANGED parts /\ bake.pc # "swap"
    BY <1>6 DEF BakeTakesHour, BakeLists, BakeOpensSegment, BakeReadsSegment
  <2>2. bake'.pc # "swap"
    <3>1. CASE BakeTakesHour
      BY <1>0, <3>1 DEF BakeTakesHour, Bakes
    <3>2. CASE BakeLists
      BY <1>0, <3>2 DEF BakeLists, Bakes
    <3>3. CASE BakeOpensSegment /\ ~BakeLeavesHour
      BY <1>0, <3>3 DEF BakeOpensSegment, Bakes
    <3>4. CASE BakeReadsSegment /\ ~BakeLeavesHour
      BY <1>0, <3>4 DEF BakeReadsSegment, Bakes
    <3> QED BY <1>6, <3>1, <3>2, <3>3, <3>4
  <2> QED BY <2>1, <2>2, PartsKept
<1>7. CASE BakeRecords \/ BakeHourFails \/ ((BakeOpensSegment \/ BakeReadsSegment) /\ BakeLeavesHour)
  BY <1>4, <1>7 DEF BakeRecords, BakeHourFails, BakeOpensSegment, BakeReadsSegment
<1>8. CASE RecorderWrites \/ RecorderCloses \/ ClockAdvances \/ ClockStepsBack \/ Deploy
  BY <1>8, PartsKept DEF RecorderWrites, RecorderCloses, ClockAdvances, ClockStepsBack, Deploy
<1>9. CASE PruneStarts \/ Prune \/ PruneStops \/ UNCHANGED vars
  BY <1>9, PartsKept DEF PruneStarts, Prune, PruneRecords, PruneUnlinks, PruneEnds, PruneStops, vars
<1> QED BY <1>1, <1>2, <1>3, <1>5, <1>6, <1>7, <1>8, <1>9 DEF Next, Bake

LEMMA LockStep == ASSUME Types, LockInv, [Next]_vars PROVE LockInv'
<1> USE DEF LockInv
<1>0. BakeType /\ bake \in Bakes /\ prune \in Prunes
  BY DEF Types, BakeType, PruneType
<1>1. CASE UNCHANGED <<bake, prune, lock>>
  BY <1>1
<1>2. CASE BakeIsRun
  <2> DEFINE started(todo) == [IdleBake EXCEPT !.pc = "next", !.ver = version, !.todo = todo]
  <2>1. (\E todo : bake' = started(todo)) /\ UNCHANGED prune /\ lock = "none" /\ lock' = "bake"
    BY <1>2, Zenon DEF BakeIsRun, BakeStarts, Acquire
  <2>2. \A todo : started(todo).pc = "next"
    BY DEF IdleBake
  <2> HIDE DEF started
  <2> QED BY <2>1, <2>2
<1>3. CASE (BakeEnds \/ BakeCrashes) /\ bake.pc # "idle"
  BY <1>3 DEF BakeEnds, BakeCrashes, Release, IdleBake
<1>4. CASE UNCHANGED <<prune, lock>> /\ bake.pc # "idle" /\ bake'.pc # "idle"
  BY <1>4
<1>5. CASE BakeHourFails \/ BakeRecords
  BY <1>0, <1>4, <1>5, LeftType DEF BakeHourFails, BakeRecords
<1>6. CASE BakeTakesHour \/ BakeLists
  BY <1>0, <1>4, <1>6 DEF BakeTakesHour, BakeLists, Bakes
<1>7. CASE BakeOpensSegment \/ BakeReadsSegment
  <2>1. UNCHANGED <<prune, lock>> /\ bake.pc # "idle"
    BY <1>7 DEF BakeOpensSegment, BakeReadsSegment
  <2>2. CASE BakeLeavesHour
    BY <1>0, <1>4, <2>1, <2>2, LeftType
  <2>3. CASE BakeOpensSegment /\ ~BakeLeavesHour
    BY <1>0, <1>4, <2>1, <2>3 DEF BakeOpensSegment, Bakes
  <2>4. CASE BakeReadsSegment /\ ~BakeLeavesHour
    BY <1>0, <1>4, <2>1, <2>4 DEF BakeReadsSegment, Bakes
  <2> QED BY <1>7, <2>2, <2>3, <2>4
<1>8. CASE BakeMovesOldAside \/ BakeMovesNewIn
  BY <1>0, <1>4, <1>8 DEF BakeMovesOldAside, BakeMovesNewIn, BakeGoesTo, Bakes
<1>9. CASE PruneStarts
  BY <1>9 DEF PruneStarts, Acquire
<1>10. CASE PruneEnds \/ PruneStops
  BY <1>10 DEF PruneEnds, PruneStops, Release, IdlePrune
<1>11. CASE PruneRecords
  BY <1>0, <1>11 DEF PruneRecords, Release, IdlePrune, Prunes
<1>12. ASSUME NEW p \in prune.segs, PruneUnlinks(p) PROVE LockInv'
  BY <1>0, <1>12 DEF PruneUnlinks, Prunes
<1>13. CASE RecorderWrites \/ RecorderCloses \/ ClockAdvances \/ ClockStepsBack \/ Deploy
  BY <1>1, <1>13 DEF RecorderWrites, RecorderCloses, ClockAdvances, ClockStepsBack, Deploy
<1>14. CASE (\E h \in Hours, t \in Tables : PartsDamaged(h, t)) \/ UNCHANGED vars
  BY <1>1, <1>14 DEF PartsDamaged, vars
<1>15. BakeEnds \/ BakeCrashes => bake.pc # "idle"
  BY DEF BakeEnds, BakeCrashes
<1> QED BY <1>2, <1>3, <1>5, <1>6, <1>7, <1>8, <1>9, <1>10, <1>11, <1>12, <1>13, <1>14, <1>15
        DEF Next, Bake, Prune

-----------------------------------------------------------------------------
(* What the manifest says. *)

HourInv(hourBake) ==
  /\ SingleNames(hourBake.segs)
  /\ \A f \in hourBake.segs : f.bad => hourBake.fails
  /\ \A t \in Tables : \A f \in hourBake.segs : \E r \in hourBake.parts[t] : r.file = f

ManifestInv ==
  /\ \A h \in Hours : HourInv(manifest.hours[h])
  /\ \A p \in manifest.pruned : p.file \in manifest.hours[p.hour].segs
  /\ InHour => ~HasPruned(bake.hour)

LEMMA HourPut ==
  ASSUME ManifestType, NEW h \in Hours, NEW hourBake \in HourBakes,
         manifest' = WithHour(h, hourBake)
  PROVE  /\ ManifestType' /\ manifest'.pruned = manifest.pruned
         /\ \A k \in Hours : manifest'.hours[k] = IF k = h THEN hourBake ELSE manifest.hours[k]
<1> DEFINE hours == [manifest.hours EXCEPT ![h] = hourBake]
<1>1. manifest.hours \in [Hours -> HourBakes] /\ manifest.pruned \in SUBSET Entries
  BY DEF ManifestType
<1>2. hours \in [Hours -> HourBakes] /\ \A k \in Hours : hours[k] = IF k = h THEN hourBake ELSE manifest.hours[k]
  BY <1>1
<1>3. manifest' = [manifest EXCEPT !.hours = hours]
  BY DEF WithHour
<1> HIDE DEF hours
<1>4. manifest' = [hours |-> hours, pruned |-> manifest.pruned]
  BY <1>3 DEF ManifestType
<1> QED BY <1>1, <1>2, <1>4 DEF ManifestType

LEMMA ManifestStep ==
  ASSUME Types, ReadInv, LockInv, ManifestInv, [Next]_vars
  PROVE  /\ ManifestType' /\ \A h \in Hours : HourInv(manifest'.hours[h])
         /\ \A p \in manifest'.pruned : p.file \in manifest'.hours[p.hour].segs
         /\ manifest.pruned \subseteq manifest'.pruned
         /\ manifest' # manifest => \/ bake.pc = "record" /\ manifest'.pruned = manifest.pruned
                                    \/ prune.pc = "record" /\ manifest'.hours = manifest.hours
<1>0. BakeType /\ bake \in Bakes /\ ManifestType
  BY DEF Types, BakeType
<1>1. CASE UNCHANGED manifest
  BY <1>0, <1>1 DEF ManifestInv, ManifestType
<1>2. CASE BakeRecords /\ ~HasPruned(bake.hour)
  <2> DEFINE h == bake.hour
             fails == \E f \in bake.segs : f.bad
             hourBake == [ver |-> bake.ver, fails |-> fails, segs |-> bake.segs,
                          parts |-> [t \in Tables |-> BakedRows]]
  <2>1. h \in Hours /\ bake.pc = "record" /\ manifest' = WithHour(h, hourBake)
    BY <1>0, <1>2 DEF BakeRecords, WriteManifest, BakeType, InHour
  <2>2. fails \in BOOLEAN /\ \A f \in bake.segs : f.bad => fails
    OBVIOUS
  <2> HIDE DEF fails
  <2>3. BakedRows \in SUBSET Rows /\ SingleNames(bake.segs)
    BY BakedRowsPast DEF ReadInv
  <2>4. ASSUME NEW f \in bake.segs PROVE \E r \in BakedRows : r.file = f
    <3>1. [file |-> f, ver |-> bake.ver] \in BakedRows
      BY DEF BakedRows
    <3> QED BY <3>1
  <2>5. hourBake \in HourBakes
    BY <1>0, <2>2, <2>3 DEF HourBakes, Bakes
  <2>6. HourInv(hourBake)
    BY <2>2, <2>3, <2>4 DEF HourInv
  <2> HIDE DEF hourBake
  <2>7. /\ ManifestType' /\ manifest'.pruned = manifest.pruned
        /\ \A k \in Hours : manifest'.hours[k] = IF k = h THEN hourBake ELSE manifest.hours[k]
    BY <1>0, <2>1, <2>5, HourPut
  <2>8. ASSUME NEW p \in manifest'.pruned PROVE p.file \in manifest'.hours[p.hour].segs
    <3>1. p.hour # h /\ p.hour \in Hours
      BY <1>2, <2>7, <2>8 DEF HasPruned, ManifestType, Entries
    <3> QED BY <2>7, <2>8, <3>1 DEF ManifestInv
  <2>9. \A k \in Hours : HourInv(manifest'.hours[k])
    BY <2>6, <2>7 DEF ManifestInv
  <2> QED BY <2>1, <2>7, <2>8, <2>9
<1>3. CASE PruneRecords /\ Valid(WithPruned(prune.segs))
  <2> DEFINE new == {p \in prune.segs : p.file.name \notin PrunedNames(p.hour)}
  <2>1. prune.pc = "record" /\ manifest' = [manifest EXCEPT !.pruned = @ \cup new]
    BY <1>3 DEF PruneRecords, WriteManifest, WithPruned
  <2>2. new \in SUBSET Entries
    BY DEF Types, PruneType, Prunes
  <2> HIDE DEF new
  <2>3. /\ ManifestType' /\ manifest'.hours = manifest.hours
        /\ manifest'.pruned = manifest.pruned \cup new
    BY <1>0, <2>1, <2>2 DEF ManifestType
  <2>4. \A p \in manifest'.pruned : p.file \in manifest'.hours[p.hour].segs
    <3>1. Valid(manifest')
      BY <1>3 DEF PruneRecords, WriteManifest
    <3> QED BY <3>1 DEF Valid
  <2> QED BY <2>1, <2>3, <2>4 DEF ManifestInv
<1>4. CASE BakeRecords /\ HasPruned(bake.hour)
  BY <1>1, <1>4 DEF BakeRecords
<1>5. CASE PruneRecords /\ ~Valid(WithPruned(prune.segs))
  BY <1>1, <1>5 DEF PruneRecords
<1>6. CASE BakeIsRun \/ BakeTakesHour \/ BakeLists \/ BakeOpensSegment \/ BakeReadsSegment
  BY <1>1, <1>6 DEF BakeIsRun, BakeStarts, BakeTakesHour, BakeLists, BakeOpensSegment, BakeReadsSegment
<1>7. CASE BakeMovesOldAside \/ BakeMovesNewIn \/ BakeEnds \/ BakeHourFails \/ BakeCrashes
  BY <1>1, <1>7 DEF BakeMovesOldAside, BakeMovesNewIn, BakeEnds, BakeHourFails, BakeCrashes
<1>8. CASE PruneStarts \/ (\E p \in prune.segs : PruneUnlinks(p)) \/ PruneEnds \/ PruneStops
  BY <1>1, <1>8 DEF PruneStarts, PruneUnlinks, PruneEnds, PruneStops
<1>9. CASE RecorderWrites \/ RecorderCloses \/ ClockAdvances \/ ClockStepsBack \/ Deploy
  BY <1>1, <1>9 DEF RecorderWrites, RecorderCloses, ClockAdvances, ClockStepsBack, Deploy
<1>10. CASE (\E h \in Hours, t \in Tables : PartsDamaged(h, t)) \/ UNCHANGED vars
  BY <1>1, <1>10 DEF PartsDamaged, vars
<1> QED BY <1>2, <1>3, <1>4, <1>5, <1>6, <1>7, <1>8, <1>9, <1>10 DEF Next, Bake, Prune

LEMMA NotPrunedStep ==
  ASSUME Types, ReadInv, LockInv, ManifestInv, [Next]_vars
  PROVE  InHour' => ~HasPruned(bake.hour)'
<1> USE DEF InHour
<1>0. BakeType /\ bake \in Bakes
  BY DEF Types, BakeType
<1>1. manifest.pruned # manifest'.pruned => bake.pc = "idle"
  BY ManifestStep DEF LockInv
<1>2. CASE UNCHANGED bake
  BY <1>1, <1>2 DEF ManifestInv, HasPruned
<1>3. CASE BakeIsRun \/ BakeEnds \/ BakeCrashes
  <2> DEFINE started(todo) == [IdleBake EXCEPT !.pc = "next", !.ver = version, !.todo = todo]
  <2>1. bake' = IdleBake \/ \E todo : bake' = started(todo)
    BY <1>3, Zenon DEF BakeIsRun, BakeStarts, BakeEnds, BakeCrashes
  <2>2. IdleBake.pc = "idle" /\ \A todo : started(todo).pc = "next"
    BY DEF IdleBake
  <2> HIDE DEF started
  <2> QED BY <2>1, <2>2
<1>4. CASE BakeLeavesHour
  BY <1>0, <1>4, LeftType
<1>5. CASE BakeTakesHour
  <2> DEFINE h == Min(bake.todo)
  <2>1. bake' = IF HasPruned(h) THEN [bake EXCEPT !.todo = @ \ {h}]
                ELSE [bake EXCEPT !.pc = "list", !.hour = h]
    BY <1>0, <1>5, TakesHourType
  <2>2. bake.pc = "next" /\ UNCHANGED manifest
    BY <1>5 DEF BakeTakesHour
  <2> HIDE DEF h
  <2>3. InHour' => ~HasPruned(h) /\ bake'.hour = h
    BY <1>0, <2>1, <2>2 DEF Bakes
  <2> QED BY <2>2, <2>3 DEF HasPruned
<1>6. CASE bake'.hour = bake.hour /\ InHour
  BY <1>1, <1>6 DEF ManifestInv, HasPruned
<1>7. CASE BakeLists
  BY <1>0, <1>6, <1>7 DEF BakeLists, Bakes
<1>8. CASE BakeOpensSegment /\ ~BakeLeavesHour
  BY <1>0, <1>6, <1>8 DEF BakeOpensSegment, Bakes
<1>9. CASE BakeReadsSegment /\ ~BakeLeavesHour
  BY <1>0, <1>6, <1>9 DEF BakeReadsSegment, Bakes
<1>10. CASE BakeMovesOldAside \/ BakeMovesNewIn
  BY <1>0, <1>6, <1>10 DEF BakeMovesOldAside, BakeMovesNewIn, BakeGoesTo, Bakes
<1>11. CASE BakeRecords \/ BakeHourFails
  BY <1>4, <1>11 DEF BakeRecords, BakeHourFails
<1>12. CASE RecorderWrites \/ RecorderCloses \/ ClockAdvances \/ ClockStepsBack \/ Deploy
  BY <1>2, <1>12 DEF RecorderWrites, RecorderCloses, ClockAdvances, ClockStepsBack, Deploy
<1>13. CASE PruneStarts \/ Prune \/ PruneStops \/ UNCHANGED vars
  BY <1>2, <1>13 DEF PruneStarts, Prune, PruneRecords, PruneUnlinks, PruneEnds, PruneStops, vars
<1>14. CASE \E h \in Hours, t \in Tables : PartsDamaged(h, t)
  BY <1>2, <1>14 DEF PartsDamaged
<1> QED BY <1>3, <1>4, <1>5, <1>7, <1>8, <1>9, <1>10, <1>11, <1>12, <1>13, <1>14 DEF Next, Bake

-----------------------------------------------------------------------------
(* The running tape prune: what it surveyed is still true of every segment that it
   has yet to delete. *)

Surveyed(p) ==
  /\ p.file \in raw[p.hour] /\ p.file.id # open
  /\ p.file \in manifest.hours[p.hour].segs
  /\ HeldBaked(p)

SurveyInv ==
  /\ prune.pc # "idle" => \A p \in prune.segs : Surveyed(p)
  /\ prune.pc = "unlink" => prune.segs \subseteq manifest.pruned

LEMMA PrunableIsBaked ==
  ASSUME Types, ManifestInv, NEW h \in Hours, Prunable(h), NEW f \in raw[h]
  PROVE  f \in manifest.hours[h].segs /\ HeldBaked([hour |-> h, file |-> f])
<1> DEFINE m == manifest.hours[h]
<1>1. f \in m.segs /\ ~m.fails /\ PartsMatch(h) /\ HourInv(m)
  BY DEF Prunable, SegmentsMatch, ManifestInv
<1>2. ~f.bad
  BY <1>1 DEF HourInv
<1>3. ASSUME NEW t \in Tables PROVE \E r \in parts[h][t] : r.file = f
  <2>1. PICK r \in m.parts[t] : r.file = f
    BY <1>1 DEF HourInv
  <2>2. parts[h][t] = m.parts[t]
    BY <1>1, <2>1 DEF PartsMatch
  <2> QED BY <2>1, <2>2
<1> QED BY <1>1, <1>2, <1>3 DEF HeldBaked

LEMMA PruneTypeStep == ASSUME Types, [Next]_vars PROVE PruneType'
<1> USE DEF PruneType
<1>0. prune \in Prunes /\ raw \in [Hours -> SUBSET Files]
  BY DEF Types, TapeType
<1>1. CASE UNCHANGED prune
  BY <1>0, <1>1
<1>2. CASE PruneStarts
  <2> DEFINE found == UNION {{[hour |-> h, file |-> f] : f \in raw[h]} : h \in {g \in Hours : Prunable(g)}}
  <2>1. prune' = [pc |-> "record", segs |-> found]
    BY <1>2 DEF PruneStarts
  <2>2. found \in SUBSET Entries
    BY <1>0 DEF Entries
  <2> HIDE DEF found
  <2> QED BY <2>1, <2>2 DEF Prunes
<1>3. CASE PruneRecords \/ PruneEnds \/ PruneStops
  BY <1>0, <1>3 DEF PruneRecords, PruneEnds, PruneStops, IdlePrune, Prunes
<1>4. ASSUME NEW p \in prune.segs, PruneUnlinks(p) PROVE PruneType'
  BY <1>0, <1>4 DEF PruneUnlinks, Prunes
<1>5. CASE BakeIsRun \/ Bake \/ BakeHourFails \/ BakeCrashes
  BY <1>1, <1>5 DEF BakeIsRun, BakeStarts, Bake, BakeTakesHour, BakeLists, BakeOpensSegment,
     BakeReadsSegment, BakeMovesOldAside, BakeMovesNewIn, BakeRecords, BakeEnds, BakeHourFails,
     BakeCrashes
<1>6. CASE RecorderWrites \/ RecorderCloses \/ ClockAdvances \/ ClockStepsBack \/ Deploy
  BY <1>1, <1>6 DEF RecorderWrites, RecorderCloses, ClockAdvances, ClockStepsBack, Deploy
<1>7. CASE (\E h \in Hours, t \in Tables : PartsDamaged(h, t)) \/ UNCHANGED vars
  BY <1>1, <1>7 DEF PartsDamaged, vars
<1> QED BY <1>2, <1>3, <1>4, <1>5, <1>6, <1>7 DEF Next, Prune

LEMMA SurveyedKept ==
  ASSUME Types, RawInv, NEW p \in Entries, Surveyed(p), p.file \in raw'[p.hour],
         open' = 0 \/ open' = open, manifest'.hours = manifest.hours, UNCHANGED parts
  PROVE  Surveyed(p)'
<1>1. p.file.id # 0
  BY Constants DEF Entries, Files, Ids
<1> QED BY <1>1 DEF Surveyed, HeldBaked

LEMMA SameSurvey ==
  ASSUME Types, RawInv, SurveyInv, UNCHANGED <<raw, prune, parts, manifest>>,
         open' = 0 \/ open' = open
  PROVE  SurveyInv'
<1>1. \A p \in prune.segs : p \in Entries
  BY DEF Types, PruneType, Prunes
<1>2. prune.pc # "idle" => \A p \in prune.segs : Surveyed(p)'
  BY <1>1, SurveyedKept DEF SurveyInv, Surveyed
<1> QED BY <1>2 DEF SurveyInv

LEMMA NoSurvey == ASSUME prune'.pc = "idle" PROVE SurveyInv'
  BY DEF SurveyInv

LEMMA SurveyStep ==
  ASSUME Types, RawInv, ReadInv, LockInv, ManifestInv, SurveyInv, [Next]_vars
  PROVE  SurveyInv'
<1>0. /\ prune \in Prunes /\ TapeType /\ raw \in [Hours -> SUBSET Files]
      /\ \A p \in prune.segs : p \in Entries /\ p.hour \in Hours
  BY DEF Types, PruneType, TapeType, Prunes, Entries
<1>1. CASE PruneStarts
  <2> DEFINE found == UNION {{[hour |-> h, file |-> f] : f \in raw[h]} : h \in {g \in Hours : Prunable(g)}}
  <2>1. prune' = [pc |-> "record", segs |-> found] /\ UNCHANGED <<raw, open, parts, manifest>>
    BY <1>1 DEF PruneStarts
  <2>2. ASSUME NEW h \in Hours, Prunable(h), NEW f \in raw[h]
        PROVE  Surveyed([hour |-> h, file |-> f])
    <3>1. f \in manifest.hours[h].segs /\ HeldBaked([hour |-> h, file |-> f])
      BY <2>2, PrunableIsBaked
    <3>2. OnTape(h, f)
      BY DEF RawInv
    <3>3. h + 1 + Retention < now
      BY <2>2 DEF Prunable, OutsideWindow
    <3>4. h # now
      BY <3>3, Constants DEF Types, ClockType
    <3>5. f.id # open
      BY <3>2, <3>4 DEF OnTape, RawInv
    <3> QED BY <3>1, <3>5 DEF Surveyed
  <2>3. ASSUME NEW p \in found PROVE Surveyed(p)
    <3>1. PICK h \in Hours : Prunable(h) /\ p \in {[hour |-> h, file |-> f] : f \in raw[h]}
      BY <2>3
    <3>2. PICK f \in raw[h] : p = [hour |-> h, file |-> f]
      BY <3>1
    <3> QED BY <2>2, <3>1, <3>2
  <2> HIDE DEF found
  <2>4. \A p \in found : Surveyed(p)'
    BY <2>1, <2>3 DEF Surveyed, HeldBaked
  <2> QED BY <2>1, <2>4 DEF SurveyInv
<1>2. CASE PruneRecords
  <2>1. prune.pc = "record" /\ UNCHANGED <<raw, open, parts>>
    BY <1>2 DEF PruneRecords
  <2>2. CASE prune' = IdlePrune
    BY <2>2, NoSurvey DEF IdlePrune
  <2>3. CASE Valid(WithPruned(prune.segs))
    <3> DEFINE new == {p \in prune.segs : p.file.name \notin PrunedNames(p.hour)}
    <3>1. /\ manifest' = [manifest EXCEPT !.pruned = @ \cup new]
          /\ prune' = [prune EXCEPT !.pc = "unlink"]
      BY <1>2, <2>3 DEF PruneRecords, WriteManifest, WithPruned
    <3>2. \A p \in prune.segs : p \in new \/ p.file.name \in PrunedNames(p.hour)
      OBVIOUS
    <3> HIDE DEF new
    <3>3. manifest'.hours = manifest.hours /\ manifest'.pruned = manifest.pruned \cup new
      BY <3>1 DEF Types, ManifestType
    <3>4. prune'.segs = prune.segs /\ prune'.pc = "unlink"
      BY <1>0, <3>1 DEF Prunes
    <3>5. ASSUME NEW p \in prune.segs PROVE Surveyed(p)'
      BY <1>0, <2>1, <3>3, SurveyedKept DEF SurveyInv, Surveyed
    <3>6. ASSUME NEW p \in prune.segs PROVE p \in manifest'.pruned
      <4>1. CASE p \in new
        BY <3>3, <4>1
      <4>2. CASE p.file.name \in PrunedNames(p.hour)
        <5>1. PICK q \in manifest.pruned : q.hour = p.hour /\ q.file.name = p.file.name
          BY <4>2 DEF PrunedNames
        <5>2. p.hour \in Hours /\ p \in Entries /\ q \in Entries
          BY <1>0 DEF Types, ManifestType
        <5>3. /\ q.file \in manifest.hours[p.hour].segs /\ p.file \in manifest.hours[p.hour].segs
              /\ SingleNames(manifest.hours[p.hour].segs)
          BY <2>1, <5>1, <5>2 DEF SurveyInv, Surveyed, ManifestInv, HourInv
        <5>4. q = p
          BY <5>1, <5>2, <5>3 DEF SingleNames, Entries
        <5> QED BY <3>3, <5>4
      <4> QED BY <3>2, <4>1, <4>2
    <3> QED BY <3>4, <3>5, <3>6 DEF SurveyInv
  <2> QED BY <1>2, <2>2, <2>3 DEF PruneRecords
<1>3. ASSUME NEW p \in prune.segs, PruneUnlinks(p) PROVE SurveyInv'
  <2>1. /\ prune.pc = "unlink" /\ UNCHANGED <<open, parts, manifest>>
        /\ raw' = [raw EXCEPT ![p.hour] = {f \in @ : f.name # p.file.name}]
        /\ prune' = [prune EXCEPT !.segs = @ \ {p}]
    BY <1>3 DEF PruneUnlinks
  <2>2. prune'.pc = "unlink" /\ prune'.segs = prune.segs \ {p}
    BY <1>0, <2>1 DEF Prunes
  <2>3. ASSUME NEW q \in prune.segs \ {p} PROVE q.file \in raw'[q.hour]
    <3>1. q.file \in raw[q.hour] /\ p.file \in raw[p.hour]
      BY <2>1 DEF SurveyInv, Surveyed
    <3>2. CASE q.hour # p.hour
      BY <1>0, <2>1, <3>1, <3>2
    <3>3. CASE q.hour = p.hour
      <4>1. q.file # p.file
        BY <1>0, <3>3 DEF Entries
      <4>2. q.file.name # p.file.name
        BY <1>0, <3>1, <3>3, <4>1 DEF RawInv, SingleNames
      <4> QED BY <1>0, <2>1, <3>1, <3>3, <4>2
    <3> QED BY <3>2, <3>3
  <2>4. \A q \in prune'.segs : Surveyed(q)'
    BY <1>0, <2>1, <2>2, <2>3, SurveyedKept DEF SurveyInv
  <2> QED BY <2>1, <2>2, <2>4 DEF SurveyInv
<1>4. CASE PruneEnds \/ PruneStops
  BY <1>4, NoSurvey DEF PruneEnds, PruneStops, IdlePrune
<1>5. CASE RecorderWrites
  <2>1. PICK i, h, g : Writes(i, h, g)
    BY <1>0, <1>5, WritesOne
  <2>2. UNCHANGED <<prune, parts, manifest>>
    BY <1>5 DEF RecorderWrites
  <2>3. /\ h \in Hours /\ raw' = [raw EXCEPT ![h] = Replaced(raw[h], i, g)] /\ open' = i
        /\ i \in 1 .. Len(tape) => i = open
    BY <2>1 DEF Writes, WritesFile
  <2>4. ASSUME NEW p \in prune.segs, prune.pc # "idle" PROVE Surveyed(p)'
    <3>1. Surveyed(p) /\ p \in Entries /\ p.hour \in Hours
      BY <1>0, <2>4 DEF SurveyInv
    <3>2. p.file.id \in 1 .. Len(tape)
      BY <3>1 DEF Surveyed, RawInv, OnTape
    <3>3. p.file.id # i
      BY <2>3, <3>1, <3>2 DEF Surveyed
    <3>4. p.file \in raw'[p.hour]
      BY <1>0, <2>3, <3>1, <3>3 DEF Surveyed, Replaced
    <3> QED BY <2>2, <2>3, <3>1, <3>3, <3>4 DEF Surveyed, HeldBaked
  <2> QED BY <2>2, <2>4 DEF SurveyInv
<1>6. CASE RecorderCloses \/ ClockAdvances \/ ClockStepsBack \/ Deploy \/ UNCHANGED vars
  BY <1>6, SameSurvey DEF RecorderCloses, ClockAdvances, ClockStepsBack, Deploy, vars
<1>7. CASE prune.pc = "idle" /\ UNCHANGED prune
  BY <1>7, NoSurvey
<1>8. CASE BakeIsRun
  BY <1>7, <1>8 DEF BakeIsRun, BakeStarts, Acquire, LockInv
<1>9. CASE Bake \/ BakeHourFails \/ BakeCrashes
  <2>1. UNCHANGED prune /\ bake.pc # "idle"
    BY <1>9 DEF Bake, BakeTakesHour, BakeLists, BakeOpensSegment, BakeReadsSegment,
       BakeMovesOldAside, BakeMovesNewIn, BakeRecords, BakeEnds, BakeHourFails, BakeCrashes
  <2> QED BY <1>7, <2>1 DEF LockInv
<1>10. CASE \E h \in Hours, t \in Tables : PartsDamaged(h, t)
  BY <1>7, <1>10 DEF PartsDamaged
<1> QED BY <1>1, <1>2, <1>3, <1>4, <1>5, <1>6, <1>8, <1>9, <1>10 DEF Next, Prune

-----------------------------------------------------------------------------
(* The inductive invariant.  A file that is gone was recorded as pruned because the
   survey stays true until the file is unlinked, which needs all the other parts. *)

Inv ==
  /\ Types /\ LockInv /\ RawInv /\ ReadInv /\ PartsInv /\ ManifestInv /\ SurveyInv
  /\ GoneIsRecorded

LEMMA GoneStep ==
  ASSUME Inv, [Next]_vars
  PROVE  GoneIsRecorded'
<1>0. /\ Types /\ LockInv /\ RawInv /\ ReadInv /\ ManifestInv /\ SurveyInv /\ TapeType
      /\ raw \in [Hours -> SUBSET Files]
  BY DEF Inv, Types, TapeType
<1>1. manifest.pruned \subseteq manifest'.pruned
  BY <1>0, ManifestStep
<1>2. \A i \in 1 .. Len(tape) : HeldRaw(tape[i]) \/ tape[i] \in manifest.pruned
  BY DEF Inv, GoneIsRecorded
<1>3. ASSUME NEW i \in 1 .. Len(tape) PROVE tape[i] \in Entries /\ tape[i].hour \in Hours
  <2>1. tape[i] \in Entries
    BY <1>0, ElementOfSeq DEF TapeType
  <2> QED BY <2>1 DEF Entries
<1>4. CASE RecorderWrites
  <2>1. PICK i, h, g : Writes(i, h, g)
    BY <1>0, <1>4, WritesOne
  <2>2. /\ h \in Hours /\ raw' = [raw EXCEPT ![h] = Replaced(raw[h], i, g)]
        /\ tape'[i] = [hour |-> h, file |-> g]
        /\ \A j \in 1 .. Len(tape') : j # i => j \in 1 .. Len(tape) /\ tape'[j] = tape[j]
    BY <2>1 DEF Writes, WritesTape, WritesFile
  <2>3. g \in raw'[h]
    BY <1>0, <2>2 DEF Replaced
  <2>4. ASSUME NEW j \in 1 .. Len(tape'), j # i, HeldRaw(tape[j])
        PROVE  tape[j].file \in raw'[tape[j].hour]
    <3>1. j \in 1 .. Len(tape) /\ tape[j].file.id = j /\ tape[j].hour \in Hours
      BY <1>0, <1>3, <2>2, <2>4 DEF RawInv
    <3> QED BY <1>0, <2>2, <2>4, <3>1 DEF HeldRaw, Replaced
  <2> QED BY <1>1, <1>2, <2>2, <2>3, <2>4 DEF GoneIsRecorded, HeldRaw
<1>5. ASSUME NEW p \in prune.segs, PruneUnlinks(p) PROVE GoneIsRecorded'
  <2>1. /\ prune.pc = "unlink" /\ UNCHANGED <<tape, manifest>>
        /\ raw' = [raw EXCEPT ![p.hour] = {f \in @ : f.name # p.file.name}]
    BY <1>5 DEF PruneUnlinks
  <2>2. p \in Entries /\ p \in manifest.pruned /\ p.file \in raw[p.hour] /\ p.hour \in Hours
    BY <1>0, <2>1 DEF SurveyInv, Surveyed, Types, PruneType, Prunes, Entries
  <2>3. ASSUME NEW i \in 1 .. Len(tape), HeldRaw(tape[i]), tape[i] # p
        PROVE  tape[i].file \in raw'[tape[i].hour]
    <3>1. CASE tape[i].hour # p.hour
      BY <1>0, <1>3, <2>1, <2>2, <2>3, <3>1 DEF HeldRaw
    <3>2. CASE tape[i].hour = p.hour
      <4>1. tape[i].file # p.file
        BY <1>3, <2>2, <2>3, <3>2 DEF Entries
      <4>2. tape[i].file.name # p.file.name
        BY <1>0, <2>2, <2>3, <3>2, <4>1 DEF HeldRaw, RawInv, SingleNames
      <4> QED BY <1>0, <2>1, <2>2, <2>3, <3>2, <4>2 DEF HeldRaw
    <3> QED BY <3>1, <3>2
  <2> QED BY <1>2, <2>1, <2>2, <2>3 DEF GoneIsRecorded, HeldRaw
<1>6. CASE UNCHANGED <<raw, tape>>
  BY <1>1, <1>2, <1>6 DEF GoneIsRecorded, HeldRaw
<1>7. CASE BakeIsRun \/ Bake \/ BakeHourFails \/ BakeCrashes
  BY <1>6, <1>7 DEF BakeIsRun, BakeStarts, Bake, BakeTakesHour, BakeLists, BakeOpensSegment,
     BakeReadsSegment, BakeMovesOldAside, BakeMovesNewIn, BakeRecords, BakeEnds, BakeHourFails,
     BakeCrashes
<1>8. CASE RecorderCloses \/ ClockAdvances \/ ClockStepsBack \/ Deploy \/ UNCHANGED vars
  BY <1>6, <1>8 DEF RecorderCloses, ClockAdvances, ClockStepsBack, Deploy, vars
<1>9. CASE PruneStarts \/ PruneRecords \/ PruneEnds \/ PruneStops
  BY <1>6, <1>9 DEF PruneStarts, PruneRecords, PruneEnds, PruneStops
<1>10. CASE \E h \in Hours, t \in Tables : PartsDamaged(h, t)
  BY <1>6, <1>10 DEF PartsDamaged
<1> QED BY <1>4, <1>5, <1>7, <1>8, <1>9, <1>10 DEF Next, Prune

LEMMA InvInitially == ASSUME Init PROVE Inv
<1>1. ClockType /\ TapeType /\ PruneType /\ LockInv /\ SurveyInv
  BY Constants, EmptySeq DEF Init, ClockType, Spents, TapeType, PruneType, Prunes, IdlePrune, IdleBake,
     LockInv, SurveyInv
<1>2. PartsType /\ PartsInv
  BY DEF Init, PartsType, NoParts, PartsInv, IdleBake
<1>3. NoBake \in HourBakes /\ HourInv(NoBake)
  BY DEF NoBake, HourBakes, NoParts, HourInv, SingleNames
<1>4. ManifestType
  BY <1>3 DEF Init, ManifestType, NewManifest
<1>5. ManifestInv
  <2>1. manifest.pruned = {} /\ \A h \in Hours : manifest.hours[h] = NoBake
    BY DEF Init, NewManifest
  <2> QED BY <1>3, <2>1 DEF Init, ManifestInv, InHour, IdleBake
<1>6. BakeType
  BY IdleBakeType DEF Init, BakeType, InHour, IdleBake
<1>7. RawInv /\ GoneIsRecorded
  BY EmptySeq DEF Init, RawInv, SingleNames, GoneIsRecorded
<1>8. ReadInv
  BY DEF Init, ReadInv, IdleBake, SingleNames
<1> QED BY <1>1, <1>2, <1>4, <1>5, <1>6, <1>7, <1>8 DEF Inv, Types

LEMMA InvStep == ASSUME Inv, [Next]_vars PROVE Inv'
<1>1. Types /\ LockInv /\ RawInv /\ ReadInv /\ PartsInv /\ ManifestInv /\ SurveyInv
  BY DEF Inv
<1>2. Types'
  BY <1>1, ClockTypeStep, RawStep, PartsStep, ManifestStep, BakeTypeStep, PruneTypeStep DEF Types
<1>3. LockInv' /\ RawInv' /\ ReadInv' /\ PartsInv' /\ SurveyInv'
  BY <1>1, LockStep, RawStep, ReadStep, PartsStep, SurveyStep
<1>4. ManifestInv'
  BY <1>1, ManifestStep, NotPrunedStep DEF ManifestInv
<1> QED BY <1>2, <1>3, <1>4, GoneStep DEF Inv

LEMMA InvAlways == Spec => []Inv
  BY InvInitially, InvStep, PTL DEF Spec

(* TypeOK: every variable holds a value of its kind, at most one of tape bake and
   tape prune runs, and it has the lock. *)
THEOREM TypeCorrect == Spec => []TypeOK
<1>1. Inv => TypeOK
  <2> SUFFICES ASSUME Inv PROVE TypeOK
    OBVIOUS
  <2>1. /\ ClockType /\ TapeType /\ PartsType /\ ManifestType /\ LockInv
        /\ bake \in Bakes /\ prune \in Prunes
    BY DEF Inv, Types, BakeType, PruneType
  <2>2. \A h \in Hours, f, g \in UNION {raw[k] : k \in Hours} :
          f \in raw[h] /\ g \in raw[h] /\ f.name = g.name => f = g
    BY DEF Inv, RawInv, SingleNames
  <2> QED BY <2>1, <2>2 DEF TypeOK, ClockType, TapeType, PartsType, ManifestType, LockInv, Bakes, Prunes
<1> QED BY <1>1, InvAlways, PTL

(* prune.py, apply: for every set of hours and names, every grace, retention and
   schedule of bakes, prunes, crashes and clock steps, a segment that is no longer on
   disk is one the manifest says was pruned. *)
THEOREM GoneAlwaysRecorded == Spec => []GoneIsRecorded
<1>1. Inv => GoneIsRecorded
  BY DEF Inv
<1> QED BY <1>1, InvAlways, PTL

-----------------------------------------------------------------------------
(* The archive implements HourStore.  Only four steps move a segment's content: a
   write, the two renames of a table's directory, the deletion of a raw file, and
   damage from outside. *)

At(isRaw, isBaked) ==
  IF isRaw THEN IF isBaked THEN "both" ELSE "raw" ELSE IF isBaked THEN "baked" ELSE "lost"

LEMMA Places ==
  ASSUME TapeType, TapeType', NEW i \in Ids
  PROVE  /\ Place(i)  = IF i \in 1 .. Len(tape) THEN At(HeldRaw(tape[i]), HeldBaked(tape[i])) ELSE "none"
         /\ Place(i)' = IF i \in 1 .. Len(tape') THEN At(HeldRaw(tape[i])', HeldBaked(tape[i])') ELSE "none"
<1>1. i \in Nat /\ i >= 1 /\ Len(tape) \in Nat /\ Len(tape') \in Nat
  BY Constants, LenProperties DEF Ids, TapeType
<1> QED BY <1>1 DEF Place, At

LEMMA TapeEntries ==
  ASSUME TapeType, NEW i \in 1 .. Len(tape)
  PROVE  /\ i \in Ids /\ tape[i] \in Entries /\ tape[i].hour \in Hours /\ tape[i].file \in Files
         /\ tape[i].file.id # 0
<1>1. tape[i] \in Entries /\ Len(tape) \in Nat
  BY ElementOfSeq, LenProperties DEF TapeType
<1>2. i \in Ids
  BY <1>1, Constants DEF TapeType, Ids
<1>3. tape[i].hour \in Hours /\ tape[i].file \in Files
  BY <1>1 DEF Entries
<1> QED BY <1>1, <1>2, <1>3, Constants DEF Files, Ids

StoreStep == Store!Next \/ UNCHANGED <<[i \in Ids |-> Place(i)], spent.faults>>

LEMMA NothingMoves ==
  ASSUME \A i \in Ids : Place(i)' = Place(i), spent'.faults = spent.faults
  PROVE  StoreStep
<1>1. [i \in Ids |-> Place(i)]' = [i \in Ids |-> Place(i)]
  OBVIOUS
<1> QED BY <1>1 DEF StoreStep

LEMMA MovedStep ==
  ASSUME NEW S \in SUBSET Ids, NEW from, NEW to, \A i \in S : Place(i) \in from /\ Place(i)' = to,
         \A i \in Ids \ S : Place(i)' = Place(i), spent'.faults = spent.faults
  PROVE  Store!Moved(S, from, to)
<1>1. [i \in Ids |-> Place(i)]' = [i \in Ids |-> IF i \in S THEN to ELSE [j \in Ids |-> Place(j)][i]]
  OBVIOUS
<1>2. \A i \in S : [j \in Ids |-> Place(j)][i] \in from
  OBVIOUS
<1> QED BY <1>1, <1>2 DEF Store!Moved

LEMMA WriteImplements == ASSUME Inv, Inv', RecorderWrites PROVE StoreStep
<1>0. TapeType /\ TapeType' /\ RawInv /\ RawInv' /\ PartsInv /\ raw \in [Hours -> SUBSET Files]
  BY DEF Inv, Types, TapeType
<1>1. PICK i, h, g : Writes(i, h, g)
  BY <1>0, WritesOne
<1>2. UNCHANGED <<parts, spent>>
  BY DEF RecorderWrites
<1>3. /\ h \in Hours /\ g \in Files /\ g.id = i /\ raw' = [raw EXCEPT ![h] = Replaced(raw[h], i, g)]
      /\ tape'[i] = [hour |-> h, file |-> g] /\ i \in 1 .. Len(tape')
      /\ Len(tape) \in Nat /\ Len(tape') \in Nat /\ Len(tape) <= Len(tape')
      /\ \A j \in 1 .. Len(tape') : j # i => j \in 1 .. Len(tape) /\ tape'[j] = tape[j]
      /\ i \in 1 .. Len(tape) => /\ tape[i].file \in raw[h] /\ tape[i].hour = h
                                 /\ tape[i].file.n < g.n
  BY <1>0, <1>1, LenProperties DEF TapeType, Writes, WritesTape, WritesFile
<1>4. i \in Ids
  BY <1>0, <1>3, TapeEntries, Constants DEF TapeType, Ids
<1>5. Place(i) \in {"none", "raw", "both"}
  <2>1. i \in 1 .. Len(tape) => HeldRaw(tape[i])
    BY <1>3 DEF HeldRaw
  <2> QED BY <1>0, <1>4, <2>1, Places DEF At
<1>6. ASSUME NEW t \in Tables, NEW r \in parts[h][t] PROVE r.file # g
  <2>1. r = Rot \/ Past(r.file)
    BY <1>0, <1>3 DEF PartsInv
  <2>2. CASE r = Rot
    BY <1>3, <1>4, <2>2, Constants DEF Rot, Ids
  <2>3. CASE r.file = g /\ Past(g)
    <3>1. i \in 1 .. Len(tape) /\ g.n <= tape[i].file.n /\ tape[i].file.n < g.n
      BY <1>3, <2>3 DEF Past
    <3>2. tape[i].file.n \in Int /\ g.n \in Int
      BY <1>0, <1>3, <3>1, TapeEntries, Constants DEF Files
    <3> QED BY <3>1, <3>2
  <2> QED BY <2>1, <2>2, <2>3
<1>7. Place(i)' = "raw"
  <2>1. HeldRaw(tape[i])'
    BY <1>0, <1>3 DEF HeldRaw, Replaced
  <2>2. ~HeldBaked(tape[i])'
    BY <1>2, <1>3, <1>6, Constants DEF HeldBaked
  <2> QED BY <1>0, <1>3, <1>4, <2>1, <2>2, Places DEF At
<1>8. ASSUME NEW j \in Ids, j # i PROVE Place(j)' = Place(j)
  <2>1. j \in 1 .. Len(tape) <=> j \in 1 .. Len(tape')
    BY <1>3, <1>8, Constants DEF Ids
  <2>2. CASE j \in 1 .. Len(tape)
    <3>1. tape'[j] = tape[j] /\ tape[j].file.id = j /\ tape[j].hour \in Hours
      BY <1>0, <1>3, <1>8, <2>1, <2>2, TapeEntries DEF RawInv
    <3>2. HeldRaw(tape[j])' <=> HeldRaw(tape[j])
      BY <1>0, <1>3, <1>8, <3>1 DEF HeldRaw, Replaced
    <3>3. HeldBaked(tape[j])' <=> HeldBaked(tape[j])
      BY <1>2, <3>1 DEF HeldBaked
    <3> QED BY <1>0, <2>1, <2>2, <3>2, <3>3, Places DEF At
  <2> QED BY <1>0, <2>1, <2>2, Places
<1>9. Store!Written(i)
  BY <1>2, <1>4, <1>5, <1>7, <1>8, MovedStep DEF Store!Written
<1> QED BY <1>4, <1>9 DEF StoreStep, Store!Next

(* The entries of an hour whose segments the tables hold. *)
BakedOf(h) == {i \in 1 .. Len(tape) : tape[i].hour = h /\ HeldBaked(tape[i])}

LEMMA OtherHours ==
  ASSUME TapeType, TapeType', UNCHANGED <<raw, tape>>, NEW h \in Hours,
         \A k \in Hours, t \in Tables : k # h => parts'[k][t] = parts[k][t],
         NEW i \in Ids, i \in 1 .. Len(tape) => tape[i].hour # h
  PROVE  Place(i)' = Place(i)
<1>1. CASE i \in 1 .. Len(tape)
  <2>1. tape[i].hour \in Hours
    BY <1>1, TapeEntries
  <2>2. HeldBaked(tape[i])' <=> HeldBaked(tape[i])
    BY <1>1, <2>1 DEF HeldBaked
  <2> QED BY <1>1, <2>2, Places DEF At, HeldRaw
<1>2. CASE i \notin 1 .. Len(tape)
  BY <1>2, Places
<1> QED BY <1>1, <1>2

LEMMA NotPrunedHeld ==
  ASSUME Inv, InHour, NEW i \in 1 .. Len(tape), tape[i].hour = bake.hour
  PROVE  HeldRaw(tape[i])
  BY DEF Inv, GoneIsRecorded, ManifestInv, HasPruned

LEMMA WithdrawImplements == ASSUME Inv, Inv', BakeMovesOldAside PROVE StoreStep
<1> DEFINE h == bake.hour
           t == bake.table
           S == BakedOf(h)
<1>0. TapeType /\ TapeType' /\ PartsType /\ BakeType /\ bake \in Bakes
  BY DEF Inv, Types, BakeType
<1>1. InHour /\ h \in Hours /\ t \in Tables /\ UNCHANGED <<raw, tape, spent>> /\ PutsParts(h, t, {})
  BY <1>0 DEF BakeMovesOldAside, PutsParts, BakeType, InHour, Bakes
<1>2. \A k \in Hours, u \in Tables : parts'[k][u] = IF k = h /\ u = t THEN {} ELSE parts[k][u]
  BY <1>0, <1>1, PartsPut
<1>3. S \in SUBSET Ids
  BY <1>0, TapeEntries DEF BakedOf
<1>4. ASSUME NEW i \in 1 .. Len(tape), tape[i].hour = h
      PROVE  HeldRaw(tape[i]) /\ HeldRaw(tape[i])' /\ ~HeldBaked(tape[i])'
  <2>1. HeldRaw(tape[i])
    BY <1>1, <1>4, NotPrunedHeld
  <2>2. ~HeldBaked(tape[i])'
    BY <1>1, <1>2, <1>4 DEF HeldBaked
  <2> QED BY <1>1, <2>1, <2>2 DEF HeldRaw
<1>5. ASSUME NEW i \in S PROVE Place(i) \in {"both"} /\ Place(i)' = "raw"
  <2>1. i \in 1 .. Len(tape) /\ tape[i].hour = h /\ HeldBaked(tape[i])
    BY DEF BakedOf
  <2> QED BY <1>0, <1>1, <1>3, <1>4, <2>1, Places DEF At
<1>6. ASSUME NEW i \in Ids \ S PROVE Place(i)' = Place(i)
  <2>1. CASE i \in 1 .. Len(tape) /\ tape[i].hour = h
    <3>1. ~HeldBaked(tape[i])
      BY <1>6, <2>1 DEF BakedOf
    <3> QED BY <1>0, <1>1, <1>4, <2>1, <3>1, Places DEF At
  <2>2. CASE ~(i \in 1 .. Len(tape) /\ tape[i].hour = h)
    BY <1>0, <1>1, <1>2, <2>2, OtherHours
  <2> QED BY <2>1, <2>2
<1> HIDE DEF S
<1>7. Store!Withdrawn(S)
  BY <1>1, <1>3, <1>5, <1>6, MovedStep DEF Store!Withdrawn
<1> QED BY <1>3, <1>7 DEF StoreStep, Store!Next

LEMMA PublishImplements == ASSUME Inv, Inv', BakeMovesNewIn PROVE StoreStep
<1> DEFINE h == bake.hour
           t == bake.table
           S == BakedOf(h)'
<1>0. TapeType /\ TapeType' /\ PartsType /\ BakeType /\ bake \in Bakes /\ PartsInv
  BY DEF Inv, Types, BakeType
<1>1. /\ InHour /\ h \in Hours /\ t \in Tables /\ UNCHANGED <<raw, tape, spent>>
      /\ PutsParts(h, t, BakedRows) /\ parts[h][t] = {}
  BY <1>0 DEF BakeMovesNewIn, PutsParts, BakeType, InHour, Bakes, PartsInv
<1>2. BakedRows \in SUBSET (Rows \cup {Rot})
  BY BakedRowsPast DEF Inv
<1>3. \A k \in Hours, u \in Tables : k # h => parts'[k][u] = parts[k][u]
  BY <1>0, <1>1, <1>2, PartsPut
<1>4. ASSUME NEW i \in 1 .. Len(tape), tape[i].hour = h
      PROVE  HeldRaw(tape[i]) /\ HeldRaw(tape[i])' /\ ~HeldBaked(tape[i])
  <2>1. HeldRaw(tape[i])
    BY <1>1, <1>4, NotPrunedHeld
  <2>2. ~HeldBaked(tape[i])
    BY <1>1, <1>4 DEF HeldBaked
  <2> QED BY <1>1, <2>1, <2>2 DEF HeldRaw
<1>5. S = {i \in 1 .. Len(tape) : tape[i].hour = h /\ HeldBaked(tape[i])'}
  <2>1. UNCHANGED bake.hour
    BY <1>0 DEF BakeMovesNewIn, Bakes
  <2> QED BY <1>1, <2>1 DEF BakedOf
<1>6. S \in SUBSET Ids
  BY <1>0, <1>5, TapeEntries
<1>7. ASSUME NEW i \in S PROVE Place(i) \in {"raw"} /\ Place(i)' = "both"
  <2>1. i \in 1 .. Len(tape) /\ tape[i].hour = h /\ HeldBaked(tape[i])'
    BY <1>5
  <2> QED BY <1>0, <1>1, <1>4, <1>6, <2>1, Places DEF At
<1>8. ASSUME NEW i \in Ids \ S PROVE Place(i)' = Place(i)
  <2>1. CASE i \in 1 .. Len(tape) /\ tape[i].hour = h
    <3>1. ~HeldBaked(tape[i])'
      BY <1>5, <1>8, <2>1
    <3> QED BY <1>0, <1>1, <1>4, <2>1, <3>1, Places DEF At
  <2>2. CASE ~(i \in 1 .. Len(tape) /\ tape[i].hour = h)
    BY <1>0, <1>1, <1>3, <2>2, OtherHours
  <2> QED BY <2>1, <2>2
<1> HIDE DEF S
<1>9. Store!Published(S)
  BY <1>1, <1>6, <1>7, <1>8, MovedStep DEF Store!Published
<1> QED BY <1>6, <1>9 DEF StoreStep, Store!Next

LEMMA DeleteImplements ==
  ASSUME Inv, Inv', NEW p \in prune.segs, PruneUnlinks(p)
  PROVE  StoreStep
<1> DEFINE i == p.file.id
<1>0. TapeType /\ TapeType' /\ RawInv /\ raw \in [Hours -> SUBSET Files]
  BY DEF Inv, Types, TapeType
<1>1. /\ prune.pc = "unlink" /\ UNCHANGED <<tape, parts, spent>>
      /\ raw' = [raw EXCEPT ![p.hour] = {f \in @ : f.name # p.file.name}]
  BY DEF PruneUnlinks
<1>2. p \in Entries /\ p.hour \in Hours /\ p.file \in raw[p.hour] /\ HeldBaked(p)
  BY <1>1 DEF Inv, SurveyInv, Surveyed, Types, PruneType, Prunes, Entries
<1>3. i \in 1 .. Len(tape) /\ tape[i] = p
  BY <1>2 DEF Inv, RawInv, OnTape, Entries
<1> HIDE DEF i
<1>4. i \in Ids
  BY <1>0, <1>3, TapeEntries
<1>5. HeldRaw(tape[i]) /\ ~HeldRaw(tape[i])'
  BY <1>0, <1>1, <1>2, <1>3 DEF HeldRaw
<1>6. HeldBaked(tape[i]) /\ HeldBaked(tape[i])'
  BY <1>1, <1>2, <1>3 DEF HeldBaked
<1>7. Place(i) \in {"both"} /\ Place(i)' = "baked"
  BY <1>0, <1>1, <1>3, <1>4, <1>5, <1>6, Places DEF At
<1>8. ASSUME NEW j \in Ids, j # i PROVE Place(j)' = Place(j)
  <2>1. CASE j \in 1 .. Len(tape)
    <3>1. tape[j] \in Entries /\ tape[j].hour \in Hours /\ tape[j].file.id = j /\ tape[i].file.id = i
      BY <1>0, <1>3, <2>1, TapeEntries DEF RawInv
    <3>2. tape[j].file # p.file
      BY <1>3, <1>8, <3>1
    <3>3. HeldRaw(tape[j])' <=> HeldRaw(tape[j])
      <4>1. CASE tape[j].hour # p.hour
        BY <1>0, <1>1, <1>2, <3>1, <4>1 DEF HeldRaw
      <4>2. CASE tape[j].hour = p.hour
        <5>1. HeldRaw(tape[j]) => tape[j].file.name # p.file.name
          BY <1>0, <1>2, <3>2, <4>2 DEF HeldRaw, RawInv, SingleNames
        <5> QED BY <1>0, <1>1, <1>2, <4>2, <5>1 DEF HeldRaw
      <4> QED BY <4>1, <4>2
    <3>4. HeldBaked(tape[j])' <=> HeldBaked(tape[j])
      BY <1>1 DEF HeldBaked
    <3> QED BY <1>0, <1>1, <2>1, <3>3, <3>4, Places DEF At
  <2>2. CASE j \notin 1 .. Len(tape)
    BY <1>0, <1>1, <2>2, Places
  <2> QED BY <2>1, <2>2
<1>9. Store!Deleted(i)
  BY <1>1, <1>4, <1>7, <1>8, MovedStep DEF Store!Deleted
<1> QED BY <1>4, <1>9 DEF StoreStep, Store!Next

LEMMA DamageImplements ==
  ASSUME Inv, Inv', NEW h \in Hours, NEW t \in Tables, PartsDamaged(h, t)
  PROVE  StoreStep
<1> DEFINE S == BakedOf(h)
<1>0. TapeType /\ TapeType' /\ PartsType /\ ClockType
  BY DEF Inv, Types
<1>1. UNCHANGED <<raw, tape>> /\ spent' = [spent EXCEPT !.faults = @ + 1] /\ Trouble
  BY DEF PartsDamaged
<1>2. PICK left \in {{}, {Rot}} : PutsParts(h, t, left)
  BY DEF PartsDamaged, PutsParts
<1>3. \A k \in Hours, u \in Tables : parts'[k][u] = IF k = h /\ u = t THEN left ELSE parts[k][u]
  BY <1>0, <1>2, PartsPut
<1>4. S \in SUBSET Ids
  BY <1>0, TapeEntries DEF BakedOf
<1>5. ASSUME NEW i \in 1 .. Len(tape), tape[i].hour = h PROVE ~HeldBaked(tape[i])'
  <2>1. tape[i].file # Rot.file
    <3>1. tape[i].file.id # 0
      BY <1>0, TapeEntries
    <3> QED BY <3>1 DEF Rot
  <2>2. \A r \in parts'[h][t] : r.file # tape[i].file
    BY <1>3, <2>1
  <2> QED BY <1>1, <1>5, <2>2 DEF HeldBaked
<1>6. ASSUME NEW i \in S
      PROVE  /\ Place(i) \in {"both", "baked"}
             /\ Place(i)' = IF Place(i) = "both" THEN "raw" ELSE "lost"
  <2>1. i \in 1 .. Len(tape) /\ tape[i].hour = h /\ HeldBaked(tape[i])
    BY DEF BakedOf
  <2>2. HeldRaw(tape[i])' <=> HeldRaw(tape[i])
    BY <1>1 DEF HeldRaw
  <2> QED BY <1>0, <1>1, <1>4, <1>5, <2>1, <2>2, Places DEF At
<1>7. ASSUME NEW i \in Ids \ S PROVE Place(i)' = Place(i)
  <2>1. CASE i \in 1 .. Len(tape) /\ tape[i].hour = h
    <3>1. ~HeldBaked(tape[i]) /\ (HeldRaw(tape[i])' <=> HeldRaw(tape[i]))
      BY <1>1, <1>7, <2>1 DEF BakedOf, HeldRaw
    <3> QED BY <1>0, <1>1, <1>5, <2>1, <3>1, Places DEF At
  <2>2. CASE ~(i \in 1 .. Len(tape) /\ tape[i].hour = h)
    BY <1>0, <1>1, <1>3, <2>2, OtherHours
  <2> QED BY <2>1, <2>2
<1>8. spent.faults < MaxTroubles /\ spent'.faults = spent.faults + 1
  <2>1. /\ spent.stops \in Nat /\ spent.faults \in Nat
        /\ spent'.faults = spent.faults + 1
    BY <1>0, <1>1 DEF ClockType, Spents
  <2>2. version \in Nat /\ version >= 1 /\ MaxTroubles \in Nat
    BY <1>0, Constants DEF ClockType
  <2>3. spent.stops + spent.faults + version - 1 < MaxTroubles
    BY <1>1 DEF Trouble
  <2> QED BY <2>1, <2>2, <2>3
<1> HIDE DEF S
<1>9. Store!Damaged(S)
  <2> DEFINE copy == [i \in Ids |-> Place(i)]
  <2>1. \A i \in S : copy[i] \in {"both", "baked"}
    BY <1>4, <1>6
  <2>2. copy' = [i \in Ids |-> CASE i \in S /\ copy[i] = "both"  -> "raw"
                                 [] i \in S /\ copy[i] = "baked" -> "lost"
                                 [] OTHER                        -> copy[i]]
    BY <1>4, <1>6, <1>7
  <2> QED BY <1>8, <2>1, <2>2 DEF Store!Damaged
<1> QED BY <1>4, <1>9 DEF StoreStep, Store!Next

LEMMA StandingStill ==
  ASSUME Inv, Inv', UNCHANGED <<raw, tape, parts>>, spent'.faults = spent.faults
  PROVE  StoreStep
<1>1. TapeType /\ TapeType'
  BY DEF Inv, Types
<1>2. \A i \in Ids : Place(i)' = Place(i)
  BY <1>1, Places DEF HeldRaw, HeldBaked
<1> QED BY <1>2, NothingMoves

LEMMA EveryStepImplements == ASSUME Inv, Inv', [Next]_vars PROVE StoreStep
<1>1. CASE RecorderWrites
  BY <1>1, WriteImplements
<1>2. CASE BakeMovesOldAside
  BY <1>2, WithdrawImplements
<1>3. CASE BakeMovesNewIn
  BY <1>3, PublishImplements
<1>4. CASE \E p \in prune.segs : PruneUnlinks(p)
  BY <1>4, DeleteImplements
<1>5. CASE \E h \in Hours, t \in Tables : PartsDamaged(h, t)
  BY <1>5, DamageImplements
<1>6. CASE UNCHANGED <<raw, tape, parts, spent>>
  BY <1>6, StandingStill
<1>7. CASE BakeHourFails \/ BakeCrashes \/ PruneStops \/ ClockStepsBack
  <2>1. UNCHANGED <<raw, tape, parts>>
    BY <1>7 DEF BakeHourFails, BakeCrashes, PruneStops, ClockStepsBack
  <2>2. spent' = [spent EXCEPT !.stops = @ + 1] \/ spent' = [spent EXCEPT !.back = @ + 1]
    BY <1>7 DEF BakeHourFails, BakeCrashes, PruneStops, ClockStepsBack, Stopped
  <2>3. spent'.faults = spent.faults
    BY <2>2 DEF Inv, Types, ClockType, Spents
  <2> QED BY <2>1, <2>3, StandingStill
<1>8. CASE BakeIsRun \/ BakeTakesHour \/ BakeLists \/ BakeOpensSegment \/ BakeReadsSegment
  BY <1>6, <1>8 DEF BakeIsRun, BakeStarts, BakeTakesHour, BakeLists, BakeOpensSegment, BakeReadsSegment
<1>9. CASE BakeRecords \/ BakeEnds \/ PruneStarts \/ PruneRecords \/ PruneEnds
  BY <1>6, <1>9 DEF BakeRecords, BakeEnds, PruneStarts, PruneRecords, PruneEnds
<1>10. CASE RecorderCloses \/ ClockAdvances \/ Deploy \/ UNCHANGED vars
  BY <1>6, <1>10 DEF RecorderCloses, ClockAdvances, Deploy, vars
<1> QED BY <1>1, <1>2, <1>3, <1>4, <1>5, <1>7, <1>8, <1>9, <1>10 DEF Next, Bake, Prune

LEMMA StoreInitially == ASSUME Init PROVE Store!Init
<1>1. Len(tape) = 0 /\ spent.faults = 0
  BY EmptySeq DEF Init
<1>2. \A i \in Ids : Place(i) = "none"
  BY <1>1, Constants DEF Place, Ids
<1> QED BY <1>1, <1>2 DEF Store!Init

(* bake_hour, replace_dir, decide and apply (docs/adr/0025): whatever bakes, prunes,
   crashes, clock steps and damage happen, the raw file of a segment goes only while
   every table holds all of it. *)
THEOREM ImplementsHourStore == Spec => Implements
<1>1. ASSUME Inv, Inv', [Next]_vars
      PROVE  [Store!Next]_<<[i \in Ids |-> Place(i)], spent.faults>>
  BY <1>1, EveryStepImplements DEF StoreStep
<1> QED BY <1>1, StoreInitially, InvAlways, PTL DEF Spec, Implements, Store!Spec
=============================================================================
