------------------------------- MODULE Archive -------------------------------
(***************************************************************************)
(* The stored archive: the recorder's segment files, tape bake             *)
(* (src/tape/bake/bake.py, manifest.py), tape prune (prune.py), the lock   *)
(* between the two and the manifest of one day.  Both commands may be run  *)
(* at any time, fail on any file operation and be killed between any two   *)
(* of them, while the recorder goes on writing and the wall clock steps.   *)
(*                                                                         *)
(* A file is a record: its name, which file it is (id), how many records   *)
(* it has, which stand for its size, and whether one of them does not      *)
(* decode.  Two files are equal when their hashes are.  A table's part     *)
(* files of an hour are the set of files, and the bake version, whose rows *)
(* they hold.                                                              *)
(***************************************************************************)
EXTENDS Integers, Sequences, FiniteSets, FiniteSetsExt

CONSTANTS
  Hours,       \* hours of the day, h ends at instant h + 1
  Names,       \* file names of one hour
  Tables,      \* 1 .. n, in the order of TABLE_NAMES
  Grace,       \* bake.grace_s, in hours
  Retention,   \* bake.raw_retention_hours
  MaxNow,      \* bound: the clock
  MaxFiles,    \* bound: segment files ever written
  MaxRecords,  \* bound: records of one file
  MaxBack,     \* bound: backward steps of the clock
  MaxTroubles  \* bound: crashes and failures, damaged part files, deployments

ASSUME ArchiveAssumption ==
  /\ Hours \subseteq Nat /\ Names \subseteq Nat
  /\ IsFiniteSet(Hours) /\ IsFiniteSet(Names) /\ IsFiniteSet(Tables)
  /\ Tables = 1 .. Cardinality(Tables) /\ Tables # {}
  /\ {Grace, Retention, MaxNow, MaxFiles, MaxRecords, MaxBack, MaxTroubles} \subseteq Nat
  /\ MaxRecords >= 1

VARIABLES
  now,       \* the wall clock
  raw,       \* the segment files of each hour
  open,      \* id of the file the recorder appends to, or 0
  parts,     \* the part files of each hour and table
  manifest,  \* manifests/YYYY-MM-DD.json
  lock,      \* who holds archive_lock
  bake,      \* the running tape bake
  prune,     \* the running tape prune
  version,   \* BAKE_VERSION of the software deployed
  tape,      \* history: the hour and content of every file ever written
  spent      \* how much of each bound is used

vars == <<now, raw, open, parts, manifest, lock, bake, prune, version, tape, spent>>

-----------------------------------------------------------------------------
Ids == 1 .. MaxFiles
Versions == 1 .. MaxTroubles + 1
Files == [name : Names, id : Ids, n : 1 .. MaxRecords, bad : BOOLEAN]
Rows == [file : Files, ver : Versions]

(* What a damaged part file holds: no row of any segment. *)
Rot == [file |-> [name |-> 0, id |-> 0, n |-> 0, bad |-> TRUE], ver |-> 0]

NoParts == [t \in Tables |-> {}]

(* HourBake and the hour's share of segments and tables; ver 0 when it was never
   baked. *)
NoBake == [ver |-> 0, fails |-> FALSE, segs |-> {}, parts |-> NoParts]

(* new_manifest, which stands for the missing file as well: read_manifest gives
   neither of them a baked hour. *)
NewManifest == [hours |-> [h \in Hours |-> NoBake], pruned |-> {}]

IdleBake == [pc |-> "idle", ver |-> 1, todo |-> {}, hour |-> 0, names |-> {}, file |-> {},
             segs |-> {}, table |-> 1]
IdlePrune == [pc |-> "idle", segs |-> {}]

Init ==
  /\ now = 0 /\ open = 0 /\ version = 1 /\ lock = "none"
  /\ raw = [h \in Hours |-> {}]
  /\ parts = [h \in Hours |-> NoParts]
  /\ manifest = NewManifest
  /\ bake = IdleBake /\ prune = IdlePrune
  /\ tape = << >>
  /\ spent = [back |-> 0, stops |-> 0, faults |-> 0]

Trouble == spent.stops + spent.faults + version - 1 < MaxTroubles

-----------------------------------------------------------------------------
(* The recorder and its clock. *)

NamesIn(files) == {f.name : f \in files}
Sizes(files) == {<<f.name, f.n>> : f \in files}

(* writer.py, _open: a name that no file of the hour has. *)
OpenFile(h, bad) ==
  LET f == [name |-> Min(Names \ NamesIn(raw[h])), id |-> Len(tape) + 1, n |-> 1, bad |-> bad]
  IN /\ Names \ NamesIn(raw[h]) # {} /\ Len(tape) < MaxFiles
     /\ raw' = [raw EXCEPT ![h] = @ \cup {f}]
     /\ tape' = Append(tape, [hour |-> h, file |-> f])
     /\ open' = f.id

AppendTo(h, f) ==
  LET g == [f EXCEPT !.n = @ + 1]
  IN /\ f.id = open /\ f.n < MaxRecords
     /\ raw' = [raw EXCEPT ![h] = (@ \ {f}) \cup {g}]
     /\ tape' = [tape EXCEPT ![f.id].file = g]
     /\ open' = open

(* A record goes to the hour of the clock.  It may be one the baker cannot decode. *)
RecorderWrites ==
  /\ now \in Hours
  /\ IF open = 0 THEN \E bad \in BOOLEAN : OpenFile(now, bad)
     ELSE \E f \in raw[now] : AppendTo(now, f)
  /\ UNCHANGED <<now, parts, manifest, lock, bake, prune, version, spent>>

(* A rotation, or the end of the recorder. *)
RecorderCloses ==
  /\ open # 0 /\ open' = 0
  /\ UNCHANGED <<now, raw, parts, manifest, lock, bake, prune, version, tape, spent>>

(* A sink closes its file as soon as the clock shows another hour. *)
ClockAdvances ==
  /\ now < MaxNow /\ now' = now + 1 /\ open' = 0
  /\ UNCHANGED <<raw, parts, manifest, lock, bake, prune, version, tape, spent>>

ClockStepsBack ==
  /\ spent.back < MaxBack /\ spent' = [spent EXCEPT !.back = @ + 1]
  /\ now' \in 0 .. now - 1 /\ open' = 0
  /\ UNCHANGED <<raw, parts, manifest, lock, bake, prune, version, tape>>
-----------------------------------------------------------------------------
(* bake.py and manifest.py *)

(* closed_hours *)
Closed(h) == h + 1 + Grace < now

(* _has_pruned *)
HasPruned(h) == \E p \in manifest.pruned : p.hour = h

(* hours_to_bake, parts_present: existence only; content is left to prune. *)
PartsPresent(h) ==
  \A t \in Tables : manifest.hours[h].parts[t] # {} => parts[h][t] # {}

(* Mutant: what was baked once is up to date as long as its files are there. *)
BakeNeededOnce(h) ==
  /\ ~HasPruned(h)
  /\ IF manifest.hours[h].ver = 0 THEN raw[h] # {}
     ELSE manifest.hours[h].ver # version \/ ~PartsPresent(h)

(* bake_needed *)
BakeNeeded(h) ==
  /\ ~HasPruned(h)
  /\ IF manifest.hours[h].ver = 0 THEN raw[h] # {}
     ELSE \/ manifest.hours[h].ver # version
          \/ ~PartsPresent(h)
          \/ Sizes(manifest.hours[h].segs) # Sizes(raw[h])

(* hours_to_bake *)
HoursToBake(force) ==
  {h \in Hours : Closed(h) /\ IF force THEN raw[h] # {} /\ ~HasPruned(h) ELSE BakeNeeded(h)}

(* Mutant: the lock keeps nobody out. *)
AcquireAnyway(job) == lock' = job

(* archive_lock: a second command is refused and changes nothing. *)
Acquire(job) == lock = "none" /\ lock' = job

Release == lock' = "none"

(* bake_archive: tape bake, for one hour or all of the day, forced or not, finds
   something to do. *)
BakeStarts(force, hours) ==
  /\ bake.pc = "idle" /\ Acquire("bake")
  /\ HoursToBake(force) \cap hours # {}
  /\ bake' = [IdleBake EXCEPT !.pc = "next", !.ver = version,
                              !.todo = HoursToBake(force) \cap hours]
  /\ UNCHANGED <<now, raw, open, parts, manifest, prune, version, tape, spent>>

BakeIsRun == \E force \in BOOLEAN, hours \in {Hours} \cup {{h} : h \in Hours} : BakeStarts(force, hours)

BakeGoesTo(pc) == bake' = [bake EXCEPT !.pc = pc]

(* A failed hour is reported and the next one baked. *)
BakeLeavesHour ==
  bake' = [IdleBake EXCEPT !.pc = "next", !.ver = bake.ver, !.todo = bake.todo \ {bake.hour}]

(* bake_hour up to the staging directory. *)
BakeTakesHour ==
  /\ bake.pc = "next" /\ bake.todo # {}
  /\ LET h == Min(bake.todo)
     IN bake' = IF HasPruned(h) THEN [bake EXCEPT !.todo = @ \ {h}]
                ELSE [bake EXCEPT !.pc = "list", !.hour = h]
  /\ UNCHANGED <<now, raw, open, parts, manifest, lock, prune, version, tape, spent>>

(* segment_files *)
BakeLists ==
  /\ bake.pc = "list"
  /\ bake' = [bake EXCEPT !.pc = "read", !.names = NamesIn(raw[bake.hour])]
  /\ UNCHANGED <<now, raw, open, parts, manifest, lock, prune, version, tape, spent>>

(* _read_segment, from the first stat ... *)
BakeOpensSegment ==
  /\ bake.pc = "read" /\ bake.names # {}
  /\ LET f == {g \in raw[bake.hour] : g.name = Min(bake.names)}
     IN IF f = {} THEN BakeLeavesHour
        ELSE bake' = [bake EXCEPT !.pc = "reading", !.file = f]
  /\ UNCHANGED <<now, raw, open, parts, manifest, lock, prune, version, tape, spent>>

(* ... to the second: a file that changed in between fails the hour. *)
BakeReadsSegment ==
  /\ bake.pc = "reading"
  /\ IF bake.file \subseteq raw[bake.hour]
     THEN bake' = [bake EXCEPT !.pc = "read", !.names = @ \ {Min(@)}, !.file = {},
                               !.segs = @ \cup bake.file]
     ELSE BakeLeavesHour
  /\ UNCHANGED <<now, raw, open, parts, manifest, lock, prune, version, tape, spent>>

(* HourTables.finish *)
BakedRows == {[file |-> f, ver |-> bake.ver] : f \in bake.segs}

(* replace_dir: the old directory is renamed aside. *)
BakeMovesOldAside ==
  /\ bake.pc = "read" /\ bake.names = {}
  /\ parts' = [parts EXCEPT ![bake.hour][bake.table] = {}]
  /\ BakeGoesTo("swap")
  /\ UNCHANGED <<now, raw, open, manifest, lock, prune, version, tape, spent>>

(* replace_dir: the new one is renamed in; then the next table. *)
BakeMovesNewIn ==
  /\ bake.pc = "swap"
  /\ parts' = [parts EXCEPT ![bake.hour][bake.table] = BakedRows]
  /\ bake' = IF bake.table + 1 \in Tables
             THEN [bake EXCEPT !.pc = "read", !.table = @ + 1]
             ELSE [bake EXCEPT !.pc = "record"]
  /\ UNCHANGED <<now, raw, open, manifest, lock, prune, version, tape, spent>>

(* with_hour: what the manifest says of one hour is replaced. *)
WithHour(h, hourBake) == [manifest EXCEPT !.hours[h] = hourBake]

(* write_manifest, write_atomic: the old text or the new one, never a part of it. *)
WriteManifest(updated) == manifest' = updated

(* record_bake *)
BakeRecords ==
  /\ bake.pc = "record"
  /\ IF HasPruned(bake.hour) THEN UNCHANGED manifest
     ELSE WriteManifest(WithHour(bake.hour,
            [ver |-> bake.ver, fails |-> \E f \in bake.segs : f.bad, segs |-> bake.segs,
             parts |-> [t \in Tables |-> BakedRows]]))
  /\ BakeLeavesHour
  /\ UNCHANGED <<now, raw, open, parts, lock, prune, version, tape, spent>>

BakeEnds ==
  /\ bake.pc = "next" /\ bake.todo = {}
  /\ bake' = IdleBake /\ Release
  /\ UNCHANGED <<now, raw, open, parts, manifest, prune, version, tape, spent>>

Stopped == Trouble /\ spent' = [spent EXCEPT !.stops = @ + 1]

(* An OSError anywhere in the hour. *)
BakeHourFails ==
  /\ bake.pc \in {"list", "read", "reading", "swap", "record"}
  /\ Stopped /\ BakeLeavesHour
  /\ UNCHANGED <<now, raw, open, parts, manifest, lock, prune, version, tape>>

BakeCrashes ==
  /\ bake.pc # "idle"
  /\ Stopped /\ bake' = IdleBake /\ Release
  /\ UNCHANGED <<now, raw, open, parts, manifest, prune, version, tape>>
-----------------------------------------------------------------------------
(* prune.py *)

OutsideWindow(h) == h + 1 + Retention < now

PrunedNames(h) == {p.file.name : p \in {q \in manifest.pruned : q.hour = h}}

(* _check_segments: what is on disk was baked, what was baked is on disk or
   pruned. *)
SegmentsMatch(h) ==
  /\ raw[h] \subseteq manifest.hours[h].segs
  /\ NamesIn(manifest.hours[h].segs) \subseteq NamesIn(raw[h]) \cup PrunedNames(h)

(* Mutant: a part file that is there is taken for the one that was baked. *)
PartsThere(h) == PartsPresent(h)

(* _check_parts *)
PartsMatch(h) ==
  \A t \in Tables :
    manifest.hours[h].parts[t] # {} => parts[h][t] = manifest.hours[h].parts[t]

(* decide, with every hash; survey hashes unless a cheaper reason applies. *)
Prunable(h) ==
  /\ OutsideWindow(h)
  /\ manifest.hours[h].ver = version /\ ~manifest.hours[h].fails
  /\ SegmentsMatch(h) /\ PartsMatch(h)

(* prune_archive: survey, for a run with --apply. *)
PruneStarts ==
  /\ prune.pc = "idle" /\ Acquire("prune")
  /\ LET found == UNION {{[hour |-> h, file |-> f] : f \in raw[h]} : h \in {g \in Hours : Prunable(g)}}
     IN found # {} /\ prune' = [pc |-> "record", segs |-> found]
  /\ UNCHANGED <<now, raw, open, parts, manifest, bake, version, tape, spent>>

(* with_pruned: a segment recorded already keeps its record. *)
WithPruned(entries) ==
  [manifest EXCEPT !.pruned = @ \cup {p \in entries : p.file.name \notin PrunedNames(p.hour)}]

(* Manifest.__post_init__: what is pruned was baked. *)
Valid(m) == \A p \in m.pruned : p.file \in m.hours[p.hour].segs

(* _prune_day, up to write_manifest. *)
PruneRecords ==
  /\ prune.pc = "record"
  /\ IF Valid(WithPruned(prune.segs))
     THEN /\ WriteManifest(WithPruned(prune.segs))
          /\ prune' = [prune EXCEPT !.pc = "unlink"] /\ UNCHANGED lock
     ELSE UNCHANGED manifest /\ prune' = IdlePrune /\ Release
  /\ UNCHANGED <<now, raw, open, parts, bake, version, tape, spent>>

(* Mutant: the manifest is written when the files are gone. *)
PruneUnlinksFirst(p) ==
  /\ prune.pc \in {"record", "unlink"} /\ p \in prune.segs
  /\ raw' = [raw EXCEPT ![p.hour] = {f \in @ : f.name # p.file.name}]
  /\ prune' = [prune EXCEPT !.segs = @ \ {p}]
  /\ UNCHANGED <<now, open, parts, manifest, lock, bake, version, tape, spent>>

(* _prune_day: unlink, whatever has the name by now. *)
PruneUnlinks(p) ==
  /\ prune.pc = "unlink" /\ p \in prune.segs
  /\ raw' = [raw EXCEPT ![p.hour] = {f \in @ : f.name # p.file.name}]
  /\ prune' = [prune EXCEPT !.segs = @ \ {p}]
  /\ UNCHANGED <<now, open, parts, manifest, lock, bake, version, tape, spent>>

PruneEnds ==
  /\ prune.pc = "unlink" /\ prune.segs = {}
  /\ prune' = IdlePrune /\ Release
  /\ UNCHANGED <<now, raw, open, parts, manifest, bake, version, tape, spent>>

(* A crash, or an OSError, which ends the command. *)
PruneStops ==
  /\ prune.pc # "idle"
  /\ Stopped /\ prune' = IdlePrune /\ Release
  /\ UNCHANGED <<now, raw, open, parts, manifest, bake, version, tape>>

-----------------------------------------------------------------------------
(* Something else damages a part file or removes it; not between the survey of a
   prune and its end, which take that the disk stays as it was. *)
PartsDamaged(h, t) ==
  /\ Trouble /\ spent' = [spent EXCEPT !.faults = @ + 1]
  /\ prune.pc = "idle" /\ parts[h][t] # {}
  /\ \E left \in {{}, {Rot}} : parts' = [parts EXCEPT ![h][t] = left]
  /\ UNCHANGED <<now, raw, open, manifest, lock, bake, prune, version, tape>>

(* A new BAKE_VERSION; a command that runs keeps the one it started with. *)
Deploy ==
  /\ Trouble /\ version' = version + 1
  /\ UNCHANGED <<now, raw, open, parts, manifest, lock, bake, prune, tape, spent>>

Bake ==
  \/ BakeTakesHour \/ BakeLists \/ BakeOpensSegment \/ BakeReadsSegment
  \/ BakeMovesOldAside \/ BakeMovesNewIn \/ BakeRecords \/ BakeEnds

Prune == PruneRecords \/ (\E p \in prune.segs : PruneUnlinks(p)) \/ PruneEnds

Next ==
  \/ RecorderWrites \/ RecorderCloses \/ ClockAdvances \/ ClockStepsBack
  \/ BakeIsRun \/ Bake \/ BakeHourFails \/ BakeCrashes
  \/ PruneStarts \/ Prune \/ PruneStops
  \/ (\E h \in Hours, t \in Tables : PartsDamaged(h, t)) \/ Deploy

Spec == Init /\ [][Next]_vars

(* The timer runs tape bake every hour, again when it met the lock, and a command
   goes on until it ends or is stopped.  Nothing else has to happen. *)
FairSpec == Spec /\ SF_vars(BakeStarts(FALSE, Hours)) /\ WF_vars(Bake) /\ WF_vars(Prune) /\ WF_vars(ClockAdvances)

-----------------------------------------------------------------------------
(* Where the content of a segment file is. *)

HeldRaw(e) == e.file \in raw[e.hour]

HeldBaked(e) ==
  /\ ~e.file.bad
  /\ \A t \in Tables : \E r \in parts[e.hour][t] : r.file = e.file

Place(i) ==
  IF i > Len(tape) THEN "none"
  ELSE LET e == tape[i]
       IN CASE HeldRaw(e) /\ HeldBaked(e)  -> "both"
            [] HeldRaw(e) /\ ~HeldBaked(e) -> "raw"
            [] ~HeldRaw(e) /\ HeldBaked(e) -> "baked"
            [] OTHER                       -> "lost"

Store == INSTANCE HourStore WITH
  copy <- [i \in Ids |-> Place(i)], faults <- spent.faults, MaxFaults <- MaxTroubles

(* The archive implements HourStore: a segment stays raw, baked, or both, and is
   deleted only while the tables hold all of it. *)
Implements == Store!Spec

Entries == [hour : Hours, file : Files]
HourBakes ==
  [ver : {0} \cup Versions, fails : BOOLEAN, segs : SUBSET Files, parts : [Tables -> SUBSET Rows]]

(* Every variable holds a value of its kind; at most one command runs, the one that
   has the lock; two files of an hour have different names. *)
TypeOK ==
  /\ now \in 0 .. MaxNow /\ version \in Versions /\ open \in 0 .. Len(tape)
  /\ raw \in [Hours -> SUBSET Files]
  /\ parts \in [Hours -> [Tables -> SUBSET (Rows \cup {Rot})]]
  /\ manifest \in [hours : [Hours -> HourBakes], pruned : SUBSET Entries]
  /\ tape \in Seq(Entries) /\ Len(tape) <= MaxFiles
  /\ bake.pc \in {"idle", "next", "list", "read", "reading", "swap", "record"}
  /\ prune.pc \in {"idle", "record", "unlink"} /\ prune.segs \subseteq Entries
  /\ bake.pc # "idle" <=> lock = "bake"
  /\ prune.pc # "idle" <=> lock = "prune"
  /\ \A h \in Hours, f, g \in UNION {raw[k] : k \in Hours} :
       f \in raw[h] /\ g \in raw[h] /\ f.name = g.name => f = g

(* prune.py, apply: a file that is gone was recorded as pruned first. *)
GoneIsRecorded ==
  \A i \in 1 .. Len(tape) : HeldRaw(tape[i]) \/ tape[i] \in manifest.pruned

(* The manifest describes what is on disk: nothing is left to bake. *)
Described(h) ==
  /\ manifest.hours[h].ver = version
  /\ manifest.hours[h].segs = raw[h]
  /\ PartsPresent(h)

Owed(h) == Closed(h) /\ raw[h] # {} /\ ~HasPruned(h)

(* bake_needed, replace_dir, record_bake: a closed hour that was not pruned is baked
   in the end, also when bakes died between two of their steps. *)
BakedAgain == \A h \in Hours : Owed(h) ~> (~Owed(h) \/ Described(h))
=============================================================================
