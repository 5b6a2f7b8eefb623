------------------------------ MODULE HourStore ------------------------------
(***************************************************************************)
(* What the archive promises about every raw segment, whatever bakes,      *)
(* prunes, crashes and clock steps happen: it is held raw, baked, or both, *)
(* and the raw copy goes only while the tables hold all of it (ADR 0025).  *)
(* Archive implements it.                                                  *)
(***************************************************************************)
EXTENDS Naturals

CONSTANTS
  Ids,       \* the segments ever written
  MaxFaults  \* bound: damage from outside

VARIABLES
  copy,   \* where the content of each segment is
  faults  \* how often something else damaged a baked file

Places == {"none", "raw", "both", "baked", "lost"}

Init ==
  /\ copy = [i \in Ids |-> "none"]
  /\ faults = 0

Moved(S, from, to) ==
  /\ \A i \in S : copy[i] \in from
  /\ copy' = [i \in Ids |-> IF i \in S THEN to ELSE copy[i]]
  /\ UNCHANGED faults

(* The recorder writes: what tables hold of the segment is no longer all of it. *)
Written(i) == Moved({i}, {"none", "raw", "both"}, "raw")

(* The last table of an hour is put in place, or the first one taken away. *)
Published(S) == Moved(S, {"raw"}, "both")
Withdrawn(S) == Moved(S, {"both"}, "raw")

Deleted(i) == Moved({i}, {"both"}, "baked")

(* Only damage loses content, and only that of a segment already deleted. *)
Damaged(S) ==
  /\ faults < MaxFaults /\ faults' = faults + 1
  /\ \A i \in S : copy[i] \in {"both", "baked"}
  /\ copy' = [i \in Ids |->
                CASE i \in S /\ copy[i] = "both"  -> "raw"
                  [] i \in S /\ copy[i] = "baked" -> "lost"
                  [] OTHER                        -> copy[i]]

Next ==
  \/ \E i \in Ids : Written(i) \/ Deleted(i)
  \/ \E S \in SUBSET Ids : Published(S) \/ Withdrawn(S) \/ Damaged(S)

Spec == Init /\ [][Next]_<<copy, faults>>
=============================================================================
