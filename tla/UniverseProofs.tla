---------------------------- MODULE UniverseProofs ----------------------------
(***************************************************************************)
(* Proofs about Universe: for every set of markets, groups, limits and     *)
(* schedule of events and listings, no market is carried twice, no pause   *)
(* oversleeps what is due, and the market list says what was reported.     *)
(***************************************************************************)
EXTENDS Universe, FiniteSetTheorems, SequenceTheorems, WellFoundedInduction, TLAPS

-----------------------------------------------------------------------------
(* Folds: each operator of Universe that is one, by its step. *)

KeptStep(S, kept, m) == IF m \in S THEN Append(kept, m) ELSE kept
JoinedStep(c, s, t) == s \o t
VolumeStep(c, sum, m) == sum + Market[m].volume
FillStep(c, members, m) == Fill(members, m)
Keeping == INSTANCE Folding WITH Op <- KeptStep
Joining == INSTANCE Folding WITH Op <- JoinedStep
Summing == INSTANCE Folding WITH Op <- VolumeStep
Filling == INSTANCE Folding WITH Op <- FillStep
Admitting == INSTANCE Folding WITH Op <- Admit

(* Induction over the numbers, which the lemmas on folds ask for. *)
Less == OpToRel(<, Nat)

LEMMA Smallest ==
  ASSUME NEW S \in SUBSET Nat, S # {}
  PROVE  \E x \in S : \A y \in S : x <= y
<1>1. IsWellFoundedOn(Less, Nat)
  BY NatLessThanWellFounded DEF Less
<1>2. PICK x \in S : \A y \in S : ~(<<y, x>> \in Less)
  BY <1>1, WFMin
<1>3. ASSUME NEW y \in S PROVE x <= y
  <2>1. x \in Nat /\ y \in Nat /\ <<y, x>> \in Nat \X Nat
    OBVIOUS
  <2>2. ~(<<y, x>> \in Less)
    BY <1>2
  <2>3. ~(y < x)
    BY <2>1, <2>2 DEF Less, OpToRel
  <2> QED BY <2>1, <2>3
<1> QED BY <1>3

LEMMA UpTo ==
  ASSUME NEW N \in Nat, NEW S \in SUBSET (0 .. N), 0 \in S,
         \A n \in 0 .. N - 1 : n \in S => n + 1 \in S
  PROVE  S = 0 .. N
<1> DEFINE R == (0 .. N) \ S
<1> SUFFICES ASSUME R # {} PROVE FALSE
  OBVIOUS
<1>1. R \in SUBSET Nat
  OBVIOUS
<1>2. PICK x \in R : \A y \in R : x <= y
  <2> HIDE DEF R
  <2> QED BY <1>1, Smallest
<1>3. x - 1 \in 0 .. N - 1 /\ x - 1 \in S
  BY <1>2
<1> QED BY <1>2, <1>3

LEMMA Climbing == Keeping!Climbs /\ Joining!Climbs /\ Summing!Climbs /\ Filling!Climbs /\ Admitting!Climbs
<1>1. ASSUME NEW N \in Nat, NEW S \in SUBSET (0 .. N), 0 \in S,
             \A n \in 0 .. N - 1 : n \in S => n + 1 \in S
      PROVE  S = 0 .. N
  BY <1>1, UpTo
<1> QED BY <1>1 DEF Keeping!Climbs, Joining!Climbs, Summing!Climbs, Filling!Climbs, Admitting!Climbs

-----------------------------------------------------------------------------
(* Sorting: the order of ranks, and the sequence it gives. *)

Vectors(k) == [1 .. k -> Int]

LEMMA LowerTotal ==
  ASSUME NEW k \in Nat, NEW r \in Vectors(k), NEW s \in Vectors(k), r # s
  PROVE  Lower(r, s) \/ Lower(s, r)
<1> DEFINE D == {i \in 1 .. k : r[i] # s[i]}
<1>1. D # {} /\ D \in SUBSET Nat
  BY DEF Vectors
<1>2. PICK x \in D : \A y \in D : x <= y
  BY <1>1, Smallest
<1>3. \A j \in 1 .. x - 1 : r[j] = s[j]
  BY <1>2
<1>4. r[x] < s[x] \/ s[x] < r[x]
  BY <1>2 DEF Vectors
<1>5. x \in DOMAIN r /\ x \in DOMAIN s
  BY <1>2 DEF Vectors
<1> QED BY <1>3, <1>4, <1>5 DEF Lower

LEMMA LowerOrder ==
  ASSUME NEW k \in Nat, NEW r \in Vectors(k), NEW s \in Vectors(k), NEW t \in Vectors(k)
  PROVE  ~Lower(r, r) /\ (Lower(r, s) /\ Lower(s, t) => Lower(r, t))
<1>1. ~Lower(r, r)
  BY DEF Lower, Vectors
<1>2. ASSUME Lower(r, s), Lower(s, t) PROVE Lower(r, t)
  <2>1. PICK i \in 1 .. k : r[i] < s[i] /\ \A j \in 1 .. i - 1 : r[j] = s[j]
    BY <1>2 DEF Lower, Vectors
  <2>2. PICK h \in 1 .. k : s[h] < t[h] /\ \A j \in 1 .. h - 1 : s[j] = t[j]
    BY <1>2 DEF Lower, Vectors
  <2>3. \A j \in 1 .. k : r[j] \in Int /\ s[j] \in Int /\ t[j] \in Int
    BY DEF Vectors
  <2>4. CASE i <= h
    <3>1. r[i] < t[i] /\ \A j \in 1 .. i - 1 : r[j] = t[j]
      BY <2>1, <2>2, <2>3, <2>4
    <3> QED BY <3>1 DEF Lower, Vectors
  <2>5. CASE h < i
    <3>1. r[h] < t[h] /\ \A j \in 1 .. h - 1 : r[j] = t[j]
      BY <2>1, <2>2, <2>3, <2>5
    <3> QED BY <3>1 DEF Lower, Vectors
  <2> QED BY <2>4, <2>5
<1> QED BY <1>1, <1>2

(* Ranks of the members of S, which tell them apart. *)
Ranking(S, r, k) ==
  /\ \A x \in S : r[x] \in Vectors(k)
  /\ \A x, y \in S : r[x] = r[y] => x = y

LEMMA PlacesRise ==
  ASSUME NEW S, IsFiniteSet(S), NEW k \in Nat, NEW r, Ranking(S, r, k), NEW x \in S, NEW y \in S,
         Lower(r[x], r[y])
  PROVE  Cardinality(Before(S, r, x)) < Cardinality(Before(S, r, y))
<1>1. \A z \in S : r[z] \in Vectors(k)
  BY DEF Ranking
<1>2. Before(S, r, x) \subseteq Before(S, r, y) /\ x \in Before(S, r, y) /\ x \notin Before(S, r, x)
  BY <1>1, LowerOrder DEF Before
<1>3. IsFiniteSet(Before(S, r, y))
  BY FS_Subset DEF Before
<1>4. /\ Cardinality(Before(S, r, x)) <= Cardinality(Before(S, r, y))
      /\ Cardinality(Before(S, r, x)) # Cardinality(Before(S, r, y))
  BY <1>2, <1>3, FS_Subset
<1>5. Cardinality(Before(S, r, x)) \in Nat /\ Cardinality(Before(S, r, y)) \in Nat
  BY <1>2, <1>3, FS_Subset, FS_CardinalityType
<1> QED BY <1>4, <1>5

LEMMA EveryPlace ==
  ASSUME NEW S, IsFiniteSet(S), NEW k \in Nat, NEW r, Ranking(S, r, k)
  PROVE  /\ Cardinality(S) \in Nat
         /\ \A x \in S : Cardinality(Before(S, r, x)) \in 0 .. Cardinality(S) - 1
         /\ \A i \in 1 .. Cardinality(S) : \E x \in S : Cardinality(Before(S, r, x)) = i - 1
<1> DEFINE n == Cardinality(S)
           f == [x \in S |-> Cardinality(Before(S, r, x))]
<1>1. n \in Nat
  BY FS_CardinalityType
<1>2. ASSUME NEW x \in S PROVE Cardinality(Before(S, r, x)) \in 0 .. n - 1
  <2>1. Before(S, r, x) \subseteq S /\ x \notin Before(S, r, x)
    BY LowerOrder DEF Before, Ranking
  <2>2. /\ IsFiniteSet(Before(S, r, x)) /\ Cardinality(Before(S, r, x)) <= n
        /\ Cardinality(Before(S, r, x)) # n
    BY <2>1, FS_Subset
  <2>3. Cardinality(Before(S, r, x)) \in Nat
    BY <2>2, FS_CardinalityType
  <2> QED BY <1>1, <2>2, <2>3
<1>3. f \in [S -> 0 .. n - 1]
  BY <1>2
<1>4. ASSUME NEW x \in S, NEW y \in S, f[x] = f[y] PROVE x = y
  <2>1. SUFFICES ASSUME x # y PROVE FALSE
    OBVIOUS
  <2>2. r[x] # r[y] /\ r[x] \in Vectors(k) /\ r[y] \in Vectors(k)
    BY <2>1 DEF Ranking
  <2>3. CASE Lower(r[x], r[y])
    <3>1. f[x] < f[y]
      BY <2>3, PlacesRise
    <3> QED BY <1>3, <1>4, <3>1
  <2>4. CASE Lower(r[y], r[x])
    <3>1. f[y] < f[x]
      BY <2>4, PlacesRise
    <3> QED BY <1>3, <1>4, <3>1
  <2> QED BY <2>2, <2>3, <2>4, LowerTotal
<1>5. IsFiniteSet(0 .. n - 1) /\ Cardinality(0 .. n - 1) = n
  <2>1. 0 \in Int /\ n - 1 \in Int
    BY <1>1
  <2> QED BY <1>1, <2>1, FS_Interval
<1> HIDE DEF f
<1>6. f \in Injection(S, 0 .. n - 1)
  BY <1>3, <1>4 DEF Injection, IsInjective
<1>7. f \in Surjection(S, 0 .. n - 1)
  BY <1>5, <1>6, FS_Injection
<1>8. ASSUME NEW i \in 1 .. n PROVE \E x \in S : f[x] = i - 1
  <2>1. i - 1 \in 0 .. n - 1
    BY <1>1
  <2> QED BY <1>7, <2>1 DEF Surjection
<1> QED BY <1>1, <1>2, <1>8 DEF f

(* sorted() by ranks that tell the members of a finite set apart: every member once, the
   lower rank first. *)
THEOREM Sorts ==
  ASSUME NEW S, IsFiniteSet(S), NEW k \in Nat, NEW r, Ranking(S, r, k)
  PROVE  LET s == Ranked(S, r)
         IN /\ s \in Seq(S) /\ Len(s) = Cardinality(S) /\ Range(s) = S
            /\ \A i, j \in 1 .. Len(s) : s[i] = s[j] => i = j
            /\ \A i, j \in 1 .. Len(s) : i < j => Lower(r[s[i]], r[s[j]])
<1> DEFINE n == Cardinality(S)
           s == Ranked(S, r)
<1>1. /\ n \in Nat
      /\ \A x \in S : Cardinality(Before(S, r, x)) \in 0 .. n - 1
      /\ \A i \in 1 .. n : \E x \in S : Cardinality(Before(S, r, x)) = i - 1
  BY EveryPlace
<1>2. s = [i \in 1 .. n |-> CHOOSE x \in S : Cardinality(Before(S, r, x)) = i - 1]
  BY DEF Ranked
<1>3. \A i \in 1 .. n : s[i] \in S /\ Cardinality(Before(S, r, s[i])) = i - 1
  BY <1>1, <1>2
<1>4. s \in [1 .. n -> S]
  BY <1>2, <1>3
<1> HIDE DEF n, s
<1>5. s \in Seq(S) /\ Len(s) = n /\ DOMAIN s = 1 .. n
  BY <1>1, <1>4
<1>6. ASSUME NEW i \in 1 .. n, NEW j \in 1 .. n, s[i] = s[j] PROVE i = j
  BY <1>3, <1>6
<1>7. ASSUME NEW i \in 1 .. n, NEW j \in 1 .. n, i < j PROVE Lower(r[s[i]], r[s[j]])
  <2>1. SUFFICES ASSUME ~Lower(r[s[i]], r[s[j]]) PROVE FALSE
    OBVIOUS
  <2>2. s[i] \in S /\ s[j] \in S /\ s[i] # s[j]
    BY <1>3, <1>6, <1>7
  <2>3. Lower(r[s[j]], r[s[i]])
    BY <2>1, <2>2, LowerTotal DEF Ranking
  <2>4. Cardinality(Before(S, r, s[j])) < Cardinality(Before(S, r, s[i]))
    BY <2>2, <2>3, PlacesRise
  <2> QED BY <1>3, <1>7, <2>4
<1>8. ASSUME NEW x \in S PROVE x \in Range(s)
  <2>1. PICK p \in 0 .. n - 1 : Cardinality(Before(S, r, x)) = p
    BY <1>1
  <2>2. p + 1 \in 1 .. n /\ (p + 1) - 1 = p
    BY <1>1
  <2>3. s[p + 1] \in S /\ Cardinality(Before(S, r, s[p + 1])) = p
    BY <1>3, <2>2
  <2>4. s[p + 1] = x
    <3>1. SUFFICES ASSUME s[p + 1] # x PROVE FALSE
      OBVIOUS
    <3>2. Lower(r[x], r[s[p + 1]]) \/ Lower(r[s[p + 1]], r[x])
      BY <2>3, <3>1, LowerTotal DEF Ranking
    <3> QED BY <2>1, <2>3, <3>2, PlacesRise
  <2> QED BY <1>5, <2>2, <2>4 DEF Range
<1>9. Range(s) = S
  BY <1>3, <1>5, <1>8 DEF Range
<1> QED BY <1>5, <1>6, <1>7, <1>9 DEF n, s

LEMMA MinIs ==
  ASSUME NEW S \in SUBSET Int, IsFiniteSet(S), S # {}
  PROVE  Min(S) \in S /\ \A x \in S : Min(S) <= x
<1> DEFINE r == [x \in S |-> [i \in 1 .. 1 |-> x]]
           s == Ranked(S, r)
<1>1. Ranking(S, r, 1)
  <2>1. \A x \in S : r[x] \in Vectors(1) /\ r[x][1] = x
    BY DEF Vectors
  <2> HIDE DEF r
  <2> QED BY <2>1 DEF Ranking
<1>2. /\ Len(s) = Cardinality(S) /\ Range(s) = S /\ s \in Seq(S)
      /\ \A i, j \in 1 .. Len(s) : i < j => Lower(r[s[i]], r[s[j]])
  BY <1>1, Sorts
<1>3. \A x, y \in S : Lower(r[x], r[y]) => x < y
  BY DEF Lower
<1> HIDE DEF r, s
<1>4. Cardinality(S) \in Nat /\ Cardinality(S) # 0
  BY FS_CardinalityType, FS_EmptySet
<1>5. 1 \in 1 .. Len(s) /\ DOMAIN s = 1 .. Len(s) /\ \A i \in 1 .. Len(s) : s[i] \in S
  BY <1>2, <1>4
<1>6. ASSUME NEW x \in S PROVE s[1] <= x
  <2>1. PICK i \in 1 .. Len(s) : s[i] = x
    BY <1>2, <1>5 DEF Range
  <2>2. CASE i = 1
    <3>1. x \in Int
      OBVIOUS
    <3> QED BY <2>1, <2>2, <3>1
  <2>3. CASE i # 1
    <3>1. Lower(r[s[1]], r[s[i]])
      BY <1>2, <1>4, <1>5, <2>3
    <3>2. s[1] < s[i]
      BY <1>3, <1>5, <3>1
    <3>3. s[1] \in Int /\ x \in Int
      BY <1>5
    <3> QED BY <2>1, <3>2, <3>3
  <2> QED BY <2>2, <2>3
<1> QED BY <1>5, <1>6 DEF Min

LEMMA MinOfTwo ==
  ASSUME NEW a \in Int, NEW b \in Int
  PROVE  /\ Min({a, b}) = IF a <= b THEN a ELSE b
         /\ Max({a, b}) = IF a >= b THEN a ELSE b
<1>1. \A x \in {a, b} : (\A y \in {a, b} : x <= y) <=> x = IF a <= b THEN a ELSE b
  OBVIOUS
<1>2. \A x \in {a, b} : (\A y \in {a, b} : x >= y) <=> x = IF a >= b THEN a ELSE b
  OBVIOUS
<1>3. (IF a <= b THEN a ELSE b) \in {a, b} /\ (IF a >= b THEN a ELSE b) \in {a, b}
  OBVIOUS
<1> QED BY <1>1, <1>2, <1>3 DEF Min, Max

LEMMA AmongFirstIs ==
  ASSUME NEW A, NEW s \in Seq(A), NEW n \in Nat \cup {None}
  PROVE  LET f == AmongFirst(n, s)
         IN /\ f \in Seq(A) /\ Len(f) <= Len(s) /\ Len(f) \in Nat
            /\ n # None => Len(f) <= n
            /\ n = None \/ Len(s) <= n => f = s
            /\ \A i \in 1 .. Len(f) : f[i] = s[i]
<1>1. Len(s) \in Nat /\ s \in [1 .. Len(s) -> A]
  OBVIOUS
<1>2. CASE n = None
  BY <1>1, <1>2 DEF AmongFirst
<1>3. CASE n # None
  <2> DEFINE N == Len(s)
             m == IF n <= N THEN n ELSE N
  <2>1. n \in Nat /\ N \in Nat
    BY <1>3
  <2>2. AmongFirst(n, s) = SubSeq(s, 1, m)
    BY <1>3, <2>1, MinOfTwo DEF AmongFirst
  <2> HIDE DEF N
  <2>3. m \in 0 .. N /\ (N <= n => m = N) /\ m <= n /\ m \in Nat
    BY <2>1
  <2> HIDE DEF m
  <2>4. \A i \in 1 .. m : s[i] \in A
    BY <2>1, <2>3 DEF N
  <2>5. m - 1 + 1 = m /\ (1 <= m \/ m = 0) /\ \A i \in 1 .. m : 1 + i - 1 = i
    BY <2>3
  <2>6. /\ SubSeq(s, 1, m) \in Seq(A) /\ Len(SubSeq(s, 1, m)) = m
        /\ \A i \in 1 .. m : SubSeq(s, 1, m)[i] = s[i]
    BY <2>3, <2>4, <2>5, SubSeqProperties
  <2>7. m = N => SubSeq(s, 1, m) = s
    BY SubSeqFull DEF N
  <2> HIDE <1>1
  <2>8. Len(SubSeq(s, 1, m)) <= N
    BY <2>1, <2>3, <2>6
  <2> QED BY <1>3, <2>2, <2>3, <2>6, <2>7, <2>8 DEF N
<1> QED BY <1>2, <1>3

LEMMA SortsTickers ==
  ASSUME NEW S \in SUBSET Tickers
  PROVE  LET s == ByTicker(S)
         IN /\ s \in Seq(S) /\ Len(s) = Cardinality(S) /\ Range(s) = S
            /\ \A i, j \in 1 .. Len(s) : s[i] = s[j] => i = j
<1>1. IsFiniteSet(S)
  BY UniverseAssumption, FS_Subset
<1> DEFINE r == [m \in S |-> <<m>>]
<1>2. Ranking(S, r, 1)
  <2>1. \A m \in S : m \in Int
    BY UniverseAssumption
  <2>2. \A m \in S : r[m] \in Vectors(1) /\ r[m][1] = m
    BY <2>1 DEF Vectors
  <2> HIDE DEF r
  <2> QED BY <2>2 DEF Ranking
<1> HIDE DEF r
<1>3. ByTicker(S) = Ranked(S, r)
  BY DEF ByTicker, r
<1> QED BY <1>1, <1>2, <1>3, Sorts

LEMMA Folds ==
  /\ \A s, S : Kept(s, S) = Keeping!Folded(S, << >>, s)
  /\ \A seqs : Joined(seqs) = Joining!Folded(0, << >>, seqs)
  /\ \A event : EventVolume(event) = Summing!Folded(0, 0, ByTicker(event))
<1>1. \A s, S : Kept(s, S) = Keeping!Folded(S, << >>, s)
  BY DEF Kept, Keeping!Folded, KeptStep, FoldLeft, Keeping!After, MapThenFoldSet,
         Keeping!Highest, Max
<1>2. \A seqs : Joined(seqs) = Joining!Folded(0, << >>, seqs)
  BY DEF Joined, Joining!Folded, JoinedStep, FoldLeft, Joining!After, MapThenFoldSet,
         Joining!Highest, Max
<1>3. \A event : EventVolume(event) = Summing!Folded(0, 0, ByTicker(event))
  BY DEF EventVolume, Summing!Folded, VolumeStep, FoldLeft, Summing!After, MapThenFoldSet,
         Summing!Highest, Max
<1> QED BY <1>1, <1>2, <1>3

LEMMA KeptIn ==
  ASSUME NEW A, NEW s \in Seq(A), NEW S
  PROVE  Kept(s, S) \in Seq(S)
<1> DEFINE T == [n \in 0 .. Len(s) |-> Seq(S)]
<1>1. Len(s) \in Nat /\ 0 \in 0 .. Len(s)
  OBVIOUS
<1>2. << >> \in T[0]
  BY <1>1
<1>3. \A n \in 1 .. Len(s) : \A acc \in T[n - 1] : KeptStep(S, acc, s[n]) \in T[n]
  <2> TAKE n \in 1 .. Len(s)
  <2>1. n - 1 \in 0 .. Len(s) /\ n \in 0 .. Len(s)
    BY <1>1
  <2>2. T[n - 1] = Seq(S) /\ T[n] = Seq(S)
    BY <2>1
  <2>3. \A acc \in Seq(S) : KeptStep(S, acc, s[n]) \in Seq(S)
    BY DEF KeptStep
  <2> QED BY <2>2, <2>3
<1>4. T[Len(s)] = Seq(S)
  BY <1>1
<1> HIDE DEF T
<1>5. Keeping!Folded(S, << >>, s) \in T[Len(s)]
  BY <1>2, <1>3, Climbing, Keeping!FoldInvariant
<1> QED BY <1>4, <1>5, Folds

LEMMA JoinedIn ==
  ASSUME NEW A, NEW seqs \in Seq(Seq(A))
  PROVE  Joined(seqs) \in Seq(A)
<1> DEFINE T == [n \in 0 .. Len(seqs) |-> Seq(A)]
<1>1. Len(seqs) \in Nat /\ 0 \in 0 .. Len(seqs) /\ \A n \in 1 .. Len(seqs) : seqs[n] \in Seq(A)
  OBVIOUS
<1>2. << >> \in T[0]
  BY <1>1
<1>3. \A n \in 1 .. Len(seqs) : \A acc \in T[n - 1] : JoinedStep(0, acc, seqs[n]) \in T[n]
  <2> TAKE n \in 1 .. Len(seqs)
  <2>1. n - 1 \in 0 .. Len(seqs) /\ n \in 0 .. Len(seqs) /\ seqs[n] \in Seq(A)
    BY <1>1
  <2>2. T[n - 1] = Seq(A) /\ T[n] = Seq(A)
    BY <2>1
  <2> HIDE DEF T
  <2>3. \A acc \in Seq(A) : JoinedStep(0, acc, seqs[n]) \in Seq(A)
    BY <2>1 DEF JoinedStep
  <2> QED BY <2>2, <2>3
<1>4. T[Len(seqs)] = Seq(A)
  BY <1>1
<1> HIDE DEF T
<1>5. Joining!Folded(0, << >>, seqs) \in T[Len(seqs)]
  BY <1>2, <1>3, Climbing, Joining!FoldInvariant
<1> QED BY <1>4, <1>5, Folds

LEMMA MarketIs ==
  ASSUME NEW m \in Tickers
  PROVE  /\ Market[m].series \in Int /\ Market[m].event \in Int /\ Market[m].volume \in Int
         /\ Market[m].close \in Int /\ Market[m].mid \in Int
<1>1. GoodMarket(Market[m])
  BY UniverseAssumption
<1>2. /\ Market[m].series \in Nat /\ Market[m].event \in Nat /\ Market[m].volume \in Nat
      /\ Market[m].close \in Nat \cup {None} /\ Market[m].mid \in Nat \cup {None}
  BY <1>1 DEF GoodMarket
<1>3. None \in Int
  BY DEF None
<1> QED BY <1>2, <1>3

LEMMA VolumeIs ==
  ASSUME NEW event \in SUBSET Tickers
  PROVE  EventVolume(event) \in Int
<1> DEFINE s == ByTicker(event)
           T == [n \in 0 .. Len(s) |-> Int]
<1>1. s \in Seq(event)
  BY SortsTickers
<1> HIDE DEF s
<1>2. /\ Len(s) \in Nat /\ 0 \in 0 .. Len(s)
      /\ \A n \in 1 .. Len(s) : s[n] \in Tickers
  BY <1>1
<1>3. 0 \in T[0] /\ T[Len(s)] = Int
  BY <1>2
<1>4. \A n \in 1 .. Len(s) : \A acc \in T[n - 1] : VolumeStep(0, acc, s[n]) \in T[n]
  <2> TAKE n \in 1 .. Len(s)
  <2>1. n - 1 \in 0 .. Len(s) /\ n \in 0 .. Len(s)
    BY <1>2
  <2>2. T[n - 1] = Int /\ T[n] = Int
    BY <2>1
  <2>3. Market[s[n]].volume \in Int
    BY <1>2, MarketIs
  <2> QED BY <2>2, <2>3 DEF VolumeStep
<1> HIDE DEF T
<1>5. Summing!Folded(0, 0, s) \in T[Len(s)]
  BY <1>1, <1>3, <1>4, Climbing, Summing!FoldInvariant
<1> QED BY <1>3, <1>5, Folds DEF s
-----------------------------------------------------------------------------
(* What a group chooses. *)

Summaries == [close : Int, mid : Int]
Listings == UNION {[S -> Summaries] : S \in SUBSET Tickers}

LEMMA ListedIs ==
  ASSUME NEW listed \in Listings
  PROVE  /\ DOMAIN listed \in SUBSET Tickers /\ IsFiniteSet(DOMAIN listed)
         /\ \A m \in DOMAIN listed : /\ listed[m] \in Summaries
                                     /\ listed[m].close \in Int /\ listed[m].mid \in Int
<1>1. PICK S \in SUBSET Tickers : listed \in [S -> Summaries]
  BY DEF Listings
<1>2. IsFiniteSet(S)
  BY UniverseAssumption, FS_Subset
<1>3. \A s \in Summaries : s.close \in Int /\ s.mid \in Int
  BY DEF Summaries
<1> QED BY <1>1, <1>2, <1>3

LEMMA RanksJoined ==
  ASSUME NEW j \in Nat, NEW k \in Nat, NEW r \in Vectors(j), NEW s \in Vectors(k)
  PROVE  /\ r \o s \in Vectors(j + k)
         /\ \A i \in 1 .. j : (r \o s)[i] = r[i]
         /\ \A i \in 1 .. k : (r \o s)[j + i] = s[i]
<1>1. r \in Seq(Int) /\ Len(r) = j /\ s \in Seq(Int) /\ Len(s) = k
  <2>1. \A n \in Nat : \A v \in Vectors(n) : v \in Seq(Int) /\ Len(v) = n
    BY IsASeq, LenProperties DEF Vectors
  <2> QED BY <2>1
<1>2. /\ r \o s \in Seq(Int) /\ Len(r \o s) = j + k
      /\ \A i \in 1 .. j + k : (r \o s)[i] = IF i <= j THEN r[i] ELSE s[i - j]
  BY <1>1, ConcatProperties
<1>3. r \o s \in [1 .. j + k -> Int]
  BY <1>2, LenProperties
<1>4. \A i \in 1 .. j : i \in 1 .. j + k /\ i <= j
  OBVIOUS
<1>5. \A i \in 1 .. k : j + i \in 1 .. j + k /\ ~(j + i <= j) /\ j + i - j = i
  OBVIOUS
<1> QED BY SMTT(60), <1>2, <1>3, <1>4, <1>5 DEF Vectors

LEMMA ShortRanks ==
  ASSUME NEW a \in Int, NEW b \in Int
  PROVE  <<a>> \in Vectors(1) /\ <<a, b>> \in Vectors(2)
BY DEF Vectors

LEMMA RankOfThree ==
  ASSUME NEW a \in Int, NEW b \in Int, NEW c \in Int
  PROVE  <<a, b>> \o <<c>> \in Vectors(3) /\ (<<a, b>> \o <<c>>)[3] = c
<1>1. <<a, b>> \in Vectors(2) /\ <<c>> \in Vectors(1) /\ <<c>>[1] = c
  BY ShortRanks
<1>2. /\ <<a, b>> \o <<c>> \in Vectors(2 + 1)
      /\ \A i \in 1 .. 1 : (<<a, b>> \o <<c>>)[2 + i] = <<c>>[i]
  BY <1>1, RanksJoined
<1> QED BY <1>1, <1>2

LEMMA RankOfFive ==
  ASSUME NEW a \in Int, NEW r \in Vectors(3), NEW c \in Int
  PROVE  /\ <<a>> \o r \o <<c>> \in Vectors(5)
         /\ (<<a>> \o r \o <<c>>)[4] = r[3] /\ (<<a>> \o r \o <<c>>)[5] = c
<1>1. <<a>> \in Vectors(1) /\ <<c>> \in Vectors(1) /\ <<c>>[1] = c
  BY ShortRanks
<1> DEFINE s == <<a>> \o r
<1>2. s \in Vectors(1 + 3) /\ \A i \in 1 .. 3 : s[1 + i] = r[i]
  <2>1. 1 \in Nat /\ 3 \in Nat
    OBVIOUS
  <2> QED BY <1>1, <2>1, RanksJoined, Zenon
<1> HIDE DEF s
<1>3. s \in Vectors(4) /\ s[4] = r[3]
  BY <1>2
<1>4. /\ s \o <<c>> \in Vectors(4 + 1)
      /\ \A i \in 1 .. 4 : (s \o <<c>>)[i] = s[i]
      /\ \A i \in 1 .. 1 : (s \o <<c>>)[4 + i] = <<c>>[i]
  <2>1. 1 \in Nat /\ 4 \in Nat
    OBVIOUS
  <2> QED BY <1>1, <1>3, <2>1, RanksJoined, Zenon
<1> DEFINE q == s \o <<c>>
<1> HIDE DEF q
<1>5. q \in Vectors(4 + 1) /\ (\A i \in 1 .. 4 : q[i] = s[i]) /\ \A i \in 1 .. 1 : q[4 + i] = <<c>>[i]
  BY <1>4 DEF q
<1>6. q \in Vectors(5) /\ q[4] = r[3] /\ q[5] = c
  BY <1>1, <1>3, <1>5
<1> QED BY <1>6 DEF q, s

LEMMA RankOfSix ==
  ASSUME NEW a \in Int, NEW b \in Int, NEW c \in Int, NEW d \in Int, NEW e \in Int, NEW f \in Int
  PROVE  /\ <<a, b>> \o <<c>> \o <<d, e>> \o <<f>> \in Vectors(6)
         /\ (<<a, b>> \o <<c>> \o <<d, e>> \o <<f>>)[6] = f
<1>1. <<a, b>> \o <<c>> \in Vectors(3) /\ <<d, e>> \in Vectors(2) /\ <<f>> \in Vectors(1)
      /\ <<f>>[1] = f
  BY RankOfThree, ShortRanks
<1> DEFINE r == <<a, b>> \o <<c>>
           s == r \o <<d, e>>
<1> HIDE DEF r
<1>2. s \in Vectors(3 + 2)
  BY <1>1, RanksJoined DEF r
<1> HIDE DEF s
<1>3. s \in Vectors(5)
  BY <1>2
<1> DEFINE q == s \o <<f>>
<1>4. q \in Vectors(5 + 1) /\ \A i \in 1 .. 1 : q[5 + i] = <<f>>[i]
  <2>1. 1 \in Nat /\ 5 \in Nat
    OBVIOUS
  <2> QED BY <1>1, <1>3, <2>1, RanksJoined, Zenon
<1> HIDE DEF q
<1>5. q \in Vectors(6) /\ q[6] = f
  BY <1>1, <1>4
<1> QED BY <1>5 DEF q, r, s

LEMMA CloseOrders ==
  ASSUME NEW close \in Int
  PROVE  \E a, b \in Int : CloseOrder(close) = <<a, b>>
<1>1. CloseOrder(close) = <<1, 0>> \/ CloseOrder(close) = <<0, close>>
  BY DEF CloseOrder
<1> QED BY <1>1

LEMMA MarketsRanked ==
  ASSUME NEW group, NEW listed \in Listings, NEW S \in SUBSET DOMAIN listed, NEW E \in SUBSET S
  PROVE  Ranking(E, [m \in S |-> MarketRank(group, listed, m)], 6)
<1>1. ASSUME NEW m \in S
      PROVE  MarketRank(group, listed, m) \in Vectors(6) /\ MarketRank(group, listed, m)[6] = m
  <2>1. m \in Tickers /\ listed[m].close \in Int /\ listed[m].mid \in Int
    BY ListedIs
  <2>2. m \in Int /\ -Market[m].volume \in Int
    BY SMTT(60), <2>1, MarketIs, UniverseAssumption
  <2>3. PICK a, b \in Int :
          <<a, b>> = IF ~group.near THEN <<0, 0>>
                     ELSE IF listed[m].mid = None THEN <<1, 0>> ELSE <<0, listed[m].mid>>
    BY <2>1
  <2>4. PICK d, e \in Int : CloseOrder(listed[m].close) = <<d, e>>
    BY <2>1, CloseOrders
  <2>5. MarketRank(group, listed, m) = <<a, b>> \o <<-Market[m].volume>> \o <<d, e>> \o <<m>>
    BY <2>3, <2>4 DEF MarketRank
  <2> QED BY <2>2, <2>5, RankOfSix
<1> DEFINE r == [m \in S |-> MarketRank(group, listed, m)]
<1>2. \A m \in E : r[m] \in Vectors(6) /\ r[m][6] = m
  BY <1>1
<1> HIDE DEF r
<1>3. Ranking(E, r, 6)
  BY <1>2 DEF Ranking
<1> QED BY <1>3 DEF r

IdOf(event) == CHOOSE e \in {EventOf(m) : m \in event} : TRUE

LEMMA EventsAre ==
  ASSUME NEW S \in SUBSET Tickers
  PROVE  /\ IsFiniteSet(Events(S))
         /\ \A event \in Events(S) :
              /\ event \in SUBSET S /\ event # {} /\ event = {m \in S : EventOf(m) = IdOf(event)}
              /\ IdOf(event)[1] \in Int /\ IdOf(event)[2] \in Int
              /\ IdOf(event) = <<IdOf(event)[1], IdOf(event)[2]>>
<1>1. IsFiniteSet(SUBSET S)
  BY UniverseAssumption, FS_Subset, FS_SUBSET
<1>2. Events(S) \in SUBSET SUBSET S
  BY DEF Events
<1>3. IsFiniteSet(Events(S))
  BY <1>1, <1>2, FS_Subset
<1>4. ASSUME NEW event \in Events(S)
      PROVE  /\ event \in SUBSET S /\ event # {} /\ event = {m \in S : EventOf(m) = IdOf(event)}
             /\ IdOf(event)[1] \in Int /\ IdOf(event)[2] \in Int
             /\ IdOf(event) = <<IdOf(event)[1], IdOf(event)[2]>>
  <2>1. PICK k \in S : event = {m \in S : EventOf(m) = EventOf(k)}
    BY DEF Events
  <2>2. k \in event /\ event \in SUBSET S /\ \A m \in event : EventOf(m) = EventOf(k)
    BY <2>1
  <2>3. {EventOf(m) : m \in event} = {EventOf(k)}
    BY <2>2
  <2>4. IdOf(event) = EventOf(k)
    BY <2>3 DEF IdOf
  <2>5. EventOf(k) = <<Market[k].series, Market[k].event>>
    BY DEF EventOf
  <2>6. Market[k].series \in Int /\ Market[k].event \in Int
    BY MarketIs
  <2> HIDE DEF EventOf
  <2>7. /\ IdOf(event)[1] \in Int /\ IdOf(event)[2] \in Int
        /\ IdOf(event) = <<IdOf(event)[1], IdOf(event)[2]>>
    BY <2>4, <2>5, <2>6
  <2> QED BY <2>1, <2>2, <2>4, <2>7
<1> QED BY <1>3, <1>4

LEMMA EarliestIs ==
  ASSUME NEW listed \in Listings, NEW event \in SUBSET DOMAIN listed
  PROVE  EarliestClose(event, listed) \in Int
<1> DEFINE closes == {listed[m].close : m \in event} \ {None}
<1>1. closes \in SUBSET Int
  BY ListedIs
<1>2. IsFiniteSet(event)
  BY ListedIs, FS_Subset
<1>3. IsFiniteSet({listed[m].close : m \in event})
  <2> DEFINE f == [m \in event |-> listed[m].close]
  <2>1. f \in Surjection(event, {listed[m].close : m \in event})
    BY DEF Surjection
  <2> QED BY <1>2, <2>1, FS_Surjection
<1>4. IsFiniteSet(closes)
  BY <1>3, FS_Difference
<1> HIDE DEF closes
<1>5. closes # {} => Min(closes) \in Int
  BY <1>1, <1>4, MinIs
<1>6. None \in Int
  BY DEF None
<1> QED BY <1>5, <1>6 DEF EarliestClose, closes

LEMMA SeqOfMore ==
  ASSUME NEW A, NEW B, A \subseteq B, NEW s \in Seq(A)
  PROVE  s \in Seq(B)
OBVIOUS

LEMMA EventsChosen ==
  ASSUME NEW group, GoodGroup(group), NEW listed \in Listings, NEW S \in SUBSET DOMAIN listed, NEW t
  PROVE  ChosenEvents(group, S, listed, t) \in Seq(Events(S))
<1> DEFINE events == {event \in Events(S) : WithinHorizon(group, event, listed, t)}
           nearest == [event \in events |->
                         CloseOrder(EarliestClose(event, listed)) \o <<IdOf(event)[2]>>]
           busiest == [event \in events |->
                         <<-EventVolume(event)>> \o nearest[event] \o <<IdOf(event)[1]>>]
           busy == {event \in events : EventVolume(event) >= Floor}
           ofSeries(n) == {event \in events : IdOf(event)[1] = n}
           perSeries == [i \in DOMAIN group.series |->
                           AmongFirst(group.events, Ranked(ofSeries(group.series[i]), nearest))]
<1>1. ChosenEvents(group, S, listed, t) =
        IF group.series = << >> THEN AmongFirst(group.events, Ranked(busy, busiest)) ELSE Joined(perSeries)
  BY DEF ChosenEvents, IdOf
<1>2. S \in SUBSET Tickers
  BY ListedIs
<1>3. ASSUME NEW event \in events
      PROVE  /\ IdOf(event)[1] \in Int /\ IdOf(event)[2] \in Int
             /\ IdOf(event) = <<IdOf(event)[1], IdOf(event)[2]>>
             /\ event = {m \in S : EventOf(m) = IdOf(event)} /\ event \in SUBSET S
  BY <1>2, EventsAre
<1>4. ASSUME NEW x \in events, NEW y \in events, IdOf(x)[1] = IdOf(y)[1], IdOf(x)[2] = IdOf(y)[2]
      PROVE  x = y
  <2>1. IdOf(x) = IdOf(y)
    BY <1>3, <1>4
  <2> QED BY <1>3, <2>1
<1>5. ASSUME NEW event \in events
      PROVE  nearest[event] \in Vectors(3) /\ nearest[event][3] = IdOf(event)[2]
  <2>1. EarliestClose(event, listed) \in Int
    BY <1>3, EarliestIs
  <2>2. PICK a, b \in Int : CloseOrder(EarliestClose(event, listed)) = <<a, b>>
    BY <2>1, CloseOrders
  <2>3. nearest[event] = <<a, b>> \o <<IdOf(event)[2]>>
    BY <2>2
  <2>4. IdOf(event)[2] \in Int
    BY <1>3
  <2> DEFINE c == IdOf(event)[2]
             r == nearest[event]
  <2>5. r = <<a, b>> \o <<c>>
    BY <2>3
  <2> HIDE DEF c, r
  <2>6. r \in Vectors(3) /\ r[3] = c
    BY <2>4, <2>5, RankOfThree DEF c
  <2> QED BY <2>6 DEF c, r
<1>6. ASSUME NEW event \in events
      PROVE  /\ busiest[event] \in Vectors(5)
             /\ busiest[event][4] = IdOf(event)[2] /\ busiest[event][5] = IdOf(event)[1]
  <2>1. EventVolume(event) \in Int
    BY <1>2, <1>3, VolumeIs
  <2>2. busiest[event] = <<-EventVolume(event)>> \o nearest[event] \o <<IdOf(event)[1]>>
    OBVIOUS
  <2>3. -EventVolume(event) \in Int
    BY <2>1
  <2> HIDE DEF nearest
  <2> QED BY <1>3, <1>5, <2>2, <2>3, RankOfFive
<1>7. IsFiniteSet(Events(S)) /\ events \subseteq Events(S)
  BY <1>2, EventsAre
<1>8. busy \subseteq events /\ \A n : ofSeries(n) \subseteq events /\ \A e \in ofSeries(n) : IdOf(e)[1] = n
  OBVIOUS
<1> HIDE DEF events, nearest, busiest, busy, ofSeries
<1>9. Ranking(busy, busiest, 5)
  BY <1>4, <1>6, <1>8 DEF Ranking
<1>10. \A n : Ranking(ofSeries(n), nearest, 3)
  BY <1>4, <1>5, <1>8 DEF Ranking
<1>11. Ranked(busy, busiest) \in Seq(busy)
  <2>1. IsFiniteSet(busy)
    BY <1>7, <1>8, FS_Subset
  <2> QED BY <1>9, <2>1, Sorts
<1>12. ASSUME NEW n PROVE Ranked(ofSeries(n), nearest) \in Seq(ofSeries(n))
  <2>1. IsFiniteSet(ofSeries(n))
    BY <1>7, <1>8, FS_Subset
  <2> QED BY <1>10, <2>1, Sorts
<1>13. /\ Ranked(busy, busiest) \in Seq(Events(S))
       /\ \A n : Ranked(ofSeries(n), nearest) \in Seq(Events(S))
  <2>1. busy \subseteq Events(S) /\ \A n : ofSeries(n) \subseteq Events(S)
    BY <1>7, <1>8
  <2> QED BY <1>11, <1>12, <2>1, SeqOfMore
<1>14. group.events \in Nat \cup {None} /\ group.series \in Seq(Nat)
  BY DEF GoodGroup
<1>15. /\ AmongFirst(group.events, Ranked(busy, busiest)) \in Seq(Events(S))
       /\ \A n : AmongFirst(group.events, Ranked(ofSeries(n), nearest)) \in Seq(Events(S))
  BY <1>13, <1>14, AmongFirstIs
<1>16. perSeries \in Seq(Seq(Events(S)))
  <2>1. DOMAIN group.series = 1 .. Len(group.series) /\ Len(group.series) \in Nat
    BY <1>14
  <2> QED BY <1>15, <2>1
<1> HIDE DEF perSeries
<1>17. Joined(perSeries) \in Seq(Events(S))
  BY <1>16, JoinedIn
<1> QED BY <1>1, <1>15, <1>17

LEMMA ChosenIn ==
  ASSUME NEW group, GoodGroup(group), NEW listed \in Listings, NEW S \in SUBSET DOMAIN listed, NEW t
  PROVE  Chosen(group, S, listed, t) \in Seq(S)
<1> DEFINE events == ChosenEvents(group, S, listed, t)
           ranks == [m \in S |-> MarketRank(group, listed, m)]
           perEvent == [i \in DOMAIN events |-> AmongFirst(group.perEvent, Ranked(events[i], ranks))]
<1>1. events \in Seq(Events(S))
  BY EventsChosen
<1>2. Chosen(group, S, listed, t) = AmongFirst(group.max, Joined(perEvent))
  BY DEF Chosen
<1>3. group.perEvent \in Nat \cup {None} /\ group.max \in Nat \cup {None}
  BY DEF GoodGroup
<1>4. S \in SUBSET Tickers
  BY ListedIs
<1>5. \A E \in SUBSET S : Ranking(E, ranks, 6)
  BY MarketsRanked
<1> HIDE DEF events, ranks
<1>6. ASSUME NEW i \in DOMAIN events PROVE AmongFirst(group.perEvent, Ranked(events[i], ranks)) \in Seq(S)
  <2>1. events[i] \in SUBSET S
    BY <1>1, <1>4, EventsAre
  <2>2. IsFiniteSet(events[i])
    BY <1>4, <2>1, UniverseAssumption, FS_Subset
  <2>3. Ranked(events[i], ranks) \in Seq(events[i])
    BY <1>5, <2>1, <2>2, Sorts
  <2>4. Ranked(events[i], ranks) \in Seq(S)
    BY <2>1, <2>3, SeqOfMore
  <2> QED BY <1>3, <2>4, AmongFirstIs
<1>7. perEvent \in Seq(Seq(S))
  <2>1. DOMAIN events = 1 .. Len(events) /\ Len(events) \in Nat
    BY <1>1
  <2> QED BY <1>6, <2>1
<1> HIDE DEF perEvent
<1>8. Joined(perEvent) \in Seq(S)
  BY <1>7, JoinedIn
<1>9. AmongFirst(group.max, Joined(perEvent)) \in Seq(S)
  BY <1>3, <1>8, AmongFirstIs
<1> QED BY <1>2, <1>9

-----------------------------------------------------------------------------
(* What a decision selects. *)

LEMMA GroupsAre ==
  /\ Len(Groups) \in Nat \ {0} /\ DOMAIN Groups = 1 .. Len(Groups) /\ GroupIds = 1 .. Len(Groups)
  /\ \A g \in DOMAIN Groups : GoodGroup(Groups[g])
<1>1. Groups \in Seq(Range(Groups)) /\ Groups # << >> /\ \A g \in DOMAIN Groups : GoodGroup(Groups[g])
  BY UniverseAssumption
<1>2. Len(Groups) \in Nat /\ DOMAIN Groups = 1 .. Len(Groups)
  BY <1>1, LenProperties
<1>3. Len(Groups) # 0
  BY <1>1, EmptySeq
<1> QED BY <1>1, <1>2, <1>3 DEF GroupIds

LEMMA BoundsAre == MaxL2 \in Nat /\ GroupSize \in Nat \ {0} /\ BookConns \in Nat \ {0}
BY UniverseAssumption

LEMMA RangeOf ==
  ASSUME NEW A, NEW s \in Seq(A)
  PROVE  Range(s) \subseteq A /\ IsFiniteSet(Range(s)) /\ Cardinality(Range(s)) <= Len(s)
<1>1. s \in [1 .. Len(s) -> A] /\ Len(s) \in Nat
  BY LenProperties
<1>2. Range(s) \subseteq A
  BY <1>1 DEF Range
<1>3. s \in Surjection(1 .. Len(s), Range(s))
  BY <1>1 DEF Surjection, Range
<1>4. IsFiniteSet(1 .. Len(s)) /\ Cardinality(1 .. Len(s)) = Len(s)
  <2> DEFINE n == Len(s)
  <2> HIDE DEF n
  <2>1. 1 \in Int /\ n \in Int /\ n \in Nat
    BY <1>1 DEF n
  <2>2. IsFiniteSet(1 .. n) /\ Cardinality(1 .. n) = IF 1 > n THEN 0 ELSE n - 1 + 1
    BY <2>1, FS_Interval
  <2>3. Cardinality(1 .. n) = n
    BY <2>1, <2>2
  <2> QED BY <2>2, <2>3 DEF n
<1> QED BY <1>2, <1>3, <1>4, FS_Surjection

LEMMA UnionOfTwo ==
  ASSUME NEW A, IsFiniteSet(A), NEW B, IsFiniteSet(B)
  PROVE  IsFiniteSet(A \cup B) /\ Cardinality(A \cup B) <= Cardinality(A) + Cardinality(B)
<1>1. /\ IsFiniteSet(A \cup B) /\ IsFiniteSet(A \cap B)
      /\ Cardinality(A \cup B) = Cardinality(A) + Cardinality(B) - Cardinality(A \cap B)
  BY FS_Union, FS_Intersection
<1>2. Cardinality(A) \in Nat /\ Cardinality(B) \in Nat /\ Cardinality(A \cap B) \in Nat
  BY <1>1, FS_CardinalityType
<1> QED BY <1>1, <1>2

AllOf(seqs) == UNION {Range(seqs[i]) : i \in DOMAIN seqs}

LEMMA OneMoreSeq ==
  ASSUME NEW A, NEW seqs \in Seq(Seq(A)), NEW s \in Seq(A)
  PROVE  AllOf(Append(seqs, s)) = AllOf(seqs) \cup Range(s)
<1> DEFINE more == Append(seqs, s)
<1>1. /\ Len(seqs) \in Nat /\ DOMAIN seqs = 1 .. Len(seqs) /\ DOMAIN more = 1 .. Len(seqs) + 1
      /\ more[Len(seqs) + 1] = s
      /\ \A i \in 1 .. Len(seqs) : more[i] = seqs[i]
  OBVIOUS
<1> HIDE DEF more
<1>2. ASSUME NEW i \in DOMAIN more PROVE Range(more[i]) \subseteq AllOf(seqs) \cup Range(s)
  <2>1. CASE i = Len(seqs) + 1
    BY <1>1, <2>1
  <2>2. CASE i # Len(seqs) + 1
    <3>1. i \in DOMAIN seqs /\ more[i] = seqs[i]
      BY <1>1, <2>2
    <3> QED BY <3>1 DEF AllOf
  <2> QED BY <2>1, <2>2
<1>3. ASSUME NEW i \in DOMAIN seqs PROVE Range(seqs[i]) \subseteq AllOf(more)
  <2>1. i \in DOMAIN more /\ more[i] = seqs[i]
    BY <1>1
  <2> QED BY <2>1 DEF AllOf
<1>4. Range(s) \subseteq AllOf(more)
  <2>1. Len(seqs) + 1 \in DOMAIN more
    BY <1>1
  <2> QED BY <1>1, <2>1 DEF AllOf
<1>5. AllOf(more) \subseteq AllOf(seqs) \cup Range(s)
  BY <1>2 DEF AllOf
<1>6. AllOf(seqs) \subseteq AllOf(more)
  BY <1>3 DEF AllOf
<1> QED BY <1>4, <1>5, <1>6 DEF more

(* What the walk over the groups has when n of them are done. *)
Admissions(E, n) ==
  {acc \in [unchosen : SUBSET E, spent : 0 .. MaxL2, admitted : Seq(Seq(E))] :
     /\ Len(acc.admitted) = n /\ IsFiniteSet(AllOf(acc.admitted))
     /\ Cardinality(AllOf(acc.admitted)) <= acc.spent}

LEMMA AdmitKeeps ==
  ASSUME NEW call, call.listed \in Listings, NEW E \in SUBSET DOMAIN call.listed,
         NEW g \in DOMAIN Groups, g \in call.pinned => call.previous.admitted[g] \in Seq(Tickers),
         NEW n \in Nat, NEW acc \in Admissions(E, n)
  PROVE  Admit(call, acc, g) \in Admissions(E, n + 1)
<1> DEFINE group == Groups[g]
           choice == {m \in acc.unchosen : Selects(group, m, call.categories)}
           chosen == IF g \in call.pinned THEN Kept(call.previous.admitted[g], acc.unchosen)
                     ELSE Chosen(group, choice, call.listed, call.t)
           admitted == AmongFirst(MaxL2 - acc.spent, chosen)
           next == [unchosen |-> acc.unchosen \ Range(chosen), spent |-> acc.spent + Len(admitted),
                    admitted |-> Append(acc.admitted, admitted)]
<1>1. Admit(call, acc, g) = next
  BY DEF Admit
<1>2. /\ acc.unchosen \in SUBSET E /\ acc.spent \in 0 .. MaxL2 /\ acc.admitted \in Seq(Seq(E))
      /\ Len(acc.admitted) = n /\ IsFiniteSet(AllOf(acc.admitted))
      /\ Cardinality(AllOf(acc.admitted)) <= acc.spent
  BY DEF Admissions
<1>3. chosen \in Seq(E)
  <2>1. CASE g \in call.pinned
    <3>1. Kept(call.previous.admitted[g], acc.unchosen) \in Seq(acc.unchosen)
      BY <2>1, KeptIn
    <3>2. Kept(call.previous.admitted[g], acc.unchosen) \in Seq(E)
      BY <1>2, <3>1, SeqOfMore
    <3> QED BY <2>1, <3>2
  <2>2. CASE g \notin call.pinned
    <3>1. choice \in SUBSET DOMAIN call.listed /\ choice \subseteq E
      BY <1>2
    <3>2. GoodGroup(group)
      BY GroupsAre
    <3> HIDE DEF choice, group
    <3>3. Chosen(group, choice, call.listed, call.t) \in Seq(choice)
      BY <3>1, <3>2, ChosenIn
    <3>4. Chosen(group, choice, call.listed, call.t) \in Seq(E)
      BY <3>1, <3>3, SeqOfMore
    <3> QED BY <2>2, <3>4
  <2> QED BY <2>1, <2>2
<1> HIDE DEF chosen
<1>4. /\ admitted \in Seq(E) /\ Len(admitted) \in Nat /\ Len(admitted) <= MaxL2 - acc.spent
  <2>1. MaxL2 - acc.spent \in Nat /\ MaxL2 - acc.spent \in Nat \cup {None} /\ MaxL2 - acc.spent # None
    BY <1>2, BoundsAre DEF None
  <2> QED BY <1>3, <2>1, AmongFirstIs
<1> HIDE DEF admitted
<1>5. acc.spent + Len(admitted) \in 0 .. MaxL2
  BY <1>2, <1>4, BoundsAre
<1>6. Append(acc.admitted, admitted) \in Seq(Seq(E)) /\ Len(Append(acc.admitted, admitted)) = n + 1
  BY <1>2, <1>4
<1>7. AllOf(Append(acc.admitted, admitted)) = AllOf(acc.admitted) \cup Range(admitted)
  BY <1>2, <1>4, OneMoreSeq
<1>8. IsFiniteSet(Range(admitted)) /\ Cardinality(Range(admitted)) <= Len(admitted)
  BY <1>4, RangeOf
<1>9. /\ IsFiniteSet(AllOf(acc.admitted) \cup Range(admitted))
      /\ Cardinality(AllOf(acc.admitted) \cup Range(admitted))
           <= Cardinality(AllOf(acc.admitted)) + Cardinality(Range(admitted))
  BY <1>2, <1>8, UnionOfTwo
<1>10. /\ Cardinality(AllOf(acc.admitted)) \in Nat /\ Cardinality(Range(admitted)) \in Nat
       /\ Cardinality(AllOf(acc.admitted) \cup Range(admitted)) \in Nat
  BY <1>2, <1>8, <1>9, FS_CardinalityType
<1>11. Cardinality(AllOf(acc.admitted) \cup Range(admitted)) <= acc.spent + Len(admitted)
  BY <1>2, <1>4, <1>8, <1>9, <1>10
<1>12. next \in [unchosen : SUBSET E, spent : 0 .. MaxL2, admitted : Seq(Seq(E))]
  BY <1>2, <1>5, <1>6
<1>13. next.admitted = Append(acc.admitted, admitted) /\ next.spent = acc.spent + Len(admitted)
  OBVIOUS
<1> HIDE DEF next
<1>14. /\ Len(next.admitted) = n + 1 /\ IsFiniteSet(AllOf(next.admitted))
       /\ Cardinality(AllOf(next.admitted)) <= next.spent
  BY <1>6, <1>7, <1>9, <1>11, <1>13, Zenon
<1> QED BY <1>1, <1>12, <1>14 DEF Admissions

Decisions ==
  {NoDecision} \cup
  {d \in [admitted : Seq(Seq(Tickers)), markets : Listings] : Len(d.admitted) = Len(Groups)}

(* A decision selects of what was listed and passes the filters, as it was listed, at most
   as many markets as the policy allows. *)
Selection(d, listed, t) ==
  /\ d \in Decisions /\ d # NoDecision /\ IsFiniteSet(Wanted(d)) /\ Cardinality(Wanted(d)) <= MaxL2
  /\ Wanted(d) \subseteq Eligible(listed, t) /\ \A m \in Wanted(d) : d.markets[m] = listed[m]

(* select: whatever is listed, pinned or known of categories, the decision admits at most
   max_l2_markets markets, each eligible and as it was listed. *)
THEOREM SelectShape ==
  ASSUME NEW listed \in Listings, NEW t, NEW categories, NEW pinned, NEW previous,
         \A g \in DOMAIN Groups : g \in pinned => previous.admitted[g] \in Seq(Tickers)
  PROVE  Selection(Select(listed, t, categories, pinned, previous), listed, t)
<1> DEFINE call == [listed |-> listed, t |-> t, categories |-> categories, pinned |-> pinned,
                    previous |-> previous]
           E == Eligible(listed, t)
           start == [unchosen |-> E, spent |-> 0, admitted |-> << >>]
           order == [g \in DOMAIN Groups |-> g]
           end == Admitting!Folded(call, start, order)
           T == [n \in 0 .. Len(Groups) |-> Admissions(E, n)]
           U == UNION {Range(end.admitted[g]) : g \in DOMAIN Groups}
           d == Select(listed, t, categories, pinned, previous)
<1>1. d = [admitted |-> end.admitted, markets |-> Restrict(listed, U)]
  BY DEF Select, Admitting!Folded, FoldLeft, Admitting!After, MapThenFoldSet,
         Admitting!Highest, Max
<1>2. /\ Len(Groups) \in Nat /\ Len(Groups) # 0 /\ DOMAIN Groups = 1 .. Len(Groups)
  BY GroupsAre
<1>3. order \in Seq(Nat) /\ Len(order) = Len(Groups) /\ \A n \in 1 .. Len(Groups) : order[n] = n
  BY <1>2
<1>4. call.listed = listed /\ call.pinned = pinned /\ call.previous = previous
  OBVIOUS
<1>5. E \in SUBSET DOMAIN listed
  BY DEF Eligible
<1>6. start \in T[0]
  <2>1. AllOf(<< >>) = {}
    BY DEF AllOf
  <2>2. IsFiniteSet({}) /\ Cardinality({}) = 0
    BY FS_EmptySet
  <2> DEFINE s == start
  <2>3. s \in [unchosen : SUBSET E, spent : 0 .. MaxL2, admitted : Seq(Seq(E))]
    BY BoundsAre
  <2>4. s.admitted = << >> /\ s.spent = 0
    OBVIOUS
  <2>5. Len(<< >>) = 0 /\ 0 <= 0
    OBVIOUS
  <2> HIDE DEF s, E
  <2>6. s \in Admissions(E, 0)
    BY <2>1, <2>2, <2>3, <2>4, <2>5 DEF Admissions
  <2>7. 0 \in 0 .. Len(Groups)
    BY <1>2
  <2> QED BY <2>6, <2>7 DEF s
<1>7. \A n \in 1 .. Len(order) : \A acc \in T[n - 1] : Admit(call, acc, order[n]) \in T[n]
  <2> HIDE DEF call, E, order
  <2> TAKE n \in 1 .. Len(order)
  <2>1. /\ n - 1 \in Nat /\ n - 1 \in 0 .. Len(Groups) /\ n \in 0 .. Len(Groups) /\ n - 1 + 1 = n
        /\ n \in DOMAIN Groups /\ order[n] = n
    BY <1>2, <1>3
  <2>2. T[n - 1] = Admissions(E, n - 1) /\ T[n] = Admissions(E, n)
    BY <2>1
  <2> HIDE DEF T
  <2>3. ASSUME NEW acc \in T[n - 1] PROVE Admit(call, acc, order[n]) \in T[n]
    <3>1. acc \in Admissions(E, n - 1)
      BY <2>2
    <3>2. call.listed \in Listings /\ E \in SUBSET DOMAIN call.listed
      BY <1>4, <1>5
    <3>3. n \in call.pinned => call.previous.admitted[n] \in Seq(Tickers)
      BY <1>4, <2>1
    <3>4. Admit(call, acc, n) \in Admissions(E, n - 1 + 1)
      BY <2>1, <3>1, <3>2, <3>3, AdmitKeeps
    <3> QED BY <2>1, <2>2, <3>4
  <2> QED BY <2>3
<1>8. T[Len(Groups)] = Admissions(E, Len(Groups))
  BY <1>2
<1> HIDE DEF T, call, start, order, E
<1>9. end \in Admissions(E, Len(Groups))
  BY <1>3, <1>6, <1>7, <1>8, Climbing, Admitting!FoldInvariant
<1> HIDE DEF end
<1>10. /\ end.admitted \in Seq(Seq(E)) /\ Len(end.admitted) = Len(Groups) /\ end.spent \in 0 .. MaxL2
       /\ IsFiniteSet(AllOf(end.admitted)) /\ Cardinality(AllOf(end.admitted)) <= end.spent
  BY <1>9 DEF Admissions
<1>11. DOMAIN end.admitted = DOMAIN Groups
  BY <1>2, <1>10
<1>12. U = AllOf(end.admitted)
  BY <1>11 DEF AllOf
<1>13. U \subseteq E
  <2>1. \A g \in DOMAIN end.admitted : Range(end.admitted[g]) \subseteq E
    BY <1>10, RangeOf
  <2> QED BY <1>12, <2>1 DEF AllOf
<1>14. Cardinality(U) <= MaxL2
  <2>1. Cardinality(U) \in Nat
    BY <1>10, <1>12, FS_CardinalityType
  <2>2. Cardinality(U) <= end.spent /\ end.spent \in 0 .. MaxL2
    BY <1>10, <1>12, Zenon
  <2> HIDE DEF U
  <2> QED BY <2>1, <2>2, BoundsAre
<1> HIDE DEF U
<1>15. d.markets = [m \in U |-> listed[m]] /\ d.admitted = end.admitted
  BY <1>1 DEF Restrict
<1>16. d.markets \in Listings
  <2>1. U \in SUBSET Tickers /\ \A m \in U : listed[m] \in Summaries
    BY <1>5, <1>13, ListedIs
  <2>2. [m \in U |-> listed[m]] \in [U -> Summaries]
    BY <2>1
  <2> QED BY <1>15, <2>1, <2>2 DEF Listings
<1>17. E \in SUBSET Tickers
  BY <1>5, ListedIs
<1>18. d.admitted \in Seq(Seq(Tickers))
  <2>1. \A s \in Seq(E) : s \in Seq(Tickers)
    BY <1>17
  <2>2. Seq(E) \subseteq Seq(Tickers)
    BY <2>1
  <2> QED BY <1>10, <1>15, <2>2, SeqOfMore
<1>19. d \in Decisions /\ d # NoDecision
  <2>1. d = [admitted |-> d.admitted, markets |-> d.markets]
    BY <1>1
  <2> HIDE DEF d
  <2>2. d \in [admitted : Seq(Seq(Tickers)), markets : Listings]
    BY <1>16, <1>18, <2>1
  <2>3. Len(d.admitted) = Len(Groups)
    BY <1>10, <1>15
  <2>4. d # NoDecision
    <3>1. NoDecision.admitted = << >> /\ Len(<< >>) = 0
      BY DEF NoDecision
    <3> QED BY <1>2, <2>3, <3>1
  <2> QED BY <2>2, <2>3, <2>4 DEF Decisions
<1> HIDE DEF d
<1>20. Wanted(d) = U
  BY <1>15 DEF Wanted
<1>21. IsFiniteSet(U)
  BY <1>10, <1>12
<1>22. \A m \in U : d.markets[m] = listed[m]
  BY <1>15
<1>23. Selection(d, listed, t)
  BY <1>13, <1>14, <1>19, <1>20, <1>21, <1>22, Zenon DEF Selection, E
<1> QED BY <1>23 DEF d

-----------------------------------------------------------------------------
(* Planning: every wanted market on one connection, and none moved. *)

Apart(p) == \A c, d \in Conns : c # d => p[c] \cap p[d] = {}

(* p puts each market of wanted on one connection, within the size of a group. *)
GoodPlan(p, wanted) ==
  /\ p \in [Conns -> SUBSET Tickers] /\ Apart(p)
  /\ \A c \in Conns : Cardinality(p[c]) <= GroupSize
  /\ UNION Range(p) = wanted

LEMMA OnConns ==
  ASSUME NEW p, DOMAIN p = Conns
  PROVE  /\ \A m : m \in UNION Range(p) <=> \E c \in Conns : m \in p[c]
         /\ \A c \in Conns : p[c] \subseteq UNION Range(p)
BY DEF Range

LEMMA SubsetsFinite ==
  ASSUME NEW S \in SUBSET Tickers
  PROVE  IsFiniteSet(S) /\ Cardinality(S) \in Nat
BY UniverseAssumption, FS_Subset, FS_CardinalityType

LEMMA OneMoreRow ==
  ASSUME NEW n \in Nat, NEW k \in Nat
  PROVE  (n + 1) * k = n * k + k /\ n * k \in Nat
OBVIOUS

LEMMA FullConns ==
  ASSUME NEW p \in [Conns -> SUBSET Tickers], Apart(p), \A c \in Conns : Cardinality(p[c]) >= GroupSize
  PROVE  Cardinality(UNION Range(p)) >= BookConns * GroupSize
<1> DEFINE U(n) == UNION {p[c] : c \in 1 .. n}
           S == {n \in 0 .. BookConns : Cardinality(U(n)) >= n * GroupSize}
<1>1. BookConns \in Nat /\ GroupSize \in Nat
  BY BoundsAre
<1>2. 0 \in S
  <2>1. U(0) = {}
    OBVIOUS
  <2>2. Cardinality(U(0)) = 0
    BY <2>1, FS_EmptySet
  <2>3. 0 * GroupSize = 0 /\ 0 \in 0 .. BookConns
    BY <1>1
  <2> QED BY <2>2, <2>3
<1>3. ASSUME NEW n \in 0 .. BookConns - 1, n \in S PROVE n + 1 \in S
  <2>1. n \in Nat /\ n + 1 \in 0 .. BookConns /\ n + 1 \in Conns /\ 1 .. n \subseteq Conns
    BY <1>1 DEF Conns
  <2>2. U(n + 1) = U(n) \cup p[n + 1]
    <3>1. \A c : c \in 1 .. n + 1 <=> c \in 1 .. n \/ c = n + 1
      BY <2>1
    <3> QED BY <3>1
  <2>3. U(n) \cap p[n + 1] = {}
    <3>1. ASSUME NEW c \in 1 .. n PROVE p[c] \cap p[n + 1] = {}
      <4>1. c \in Conns /\ c # n + 1
        BY <2>1
      <4> QED BY <2>1, <4>1 DEF Apart
    <3> QED BY <3>1
  <2>4. U(n) \in SUBSET Tickers /\ p[n + 1] \in SUBSET Tickers
    BY <2>1
  <2>5. Cardinality(U(n)) >= n * GroupSize
    BY <1>3
  <2>6. Cardinality(p[n + 1]) >= GroupSize
    BY <2>1
  <2> DEFINE A == U(n)
             B == p[n + 1]
  <2> HIDE DEF A, B
  <2>7. /\ IsFiniteSet(A) /\ Cardinality(A) \in Nat /\ IsFiniteSet(B) /\ Cardinality(B) \in Nat
    BY <2>4, SubsetsFinite DEF A, B
  <2>8. Cardinality(A \cup B) = Cardinality(A) + Cardinality(B)
    <3>1. A \cap B = {} /\ Cardinality({}) = 0
      BY <2>3, FS_EmptySet DEF A, B
    <3>2. Cardinality(A \cup B) = Cardinality(A) + Cardinality(B) - Cardinality(A \cap B)
      BY <2>7, FS_Union
    <3>3. Cardinality(A \cap B) = 0
      BY <3>1, Zenon
    <3> QED BY <2>7, <3>2, <3>3
  <2>9. (n + 1) * GroupSize = n * GroupSize + GroupSize /\ n * GroupSize \in Nat
    BY <1>1, <2>1, OneMoreRow
  <2> DEFINE x == n * GroupSize
             y == (n + 1) * GroupSize
  <2> HIDE DEF x, y
  <2>10. Cardinality(A) >= x /\ Cardinality(B) >= GroupSize /\ y = x + GroupSize /\ x \in Nat
    BY <2>5, <2>6, <2>9 DEF A, B, x, y
  <2>11. Cardinality(A \cup B) >= y
    BY <1>1, <2>7, <2>8, <2>10
  <2>12. Cardinality(U(n + 1)) >= (n + 1) * GroupSize
    BY <2>2, <2>11, Zenon DEF A, B, y
  <2> QED BY <2>1, <2>12
<1>4. S \in SUBSET (0 .. BookConns)
  OBVIOUS
<1>5. S = 0 .. BookConns
  <2> HIDE DEF S
  <2> QED BY <1>1, <1>2, <1>3, <1>4, UpTo
<1>6. U(BookConns) = UNION Range(p)
  BY DEF Range, Conns
<1>7. BookConns \in S
  <2> HIDE DEF S
  <2> QED BY <1>1, <1>5
<1> QED BY <1>6, <1>7

LEMMA RoomLeft ==
  ASSUME NEW p, NEW W, GoodPlan(p, W), NEW m \in Tickers, m \notin W,
         Cardinality(W \cup {m}) <= MaxL2
  PROVE  \E c \in Conns : Cardinality(p[c]) < GroupSize
<1>1. SUFFICES ASSUME \A c \in Conns : ~(Cardinality(p[c]) < GroupSize) PROVE FALSE
  OBVIOUS
<1>2. p \in [Conns -> SUBSET Tickers] /\ Apart(p) /\ UNION Range(p) = W
  BY DEF GoodPlan
<1>3. \A c \in Conns : Cardinality(p[c]) \in Nat
  BY <1>2, SubsetsFinite
<1>4. \A c \in Conns : Cardinality(p[c]) >= GroupSize
  BY <1>1, <1>3, BoundsAre
<1>5. Cardinality(W) >= BookConns * GroupSize
  BY <1>2, <1>4, FullConns
<1>6. W \in SUBSET Tickers
  BY <1>2, OnConns
<1>7. IsFiniteSet(W) /\ Cardinality(W) \in Nat
  BY <1>6, SubsetsFinite
<1>8. Cardinality(W \cup {m}) = Cardinality(W) + 1
  BY <1>7, FS_AddElement
<1>9. BookConns * GroupSize >= MaxL2 /\ MaxL2 \in Nat /\ BookConns * GroupSize \in Nat
  <2>1. BookConns * GroupSize \in Nat
    BY BoundsAre, OneMoreRow
  <2> QED BY <2>1, UniverseAssumption, BoundsAre DEF BookCapacity
<1> DEFINE k == BookConns * GroupSize
<1> HIDE DEF k
<1>10. Cardinality(W) >= k /\ k >= MaxL2 /\ k \in Nat
  BY <1>5, <1>9 DEF k
<1>11. Cardinality(W) + 1 <= MaxL2
  BY <1>8
<1> QED BY <1>7, <1>9, <1>10, <1>11

LEMMA FillKeeps ==
  ASSUME NEW p, NEW W, GoodPlan(p, W), NEW m \in Tickers, m \notin W,
         Cardinality(W \cup {m}) <= MaxL2
  PROVE  GoodPlan(Fill(p, m), W \cup {m}) /\ \A c \in Conns : p[c] \subseteq Fill(p, m)[c]
<1> DEFINE room == {c \in Conns : Cardinality(p[c]) < GroupSize}
           load == [c \in room |-> <<Cardinality(p[c]), c>>]
           Best(c) == \A d \in room \ {c} :
                        Lower(<<Cardinality(p[c]), c>>, <<Cardinality(p[d]), d>>)
           least == CHOOSE c \in room : Best(c)
           s == Ranked(room, load)
           q == [p EXCEPT ![least] = @ \cup {m}]
<1>1. p \in [Conns -> SUBSET Tickers] /\ Apart(p) /\ UNION Range(p) = W
  BY DEF GoodPlan
<1>2. \A c \in Conns : Cardinality(p[c]) \in Nat /\ c \in Int /\ IsFiniteSet(p[c])
  BY <1>1, SubsetsFinite DEF Conns
<1>3. room # {}
  BY RoomLeft
<1>4. IsFiniteSet(room)
  <2>1. 1 \in Int /\ BookConns \in Int
    BY BoundsAre
  <2>2. IsFiniteSet(Conns)
    BY <2>1, FS_Interval DEF Conns
  <2> QED BY <2>2, FS_Subset
<1>5. Ranking(room, load, 2)
  <2>1. \A c \in room : load[c] \in Vectors(2) /\ load[c][2] = c
    BY <1>2 DEF Vectors
  <2> HIDE DEF load
  <2> QED BY <2>1 DEF Ranking
<1>6. /\ Len(s) = Cardinality(room) /\ Range(s) = room /\ s \in Seq(room)
      /\ \A i, j \in 1 .. Len(s) : i < j => Lower(load[s[i]], load[s[j]])
  <2> HIDE DEF load, room
  <2> QED BY <1>4, <1>5, Sorts
<1>7. \A c, d \in room : Lower(load[c], load[d]) => Lower(<<Cardinality(p[c]), c>>, <<Cardinality(p[d]), d>>)
  OBVIOUS
<1> HIDE DEF room, load, s
<1>8. Cardinality(room) \in Nat /\ Cardinality(room) # 0
  BY <1>3, <1>4, FS_CardinalityType, FS_EmptySet
<1>9. 1 \in 1 .. Len(s) /\ DOMAIN s = 1 .. Len(s) /\ \A i \in 1 .. Len(s) : s[i] \in room
  BY <1>6, <1>8
<1>10. Best(s[1])
  <2>1. ASSUME NEW d \in room \ {s[1]} PROVE Lower(load[s[1]], load[d])
    <3>1. PICK i \in 1 .. Len(s) : s[i] = d
      BY <1>6, <1>9 DEF Range
    <3>2. i # 1
      BY <2>1, <3>1
    <3>3. 1 < i
      BY <1>9, <3>2
    <3> QED BY <1>6, <1>9, <3>1, <3>3
  <2> QED BY <1>7, <1>9, <2>1
<1>11. least \in room
  <2> HIDE DEF Best
  <2> QED BY <1>9, <1>10
<1>12. Fill(p, m) = q
  BY <1>3 DEF Fill, room
<1> HIDE DEF least
<1>13. least \in Conns /\ Cardinality(p[least]) < GroupSize
  BY <1>11 DEF room
<1>14. q \in [Conns -> SUBSET Tickers] /\ \A c \in Conns : q[c] = IF c = least THEN p[c] \cup {m} ELSE p[c]
  BY <1>1
<1> HIDE DEF q
<1>15. \A c \in Conns : m \notin p[c]
  BY <1>1, OnConns
<1>16. Apart(q)
  BY <1>1, <1>14, <1>15 DEF Apart
<1>17. ASSUME NEW c \in Conns PROVE Cardinality(q[c]) <= GroupSize
  <2>1. CASE c = least
    <3>1. Cardinality(p[c] \cup {m}) = Cardinality(p[c]) + 1
      BY <1>2, <1>15, FS_AddElement
    <3>2. q[c] = p[c] \cup {m}
      BY <1>14, <2>1
    <3> DEFINE n == Cardinality(p[c])
    <3>3. Cardinality(q[c]) = n + 1 /\ n < GroupSize /\ n \in Nat
      BY <1>2, <1>13, <2>1, <3>1, <3>2, Zenon
    <3> HIDE DEF n
    <3> QED BY <3>3, BoundsAre
  <2>2. CASE c # least
    BY <1>14, <2>2 DEF GoodPlan
  <2> QED BY <2>1, <2>2
<1>18. UNION Range(q) = W \cup {m}
  <2>1. DOMAIN p = Conns /\ DOMAIN q = Conns
    BY <1>1, <1>14
  <2>2. \A x : x \in UNION Range(q) <=> \E c \in Conns : x \in q[c]
    BY <2>1, OnConns
  <2>3. \A x : x \in W <=> \E c \in Conns : x \in p[c]
    BY <1>1, <2>1, OnConns
  <2>4. \A x : x \in UNION Range(q) <=> x \in W \cup {m}
    BY <1>13, <1>14, <2>2, <2>3
  <2> QED BY <2>4
<1> QED BY <1>12, <1>14, <1>16, <1>17, <1>18 DEF GoodPlan

(* The wanted markets the previous plan holds stay on their connection, and the others
   go to none that the previous plan has them on. *)
Follows(p, previous, wanted) ==
  /\ GoodPlan(p, wanted)
  /\ \A c \in Conns : previous[c] \cap wanted \subseteq p[c]
  /\ \A c, d \in Conns : c # d => p[c] \cap previous[d] = {}

LEMMA CarriedOver ==
  ASSUME NEW previous, NEW before, GoodPlan(previous, before), NEW wanted \in SUBSET Tickers
  PROVE  /\ GoodPlan(CarryOver(previous, wanted), before \cap wanted)
         /\ \A c \in Conns : CarryOver(previous, wanted)[c] = previous[c] \cap wanted
<1> DEFINE k == CarryOver(previous, wanted)
<1>1. /\ previous \in [Conns -> SUBSET Tickers] /\ Apart(previous) /\ UNION Range(previous) = before
      /\ \A c \in Conns : Cardinality(previous[c]) <= GroupSize
  BY DEF GoodPlan
<1>2. ASSUME NEW c \in Conns
      PROVE  k[c] = previous[c] \cap wanted /\ Cardinality(previous[c] \cap wanted) <= GroupSize
  <2> DEFINE S == previous[c] \cap wanted
             s == ByTicker(S)
  <2>1. S \in SUBSET Tickers /\ S \subseteq previous[c]
    BY <1>1
  <2>2. IsFiniteSet(previous[c]) /\ Cardinality(previous[c]) \in Nat
    BY <1>1, SubsetsFinite
  <2> HIDE DEF S
  <2>3. Cardinality(S) <= Cardinality(previous[c]) /\ Cardinality(S) \in Nat
    BY <2>1, <2>2, FS_Subset, SubsetsFinite
  <2>4. Cardinality(previous[c]) <= GroupSize
    BY <1>1
  <2>5. Cardinality(S) <= GroupSize
    BY <2>2, <2>3, <2>4, BoundsAre
  <2>6. s \in Seq(S) /\ Len(s) = Cardinality(S) /\ Range(s) = S
    BY <2>1, SortsTickers
  <2> HIDE DEF s
  <2>7. GroupSize \in Nat \cup {None} /\ Len(s) <= GroupSize
    BY <2>5, <2>6, BoundsAre
  <2>8. AmongFirst(GroupSize, s) = s
    BY <2>6, <2>7, AmongFirstIs
  <2>9. k[c] = Range(AmongFirst(GroupSize, s))
    BY DEF CarryOver, s, S
  <2>10. k[c] = S
    BY <2>6, <2>8, <2>9
  <2> HIDE DEF k
  <2> QED BY <2>5, <2>10 DEF S
<1>3. DOMAIN k = Conns
  BY DEF CarryOver
<1>4. k = [c \in Conns |-> k[c]]
  BY DEF CarryOver
<1> HIDE DEF k
<1>5. k \in [Conns -> SUBSET Tickers]
  BY <1>1, <1>2, <1>4
<1>6. Apart(k)
  BY <1>1, <1>2 DEF Apart
<1>7. UNION Range(k) = before \cap wanted
  <2>1. \A m : m \in UNION Range(k) <=> \E c \in Conns : m \in k[c]
    BY <1>3, OnConns
  <2>2. DOMAIN previous = Conns
    BY <1>1
  <2>3. \A m : m \in before <=> \E c \in Conns : m \in previous[c]
    BY <1>1, <2>2, OnConns
  <2>4. \A c \in Conns : k[c] = previous[c] \cap wanted
    BY <1>2
  <2>5. \A m : m \in UNION Range(k) <=> \E c \in Conns : m \in previous[c] \cap wanted
    BY <2>1, <2>4, ZenonT(60)
  <2>6. \A m : m \in before \cap wanted <=> \E c \in Conns : m \in previous[c] \cap wanted
    BY <2>3
  <2> QED BY <2>5, <2>6, Zenon
<1>8. \A c \in Conns : Cardinality(k[c]) <= GroupSize
  BY <1>2
<1>9. GoodPlan(k, before \cap wanted)
  BY <1>5, <1>6, <1>7, <1>8 DEF GoodPlan
<1> QED BY <1>2, <1>9 DEF k

LEMMA Filled ==
  ASSUME NEW base, NEW B, GoodPlan(base, B), NEW N \in SUBSET Tickers, B \cap N = {},
         Cardinality(B \cup N) <= MaxL2
  PROVE  LET p == FoldLeft(Fill, base, ByTicker(N))
         IN GoodPlan(p, B \cup N) /\ \A c \in Conns : base[c] \subseteq p[c]
<1> DEFINE s == ByTicker(N)
           Reached(n) == B \cup {s[i] : i \in 1 .. n}
           T == [n \in 0 .. Len(s) |->
                   {p \in [Conns -> SUBSET Tickers] :
                      GoodPlan(p, Reached(n)) /\ \A c \in Conns : base[c] \subseteq p[c]}]
<1>1. s \in Seq(N) /\ Range(s) = N /\ \A i, j \in 1 .. Len(s) : s[i] = s[j] => i = j
  BY SortsTickers
<1>2. FoldLeft(Fill, base, ByTicker(N)) = Filling!Folded(0, base, s)
  BY DEF Filling!Folded, FillStep, FoldLeft, Filling!After, MapThenFoldSet,
         Filling!Highest, Max
<1> HIDE DEF s
<1>3. Len(s) \in Nat /\ DOMAIN s = 1 .. Len(s) /\ \A i \in 1 .. Len(s) : s[i] \in N
  BY <1>1
<1>4. base \in T[0]
  <2>1. Reached(0) = B
    OBVIOUS
  <2>2. base \in [Conns -> SUBSET Tickers]
    BY DEF GoodPlan
  <2>3. 0 \in 0 .. Len(s)
    BY <1>3
  <2> HIDE DEF Reached
  <2> QED BY <2>1, <2>2, <2>3
<1>5. \A n \in 1 .. Len(s) : \A p \in T[n - 1] : FillStep(0, p, s[n]) \in T[n]
  <2> TAKE n \in 1 .. Len(s)
  <2>1. n - 1 \in 0 .. Len(s) /\ n \in 0 .. Len(s)
    BY <1>3
  <2>2. s[n] \in Tickers /\ s[n] \in N
    BY <1>3
  <2>3. Reached(n) = Reached(n - 1) \cup {s[n]}
    <3>1. \A i : i \in 1 .. n <=> i \in 1 .. n - 1 \/ i = n
      BY <1>3
    <3> QED BY <3>1
  <2>4. s[n] \notin Reached(n - 1)
    <3>1. \A i \in 1 .. n - 1 : i \in 1 .. Len(s) /\ i # n
      BY <1>3
    <3>2. \A i \in 1 .. n - 1 : s[i] # s[n]
      BY <1>1, <3>1
    <3> QED BY <2>2, <3>2
  <2>5. Reached(n) \subseteq B \cup N
    <3>1. \A i \in 1 .. n : s[i] \in N
      BY <1>3
    <3> QED BY <3>1
  <2>6. B \cup N \in SUBSET Tickers
    <3>1. base \in [Conns -> SUBSET Tickers] /\ UNION Range(base) = B
      BY DEF GoodPlan
    <3> QED BY <3>1, OnConns
  <2>7. Cardinality(Reached(n)) <= MaxL2
    <3> DEFINE R == Reached(n)
               A == B \cup N
    <3>1. Cardinality(A) \in Nat /\ IsFiniteSet(A) /\ Cardinality(A) <= MaxL2 /\ R \subseteq A
      BY <2>5, <2>6, SubsetsFinite
    <3> HIDE DEF R, A
    <3>2. Cardinality(R) <= Cardinality(A) /\ IsFiniteSet(R)
      BY <3>1, FS_Subset
    <3>3. Cardinality(R) \in Nat
      BY <3>2, FS_CardinalityType
    <3>4. Cardinality(R) <= MaxL2
      BY <3>1, <3>2, <3>3, BoundsAre
    <3> QED BY <3>4 DEF R
  <2> HIDE DEF Reached
  <2>8. ASSUME NEW p \in T[n - 1] PROVE FillStep(0, p, s[n]) \in T[n]
    <3>1. GoodPlan(p, Reached(n - 1)) /\ \A c \in Conns : base[c] \subseteq p[c]
      BY <2>1
    <3>2. /\ GoodPlan(Fill(p, s[n]), Reached(n - 1) \cup {s[n]})
          /\ \A c \in Conns : p[c] \subseteq Fill(p, s[n])[c]
      <4>1. Cardinality(Reached(n - 1) \cup {s[n]}) <= MaxL2
        BY <2>3, <2>7
      <4> HIDE DEF T
      <4> QED BY <2>2, <2>4, <3>1, <4>1, FillKeeps
    <3>3. GoodPlan(Fill(p, s[n]), Reached(n)) /\ \A c \in Conns : base[c] \subseteq Fill(p, s[n])[c]
      BY <2>3, <3>1, <3>2
    <3>4. Fill(p, s[n]) \in [Conns -> SUBSET Tickers]
      BY <3>3 DEF GoodPlan
    <3> QED BY <2>1, <3>3, <3>4 DEF FillStep
  <2> QED BY <2>8
<1>6. T[Len(s)] = {p \in [Conns -> SUBSET Tickers] :
                     GoodPlan(p, Reached(Len(s))) /\ \A c \in Conns : base[c] \subseteq p[c]}
  BY <1>3
<1>7. Reached(Len(s)) = B \cup N
  BY <1>1, <1>3 DEF Range
<1> HIDE DEF T, Reached
<1>8. Filling!Folded(0, base, s) \in T[Len(s)]
  BY <1>1, <1>4, <1>5, Climbing, Filling!FoldInvariant
<1> QED BY <1>2, <1>6, <1>7, <1>8

(* plan: from any plan, the wanted markets are each on one connection, in groups within the
   size, those planned before where they were. *)
THEOREM PlanShape ==
  ASSUME NEW previous, NEW before, GoodPlan(previous, before), NEW wanted \in SUBSET Tickers,
         Cardinality(wanted) <= MaxL2
  PROVE  Follows(Plan(wanted, previous), previous, wanted)
<1> DEFINE k == CarryOver(previous, wanted)
           N == wanted \ UNION Range(k)
           p == FoldLeft(Fill, k, ByTicker(N))
<1>1. Plan(wanted, previous) = p
  BY DEF Plan
<1>2. GoodPlan(k, before \cap wanted) /\ \A c \in Conns : k[c] = previous[c] \cap wanted
  BY CarriedOver
<1>3. UNION Range(k) = before \cap wanted
  BY <1>2 DEF GoodPlan
<1> HIDE DEF k
<1>4. N \in SUBSET Tickers /\ (before \cap wanted) \cap N = {} /\ (before \cap wanted) \cup N = wanted
  BY <1>3
<1> HIDE DEF N
<1>5. GoodPlan(p, wanted) /\ \A c \in Conns : k[c] \subseteq p[c]
  <2> DEFINE B == before \cap wanted
  <2>1. GoodPlan(k, B) /\ B \cap N = {} /\ B \cup N = wanted
    BY <1>2, <1>4
  <2> HIDE DEF B
  <2>2. Cardinality(B \cup N) <= MaxL2
    BY <2>1, Zenon
  <2>3. GoodPlan(p, B \cup N) /\ \A c \in Conns : k[c] \subseteq p[c]
    BY <1>4, <2>1, <2>2, Filled, Zenon
  <2> HIDE DEF p
  <2> QED BY <2>1, <2>3, Zenon
<1> HIDE DEF p
<1>6. \A c \in Conns : previous[c] \cap wanted \subseteq p[c]
  BY <1>2, <1>5
<1>7. ASSUME NEW c \in Conns, NEW d \in Conns, c # d PROVE p[c] \cap previous[d] = {}
  <2>1. p \in [Conns -> SUBSET Tickers] /\ Apart(p) /\ UNION Range(p) = wanted
    BY <1>5 DEF GoodPlan
  <2>2. p[c] \subseteq wanted
    BY <2>1, OnConns
  <2>3. p[c] \cap p[d] = {}
    BY <1>7, <2>1 DEF Apart
  <2> QED BY <1>6, <2>2, <2>3
<1> QED BY <1>1, <1>5, <1>6, <1>7 DEF Follows

-----------------------------------------------------------------------------
(* The state. *)

Catalogs == UNION {[S -> Int] : S \in SUBSET Tickers}
Steps == [kind : {"none", "full", "relist", "close"}, started : Nat, names : SUBSET GroupIds,
          todo : SUBSET Tickers, read : Listings, decision : Decisions,
          desired : [Conns -> SUBSET Tickers], hand : Nat]

Listed == [status : {"created", "open", "ended"}, close : Int, mid : Int]
Notes == [market : Tickers, kind : {"open", "end", "move"}, close : Int]
Loops == [phase : {"pausing", "listing", "applying"}, wake : BOOLEAN, until : Int]
Tellings == [ended : BOOLEAN, close : Int]
Tries == [attempts : 0 .. MaxFollowUps, gaveUp : BOOLEAN]
Sites == [entries : Catalogs, ended : SUBSET Tickers, moved : Catalogs]
Requests == [due : Nat \cup {None}, requested : Int]
Dates ==
  /\ now \in 0 .. MaxNow /\ universe \in Decisions
  /\ refreshDue \in Int /\ allowed \in Int
  /\ ended \in SUBSET Tickers /\ moved \in [Tickers -> Int]
  /\ relists \in [GroupIds -> Requests]
Rest ==
  /\ exchange \in [Tickers -> Listed] /\ notes \in Seq(Notes)
  /\ work \in Steps /\ carried \in [1 .. TickerConn -> SUBSET Tickers]
  /\ followUps \in [GroupIds \X {EventOf(m) : m \in Tickers} -> Tries]
  /\ site \in Sites /\ told \in [Tickers -> Tellings]
Kinds == Dates /\ Rest /\ loop \in Loops

(* Where a plan is being handed out, the connections before the hand have the new groups
   and the others the old ones. *)
HandedTo(c) ==
  IF loop.phase = "applying" /\ c < work.hand THEN work.desired ELSE plan
Planning ==
  /\ GoodPlan(plan, Wanted(universe)) /\ Cardinality(Wanted(universe)) <= MaxL2
  /\ work.kind = "relist" => universe # NoDecision
  /\ loop.phase = "applying" =>
       /\ Follows(work.desired, plan, Wanted(work.decision)) /\ work.decision # NoDecision
       /\ Cardinality(Wanted(work.decision)) <= MaxL2 /\ work.hand \in 2 .. TickerConn + 1
  /\ \A c \in Conns : carried[c] = HandedTo(c)[c]
  /\ carried[TickerConn] = UNION Range(HandedTo(TickerConn))

PlanInv == Kinds /\ Planning

(* What was reported of a planned market is known to the loop, and what was reported ended
   has ended and is left out of a plan. *)
NotesTrue ==
  \A i \in DOMAIN notes : notes[i].kind = "end" => exchange[notes[i].market].status = "ended"
Reports ==
  /\ NotesTrue
  /\ \A m \in Tickers : told[m].close = moved[m] /\ (moved[m] # None => m \in Planned)
  /\ \A m \in Tickers : told[m].ended =>
       /\ exchange[m].status = "ended"
       /\ m \in DOMAIN work.read \cup Wanted(universe) => m \in ended
       /\ loop.phase = "applying" /\ m \in Wanted(work.decision) => m \in ended
  /\ loop.phase = "applying" /\ work.kind = "full" => Wanted(work.decision) \subseteq DOMAIN work.read

(* An opening that no listing covers has a request, as early and as recent as itself. *)
Covers(request, t) ==
  t \in Nat /\ request.due # None /\ request.due <= t + Debounce /\ t <= request.requested
Openings == \A g \in GroupIds : \A t \in owed[g] : t <= now /\ Covers(relists[g], t)

LEMMA DecisionIs ==
  ASSUME NEW d \in Decisions
  PROVE  /\ d.markets \in Listings /\ Wanted(d) \in SUBSET Tickers
         /\ d # NoDecision => \A g \in DOMAIN Groups : d.admitted[g] \in Seq(Tickers)
<1>1. CASE d = NoDecision
  <2>1. d.markets = << >>
    BY <1>1 DEF NoDecision
  <2>2. << >> \in [{} -> Summaries]
    OBVIOUS
  <2>3. d.markets \in Listings
    BY <2>1, <2>2 DEF Listings
  <2> QED BY <1>1, <2>3, ListedIs DEF Wanted
<1>2. CASE d # NoDecision
  <2>1. d \in [admitted : Seq(Seq(Tickers)), markets : Listings] /\ Len(d.admitted) = Len(Groups)
    BY <1>2 DEF Decisions
  <2>2. d.admitted \in Seq(Seq(Tickers)) /\ d.markets \in Listings
    BY <2>1
  <2>3. DOMAIN d.admitted = DOMAIN Groups
    BY <2>1, <2>2, GroupsAre
  <2>4. \A g \in DOMAIN Groups : d.admitted[g] \in Seq(Tickers)
    BY <2>2, <2>3
  <2> QED BY <2>2, <2>4, ListedIs DEF Wanted
<1> QED BY <1>1, <1>2

LEMMA LastReportIs ==
  ASSUME moved \in [Tickers -> Int], NEW listed \in Listings
  PROVE  /\ AsLastReported(listed) \in Listings
         /\ DOMAIN AsLastReported(listed) = DOMAIN listed \ ended
         /\ \A m \in DOMAIN listed \ ended :
              AsLastReported(listed)[m].close = IF moved[m] = None THEN listed[m].close ELSE moved[m]
<1> DEFINE f == AsLastReported(listed)
           S == DOMAIN listed \ ended
<1>1. f = [m \in S |-> IF moved[m] = None THEN listed[m] ELSE [close |-> moved[m], mid |-> listed[m].mid]]
  BY DEF AsLastReported
<1>2. S \in SUBSET Tickers /\ \A m \in S : listed[m] \in Summaries /\ listed[m].mid \in Int /\ moved[m] \in Int
  BY ListedIs
<1>3. \A a, b \in Int : [close |-> a, mid |-> b] \in Summaries
  BY DEF Summaries
<1> HIDE DEF S, f
<1>4. \A m \in S : f[m] \in Summaries
  BY <1>1, <1>2, <1>3
<1>5. f = [m \in S |-> f[m]]
  BY <1>1
<1>6. f \in [S -> Summaries]
  BY <1>4, <1>5
<1>7. \A m \in S : f[m].close = IF moved[m] = None THEN listed[m].close ELSE moved[m]
  BY <1>1
<1> QED BY <1>2, <1>6, <1>7 DEF Listings, S, f

LEMMA RequestIs ==
  ASSUME now \in Nat, NEW pending \in Requests, NEW due \in Nat
  PROVE  LET r == Request(pending, due)
         IN /\ r \in Requests /\ r.due \in Nat /\ r.due <= due /\ r.requested = now
            /\ pending.due # None => r.due <= pending.due
<1> DEFINE d == IF pending.due = None THEN due ELSE Min({pending.due, due})
<1>1. Request(pending, due) = [due |-> d, requested |-> now]
  BY DEF Request
<1>2. pending.due \in Nat \cup {None}
  BY DEF Requests
<1>3. d \in Nat /\ d <= due /\ (pending.due # None => d <= pending.due)
  <2>1. CASE pending.due = None
    BY <2>1
  <2>2. CASE pending.due # None
    <3>1. pending.due \in Nat
      BY <1>2, <2>2
    <3>2. Min({pending.due, due}) = IF pending.due <= due THEN pending.due ELSE due
      BY <3>1, MinOfTwo
    <3> QED BY <2>2, <3>1, <3>2
  <2> QED BY <2>1, <2>2
<1> HIDE DEF d
<1>4. [due |-> d, requested |-> now] \in Requests
  BY <1>3 DEF Requests
<1> QED BY <1>1, <1>3, <1>4

LEMMA MaxIs ==
  ASSUME NEW a \in Int, NEW b \in Int
  PROVE  /\ Max({a, b}) \in Int /\ a <= Max({a, b}) /\ b <= Max({a, b})
         /\ \A c \in Int : a <= c /\ b <= c => Max({a, b}) <= c
BY MinOfTwo

LEMMA ImageFinite ==
  ASSUME NEW f, IsFiniteSet(DOMAIN f), f = [x \in DOMAIN f |-> f[x]]
  PROVE  IsFiniteSet(Range(f))
<1>1. f \in [DOMAIN f -> Range(f)]
  BY DEF Range
<1>2. f \in Surjection(DOMAIN f, Range(f))
  BY <1>1 DEF Surjection, Range
<1> QED BY <1>2, FS_Surjection

(* The pieces of the pause: the closes and the requests that bound it. *)
NextCloses == {s.close : s \in Range(AsLastReported(universe.markets))} \ {None}
NextDues == {relists[g].due : g \in GroupIds} \ {None}
Bounds ==
  {refreshDue} \cup (IF NextCloses = {} THEN {} ELSE {Min(NextCloses) + CloseDelay})
               \cup (IF NextDues = {} THEN {} ELSE {Max({Min(NextDues), allowed})})

LEMMA BoundsHold ==
  ASSUME Dates
  PROVE  /\ IsFiniteSet(NextCloses) /\ NextCloses \in SUBSET Int
         /\ IsFiniteSet(NextDues) /\ NextDues \in SUBSET Int
         /\ IsFiniteSet(Bounds) /\ Bounds \in SUBSET Int /\ Min(Bounds) \in Int
         /\ \A x \in Bounds : Min(Bounds) <= x
<1>1. universe.markets \in Listings /\ moved \in [Tickers -> Int]
  BY DecisionIs DEF Dates
<1> DEFINE f == AsLastReported(universe.markets)
<1>2. f \in Listings
  BY <1>1, LastReportIs
<1> HIDE DEF f
<1>3. IsFiniteSet(NextCloses) /\ NextCloses \in SUBSET Int
  <2> DEFINE h == [m \in DOMAIN f |-> f[m].close]
  <2>1. Range(h) = {s.close : s \in Range(f)}
    BY DEF Range
  <2>2. IsFiniteSet(DOMAIN h) /\ (\A m \in DOMAIN h : h[m] \in Int) /\ h = [m \in DOMAIN h |-> h[m]]
    BY <1>2, ListedIs
  <2> HIDE DEF h
  <2>3. IsFiniteSet(Range(h)) /\ Range(h) \in SUBSET Int
    <3>1. IsFiniteSet(Range(h))
      BY <2>2, ImageFinite
    <3> QED BY <2>2, <3>1 DEF Range
  <2>4. NextCloses = Range(h) \ {None}
    BY <2>1 DEF NextCloses, f
  <2> QED BY <2>3, <2>4, FS_Difference
<1>4. IsFiniteSet(NextDues) /\ NextDues \in SUBSET Int
  <2> DEFINE h == [g \in GroupIds |-> relists[g].due]
  <2>1. Range(h) = {relists[g].due : g \in GroupIds}
    BY DEF Range
  <2>2. \A g \in GroupIds : h[g] \in Int
    <3>1. \A g \in GroupIds : relists[g] \in Requests
      BY DEF Dates
    <3>2. \A r \in Requests : r.due \in Nat \cup {None}
      BY DEF Requests
    <3>3. \A r \in Requests : r.due \in Int
      BY <3>2 DEF None
    <3> QED BY <3>1, <3>3
  <2>3. IsFiniteSet(DOMAIN h) /\ h = [g \in DOMAIN h |-> h[g]]
    <3>1. 1 \in Int /\ Len(Groups) \in Int
      BY GroupsAre
    <3>2. IsFiniteSet(GroupIds)
      BY <3>1, GroupsAre, FS_Interval
    <3> QED BY <3>2
  <2> HIDE DEF h
  <2>4. IsFiniteSet(Range(h)) /\ Range(h) \in SUBSET Int
    <3>1. IsFiniteSet(Range(h))
      BY <2>3, ImageFinite
    <3>2. DOMAIN h = GroupIds
      BY DEF h
    <3> QED BY <2>2, <3>1, <3>2 DEF Range
  <2>5. NextDues = Range(h) \ {None}
    BY <2>1 DEF NextDues
  <2> QED BY <2>4, <2>5, FS_Difference
<1>5. refreshDue \in Int /\ allowed \in Int /\ CloseDelay \in Int
  BY UniverseAssumption DEF Dates
<1>6. NextCloses # {} => Min(NextCloses) + CloseDelay \in Int
  <2>1. NextCloses # {} => Min(NextCloses) \in Int
    BY <1>3, MinIs
  <2> QED BY <1>5, <2>1
<1>7. NextDues # {} => Max({Min(NextDues), allowed}) \in Int
  <2>1. NextDues # {} => Min(NextDues) \in Int
    BY <1>4, MinIs
  <2> QED BY <1>5, <2>1, MaxIs
<1>8. Bounds \in SUBSET Int /\ Bounds # {}
  BY <1>5, <1>6, <1>7 DEF Bounds
<1>9. IsFiniteSet(Bounds)
  <2>1. \A x : IsFiniteSet({x})
    BY FS_Singleton
  <2>2. IsFiniteSet({})
    BY FS_EmptySet
  <2> DEFINE A == IF NextCloses = {} THEN {} ELSE {Min(NextCloses) + CloseDelay}
             B == IF NextDues = {} THEN {} ELSE {Max({Min(NextDues), allowed})}
  <2>3. IsFiniteSet(A) /\ IsFiniteSet(B) /\ IsFiniteSet({refreshDue})
    BY <2>1, <2>2
  <2>4. Bounds = ({refreshDue} \cup A) \cup B
    BY DEF Bounds
  <2> HIDE DEF A, B
  <2> QED BY <2>3, <2>4, FS_Union
<1> QED BY <1>3, <1>4, <1>8, <1>9, MinIs

LEMMA DeadlineIs ==
  Dates => /\ Deadline = IF universe = NoDecision THEN Max({now, refreshDue})
                         ELSE IF ended \cap Planned # {} THEN now ELSE Max({now, Min(Bounds)})
           /\ Deadline \in Int
<1> SUFFICES ASSUME Dates PROVE /\ Deadline = IF universe = NoDecision THEN Max({now, refreshDue})
                                   ELSE IF ended \cap Planned # {} THEN now ELSE Max({now, Min(Bounds)})
                                /\ Deadline \in Int
  OBVIOUS
<1>1. Deadline = IF universe = NoDecision THEN Max({now, refreshDue})
                 ELSE IF ended \cap Planned # {} THEN now ELSE Max({now, Min(Bounds)})
  BY Zenon DEF Deadline, Bounds, NextCloses, NextDues
<1>2. now \in Int /\ refreshDue \in Int /\ Min(Bounds) \in Int
  BY BoundsHold, UniverseAssumption DEF Dates
<1>3. Max({now, refreshDue}) \in Int /\ Max({now, Min(Bounds)}) \in Int
  BY <1>2, MaxIs
<1> QED BY <1>1, <1>2, <1>3

-----------------------------------------------------------------------------
(* The steps: what each does to the work under way and to the plan. *)

LEMMA ConnsAre ==
  /\ BookConns \in Nat \ {0} /\ TickerConn = BookConns + 1 /\ TickerConn \notin Conns
  /\ 1 \in Conns /\ \A c : c \in 1 .. TickerConn <=> c \in Conns \/ c = TickerConn
  /\ \A c \in 1 .. TickerConn : c \in Int
<1>1. BookConns \in Nat \ {0}
  BY BoundsAre
<1> QED BY <1>1 DEF TickerConn, Conns

LEMMA StepIs ==
  ASSUME NEW w \in Steps
  PROVE  /\ w.kind \in {"none", "full", "relist", "close"} /\ w.started \in Nat
         /\ w.names \in SUBSET GroupIds /\ w.todo \in SUBSET Tickers /\ w.read \in Listings
         /\ w.decision \in Decisions /\ w.desired \in [Conns -> SUBSET Tickers] /\ w.hand \in Nat
BY DEF Steps

LEMMA NoWorkIs ==
  /\ NoWork \in Steps /\ NoWork.kind = "none" /\ NoWork.read = << >> /\ NoWork.names = {}
  /\ NoWork.started = 0 /\ DOMAIN << >> = {}
<1>1. << >> \in Listings
  <2>1. << >> \in [{} -> Summaries]
    OBVIOUS
  <2> QED BY <2>1 DEF Listings
<1>2. NoDecision \in Decisions /\ NoPlan \in [Conns -> SUBSET Tickers]
  BY DEF Decisions, NoPlan
<1> QED BY <1>1, <1>2 DEF NoWork, Steps

LEMMA SamePlan ==
  ASSUME Planning, loop'.phase = loop.phase, UNCHANGED <<work, universe, plan, carried>>
  PROVE  Planning'
BY DEF Planning, HandedTo

LEMMA IdlePlan ==
  ASSUME Planning, loop.phase # "applying", loop'.phase # "applying",
         UNCHANGED <<universe, plan, carried>>, work'.kind = "relist" => universe # NoDecision
  PROVE  Planning'
BY DEF Planning, HandedTo

LEMMA PauseIs ==
  ASSUME Dates', Pause
  PROVE  /\ loop' \in Loops /\ loop'.phase = "pausing" /\ ~loop'.wake /\ loop'.until = Deadline'
<1>1. (Dates => /\ Deadline = IF universe = NoDecision THEN Max({now, refreshDue})
                              ELSE IF ended \cap Planned # {} THEN now ELSE Max({now, Min(Bounds)})
                /\ Deadline \in Int)'
  BY DeadlineIs, PTL
<1>2. Deadline' \in Int
  BY <1>1
<1>3. loop' = [phase |-> "pausing", wake |-> FALSE, until |-> Deadline']
  BY DEF Pause
<1> QED BY <1>2, <1>3 DEF Loops

LEMMA BeginListingIs ==
  ASSUME now \in Nat, loop \in Loops, NEW kind \in {"full", "relist"}, NEW names \in SUBSET GroupIds,
         NEW todo \in SUBSET Tickers, BeginListing(kind, names, todo)
  PROVE  /\ work' \in Steps /\ work'.kind = kind /\ work'.read = << >> /\ work'.names = names
         /\ work'.started = now
         /\ loop' \in Loops /\ loop'.phase = "listing"
<1>1. /\ work' = [NoWork EXCEPT !.kind = kind, !.started = now, !.names = names, !.todo = todo]
      /\ loop' = [loop EXCEPT !.phase = "listing"]
  BY DEF BeginListing
<1>2. work' \in Steps
  BY <1>1, NoWorkIs DEF Steps
<1>3. /\ work'.kind = kind /\ work'.read = << >> /\ work'.names = names /\ work'.started = now
  BY <1>1 DEF NoWork
<1> QED BY <1>1, <1>2, <1>3 DEF Loops

LEMMA RelistOrPauseIs ==
  ASSUME now \in Nat, allowed \in Int, loop \in Loops, RelistOrPause
  PROVE  /\ allowed' \in Int /\ work' \in Steps /\ work'.read = << >> /\ work'.kind # "full"
         /\ Dates' => loop' \in Loops
         /\ \/ loop'.phase = "listing" /\ work'.kind = "relist"
            \/ Pause /\ work' = NoWork
<1> DEFINE due == {g \in SeriesGroups : relists'[g].due # None /\ relists'[g].due <= now}
           todo == {m \in Tickers : Market[m].series \in SeriesOf(due)}
<1>1. CASE due # {} /\ now >= allowed
  <2>1. allowed' = now + MinInterval /\ BeginListing("relist", due, todo)
    BY <1>1 DEF RelistOrPause
  <2>2. due \in SUBSET GroupIds /\ todo \in SUBSET Tickers
    BY DEF SeriesGroups
  <2> HIDE DEF due, todo
  <2>3. /\ work' \in Steps /\ work'.kind = "relist" /\ work'.read = << >>
        /\ loop' \in Loops /\ loop'.phase = "listing"
    BY <2>1, <2>2, BeginListingIs
  <2> QED BY <2>1, <2>3, UniverseAssumption
<1>2. CASE ~(due # {} /\ now >= allowed)
  <2>1. work' = NoWork /\ UNCHANGED allowed /\ Pause
    BY <1>2 DEF RelistOrPause
  <2>2. Dates' => loop' \in Loops
    BY <2>1, PauseIs
  <2> QED BY <2>1, <2>2, NoWorkIs
<1> QED BY <1>1, <1>2

LEMMA BeginApplyIs ==
  ASSUME PlanInv, loop.phase # "applying", NEW step \in Steps, NEW d,
         step.kind = "relist" => universe # NoDecision,
         d \in Decisions, d # NoDecision, Cardinality(Wanted(d)) <= MaxL2,
         BeginApply(step, d), UNCHANGED <<universe, plan>>
  PROVE  /\ work' \in Steps /\ carried' \in [1 .. TickerConn -> SUBSET Tickers] /\ loop' \in Loops
         /\ Planning' /\ work'.decision = d /\ work'.kind = step.kind /\ work'.read = step.read
         /\ loop'.phase = "applying"
<1> DEFINE desired == Plan(Wanted(d), plan)
<1>1. /\ work' = [step EXCEPT !.decision = d, !.desired = desired, !.hand = 2]
      /\ carried' = [carried EXCEPT ![1] = desired[1]]
      /\ loop' = [loop EXCEPT !.phase = "applying"]
  BY DEF BeginApply
<1>2. GoodPlan(plan, Wanted(universe))
  BY DEF PlanInv, Planning
<1>3. Follows(desired, plan, Wanted(d))
  BY <1>2, DecisionIs, PlanShape
<1> HIDE DEF desired
<1>4. desired \in [Conns -> SUBSET Tickers]
  BY <1>3 DEF Follows, GoodPlan
<1>5. work' \in Steps
  BY <1>1, <1>4 DEF Steps
<1>6. /\ work'.decision = d /\ work'.desired = desired /\ work'.hand = 2 /\ work'.kind = step.kind
      /\ work'.read = step.read
  BY <1>1 DEF Steps
<1>7. loop' \in Loops /\ loop'.phase = "applying"
  BY <1>1 DEF PlanInv, Kinds, Loops
<1>8. carried \in [1 .. TickerConn -> SUBSET Tickers]
  BY DEF PlanInv, Kinds, Rest
<1>9. /\ carried' \in [1 .. TickerConn -> SUBSET Tickers]
      /\ \A c \in 1 .. TickerConn : carried'[c] = IF c = 1 THEN desired[1] ELSE carried[c]
  BY <1>1, <1>4, <1>8, ConnsAre
<1>10. /\ \A c \in Conns : carried[c] = plan[c]
       /\ carried[TickerConn] = UNION Range(plan)
  BY DEF PlanInv, Planning, HandedTo
<1>11. /\ \A c \in Conns : carried'[c] = IF c < 2 THEN desired[c] ELSE plan[c]
       /\ carried'[TickerConn] = UNION Range(plan) /\ ~(TickerConn < 2) /\ 2 \in 2 .. TickerConn + 1
  <2>1. TickerConn \in Int /\ TickerConn >= 2
    BY ConnsAre
  <2>2. \A c \in Conns : c \in Int /\ c >= 1 /\ c \in 1 .. TickerConn /\ (c < 2 <=> c = 1)
    BY ConnsAre DEF Conns
  <2>3. TickerConn \in 1 .. TickerConn /\ TickerConn # 1
    BY <2>1
  <2> QED BY <1>9, <1>10, <2>1, <2>2, <2>3
<1>12. Planning'
  <2>1. /\ GoodPlan(plan, Wanted(universe))' /\ (Cardinality(Wanted(universe)) <= MaxL2)'
    BY DEF PlanInv, Planning
  <2>2. work'.kind = "relist" => universe' # NoDecision
    BY <1>6
  <2>3. Follows(work.desired, plan, Wanted(work.decision))'
    BY <1>3, <1>6
  <2>4. work'.decision # NoDecision /\ Cardinality(Wanted(work'.decision)) <= MaxL2
        /\ work'.hand \in 2 .. TickerConn + 1
    BY <1>6, <1>11
  <2>5. \A c : HandedTo(c)' = IF c < 2 THEN desired ELSE plan
    BY <1>6, <1>7 DEF HandedTo
  <2>6. /\ \A c \in Conns : carried'[c] = HandedTo(c)'[c]
        /\ carried'[TickerConn] = UNION Range(HandedTo(TickerConn)')
    BY <1>11, <2>5
  <2> QED BY <1>7, <2>1, <2>2, <2>3, <2>4, <2>6 DEF Planning
<1> QED BY <1>5, <1>6, <1>7, <1>9, <1>12

LEMMA NowIs == ASSUME Dates PROVE now \in Nat
BY UniverseAssumption DEF Dates

LEMMA TellIs ==
  ASSUME Rest, NEW m \in Tickers, NEW kind \in {"open", "end", "move"}, NEW close \in Int,
         Tell(m, kind, close)
  PROVE  notes' \in Seq(Notes)
<1>1. [market |-> m, kind |-> kind, close |-> close] \in Notes
  BY DEF Notes
<1>2. notes \in Seq(Notes)
  BY DEF Rest
<1>3. CASE live
  BY <1>1, <1>2, <1>3 DEF Tell
<1>4. CASE ~live
  BY <1>2, <1>4 DEF Tell
<1> QED BY <1>3, <1>4

LEMMA ChangesKeep ==
  ASSUME PlanInv, NEW m \in Tickers, NEW kind, NEW summary \in Listed, Changes(m, kind, summary),
         notes' \in Seq(Notes)
  PROVE  PlanInv'
<1>1. exchange' \in [Tickers -> Listed]
  <2>1. exchange \in [Tickers -> Listed] /\ exchange' = [exchange EXCEPT ![m] = summary]
    BY DEF PlanInv, Kinds, Rest, Changes
  <2> QED BY <2>1
<1>2. /\ UNCHANGED <<now, live, loop, work, refreshDue, failures, known, universe, plan, carried,
                     allowed, site, told, owed>>
      /\ UNCHANGED <<ended, moved, relists, followUps>>
  BY DEF Changes, clockVars
<1>3. Dates' /\ Rest' /\ loop' \in Loops
  BY <1>1, <1>2 DEF PlanInv, Kinds, Dates, Rest
<1>4. Planning'
  BY <1>2, SamePlan DEF PlanInv
<1> QED BY <1>3, <1>4 DEF PlanInv, Kinds

LEMMA ExchangeKeeps ==
  ASSUME PlanInv, NEW m \in Tickers, Open(m) \/ Determine(m) \/ Quote(m)
  PROVE  PlanInv'
<1>1. Rest /\ exchange[m] \in Listed
  BY DEF PlanInv, Kinds, Rest
<1>2. None \in Int
  BY DEF None
<1>3. CASE Open(m)
  <2>1. [exchange[m] EXCEPT !.status = "open"] \in Listed
    BY <1>1 DEF Listed
  <2>2. notes' \in Seq(Notes)
    BY <1>1, <1>2, <1>3, TellIs DEF Open
  <2> QED BY <1>3, <2>1, <2>2, ChangesKeep DEF Open
<1>4. CASE Determine(m)
  <2>1. [exchange[m] EXCEPT !.status = "ended"] \in Listed
    BY <1>1 DEF Listed
  <2>2. notes' \in Seq(Notes)
    BY <1>1, <1>2, <1>4, TellIs DEF Determine
  <2> QED BY <1>4, <2>1, <2>2, ChangesKeep DEF Determine
<1>5. CASE Quote(m)
  <2>1. [exchange[m] EXCEPT !.mid = Market[m].mid] \in Listed
    BY <1>1, MarketIs DEF Listed
  <2>2. notes' \in Seq(Notes)
    BY <1>1, <1>5 DEF Quote, Rest
  <2> QED BY <1>5, <2>1, <2>2, ChangesKeep DEF Quote
<1> QED BY <1>3, <1>4, <1>5

LEMMA MoveKeeps ==
  ASSUME PlanInv, NEW m \in Tickers, NEW close \in Closes, MoveClose(m, close)
  PROVE  PlanInv'
<1>1. Rest /\ exchange[m] \in Listed /\ close \in Int
  <2>1. Rest /\ exchange[m] \in Listed
    BY DEF PlanInv, Kinds, Rest
  <2>2. close \in Int
    BY SMTT(60), UniverseAssumption
  <2> QED BY <2>1, <2>2
<1>2. [exchange[m] EXCEPT !.close = close] \in Listed
  BY <1>1 DEF Listed
<1>3. notes' \in Seq(Notes)
  BY <1>1, TellIs DEF MoveClose
<1> QED BY <1>2, <1>3, ChangesKeep DEF MoveClose

LEMMA TickKeeps ==
  ASSUME PlanInv, Tick
  PROVE  PlanInv'
<1>1. /\ UNCHANGED <<exchange, notes, live, loop, work, refreshDue, failures, known, universe, plan,
                     carried, allowed, site, told, owed>>
      /\ UNCHANGED <<ended, moved, relists, followUps>>
      /\ now < MaxNow /\ now' = now + 1
  BY DEF Tick, clockVars
<1>2. now' \in 0 .. MaxNow
  BY <1>1, UniverseAssumption DEF PlanInv, Kinds, Dates
<1>3. Dates' /\ Rest' /\ loop' \in Loops
  BY <1>1, <1>2 DEF PlanInv, Kinds, Dates, Rest
<1> QED BY <1>1, <1>3, SamePlan DEF PlanInv, Kinds

LEMMA ControlKeeps ==
  ASSUME PlanInv, ControlUp \/ ControlLost
  PROVE  PlanInv'
<1>1. /\ UNCHANGED <<now, exchange, loop, work, refreshDue, failures, known, universe, plan,
                     carried, allowed, site, told, owed>>
      /\ UNCHANGED <<ended, moved, relists, followUps>>
      /\ notes' = notes \/ notes' = << >>
  BY DEF ControlUp, ControlLost, clockVars
<1>2. notes' \in Seq(Notes)
  <2>1. notes \in Seq(Notes) /\ << >> \in Seq(Notes)
    BY DEF PlanInv, Kinds, Rest
  <2> QED BY <1>1, <2>1
<1>3. Dates' /\ Rest' /\ loop' \in Loops
  BY <1>1, <1>2 DEF PlanInv, Kinds, Dates, Rest
<1> QED BY <1>1, <1>3, SamePlan DEF PlanInv, Kinds

Put(f, m, close) == Over([k \in {m} |-> close], f)

LEMMA PutIs ==
  ASSUME NEW m \in Tickers, NEW close \in Int, NEW f \in Catalogs
  PROVE  /\ Put(f, m, close) \in Catalogs /\ DOMAIN Put(f, m, close) = {m} \cup DOMAIN f
         /\ Put(f, m, close)[m] = close
         /\ \A k \in DOMAIN f : k # m => Put(f, m, close)[k] = f[k]
<1> DEFINE g == Put(f, m, close)
<1>1. PICK S \in SUBSET Tickers : f \in [S -> Int]
  BY DEF Catalogs
<1>2. g = [k \in {m} \cup S |-> IF k = m THEN close ELSE f[k]]
  BY <1>1 DEF Over, Put
<1> HIDE DEF g
<1>3. g \in [{m} \cup S -> Int] /\ {m} \cup S \in SUBSET Tickers
  BY <1>1, <1>2
<1>4. g \in Catalogs
  BY <1>3 DEF Catalogs
<1> QED BY <1>1, <1>2, <1>4 DEF g

LEMMA HearKeeps ==
  ASSUME PlanInv, Hear
  PROVE  PlanInv'
<1> DEFINE note == Head(notes)
           m == note.market
           planned == m \in Planned
           groups == {g \in SeriesGroups : Market[m].series \in Range(Groups[g].series)}
           asks == note.kind = "open" /\ groups # {}
<1>1. /\ notes # << >> /\ notes' = Tail(notes) /\ Noted(note) /\ Shown(note)
      /\ UNCHANGED <<now, exchange, live, work, refreshDue, failures, known, universe, plan,
                     carried, followUps, allowed, spent>>
  BY DEF Hear
<1>2. Dates /\ Rest /\ loop \in Loops /\ now \in Nat
  BY NowIs DEF PlanInv, Kinds
<1>3. notes' \in Seq(Notes) /\ note \in Notes
  BY <1>1, <1>2 DEF Rest
<1>4. m \in Tickers /\ note.close \in Int
  BY <1>3 DEF Notes
<1>5. /\ ended' = IF note.kind = "end" /\ planned THEN ended \cup {m} ELSE ended
      /\ moved' = IF note.kind = "move" /\ planned THEN [moved EXCEPT ![m] = note.close] ELSE moved
      /\ relists' = [g \in GroupIds |-> IF asks /\ g \in groups
                                        THEN Request(relists[g], now + Debounce) ELSE relists[g]]
      /\ loop' = IF asks \/ (note.kind # "open" /\ planned) THEN [loop EXCEPT !.wake = TRUE] ELSE loop
      /\ told' = [told EXCEPT ![m] = [ended |-> @.ended \/ (note.kind = "end" /\ planned),
                                      close |-> IF note.kind = "move" /\ planned
                                                THEN note.close ELSE @.close]]
  BY <1>1 DEF Noted
<1>6. site' = [site EXCEPT !.ended = IF m \in DOMAIN site.entries /\ note.kind = "end"
                                     THEN @ \cup {m} ELSE @,
                           !.moved = IF m \in DOMAIN site.entries /\ note.kind = "move"
                                     THEN Put(@, m, note.close) ELSE @]
  BY <1>1 DEF Shown, Put
<1> HIDE DEF planned, groups, asks, note, m
<1>7. ended' \in SUBSET Tickers /\ moved' \in [Tickers -> Int]
  BY <1>2, <1>4, <1>5 DEF Dates, m
<1>8. relists' \in [GroupIds -> Requests]
  <2>1. \A g \in GroupIds : relists[g] \in Requests
    BY <1>2 DEF Dates
  <2>2. now + Debounce \in Nat
    BY <1>2, UniverseAssumption
  <2>3. \A g \in GroupIds : Request(relists[g], now + Debounce) \in Requests
    BY <1>2, <2>1, <2>2, RequestIs
  <2> QED BY <1>5, <2>1, <2>3
<1>9. loop' \in Loops /\ loop'.phase = loop.phase
  BY <1>2, <1>5 DEF Loops
<1>10. told' \in [Tickers -> Tellings]
  <2>1. told \in [Tickers -> Tellings]
    BY <1>2 DEF Rest
  <2>2. told[m] \in Tellings
    BY <1>4, <2>1 DEF m
  <2>3. told[m].ended \in BOOLEAN /\ told[m].close \in Int
    BY <2>2 DEF Tellings
  <2>4. \A a, b : [ended |-> told[m].ended \/ a,
                   close |-> IF b THEN note.close ELSE told[m].close] \in Tellings
    BY <1>4, <2>3 DEF Tellings, m
  <2> QED BY <1>5, <2>1, <2>4
<1>11. site' \in Sites
  <2>1. site.entries \in Catalogs /\ site.ended \in SUBSET Tickers /\ site.moved \in Catalogs /\ site \in Sites
    BY <1>2 DEF Rest, Sites
  <2>2. Put(site.moved, m, note.close) \in Catalogs /\ m \in Tickers
    <3>1. m \in Tickers /\ note.close \in Int
      BY <1>4
    <3> QED BY <2>1, <3>1, PutIs
  <2> QED BY <1>6, <2>1, <2>2 DEF Sites
<1>12. Dates' /\ Rest'
  BY <1>1, <1>2, <1>3, <1>7, <1>8, <1>10, <1>11 DEF Dates, Rest
<1>13. Planning'
  BY <1>1, <1>9, SamePlan DEF PlanInv
<1> QED BY <1>9, <1>12, <1>13 DEF PlanInv, Kinds

LEMMA CatalogIs ==
  ASSUME Dates
  PROVE  /\ Catalog \in Catalogs /\ DOMAIN Catalog = DOMAIN universe.markets \ ended
         /\ \A m \in DOMAIN universe.markets \ ended :
              Catalog[m] = IF moved[m] = None THEN universe.markets[m].close ELSE moved[m]
<1> DEFINE S == DOMAIN universe.markets \ ended
<1>1. /\ S \in SUBSET Tickers /\ \A m \in S : universe.markets[m].close \in Int /\ moved[m] \in Int
  <2>1. universe.markets \in Listings
    BY DecisionIs DEF Dates
  <2> QED BY <2>1, ListedIs DEF Dates
<1>2. Catalog = [m \in S |-> IF moved[m] = None THEN universe.markets[m].close ELSE moved[m]]
  BY DEF Catalog
<1> HIDE DEF S
<1>3. Catalog \in [S -> Int]
  BY <1>1, <1>2
<1>4. Catalog \in Catalogs
  BY <1>1, <1>3 DEF Catalogs
<1> QED BY <1>2, <1>4 DEF S

LEMMA PublishKeeps ==
  ASSUME PlanInv, PublishCatalog
  PROVE  PlanInv'
<1>1. /\ UNCHANGED <<now, exchange, notes, live, loop, work, refreshDue, failures, known, universe, plan,
                     carried, allowed, told, owed>>
      /\ UNCHANGED <<ended, moved, relists, followUps>>
      /\ site' = [entries |-> Catalog, ended |-> {}, moved |-> << >>]
  BY DEF PublishCatalog, ApplyCatalog, clockVars
<1>2. site' \in Sites
  <2>1. Catalog \in Catalogs
    BY CatalogIs DEF PlanInv, Kinds
  <2>2. << >> \in [{} -> Int]
    OBVIOUS
  <2>3. << >> \in Catalogs
    BY <2>2 DEF Catalogs
  <2> QED BY <1>1, <2>1, <2>3 DEF Sites
<1>3. Dates' /\ Rest' /\ loop' \in Loops
  BY <1>1, <1>2 DEF PlanInv, Kinds, Dates, Rest
<1> QED BY <1>1, <1>3, SamePlan DEF PlanInv, Kinds

LEMMA OverIs ==
  ASSUME NEW f \in Listings, NEW g \in Listings
  PROVE  Over(f, g) \in Listings /\ DOMAIN Over(f, g) = DOMAIN f \cup DOMAIN g
<1>1. PICK S \in SUBSET Tickers : f \in [S -> Summaries]
  BY DEF Listings
<1>2. PICK U \in SUBSET Tickers : g \in [U -> Summaries]
  BY DEF Listings
<1>3. Over(f, g) = [x \in S \cup U |-> IF x \in S THEN f[x] ELSE g[x]]
  BY <1>1, <1>2 DEF Over
<1>4. Over(f, g) \in [S \cup U -> Summaries] /\ S \cup U \in SUBSET Tickers
  BY <1>1, <1>2, <1>3
<1> QED BY <1>1, <1>2, <1>4 DEF Listings

LEMMA RestrictIs ==
  ASSUME NEW f \in Listings, NEW S \in SUBSET DOMAIN f
  PROVE  Restrict(f, S) \in Listings /\ DOMAIN Restrict(f, S) = S
<1>1. S \in SUBSET Tickers /\ \A m \in S : f[m] \in Summaries
  BY ListedIs
<1>2. Restrict(f, S) \in [S -> Summaries]
  BY <1>1 DEF Restrict
<1> QED BY <1>1, <1>2 DEF Listings

(* A plan is begun for a decision that selects of S, and nothing reported ended. *)
Starts(step, S) ==
  \E d \in Decisions : /\ d # NoDecision /\ Cardinality(Wanted(d)) <= MaxL2
                       /\ Wanted(d) \subseteq S \ ended /\ BeginApply(step, d)

LEMMA SelectStarts ==
  ASSUME Dates, NEW step, NEW listed \in Listings, NEW S, DOMAIN listed \subseteq S, NEW known_, NEW pinned,
         NEW previous, \A g \in DOMAIN Groups : g \in pinned => previous.admitted[g] \in Seq(Tickers),
         BeginApply(step, Select(AsLastReported(listed), now, known_, pinned, previous))
  PROVE  Starts(step, S)
<1> DEFINE f == AsLastReported(listed)
           d == Select(f, now, known_, pinned, previous)
<1>1. f \in Listings /\ DOMAIN f = DOMAIN listed \ ended
  BY LastReportIs DEF Dates
<1> HIDE DEF f
<1>2. Selection(d, f, now)
  BY <1>1, SelectShape
<1>3. BeginApply(step, d)
  BY DEF f
<1> HIDE DEF d
<1>4. Wanted(d) \subseteq DOMAIN f
  BY <1>2 DEF Selection, Eligible
<1>5. d \in Decisions /\ d # NoDecision /\ Cardinality(Wanted(d)) <= MaxL2
  BY <1>2 DEF Selection
<1>6. Wanted(d) \subseteq S \ ended
  BY <1>1, <1>4
<1> QED BY <1>3, <1>5, <1>6 DEF Starts

Closing == [NoWork EXCEPT !.kind = "close", !.started = now]

LEMMA RemoveStarts ==
  ASSUME PlanInv, RemoveClosed
  PROVE  /\ Starts(Closing, Wanted(universe)) /\ Closing \in Steps
         /\ Closing.kind = "close" /\ Closing.read = << >> /\ Closing.names = {}
<1>1. Dates /\ now \in Nat /\ universe \in Decisions
  BY NowIs DEF PlanInv, Kinds, Dates
<1>2. universe # NoDecision
  <2>1. ClosedNow # {}
    BY DEF RemoveClosed
  <2>2. Wanted(universe) # {}
    BY <2>1 DEF ClosedNow
  <2> QED BY <2>2 DEF Wanted, NoDecision
<1>3. universe.markets \in Listings /\ \A g \in DOMAIN Groups : universe.admitted[g] \in Seq(Tickers)
  BY <1>1, <1>2, DecisionIs
<1>4. BeginApply(Closing, Select(AsLastReported(universe.markets), now, FALSE, GroupIds, universe))
  BY DEF RemoveClosed, Closing
<1>5. DOMAIN universe.markets \subseteq Wanted(universe)
  BY DEF Wanted
<1>6. Starts(Closing, Wanted(universe))
  BY <1>1, <1>3, <1>4, <1>5, SelectStarts
<1>7. Closing \in Steps
  BY <1>1, NoWorkIs DEF Steps, Closing
<1> QED BY <1>6, <1>7 DEF Closing, NoWork

LEMMA RefreshStarts ==
  ASSUME PlanInv, FinishRefresh
  PROVE  Starts(work, DOMAIN work.read)
<1>1. Dates /\ work.read \in Listings
  BY StepIs DEF PlanInv, Kinds, Rest
<1>2. BeginApply(work, Select(AsLastReported(work.read), now, known', {}, NoDecision))
  BY DEF FinishRefresh
<1> QED BY <1>1, <1>2, SelectStarts

LEMMA RelistStarts ==
  ASSUME PlanInv, FinishRelist
  PROVE  Starts(work, DOMAIN work.read \cup Wanted(universe))
<1> DEFINE unlisted == {m \in Wanted(universe) : Market[m].series \notin SeriesOf(work.names)}
           listed == Over(work.read, Restrict(universe.markets, unlisted))
<1>1. Dates /\ work.read \in Listings /\ universe \in Decisions
  BY StepIs DEF PlanInv, Kinds, Rest, Dates
<1>2. universe # NoDecision
  BY DEF FinishRelist, PlanInv, Planning
<1>3. universe.markets \in Listings /\ \A g \in DOMAIN Groups : universe.admitted[g] \in Seq(Tickers)
  BY <1>1, <1>2, DecisionIs
<1>4. BeginApply(work, Select(AsLastReported(listed), now, FALSE, GroupIds \ work.names, universe))
  BY DEF FinishRelist
<1>5. unlisted \in SUBSET DOMAIN universe.markets
  BY DEF Wanted
<1> HIDE DEF unlisted
<1>6. listed \in Listings /\ DOMAIN listed = DOMAIN work.read \cup unlisted
  <2> DEFINE r == Restrict(universe.markets, unlisted)
  <2>1. r \in Listings /\ DOMAIN r = unlisted
    BY <1>3, <1>5, RestrictIs
  <2> HIDE DEF r
  <2>2. Over(work.read, r) \in Listings /\ DOMAIN Over(work.read, r) = DOMAIN work.read \cup unlisted
    BY <1>1, <2>1, OverIs
  <2> QED BY <2>2 DEF r
<1> HIDE DEF listed
<1>7. DOMAIN listed \subseteq DOMAIN work.read \cup Wanted(universe)
  BY <1>5, <1>6 DEF Wanted
<1> QED BY <1>1, <1>3, <1>4, <1>6, <1>7, SelectStarts

LEMMA StartsKeeps ==
  ASSUME PlanInv, loop.phase # "applying", NEW step \in Steps, NEW S,
         step.kind = "relist" => universe # NoDecision, Starts(step, S), UNCHANGED <<universe, plan>>
  PROVE  /\ work' \in Steps /\ carried' \in [1 .. TickerConn -> SUBSET Tickers] /\ loop' \in Loops
         /\ Planning' /\ work'.kind = step.kind /\ work'.read = step.read
         /\ loop'.phase = "applying" /\ Wanted(work'.decision) \subseteq S \ ended
<1>1. PICK d \in Decisions : /\ d # NoDecision /\ Cardinality(Wanted(d)) <= MaxL2
                             /\ Wanted(d) \subseteq S \ ended /\ BeginApply(step, d)
  BY DEF Starts
<1>2. /\ work' \in Steps /\ carried' \in [1 .. TickerConn -> SUBSET Tickers] /\ loop' \in Loops
      /\ Planning' /\ work'.decision = d /\ work'.kind = step.kind /\ work'.read = step.read
      /\ loop'.phase = "applying"
  BY <1>1, BeginApplyIs
<1> QED BY <1>1, <1>2

LEMMA FinishKeeps ==
  ASSUME PlanInv, FinishRefresh \/ FinishRelist
  PROVE  PlanInv'
<1>1. /\ UNCHANGED <<now, exchange, notes, live, site, told, owed, refreshDue, failures, universe, plan,
                     allowed>>
      /\ UNCHANGED <<ended, moved, relists, followUps>>
      /\ loop.phase = "listing"
  BY DEF FinishRefresh, FinishRelist, worldVars, clockVars, Listing
<1>2. \E S : Starts(work, S)
  BY RefreshStarts, RelistStarts
<1>3. work \in Steps /\ (work.kind = "relist" => universe # NoDecision)
  BY DEF PlanInv, Kinds, Rest, Planning
<1>4. /\ work' \in Steps /\ carried' \in [1 .. TickerConn -> SUBSET Tickers] /\ loop' \in Loops /\ Planning'
  BY <1>1, <1>2, <1>3, StartsKeeps
<1>5. Dates' /\ Rest'
  BY <1>1, <1>4 DEF PlanInv, Kinds, Dates, Rest
<1> QED BY <1>4, <1>5 DEF PlanInv, Kinds

LEMMA RemoveKeeps ==
  ASSUME PlanInv, RemoveClosed
  PROVE  PlanInv'
<1>1. /\ UNCHANGED <<now, exchange, notes, live, site, told, owed, refreshDue, failures, universe, plan,
                     allowed, ended, moved, followUps>>
      /\ loop.phase = "pausing"
      /\ relists' = [g \in GroupIds |->
                       IF g \in SeriesGroups /\ Range(universe.admitted[g]) \cap ClosedNow # {}
                       THEN Request(relists[g], now) ELSE relists[g]]
  BY DEF RemoveClosed, worldVars, Awake, Pausing
<1>2. /\ work' \in Steps /\ carried' \in [1 .. TickerConn -> SUBSET Tickers] /\ loop' \in Loops /\ Planning'
  BY <1>1, RemoveStarts, StartsKeeps
<1>3. relists' \in [GroupIds -> Requests]
  <2>1. now \in Nat /\ \A g \in GroupIds : relists[g] \in Requests
    BY NowIs DEF PlanInv, Kinds, Dates
  <2>2. \A g \in GroupIds : Request(relists[g], now) \in Requests
    BY <2>1, RequestIs
  <2> QED BY <1>1, <2>1, <2>2
<1>4. Dates' /\ Rest'
  BY <1>1, <1>2, <1>3 DEF PlanInv, Kinds, Dates, Rest
<1> QED BY <1>2, <1>4 DEF PlanInv, Kinds

LEMMA StartKeeps ==
  ASSUME PlanInv, StartRefresh
  PROVE  PlanInv'
<1>1. /\ UNCHANGED <<now, exchange, notes, live, site, told, owed, refreshDue, failures, universe, plan,
                     carried, allowed>>
      /\ UNCHANGED <<ended, moved, relists, followUps>>
      /\ loop.phase = "pausing" /\ BeginListing("full", GroupIds, Tickers)
  BY DEF StartRefresh, worldVars, clockVars, Awake, Pausing
<1>2. /\ work' \in Steps /\ work'.kind = "full" /\ loop' \in Loops /\ loop'.phase = "listing"
  BY <1>1, BeginListingIs, NowIs DEF PlanInv, Kinds
<1>3. Dates' /\ Rest'
  BY <1>1, <1>2 DEF PlanInv, Kinds, Dates, Rest
<1>4. Planning'
  BY <1>1, <1>2, IdlePlan DEF PlanInv
<1> QED BY <1>2, <1>3, <1>4 DEF PlanInv, Kinds

LEMMA LookKeeps ==
  ASSUME PlanInv, LookAgain
  PROVE  PlanInv'
<1>1. /\ UNCHANGED <<now, exchange, notes, live, site, told, owed, refreshDue, failures, universe, plan,
                     carried>>
      /\ UNCHANGED <<ended, moved, relists, followUps>>
      /\ loop.phase = "pausing"
      /\ IF universe = NoDecision THEN work' = NoWork /\ UNCHANGED allowed /\ Pause ELSE RelistOrPause
  BY DEF LookAgain, worldVars, clockVars, Awake, Pausing
<1>2. now \in Nat /\ allowed \in Int /\ loop \in Loops
  BY NowIs DEF PlanInv, Kinds, Dates
<1>3. allowed' \in Int /\ work' \in Steps
  BY <1>1, <1>2, NoWorkIs, RelistOrPauseIs
<1>4. Dates' /\ Rest'
  BY <1>1, <1>3 DEF PlanInv, Kinds, Dates, Rest
<1>5. /\ loop' \in Loops /\ loop'.phase # "applying"
      /\ work'.kind = "relist" => universe # NoDecision
  <2>1. CASE universe = NoDecision
    BY <1>1, <1>4, <2>1, PauseIs, NoWorkIs
  <2>2. CASE universe # NoDecision
    <3>1. RelistOrPause
      BY <1>1, <2>2
    <3>2. loop' \in Loops /\ (loop'.phase = "listing" \/ Pause)
      BY <1>2, <1>4, <3>1, RelistOrPauseIs
    <3> QED BY <1>4, <2>2, <3>2, PauseIs
  <2> QED BY <2>1, <2>2
<1>6. Planning'
  BY <1>1, <1>5, IdlePlan DEF PlanInv
<1> QED BY <1>4, <1>5, <1>6 DEF PlanInv, Kinds

LEMMA PageIs ==
  ASSUME Rest, NEW S \in SUBSET work.todo
  PROVE  /\ PageRead(S) =>
              /\ work' \in Steps /\ work'.kind = work.kind /\ work'.decision = work.decision
              /\ \A m \in DOMAIN work'.read : m \in DOMAIN work.read \/ exchange[m].status = "open"
              /\ DOMAIN work.read \subseteq DOMAIN work'.read
         /\ PageCut(S) =>
              /\ work' \in Steps /\ work'.kind = work.kind /\ work'.decision = work.decision
              /\ work'.read = work.read
<1> DEFINE new == [m \in {m \in S : exchange[m].status = "open"} |-> Summary(m)]
<1>1. work \in Steps /\ S \in SUBSET Tickers /\ work.todo \in SUBSET Tickers /\ work.read \in Listings
  BY StepIs DEF Rest
<1>2. \A m \in Tickers : Summary(m) \in Summaries
  <2>1. \A m \in Tickers : exchange[m].close \in Int /\ exchange[m].mid \in Int
    BY DEF Rest, Listed
  <2> QED BY <2>1 DEF Summary, Summaries
<1>3. new \in Listings /\ DOMAIN new = {m \in S : exchange[m].status = "open"}
  <2> DEFINE U == {m \in S : exchange[m].status = "open"}
  <2>1. U \in SUBSET Tickers
    BY <1>1
  <2>2. new \in [U -> Summaries]
    BY <1>1, <1>2
  <2> QED BY <2>1, <2>2 DEF Listings
<1> HIDE DEF new
<1>4. /\ Over(new, work.read) \in Listings
      /\ DOMAIN Over(new, work.read) = DOMAIN new \cup DOMAIN work.read
  BY <1>1, <1>3, OverIs
<1>5. ASSUME PageRead(S)
      PROVE  /\ work' \in Steps /\ work'.kind = work.kind /\ work'.decision = work.decision
             /\ \A m \in DOMAIN work'.read : m \in DOMAIN work.read \/ exchange[m].status = "open"
             /\ DOMAIN work.read \subseteq DOMAIN work'.read
  <2>1. work' = [work EXCEPT !.todo = @ \ S, !.read = Over(new, @)]
    BY <1>5 DEF PageRead, new
  <2>2. work' \in Steps /\ work'.kind = work.kind /\ work'.decision = work.decision
    BY <1>1, <1>4, <2>1 DEF Steps
  <2>3. work'.read = Over(new, work.read)
    BY <1>1, <2>1 DEF Steps
  <2> QED BY <1>3, <1>4, <2>2, <2>3
<1>6. ASSUME PageCut(S)
      PROVE  /\ work' \in Steps /\ work'.kind = work.kind /\ work'.decision = work.decision
             /\ work'.read = work.read
  <2>1. work' = [work EXCEPT !.todo = @ \ S]
    BY <1>6 DEF PageCut
  <2> QED BY <1>1, <2>1 DEF Steps
<1> QED BY <1>5, <1>6

LEMMA PageKeeps ==
  ASSUME PlanInv, NEW S \in SUBSET work.todo, PageRead(S) \/ PageCut(S)
  PROVE  PlanInv'
<1>1. /\ UNCHANGED <<now, exchange, notes, live, site, told, owed, loop, refreshDue, failures, universe,
                     plan, carried, allowed>>
      /\ UNCHANGED <<ended, moved, relists, followUps>>
      /\ loop.phase = "listing"
  BY DEF PageRead, PageCut, worldVars, clockVars, Listing
<1>2. work' \in Steps /\ work'.kind = work.kind
  BY PageIs DEF PlanInv, Kinds
<1>3. Dates' /\ Rest' /\ loop' \in Loops
  BY <1>1, <1>2 DEF PlanInv, Kinds, Dates, Rest
<1>4. Planning'
  BY <1>1, <1>2, IdlePlan DEF PlanInv, Planning
<1> QED BY <1>3, <1>4 DEF PlanInv, Kinds

LEMMA FailKeeps ==
  ASSUME PlanInv, (\E delay \in RetryDelay : FailRefresh(delay)) \/ FailRelist
  PROVE  PlanInv'
<1>1. /\ UNCHANGED <<now, exchange, notes, live, site, told, owed, universe, plan, carried, allowed>>
      /\ UNCHANGED <<ended, moved, relists, followUps>>
      /\ loop.phase = "listing" /\ work' = NoWork /\ Pause
  BY DEF FailRefresh, FailRelist, worldVars, clockVars, Listing
<1>2. refreshDue' \in Int
  <2>1. CASE FailRelist
    BY <2>1 DEF FailRelist, PlanInv, Kinds, Dates
  <2>2. CASE \E delay \in RetryDelay : FailRefresh(delay)
    <3>1. PICK delay \in RetryDelay : refreshDue' = now + delay
      BY <2>2 DEF FailRefresh
    <3>2. delay \in Int
      BY DEF RetryDelay
    <3>3. now \in Nat
      BY NowIs DEF PlanInv, Kinds
    <3> QED BY <3>1, <3>2, <3>3
  <2> QED BY <2>1, <2>2
<1>3. Dates' /\ Rest'
  BY <1>1, <1>2, NoWorkIs DEF PlanInv, Kinds, Dates, Rest
<1>4. loop' \in Loops /\ loop'.phase = "pausing"
  BY <1>1, <1>3, PauseIs
<1>5. Planning'
  BY <1>1, <1>4, NoWorkIs, IdlePlan DEF PlanInv
<1> QED BY <1>3, <1>4, <1>5 DEF PlanInv, Kinds

LEMMA HandKeeps ==
  ASSUME PlanInv, HandGroup
  PROVE  PlanInv'
<1> DEFINE all == UNION Range(work.desired)
<1>1. /\ UNCHANGED <<now, exchange, notes, live, site, told, owed, loop, refreshDue, failures, universe,
                     plan, allowed>>
      /\ UNCHANGED <<ended, moved, relists, followUps>>
      /\ loop.phase = "applying" /\ work.hand <= TickerConn
      /\ carried' = [carried EXCEPT ![work.hand] = IF work.hand = TickerConn THEN all
                                                   ELSE work.desired[work.hand]]
      /\ work' = [work EXCEPT !.hand = @ + 1]
  BY DEF HandGroup, worldVars, clockVars
<1>2. /\ work \in Steps /\ work.hand \in 2 .. TickerConn /\ work.hand \in Nat
      /\ work.desired \in [Conns -> SUBSET Tickers]
      /\ carried \in [1 .. TickerConn -> SUBSET Tickers]
  <2>1. work \in Steps /\ work.hand \in 2 .. TickerConn + 1
        /\ carried \in [1 .. TickerConn -> SUBSET Tickers]
    BY <1>1 DEF PlanInv, Kinds, Rest, Planning
  <2>2. work.hand \in Nat /\ work.desired \in [Conns -> SUBSET Tickers]
    BY <2>1, StepIs
  <2> QED BY <1>1, <2>1, <2>2
<1>3. /\ work' \in Steps /\ work'.hand = work.hand + 1 /\ work'.desired = work.desired
      /\ work'.decision = work.decision /\ work'.kind = work.kind
  BY <1>1, <1>2 DEF Steps
<1>4. all \in SUBSET Tickers
  BY <1>2 DEF Range
<1> HIDE DEF all
<1>5. /\ carried' \in [1 .. TickerConn -> SUBSET Tickers]
      /\ \A c \in 1 .. TickerConn :
           carried'[c] = IF c = work.hand THEN IF c = TickerConn THEN all ELSE work.desired[c]
                         ELSE carried[c]
  <2>1. work.hand \in 1 .. TickerConn
    BY <1>2
  <2>2. (IF work.hand = TickerConn THEN all ELSE work.desired[work.hand]) \in SUBSET Tickers
    BY <1>2, <1>4, <2>1, ConnsAre
  <2> QED BY <1>1, <1>2, <2>1, <2>2
<1>6. Dates' /\ Rest' /\ loop' \in Loops
  BY <1>1, <1>3, <1>5 DEF PlanInv, Kinds, Dates, Rest
<1>7. \A c : HandedTo(c)' = IF c < work.hand + 1 THEN work.desired ELSE plan
  BY <1>1, <1>3 DEF HandedTo
<1>8. \A c : HandedTo(c) = IF c < work.hand THEN work.desired ELSE plan
  BY <1>1 DEF HandedTo
<1>9. \A c \in 1 .. TickerConn : c < work.hand + 1 <=> c < work.hand \/ c = work.hand
  BY <1>2
<1>10. ASSUME NEW c \in Conns PROVE carried'[c] = HandedTo(c)'[c]
  <2>1. c \in 1 .. TickerConn /\ c # TickerConn
    BY ConnsAre
  <2>2. carried[c] = HandedTo(c)[c]
    BY DEF PlanInv, Planning
  <2>3. HandedTo(c)' = IF c < work.hand \/ c = work.hand THEN work.desired ELSE plan
    BY <1>7, <1>9, <2>1
  <2>4. HandedTo(c) = IF c < work.hand THEN work.desired ELSE plan
    BY <1>8
  <2> QED BY <1>5, <2>1, <2>2, <2>3, <2>4
<1>11. carried'[TickerConn] = UNION Range(HandedTo(TickerConn)')
  <2>1. TickerConn \in 1 .. TickerConn
    BY <1>2, ConnsAre
  <2>2. carried[TickerConn] = UNION Range(HandedTo(TickerConn))
    BY DEF PlanInv, Planning
  <2>3. HandedTo(TickerConn)' = IF TickerConn < work.hand \/ TickerConn = work.hand THEN work.desired ELSE plan
    BY <1>7, <1>9, <2>1
  <2>4. HandedTo(TickerConn) = IF TickerConn < work.hand THEN work.desired ELSE plan
    BY <1>8
  <2>5. CASE TickerConn = work.hand
    BY <1>5, <2>1, <2>3, <2>5 DEF all
  <2>6. CASE TickerConn # work.hand
    BY <1>5, <2>1, <2>2, <2>3, <2>4, <2>6
  <2> QED BY <2>5, <2>6
<1>12. work.hand + 1 \in 2 .. TickerConn + 1
  BY <1>2, ConnsAre
<1>13. Planning'
  <2>1. /\ GoodPlan(plan, Wanted(universe)) /\ Cardinality(Wanted(universe)) <= MaxL2
        /\ work.kind = "relist" => universe # NoDecision
        /\ Follows(work.desired, plan, Wanted(work.decision)) /\ work.decision # NoDecision
        /\ Cardinality(Wanted(work.decision)) <= MaxL2
    BY <1>1 DEF PlanInv, Planning
  <2> QED BY <1>1, <1>3, <1>10, <1>11, <1>12, <2>1 DEF Planning
<1> QED BY <1>6, <1>13 DEF PlanInv, Kinds

LEMMA FollowedUpIs ==
  ASSUME NEW key, followUps[key] \in Tries
  PROVE  FollowedUp(key) \in Tries
<1>1. MaxFollowUps \in Nat
  BY UniverseAssumption
<1>2. NoFollowUp \in Tries
  BY <1>1 DEF NoFollowUp, Tries
<1>3. ASSUME NEW unpriced PROVE FollowUp(followUps[key], unpriced) \in Tries
  <2>1. followUps[key].attempts \in 0 .. MaxFollowUps /\ followUps[key].gaveUp \in BOOLEAN
    BY DEF Tries
  <2>2. [followUps[key] EXCEPT !.gaveUp = TRUE] \in Tries
    BY DEF Tries
  <2>3. ~(followUps[key].attempts >= MaxFollowUps) =>
          [attempts |-> followUps[key].attempts + 1, gaveUp |-> FALSE] \in Tries
    BY <1>1, <2>1 DEF Tries
  <2> QED BY <1>2, <2>2, <2>3 DEF FollowUp
<1> QED BY <1>2, <1>3 DEF FollowedUp

LEMMA AdoptKeeps ==
  ASSUME PlanInv, Adopt
  PROVE  PlanInv'
<1>1. /\ loop.phase = "applying" /\ work.hand > TickerConn
      /\ plan' = work.desired /\ universe' = work.decision
      /\ moved' = [m \in Tickers |-> IF m \in UNION Range(work.desired) THEN moved[m] ELSE None]
      /\ ended' = IF work.kind = "full" THEN StillReported(work.read) ELSE ended
      /\ followUps' = [key \in DOMAIN followUps |-> FollowedUp(key)]
      /\ relists' = [g \in GroupIds |->
                       LET kept == IF work.kind = "close" THEN relists[g]
                                   ELSE Forget(g, work.names, work.started)
                       IN IF \E key \in DOMAIN followUps : key[1] = g /\ Asks(key)
                          THEN Request(kept, work.started + MinInterval) ELSE kept]
      /\ told' = [m \in Tickers |-> IF m \in UNION Range(work.desired) THEN told[m]
                                    ELSE [told[m] EXCEPT !.close = None]]
      /\ UNCHANGED <<now, exchange, notes, live, site, known, carried, spent>>
      /\ IF work.kind = "full" THEN failures' = 0 /\ refreshDue' = now + Refresh
                               ELSE UNCHANGED <<failures, refreshDue>>
      /\ IF work.kind = "close" THEN RelistOrPause ELSE work' = NoWork /\ UNCHANGED allowed /\ Pause
  BY DEF Adopt
<1>2. Dates /\ Rest /\ loop \in Loops /\ now \in Nat
  BY NowIs DEF PlanInv, Kinds
<1>3. /\ work \in Steps /\ work.decision \in Decisions /\ work.started \in Nat
      /\ work.desired \in [Conns -> SUBSET Tickers]
  BY <1>2, StepIs DEF Rest
<1>4. refreshDue' \in Int
  BY <1>1, <1>2, UniverseAssumption DEF Dates
<1>5. allowed' \in Int /\ work' \in Steps /\ (loop'.phase = "listing" \/ Pause)
  BY <1>1, <1>2, NoWorkIs, RelistOrPauseIs DEF Dates
<1>6. ended' \in SUBSET Tickers
  BY <1>1, <1>2 DEF StillReported, Dates
<1>7. moved' \in [Tickers -> Int] /\ told' \in [Tickers -> Tellings]
  <2>1. None \in Int
    BY DEF None
  <2>2. \A m \in Tickers : moved[m] \in Int /\ told[m] \in Tellings
    BY <1>2 DEF Dates, Rest
  <2>3. \A m \in Tickers : [told[m] EXCEPT !.close = None] \in Tellings
    BY <2>1, <2>2 DEF Tellings
  <2> QED BY <1>1, <2>1, <2>2, <2>3
<1>8. followUps' \in [GroupIds \X {EventOf(m) : m \in Tickers} -> Tries]
  <2>1. followUps \in [GroupIds \X {EventOf(m) : m \in Tickers} -> Tries]
    BY <1>2 DEF Rest
  <2>2. \A key \in DOMAIN followUps : FollowedUp(key) \in Tries
    BY <2>1, FollowedUpIs
  <2> QED BY <1>1, <2>1, <2>2
<1>9. relists' \in [GroupIds -> Requests]
  <2>1. \A g \in GroupIds : relists[g] \in Requests
    BY <1>2 DEF Dates
  <2>2. NoRelist \in Requests
    BY DEF NoRelist, Requests, None
  <2>3. \A g \in GroupIds : Forget(g, work.names, work.started) \in Requests
    BY <2>1, <2>2 DEF Forget
  <2>4. work.started + MinInterval \in Nat
    BY <1>3, UniverseAssumption
  <2>5. \A r \in Requests : Request(r, work.started + MinInterval) \in Requests
    BY <1>2, <2>4, RequestIs
  <2> DEFINE kept(g) == IF work.kind = "close" THEN relists[g] ELSE Forget(g, work.names, work.started)
             next(g) == IF \E key \in DOMAIN followUps : key[1] = g /\ Asks(key)
                        THEN Request(kept(g), work.started + MinInterval) ELSE kept(g)
  <2>6. \A g \in GroupIds : kept(g) \in Requests
    BY <2>1, <2>3
  <2> HIDE DEF kept
  <2>7. \A g \in GroupIds : next(g) \in Requests
    BY <2>5, <2>6
  <2>8. relists' = [g \in GroupIds |-> next(g)]
    BY <1>1 DEF kept
  <2> HIDE DEF next
  <2> QED BY <2>7, <2>8
<1>10. Dates' /\ Rest'
  BY <1>1, <1>2, <1>3, <1>4, <1>5, <1>6, <1>7, <1>8, <1>9 DEF Dates, Rest
<1>11. loop' \in Loops /\ loop'.phase # "applying"
  <2>1. CASE work.kind = "close"
    <3>1. RelistOrPause
      BY <1>1, <2>1
    <3>2. loop' \in Loops
      BY <1>2, <1>10, <3>1, RelistOrPauseIs DEF Dates
    <3> QED BY <1>5, <1>10, <3>2, PauseIs
  <2>2. CASE work.kind # "close"
    BY <1>1, <1>10, <2>2, PauseIs
  <2> QED BY <2>1, <2>2
<1>12. Planning'
  <2>1. /\ Follows(work.desired, plan, Wanted(work.decision)) /\ work.decision # NoDecision
        /\ Cardinality(Wanted(work.decision)) <= MaxL2
    BY <1>1 DEF PlanInv, Planning
  <2>2. GoodPlan(plan', Wanted(universe'))
    BY <1>1, <2>1 DEF Follows
  <2>3. \A c \in Conns : c < work.hand /\ TickerConn < work.hand
    <3>1. work.hand \in Nat /\ work.hand > TickerConn
      BY <1>1, <1>3, StepIs
    <3>2. \A c \in Conns : c \in Int /\ c < TickerConn
      BY ConnsAre DEF Conns
    <3> QED BY <3>1, <3>2, ConnsAre
  <2>4. /\ \A c \in Conns : carried[c] = work.desired[c]
        /\ carried[TickerConn] = UNION Range(work.desired)
    <3>1. TickerConn < work.hand
      BY <2>3, ConnsAre
    <3> QED BY <1>1, <2>3, <3>1 DEF PlanInv, Planning, HandedTo
  <2>5. \A c : HandedTo(c)' = plan'
    BY <1>11 DEF HandedTo
  <2>6. \A c \in Conns : carried'[c] = HandedTo(c)'[c]
    BY <1>1, <2>4, <2>5
  <2>7. carried'[TickerConn] = UNION Range(HandedTo(TickerConn)')
    BY <1>1, <2>4, <2>5
  <2> QED BY <1>1, <1>11, <2>1, <2>2, <2>6, <2>7 DEF Planning
<1> QED BY <1>10, <1>11, <1>12 DEF PlanInv, Kinds

LEMMA InitPlan == Init => PlanInv
<1> SUFFICES ASSUME Init PROVE PlanInv
  OBVIOUS
<1>1. None \in Int /\ 0 \in Nat
  BY DEF None
<1>2. NoDecision \in Decisions /\ Wanted(NoDecision) = {} /\ << >> \in Catalogs
  <2>1. << >> \in [{} -> Int]
    OBVIOUS
  <2>2. << >> \in Catalogs
    BY <2>1 DEF Catalogs
  <2> QED BY <2>2 DEF NoDecision, Wanted, Decisions
<1>3. NoRelist \in Requests /\ NoFollowUp \in Tries
  BY UniverseAssumption DEF NoRelist, NoFollowUp, Requests, Tries, None
<1>4. Dates
  BY <1>1, <1>2, <1>3, UniverseAssumption DEF Init, Dates
<1>5. exchange \in [Tickers -> Listed]
  <2>1. \A m \in Tickers : Market[m].close \in Int /\ Market[m].mid \in Int
    BY MarketIs
  <2> QED BY <1>1, <2>1 DEF Init, Listed
<1>6. work \in Steps /\ work.kind = "full"
  <2>1. work = [NoWork EXCEPT !.kind = "full", !.names = GroupIds, !.todo = Tickers]
    BY DEF Init
  <2> QED BY <2>1, NoWorkIs DEF Steps
<1>7. site \in Sites
  BY <1>2 DEF Init, Sites
<1>8. told \in [Tickers -> Tellings]
  BY <1>1 DEF Init, Tellings
<1>9. Rest
  <2>1. notes \in Seq(Notes)
    BY DEF Init
  <2>2. carried \in [1 .. TickerConn -> SUBSET Tickers]
    BY DEF Init
  <2>3. followUps \in [GroupIds \X {EventOf(m) : m \in Tickers} -> Tries]
    BY <1>3 DEF Init
  <2> QED BY <1>5, <1>6, <1>7, <1>8, <2>1, <2>2, <2>3 DEF Rest
<1>10. loop \in Loops /\ loop.phase = "listing"
  BY DEF Init, Loops
<1>11. GoodPlan(NoPlan, {})
  <2>1. NoPlan \in [Conns -> SUBSET Tickers] /\ Apart(NoPlan) /\ \A c \in Conns : NoPlan[c] = {}
    BY DEF NoPlan, Apart
  <2>2. UNION Range(NoPlan) = {}
    BY <2>1 DEF Range
  <2>3. \A c \in Conns : Cardinality(NoPlan[c]) <= GroupSize
    <3>1. Cardinality({}) = 0 /\ 0 <= GroupSize
      BY FS_EmptySet, BoundsAre
    <3> QED BY <2>1, <3>1
  <2> QED BY <2>1, <2>2, <2>3, Zenon DEF GoodPlan
<1>12. UNION Range(NoPlan) = {}
  BY <1>11 DEF GoodPlan
<1>13. plan = NoPlan /\ universe = NoDecision /\ carried = [c \in 1 .. TickerConn |-> {}]
  BY DEF Init
<1>14. \A c : HandedTo(c) = NoPlan
  BY <1>10, <1>13 DEF HandedTo
<1>15. /\ \A c \in Conns : carried[c] = HandedTo(c)[c]
       /\ carried[TickerConn] = UNION Range(HandedTo(TickerConn))
  <2>1. TickerConn \in 1 .. TickerConn /\ \A c \in Conns : c \in 1 .. TickerConn
    BY ConnsAre
  <2>2. \A c \in Conns : NoPlan[c] = {}
    BY DEF NoPlan
  <2> QED BY <1>12, <1>13, <1>14, <2>1, <2>2
<1>16. Planning
  <2>1. Cardinality({}) <= MaxL2
    BY FS_EmptySet, BoundsAre
  <2> QED BY <1>2, <1>6, <1>10, <1>11, <1>13, <1>15, <2>1 DEF Planning
<1> QED BY <1>4, <1>9, <1>10, <1>16 DEF PlanInv, Kinds

LEMMA StutterPlan ==
  ASSUME PlanInv, UNCHANGED vars
  PROVE  PlanInv'
<1>1. /\ UNCHANGED <<now, exchange, notes, live, loop, work, refreshDue, failures, known, universe, plan,
                     carried, allowed, site, told, owed, spent>>
      /\ UNCHANGED <<ended, moved, relists, followUps>>
  BY DEF vars, clockVars
<1>2. Dates' /\ Rest' /\ loop' \in Loops
  BY <1>1 DEF PlanInv, Kinds, Dates, Rest
<1> QED BY <1>1, <1>2, SamePlan DEF PlanInv, Kinds

LEMMA NextPlan == PlanInv /\ [Next]_vars => PlanInv'
<1> SUFFICES ASSUME PlanInv, [Next]_vars PROVE PlanInv'
  OBVIOUS
<1>1. CASE \E m \in Tickers : Open(m) \/ Determine(m) \/ Quote(m)
  BY <1>1, ExchangeKeeps
<1>2. CASE \E m \in Tickers, close \in Closes : MoveClose(m, close)
  BY <1>2, MoveKeeps
<1>3. CASE Tick
  BY <1>3, TickKeeps
<1>4. CASE ControlUp \/ ControlLost
  BY <1>4, ControlKeeps
<1>5. CASE Hear
  BY <1>5, HearKeeps
<1>6. CASE PublishCatalog
  BY <1>6, PublishKeeps
<1>7. CASE StartRefresh
  BY <1>7, StartKeeps
<1>8. CASE RemoveClosed
  BY <1>8, RemoveKeeps
<1>9. CASE LookAgain
  BY <1>9, LookKeeps
<1>10. CASE \E S \in SUBSET work.todo : PageRead(S) \/ PageCut(S)
  BY <1>10, PageKeeps
<1>11. CASE FinishRefresh \/ FinishRelist
  BY <1>11, FinishKeeps
<1>12. CASE FailRelist \/ \E delay \in RetryDelay : FailRefresh(delay)
  BY <1>12, FailKeeps
<1>13. CASE HandGroup
  BY <1>13, HandKeeps
<1>14. CASE Adopt
  BY <1>14, AdoptKeeps
<1>15. CASE UNCHANGED vars
  BY <1>15, StutterPlan
<1> QED BY <1>1, <1>2, <1>3, <1>4, <1>5, <1>6, <1>7, <1>8, <1>9, <1>10, <1>11, <1>12, <1>13, <1>14,
           <1>15 DEF Next

LEMMA AlwaysPlan == Spec => []PlanInv
BY InitPlan, NextPlan, PTL DEF Spec

(* The types, the size of a group and of the selection, and the tries of an event, whatever
   the exchange lists and whichever requests fail. *)
THEOREM UniverseTypeCorrect == Spec => []TypeOK
<1>1. PlanInv => TypeOK
  <2> SUFFICES ASSUME PlanInv PROVE TypeOK
    OBVIOUS
  <2>1. now \in 0 .. MaxNow /\ ended \subseteq Tickers
    BY DEF PlanInv, Kinds, Dates
  <2>2. loop.phase \in {"pausing", "listing", "applying"}
    BY DEF PlanInv, Kinds, Loops
  <2>3. /\ plan \in [Conns -> SUBSET Tickers] /\ \A c \in Conns : Cardinality(plan[c]) <= GroupSize
        /\ Cardinality(Wanted(universe)) <= MaxL2
    BY DEF PlanInv, Planning, GoodPlan
  <2>4. carried \in [1 .. TickerConn -> SUBSET Tickers]
    BY DEF PlanInv, Kinds, Rest
  <2>5. \A key \in DOMAIN followUps : followUps[key].attempts <= MaxFollowUps
    <3>1. \A key \in DOMAIN followUps : followUps[key] \in Tries
      BY DEF PlanInv, Kinds, Rest
    <3>2. \A try \in Tries : try.attempts <= MaxFollowUps
      BY UniverseAssumption DEF Tries
    <3> QED BY <3>1, <3>2
  <2> QED BY <2>1, <2>2, <2>3, <2>4, <2>5 DEF TypeOK
<1> QED BY <1>1, AlwaysPlan, PTL

(* No market is on two book connections, not even half way through handing a new plan out
   (_apply_universe), and between steps the connections carry the plan, which is the decision. *)
THEOREM MarketsCarriedOnce == Spec => []CarriedOnce
<1>1. PlanInv => CarriedOnce
  <2> SUFFICES ASSUME PlanInv PROVE CarriedOnce
    OBVIOUS
  <2>1. /\ GoodPlan(plan, Wanted(universe))
        /\ \A c \in Conns : carried[c] = HandedTo(c)[c]
        /\ carried[TickerConn] = UNION Range(HandedTo(TickerConn))
    BY DEF PlanInv, Planning
  <2>2. Apart(plan) /\ Planned = Wanted(universe)
    BY <2>1 DEF GoodPlan, Planned
  <2>3. ASSUME NEW c \in Conns, NEW d \in Conns, c # d PROVE carried[c] \cap carried[d] = {}
    <3>1. CASE loop.phase = "applying"
      <4>1. Follows(work.desired, plan, Wanted(work.decision))
        BY <3>1 DEF PlanInv, Planning
      <4>2. /\ work.desired[c] \cap work.desired[d] = {} /\ plan[c] \cap plan[d] = {}
            /\ work.desired[c] \cap plan[d] = {} /\ work.desired[d] \cap plan[c] = {}
        BY <2>2, <2>3, <4>1 DEF Follows, GoodPlan, Apart
      <4>3. HandedTo(c) \in {work.desired, plan} /\ HandedTo(d) \in {work.desired, plan}
        BY DEF HandedTo
      <4> QED BY <2>1, <4>2, <4>3
    <3>2. CASE loop.phase # "applying"
      BY <2>1, <2>2, <2>3, <3>2 DEF HandedTo, Apart
    <3> QED BY <3>1, <3>2
  <2>4. ASSUME Pausing
        PROVE  /\ \A c \in Conns : carried[c] = plan[c]
               /\ carried[TickerConn] = Wanted(universe) /\ Planned = Wanted(universe)
    <3>1. \A c : HandedTo(c) = plan
      BY <2>4 DEF HandedTo, Pausing
    <3> QED BY <2>1, <2>2, <3>1 DEF Planned
  <2> QED BY <2>3, <2>4 DEF CarriedOnce
<1> QED BY <1>1, AlwaysPlan, PTL

-----------------------------------------------------------------------------
(* What was reported. *)

EndedStays == \A m \in Tickers : exchange[m].status = "ended" => exchange'[m].status = "ended"

LEMMA ReportsStay ==
  ASSUME PlanInv, Reports, UNCHANGED <<told, moved, ended, universe, plan>>, EndedStays, NotesTrue',
         \A m \in DOMAIN work'.read : m \in DOMAIN work.read \/ exchange[m].status = "open",
         loop'.phase = "applying" =>
           \/ loop.phase = "applying" /\ work'.decision = work.decision
           \/ Wanted(work'.decision) \subseteq (DOMAIN work.read \cup Wanted(universe)) \ ended,
         loop'.phase = "applying" /\ work'.kind = "full" => Wanted(work'.decision) \subseteq DOMAIN work'.read
  PROVE  Reports'
<1>1. \A m \in Tickers : told'[m].close = moved'[m] /\ (moved'[m] # None => m \in Planned')
  BY DEF Reports, Planned
<1>2. ASSUME NEW m \in Tickers, told[m].ended
      PROVE  /\ exchange'[m].status = "ended"
             /\ m \in DOMAIN work'.read \cup Wanted(universe) => m \in ended
             /\ loop'.phase = "applying" /\ m \in Wanted(work'.decision) => m \in ended
  <2>1. /\ exchange[m].status = "ended" /\ exchange[m].status # "open"
        /\ m \in DOMAIN work.read \cup Wanted(universe) => m \in ended
        /\ loop.phase = "applying" /\ m \in Wanted(work.decision) => m \in ended
    BY <1>2 DEF Reports
  <2>2. exchange'[m].status = "ended"
    BY <2>1 DEF EndedStays
  <2>3. m \in DOMAIN work'.read \cup Wanted(universe) => m \in ended
    BY <2>1
  <2>4. loop'.phase = "applying" /\ m \in Wanted(work'.decision) => m \in ended
    BY <2>1
  <2> QED BY <2>2, <2>3, <2>4
<1>3. Wanted(universe') = Wanted(universe)
  BY DEF Wanted
<1>4. \A m \in Tickers : told'[m].ended =>
        /\ exchange'[m].status = "ended"
        /\ m \in DOMAIN work'.read \cup Wanted(universe') => m \in ended'
        /\ loop'.phase = "applying" /\ m \in Wanted(work'.decision) => m \in ended'
  BY <1>2, <1>3
<1> QED BY <1>1, <1>4 DEF Reports

LEMMA NotesAre ==
  ASSUME PlanInv
  PROVE  /\ notes \in Seq(Notes) /\ Len(notes) \in Nat /\ DOMAIN notes = 1 .. Len(notes)
         /\ \A i \in DOMAIN notes : notes[i] \in Notes /\ notes[i].market \in Tickers
<1>1. notes \in Seq(Notes)
  BY DEF PlanInv, Kinds, Rest
<1>2. Len(notes) \in Nat /\ DOMAIN notes = 1 .. Len(notes)
  BY <1>1, LenProperties
<1>3. \A i \in DOMAIN notes : notes[i] \in Notes
  BY <1>1, <1>2, ElementOfSeq
<1>4. \A n \in Notes : n.market \in Tickers
  BY DEF Notes
<1> QED BY <1>1, <1>2, <1>3, <1>4

LEMMA StillTrue ==
  ASSUME PlanInv, Reports, EndedStays, UNCHANGED notes \/ notes' = << >> \/ notes' = Tail(notes)
  PROVE  NotesTrue'
<1>1. notes \in Seq(Notes) /\ NotesTrue
  BY DEF PlanInv, Kinds, Rest, Reports
<1>2. \A i \in DOMAIN notes : notes[i].market \in Tickers
  BY NotesAre
<1>3. \A i \in DOMAIN notes : notes[i].kind = "end" => exchange'[notes[i].market].status = "ended"
  BY <1>1, <1>2 DEF NotesTrue, EndedStays
<1>4. CASE UNCHANGED notes
  BY <1>3, <1>4 DEF NotesTrue
<1>5. CASE notes' = << >>
  BY <1>5 DEF NotesTrue
<1>6. CASE notes' = Tail(notes)
  <2>1. CASE notes = << >>
    <3>1. DOMAIN Tail(notes) = {}
      BY <2>1
    <3> QED BY <1>6, <3>1 DEF NotesTrue
  <2>2. CASE notes # << >>
    <3>1. \A i \in DOMAIN Tail(notes) : i + 1 \in DOMAIN notes /\ Tail(notes)[i] = notes[i + 1]
      BY <1>1, <2>2
    <3> QED BY <1>3, <1>6, <3>1 DEF NotesTrue
  <2> QED BY <2>1, <2>2
<1> QED BY <1>4, <1>5, <1>6

LEMMA ExchangeReports ==
  ASSUME PlanInv, Reports, NEW m \in Tickers, NEW kind \in {"open", "end", "move", "quote"}, NEW summary \in Listed,
         Changes(m, kind, summary), exchange[m].status = "ended" => summary.status = "ended",
         UNCHANGED notes \/ \E close \in Int : kind # "quote" /\ Tell(m, kind, close),
         kind = "end" => summary.status = "ended"
  PROVE  Reports'
<1>1. /\ exchange' = [exchange EXCEPT ![m] = summary] /\ exchange \in [Tickers -> Listed]
      /\ UNCHANGED <<now, live, loop, work, refreshDue, failures, known, universe, plan, carried,
                     allowed, site, told, owed>>
      /\ UNCHANGED <<ended, moved, relists, followUps>>
  BY DEF Changes, clockVars, PlanInv, Kinds, Rest
<1>2. EndedStays
  BY <1>1 DEF EndedStays
<1>3. NotesTrue'
  <2>1. CASE UNCHANGED notes
    BY <1>2, <2>1, StillTrue
  <2>2. CASE ~(UNCHANGED notes)
    <3>1. PICK close \in Int : Tell(m, kind, close)
      BY <2>2
    <3> DEFINE note == [market |-> m, kind |-> kind, close |-> close]
    <3>2. notes' = Append(notes, note)
      BY <2>2, <3>1 DEF Tell
    <3>3. note.market = m /\ note.kind = kind
      OBVIOUS
    <3>4. notes \in Seq(Notes) /\ NotesTrue
      BY DEF PlanInv, Kinds, Rest, Reports
    <3> HIDE DEF note
    <3>5. \A i \in DOMAIN notes' : (i \in DOMAIN notes /\ notes'[i] = notes[i]) \/ notes'[i] = note
      <4>1. notes' = Append(notes, note) /\ Len(notes) \in Nat /\ DOMAIN notes = 1 .. Len(notes)
        BY <3>2, <3>4
      <4>2. DOMAIN Append(notes, note) = 1 .. Len(notes) + 1
        BY <3>4
      <4>3. \A i \in 1 .. Len(notes) + 1 : Append(notes, note)[i] = IF i <= Len(notes) THEN notes[i] ELSE note
        BY <3>4
      <4>4. \A i \in 1 .. Len(notes) + 1 : i <= Len(notes) => i \in 1 .. Len(notes)
        <5>1. \A n \in Nat : \A i \in 1 .. n + 1 : i <= n => i \in 1 .. n
          OBVIOUS
        <5> QED BY <4>1, <5>1
      <4> QED BY <4>1, <4>2, <4>3, <4>4
    <3>6. \A i \in DOMAIN notes : notes[i].market \in Tickers
      BY NotesAre
    <3>7. \A i \in DOMAIN notes : notes[i].kind = "end" => exchange'[notes[i].market].status = "ended"
      BY <1>2, <3>4, <3>6 DEF NotesTrue, EndedStays
    <3>8. note.kind = "end" => exchange'[note.market].status = "ended"
      BY <1>1, <3>3
    <3> QED BY <3>5, <3>7, <3>8 DEF NotesTrue
  <2> QED BY <2>1, <2>2
<1>4. loop' = loop /\ work' = work
  BY <1>1
<1> QED BY <1>1, <1>2, <1>3, <1>4, ReportsStay DEF Reports

LEMMA WorldReports ==
  ASSUME PlanInv, Reports, NEW m \in Tickers,
         Open(m) \/ Determine(m) \/ Quote(m) \/ \E close \in Closes : MoveClose(m, close)
  PROVE  Reports'
<1>1. exchange[m] \in Listed /\ None \in Int
  BY DEF PlanInv, Kinds, Rest, None
<1>2. CASE Open(m)
  <2>1. [exchange[m] EXCEPT !.status = "open"] \in Listed
    BY <1>1 DEF Listed
  <2>2. exchange[m].status # "ended"
    BY <1>2 DEF Open
  <2> QED BY <1>1, <1>2, <2>1, <2>2, ExchangeReports DEF Open
<1>3. CASE Determine(m)
  <2>1. [exchange[m] EXCEPT !.status = "ended"] \in Listed
    BY <1>1 DEF Listed
  <2>2. [exchange[m] EXCEPT !.status = "ended"].status = "ended"
    BY <1>1 DEF Listed
  <2> QED BY <1>1, <1>3, <2>1, <2>2, ExchangeReports DEF Determine
<1>4. CASE Quote(m)
  <2>1. [exchange[m] EXCEPT !.mid = Market[m].mid] \in Listed
    BY <1>1, MarketIs DEF Listed
  <2>2. exchange[m].status # "ended" /\ "quote" # "end"
    BY <1>4 DEF Quote
  <2>3. UNCHANGED notes /\ Changes(m, "quote", [exchange[m] EXCEPT !.mid = Market[m].mid])
    BY <1>4 DEF Quote
  <2> QED BY <2>1, <2>2, <2>3, ExchangeReports
<1>5. CASE \E close \in Closes : MoveClose(m, close)
  <2>1. PICK close \in Closes : MoveClose(m, close)
    BY <1>5
  <2>2. [exchange[m] EXCEPT !.close = close] \in Listed /\ close \in Int
    <3>1. close \in Int
      BY UniverseAssumption
    <3> QED BY <1>1, <3>1 DEF Listed
  <2>3. exchange[m].status = "open" /\ exchange[m].status # "ended"
    BY <2>1 DEF MoveClose
  <2> QED BY <2>1, <2>2, <2>3, ExchangeReports DEF MoveClose
<1> QED BY <1>2, <1>3, <1>4, <1>5

LEMMA LoopReports ==
  ASSUME PlanInv, Reports,
         \/ Tick \/ ControlUp \/ ControlLost \/ PublishCatalog \/ StartRefresh \/ LookAgain
         \/ FailRelist \/ (\E delay \in RetryDelay : FailRefresh(delay)) \/ HandGroup
         \/ \E S \in SUBSET work.todo : PageRead(S) \/ PageCut(S)
  PROVE  Reports'
<1>1. /\ UNCHANGED <<told, moved, ended, universe, plan, exchange>>
      /\ notes' = notes \/ notes' = << >>
  BY DEF Tick, ControlUp, ControlLost, PublishCatalog, StartRefresh, LookAgain, FailRelist,
         FailRefresh, HandGroup, PageRead, PageCut, worldVars, clockVars
<1>2. EndedStays /\ NotesTrue'
  <2>1. EndedStays
    BY <1>1 DEF EndedStays
  <2> QED BY <1>1, <2>1, StillTrue
<1>3. /\ \A m \in DOMAIN work'.read : m \in DOMAIN work.read \/ exchange[m].status = "open"
      /\ loop'.phase = "applying" =>
           /\ loop.phase = "applying" /\ work'.decision = work.decision
           /\ work'.kind = work.kind /\ work'.read = work.read
  <2>1. CASE Tick \/ ControlUp \/ ControlLost \/ PublishCatalog
    BY <2>1 DEF Tick, ControlUp, ControlLost, PublishCatalog
  <2>2. CASE StartRefresh
    <3>1. BeginListing("full", GroupIds, Tickers)
      BY <2>2 DEF StartRefresh
    <3>2. work'.read = << >> /\ loop'.phase = "listing"
      BY <3>1, BeginListingIs, NowIs DEF PlanInv, Kinds
    <3> QED BY <3>2
  <2>3. CASE LookAgain
    <3>1. loop'.phase # "applying"
      <4>1. Dates'
        BY <2>3, LookKeeps DEF PlanInv, Kinds
      <4>2. now \in Nat /\ allowed \in Int /\ loop \in Loops
        BY NowIs DEF PlanInv, Kinds, Dates
      <4>3. CASE universe = NoDecision
        BY <2>3, <4>1, <4>3, PauseIs DEF LookAgain
      <4>4. CASE universe # NoDecision
        <5>1. loop'.phase = "listing" \/ Pause
          BY <2>3, <4>2, <4>4, RelistOrPauseIs DEF LookAgain
        <5> QED BY <4>1, <5>1, PauseIs
      <4> QED BY <4>3, <4>4
    <3>2. work'.read = << >>
      <4>1. now \in Nat /\ allowed \in Int /\ loop \in Loops
        BY NowIs DEF PlanInv, Kinds, Dates
      <4> QED BY <2>3, <4>1, NoWorkIs, RelistOrPauseIs DEF LookAgain
    <3> QED BY <3>1, <3>2
  <2>4. CASE FailRelist \/ \E delay \in RetryDelay : FailRefresh(delay)
    <3>1. work' = NoWork /\ Pause
      BY <2>4 DEF FailRelist, FailRefresh
    <3>2. Dates'
      BY <2>4, FailKeeps DEF PlanInv, Kinds
    <3> QED BY <3>1, <3>2, NoWorkIs, PauseIs
  <2>5. CASE HandGroup
    <3>1. work \in Steps
      BY DEF PlanInv, Kinds, Rest
    <3>2. work' = [work EXCEPT !.hand = @ + 1] /\ loop' = loop
      BY <2>5 DEF HandGroup
    <3>3. /\ work'.read = work.read /\ work'.decision = work.decision /\ work'.kind = work.kind
      BY <3>1, <3>2 DEF Steps
    <3> QED BY <3>2, <3>3
  <2>6. CASE \E S \in SUBSET work.todo : PageRead(S) \/ PageCut(S)
    <3>1. loop.phase = "listing" /\ loop' = loop
      BY <2>6 DEF PageRead, PageCut, Listing
    <3>2. Rest
      BY DEF PlanInv, Kinds
    <3>3. \A m \in DOMAIN work'.read : m \in DOMAIN work.read \/ exchange[m].status = "open"
      BY <2>6, <3>2, PageIs
    <3> QED BY <3>1, <3>3
  <2> QED BY <2>1, <2>2, <2>3, <2>4, <2>5, <2>6
<1>4. loop'.phase = "applying" /\ work'.kind = "full" => Wanted(work'.decision) \subseteq DOMAIN work'.read
  BY <1>3 DEF Reports
<1> QED BY <1>1, <1>2, <1>3, <1>4, ReportsStay

LEMMA BeginReports ==
  ASSUME PlanInv, Reports, FinishRefresh \/ FinishRelist \/ RemoveClosed
  PROVE  Reports'
<1>1. /\ UNCHANGED <<told, moved, ended, universe, plan, exchange, notes>>
      /\ loop.phase # "applying"
  BY DEF FinishRefresh, FinishRelist, RemoveClosed, worldVars, clockVars, Listing, Awake, Pausing
<1>2. EndedStays /\ NotesTrue'
  <2>1. EndedStays
    BY <1>1 DEF EndedStays
  <2> QED BY <1>1, <2>1, StillTrue
<1>3. work \in Steps /\ (work.kind = "relist" => universe # NoDecision)
  BY DEF PlanInv, Kinds, Rest, Planning
<1>4. /\ \A m \in DOMAIN work'.read : m \in DOMAIN work.read
      /\ Wanted(work'.decision) \subseteq (DOMAIN work.read \cup Wanted(universe)) \ ended
      /\ work'.kind = "full" => Wanted(work'.decision) \subseteq DOMAIN work'.read
  <2>1. CASE FinishRefresh
    <3>1. Starts(work, DOMAIN work.read)
      BY <2>1, RefreshStarts
    <3>2. work'.read = work.read /\ Wanted(work'.decision) \subseteq DOMAIN work.read \ ended
      BY <1>1, <1>3, <3>1, StartsKeeps
    <3> QED BY <3>2
  <2>2. CASE FinishRelist
    <3>1. Starts(work, DOMAIN work.read \cup Wanted(universe)) /\ work.kind = "relist"
      BY <2>2, RelistStarts DEF FinishRelist
    <3>2. /\ work'.read = work.read /\ work'.kind = work.kind
          /\ Wanted(work'.decision) \subseteq (DOMAIN work.read \cup Wanted(universe)) \ ended
      BY <1>1, <1>3, <3>1, StartsKeeps
    <3> QED BY <3>1, <3>2
  <2>3. CASE RemoveClosed
    <3>1. /\ Starts(Closing, Wanted(universe)) /\ Closing \in Steps
          /\ Closing.kind = "close" /\ Closing.read = << >>
      BY <2>3, RemoveStarts
    <3>2. /\ work'.read = << >> /\ work'.kind = "close"
          /\ Wanted(work'.decision) \subseteq Wanted(universe) \ ended
      BY <1>1, <3>1, StartsKeeps
    <3>3. DOMAIN work'.read = {}
      BY <3>2
    <3> QED BY <3>2, <3>3
  <2> QED BY <2>1, <2>2, <2>3
<1> QED BY <1>1, <1>2, <1>4, ReportsStay

LEMMA FieldIs ==
  ASSUME NEW p, NEW c
  PROVE  [ended |-> p, close |-> c].ended = p
OBVIOUS

LEMMA HeardIs ==
  ASSUME PlanInv, Hear, NEW m, m = Head(notes).market
  PROVE  /\ notes # << >> /\ Head(notes) = notes[1] /\ 1 \in DOMAIN notes /\ m \in Tickers
         /\ Head(notes).close \in Int
         /\ \A k \in Tickers :
              /\ told'[k].ended <=> told[k].ended \/ (k = m /\ Head(notes).kind = "end" /\ m \in Planned)
              /\ told'[k].close = IF k = m /\ Head(notes).kind = "move" /\ m \in Planned
                                  THEN Head(notes).close ELSE told[k].close
              /\ moved'[k] = IF k = m /\ Head(notes).kind = "move" /\ m \in Planned
                             THEN Head(notes).close ELSE moved[k]
<1> DEFINE note == Head(notes)
<1>1. notes # << >> /\ Noted(note)
  BY DEF Hear
<1>2. note = notes[1] /\ 1 \in DOMAIN notes /\ m \in Tickers
  BY <1>1, NotesAre
<1>3. note.close \in Int
  <2>1. notes[1] \in Notes
    BY <1>2, NotesAre
  <2> QED BY <1>2, <2>1 DEF Notes
<1>4. /\ moved' = IF note.kind = "move" /\ m \in Planned THEN [moved EXCEPT ![m] = note.close] ELSE moved
      /\ told' = [told EXCEPT ![m] = [ended |-> @.ended \/ (note.kind = "end" /\ m \in Planned),
                                      close |-> IF note.kind = "move" /\ m \in Planned
                                                THEN note.close ELSE @.close]]
  BY <1>1 DEF Noted
<1> HIDE DEF note
<1>5. told \in [Tickers -> Tellings] /\ moved \in [Tickers -> Int]
  BY DEF PlanInv, Kinds, Dates, Rest
<1>6. \A k \in Tickers :
        /\ told'[k].ended <=> told[k].ended \/ (k = m /\ note.kind = "end" /\ m \in Planned)
        /\ told'[k].close = IF k = m /\ note.kind = "move" /\ m \in Planned THEN note.close ELSE told[k].close
        /\ moved'[k] = IF k = m /\ note.kind = "move" /\ m \in Planned THEN note.close ELSE moved[k]
  <2> TAKE k \in Tickers
  <2>1. told'[k] = IF k = m THEN [ended |-> told[m].ended \/ (note.kind = "end" /\ m \in Planned),
                                  close |-> IF note.kind = "move" /\ m \in Planned
                                            THEN note.close ELSE told[m].close]
                            ELSE told[k]
    BY <1>2, <1>4, <1>5
  <2>2. moved'[k] = IF k = m /\ note.kind = "move" /\ m \in Planned THEN note.close ELSE moved[k]
    BY <1>2, <1>4, <1>5
  <2>3. CASE k = m
    <3>1. told'[k].close = IF note.kind = "move" /\ m \in Planned THEN note.close ELSE told[m].close
      BY <2>1, <2>3
    <3>2. told'[k].ended <=> told[m].ended \/ (note.kind = "end" /\ m \in Planned)
      <4> DEFINE p == told[m].ended \/ (note.kind = "end" /\ m \in Planned)
                 c == IF note.kind = "move" /\ m \in Planned THEN note.close ELSE told[m].close
      <4>1. told'[k] = [ended |-> p, close |-> c] /\ p \in BOOLEAN
        BY <2>1, <2>3
      <4> HIDE DEF p, c
      <4>2. told'[k].ended = p
        BY <4>1, FieldIs
      <4>3. told'[k].ended <=> p
        BY <4>1, <4>2
      <4> QED BY <4>3 DEF p
    <3> QED BY <2>2, <2>3, <3>1, <3>2
  <2>4. CASE k # m
    BY <2>1, <2>2, <2>4
  <2> QED BY <2>3, <2>4
<1> QED BY <1>1, <1>2, <1>3, <1>6 DEF note

LEMMA HearReports ==
  ASSUME PlanInv, Reports, Hear
  PROVE  Reports'
<1> DEFINE note == Head(notes)
           m == note.market
<1>1. /\ notes # << >> /\ notes' = Tail(notes) /\ Noted(note)
      /\ UNCHANGED <<now, exchange, live, work, refreshDue, failures, known, universe, plan,
                     carried, followUps, allowed, spent>>
  BY DEF Hear
<1>2. note = notes[1] /\ 1 \in DOMAIN notes /\ m \in Tickers
  BY <1>1, NotesAre
<1>3. /\ ended' = IF note.kind = "end" /\ m \in Planned THEN ended \cup {m} ELSE ended
      /\ loop' = loop \/ loop' = [loop EXCEPT !.wake = TRUE]
  BY <1>1 DEF Noted
<1>4. EndedStays /\ NotesTrue'
  <2>1. EndedStays
    BY <1>1 DEF EndedStays
  <2> QED BY <1>1, <2>1, StillTrue
<1>5. note.kind = "end" => exchange[m].status = "ended"
  BY <1>2 DEF Reports, NotesTrue
<1> HIDE DEF note, m
<1>6. loop'.phase = loop.phase
  BY <1>3 DEF PlanInv, Kinds, Loops
<1>7. \A k \in Tickers :
        /\ told'[k].ended <=> told[k].ended \/ (k = m /\ note.kind = "end" /\ m \in Planned)
        /\ told'[k].close = IF k = m /\ note.kind = "move" /\ m \in Planned THEN note.close ELSE told[k].close
        /\ moved'[k] = IF k = m /\ note.kind = "move" /\ m \in Planned THEN note.close ELSE moved[k]
  BY HeardIs DEF note, m
<1>8. Planned' = Planned /\ Wanted(universe') = Wanted(universe)
  BY <1>1 DEF Planned, Wanted
<1>9. \A k \in Tickers : told'[k].close = moved'[k] /\ (moved'[k] # None => k \in Planned')
  BY <1>7, <1>8 DEF Reports
<1>10. ASSUME NEW k \in Tickers, told'[k].ended
       PROVE  /\ exchange'[k].status = "ended"
              /\ k \in DOMAIN work'.read \cup Wanted(universe') => k \in ended'
              /\ loop'.phase = "applying" /\ k \in Wanted(work'.decision) => k \in ended'
  <2>1. CASE told[k].ended
    <3>1. /\ exchange[k].status = "ended"
          /\ k \in DOMAIN work.read \cup Wanted(universe) => k \in ended
          /\ loop.phase = "applying" /\ k \in Wanted(work.decision) => k \in ended
      BY <2>1 DEF Reports
    <3>2. ended \subseteq ended'
      BY <1>3
    <3> QED BY <1>1, <1>6, <1>8, <3>1, <3>2
  <2>2. CASE ~told[k].ended
    <3>1. k = m /\ note.kind = "end" /\ m \in Planned
      BY <1>7, <1>10, <2>2
    <3>2. m \in ended' /\ exchange[m].status = "ended"
      BY <1>3, <1>5, <3>1
    <3> QED BY <1>1, <3>1, <3>2
  <2> QED BY <2>1, <2>2
<1>11. loop'.phase = "applying" /\ work'.kind = "full" => Wanted(work'.decision) \subseteq DOMAIN work'.read
  BY <1>1, <1>6 DEF Reports
<1> QED BY <1>4, <1>9, <1>10, <1>11 DEF Reports

LEMMA AdoptReports ==
  ASSUME PlanInv, Reports, Adopt
  PROVE  Reports'
<1> DEFINE all == UNION Range(work.desired)
<1>1. /\ loop.phase = "applying" /\ plan' = work.desired /\ universe' = work.decision
      /\ moved' = [m \in Tickers |-> IF m \in all THEN moved[m] ELSE None]
      /\ ended' = IF work.kind = "full" THEN ended \cap DOMAIN work.read ELSE ended
      /\ told' = [m \in Tickers |-> IF m \in all THEN told[m] ELSE [told[m] EXCEPT !.close = None]]
      /\ UNCHANGED <<now, exchange, notes>>
      /\ IF work.kind = "close" THEN RelistOrPause ELSE work' = NoWork /\ UNCHANGED allowed /\ Pause
  BY DEF Adopt, StillReported
<1>2. EndedStays /\ NotesTrue'
  <2>1. EndedStays
    BY <1>1 DEF EndedStays
  <2> QED BY <1>1, <2>1, StillTrue
<1>3. now \in Nat /\ allowed \in Int /\ loop \in Loops /\ told \in [Tickers -> Tellings]
  BY NowIs DEF PlanInv, Kinds, Dates, Rest
<1>4. work'.read = << >> /\ (loop'.phase = "listing" \/ Pause)
  BY <1>1, <1>3, NoWorkIs, RelistOrPauseIs
<1>5. loop'.phase # "applying"
  <2>1. Dates'
    BY AdoptKeeps DEF PlanInv, Kinds
  <2> QED BY <1>4, <2>1, PauseIs
<1>6. Planned' = all
  BY <1>1 DEF Planned
<1> HIDE DEF all
<1>7. ASSUME NEW m \in Tickers
      PROVE  /\ told'[m].ended = told[m].ended
             /\ told'[m].close = IF m \in all THEN told[m].close ELSE None
             /\ moved'[m] = IF m \in all THEN moved[m] ELSE None
  <2>1. told[m] \in Tellings
    BY <1>3
  <2>2. [told[m] EXCEPT !.close = None].ended = told[m].ended /\ [told[m] EXCEPT !.close = None].close = None
    BY <2>1 DEF Tellings
  <2> QED BY <1>1, <2>2
<1>8. \A m \in Tickers : told'[m].close = moved'[m] /\ (moved'[m] # None => m \in Planned')
  BY <1>6, <1>7 DEF Reports
<1>9. ASSUME NEW m \in Tickers, told'[m].ended
      PROVE  /\ exchange'[m].status = "ended"
             /\ m \in DOMAIN work'.read \cup Wanted(universe') => m \in ended'
  <2>1. told[m].ended
    BY <1>7, <1>9
  <2>2. exchange[m].status = "ended" /\ (m \in Wanted(work.decision) => m \in ended)
    BY <1>1, <2>1 DEF Reports
  <2>3. work.kind = "full" => Wanted(work.decision) \subseteq DOMAIN work.read
    BY <1>1 DEF Reports
  <2>4. DOMAIN work'.read = {} /\ Wanted(universe') = Wanted(work.decision)
    BY <1>1, <1>4
  <2>5. m \in Wanted(work.decision) => m \in ended'
    BY <1>1, <2>2, <2>3
  <2> QED BY <1>1, <2>2, <2>4, <2>5
<1> QED BY <1>2, <1>5, <1>8, <1>9 DEF Reports

LEMMA InitReports == Init => Reports
<1> SUFFICES ASSUME Init PROVE Reports
  OBVIOUS
<1>1. \A m \in Tickers : told[m].close = moved[m] /\ moved[m] = None /\ told[m].ended = FALSE
  BY DEF Init
<1>2. NotesTrue
  BY DEF Init, NotesTrue
<1>3. loop.phase # "applying"
  BY DEF Init
<1> QED BY <1>1, <1>2, <1>3 DEF Reports

LEMMA StutterReports ==
  ASSUME PlanInv, Reports, UNCHANGED vars
  PROVE  Reports'
<1>1. UNCHANGED <<told, moved, ended, universe, plan, exchange, notes, work, loop>>
  BY DEF vars, clockVars
<1>2. EndedStays /\ NotesTrue'
  BY <1>1, StillTrue DEF EndedStays
<1> QED BY <1>1, <1>2, ReportsStay DEF Reports

LEMMA NextReports == PlanInv /\ Reports /\ [Next]_vars => Reports'
<1> SUFFICES ASSUME PlanInv, Reports, [Next]_vars PROVE Reports'
  OBVIOUS
<1>1. CASE \/ \E m \in Tickers : Open(m) \/ Determine(m) \/ Quote(m)
           \/ \E m \in Tickers, close \in Closes : MoveClose(m, close)
  BY <1>1, WorldReports
<1>2. CASE \/ Tick \/ ControlUp \/ ControlLost \/ PublishCatalog \/ StartRefresh \/ LookAgain
           \/ FailRelist \/ (\E delay \in RetryDelay : FailRefresh(delay)) \/ HandGroup
           \/ \E S \in SUBSET work.todo : PageRead(S) \/ PageCut(S)
  BY <1>2, LoopReports
<1>3. CASE FinishRefresh \/ FinishRelist \/ RemoveClosed
  BY <1>3, BeginReports
<1>4. CASE Hear
  BY <1>4, HearReports
<1>5. CASE Adopt
  BY <1>5, AdoptReports
<1>6. CASE UNCHANGED vars
  BY <1>6, StutterReports
<1> QED BY <1>1, <1>2, <1>3, <1>4, <1>5, <1>6 DEF Next

-----------------------------------------------------------------------------
(* What the API shows. *)

LEMMA SiteStays ==
  ASSUME SiteTrue, UNCHANGED <<site, told>>
  PROVE  SiteTrue'
BY DEF SiteTrue, IsOpen, ShownClose

LEMMA HearSite ==
  ASSUME PlanInv, Reports, SiteTrue, Hear
  PROVE  SiteTrue'
<1> DEFINE note == Head(notes)
           m == note.market
           entered == m \in DOMAIN site.entries
           now_ended == entered /\ note.kind = "end"
           now_moved == entered /\ note.kind = "move"
<1>1. site' = [site EXCEPT !.ended = IF now_ended THEN @ \cup {m} ELSE @,
                           !.moved = IF now_moved THEN Put(@, m, note.close) ELSE @]
  BY DEF Hear, Shown, Put
<1>2. /\ m \in Tickers /\ note.close \in Int
      /\ \A k \in Tickers :
           /\ told'[k].ended <=> told[k].ended \/ (k = m /\ note.kind = "end" /\ m \in Planned)
           /\ told'[k].close = IF k = m /\ note.kind = "move" /\ m \in Planned THEN note.close ELSE told[k].close
  BY HeardIs
<1>3. \A k \in Tickers : told[k].close = moved[k] /\ (moved[k] # None => k \in Planned)
  BY DEF Reports
<1>4. site \in Sites
  BY DEF PlanInv, Kinds, Rest
<1>5. site.entries \in Catalogs /\ site.moved \in Catalogs
  BY <1>4 DEF Sites
<1>6. DOMAIN site.entries \subseteq Tickers
  BY <1>5 DEF Catalogs
<1> HIDE DEF note, m
<1>7. /\ site'.entries = site.entries
      /\ site'.ended = IF now_ended THEN site.ended \cup {m} ELSE site.ended
      /\ site'.moved = IF now_moved THEN Put(site.moved, m, note.close) ELSE site.moved
  BY <1>1, <1>4 DEF Sites
<1>8. /\ DOMAIN Put(site.moved, m, note.close) = {m} \cup DOMAIN site.moved
      /\ Put(site.moved, m, note.close)[m] = note.close
      /\ \A k \in DOMAIN site.moved : k # m => Put(site.moved, m, note.close)[k] = site.moved[k]
  <2>1. m \in Tickers /\ note.close \in Int
    BY <1>2
  <2> DEFINE f == site.moved
             close == note.close
  <2>2. f \in Catalogs /\ close \in Int
    BY <1>5, <2>1
  <2> HIDE DEF f, close
  <2>3. /\ DOMAIN Put(f, m, close) = {m} \cup DOMAIN f /\ Put(f, m, close)[m] = close
        /\ \A k \in DOMAIN f : k # m => Put(f, m, close)[k] = f[k]
    BY ZenonT(60), <2>1, <2>2, PutIs
  <2> QED BY <2>3 DEF f, close
<1>9. ASSUME NEW k \in DOMAIN site.entries
      PROVE  /\ IsOpen(k)' => ~told'[k].ended
             /\ told'[k].close # None => ShownClose(k)' = told'[k].close
  <2>1. /\ k \in Tickers
        /\ IsOpen(k) => ~told[k].ended
        /\ told[k].close # None => ShownClose(k) = told[k].close
    BY <1>6, <1>9 DEF SiteTrue
  <2>2. IsOpen(k)' => IsOpen(k) /\ ~(now_ended /\ k = m)
    BY <1>7 DEF IsOpen
  <2>3. IsOpen(k)' => ~told'[k].ended
    BY <1>2, <1>9, <2>1, <2>2
  <2>4. CASE k = m /\ note.kind = "move"
    <3>1. k \in DOMAIN site'.moved /\ site'.moved[k] = note.close
      BY <1>7, <1>8, <1>9, <2>4
    <3>2. ShownClose(k)' = note.close
      BY <3>1 DEF ShownClose
    <3>3. CASE m \in Planned
      BY <1>2, <2>1, <2>3, <2>4, <3>2, <3>3
    <3>4. CASE m \notin Planned
      BY <1>2, <1>3, <2>1, <2>3, <2>4, <3>4
    <3> QED BY <2>3, <3>3, <3>4
  <2>5. CASE ~(k = m /\ note.kind = "move")
    <3>1. told'[k].close = told[k].close
      BY <1>2, <2>1, <2>5
    <3>2. CASE now_moved
      <4>1. k # m
        BY <2>5, <3>2
      <4>2. k \in DOMAIN site'.moved <=> k \in DOMAIN site.moved
        BY <1>7, <1>8, <3>2, <4>1
      <4>3. k \in DOMAIN site.moved => site'.moved[k] = site.moved[k]
        BY <1>7, <1>8, <3>2, <4>1
      <4> QED BY <1>7, <4>2, <4>3, <2>1, <2>3, <3>1 DEF ShownClose
    <3>3. CASE ~now_moved
      BY <1>7, <2>1, <2>3, <3>1, <3>3 DEF ShownClose
    <3> QED BY <3>2, <3>3
  <2> QED BY <2>4, <2>5
<1>10. DOMAIN site'.entries = DOMAIN site.entries
  BY <1>7
<1> QED BY <1>9, <1>10 DEF SiteTrue

LEMMA PublishSite ==
  ASSUME PlanInv, Reports, PublishCatalog
  PROVE  SiteTrue'
<1>1. /\ site' = [entries |-> Catalog, ended |-> {}, moved |-> << >>] /\ UNCHANGED told
  BY DEF PublishCatalog, ApplyCatalog
<1>2. /\ DOMAIN Catalog = Wanted(universe) \ ended /\ Wanted(universe) \in SUBSET Tickers
      /\ \A m \in Wanted(universe) \ ended :
           Catalog[m] = IF moved[m] = None THEN universe.markets[m].close ELSE moved[m]
  BY CatalogIs, DecisionIs DEF PlanInv, Kinds, Dates, Wanted
<1>3. site'.entries = Catalog /\ site'.moved = << >> /\ DOMAIN << >> = {}
  BY <1>1
<1>4. ASSUME NEW m \in DOMAIN Catalog
      PROVE  ~told[m].ended /\ (told[m].close # None => Catalog[m] = told[m].close)
  <2>1. m \in Wanted(universe) /\ m \notin ended /\ m \in Tickers
    BY <1>2, <1>4
  <2> QED BY <1>2, <2>1 DEF Reports
<1>5. \A m : ShownClose(m)' = Catalog[m]
  BY <1>3 DEF ShownClose
<1> QED BY <1>1, <1>3, <1>4, <1>5 DEF SiteTrue

LEMMA AdoptSite ==
  ASSUME PlanInv, SiteTrue, Adopt
  PROVE  SiteTrue'
<1>1. /\ told' = [m \in Tickers |-> IF m \in UNION Range(work.desired) THEN told[m]
                                    ELSE [told[m] EXCEPT !.close = None]]
      /\ UNCHANGED site
  BY DEF Adopt
<1>2. told \in [Tickers -> Tellings] /\ site \in Sites
  BY DEF PlanInv, Kinds, Rest
<1>3. DOMAIN site.entries \subseteq Tickers
  BY <1>2 DEF Sites, Catalogs
<1>4. \A r \in Tellings : [r EXCEPT !.close = None].ended = r.ended /\ [r EXCEPT !.close = None].close = None
  BY DEF Tellings
<1>5. \A m \in Tickers : told'[m].ended = told[m].ended /\ told'[m].close \in {told[m].close, None}
  BY <1>1, <1>2, <1>4
<1> QED BY <1>1, <1>3, <1>5 DEF SiteTrue, IsOpen, ShownClose

LEMMA NextSite == PlanInv /\ Reports /\ SiteTrue /\ [Next]_vars => SiteTrue'
<1> SUFFICES ASSUME PlanInv, Reports, SiteTrue, [Next]_vars PROVE SiteTrue'
  OBVIOUS
<1>1. CASE Hear
  BY <1>1, HearSite
<1>2. CASE PublishCatalog
  BY <1>2, PublishSite
<1>3. CASE Adopt
  BY <1>3, AdoptSite
<1>4. CASE \/ \E m \in Tickers : Open(m) \/ Determine(m) \/ Quote(m)
           \/ \E m \in Tickers, close \in Closes : MoveClose(m, close)
  <2>1. UNCHANGED <<site, told>>
    BY <1>4 DEF Open, Determine, Quote, MoveClose, Changes
  <2> QED BY <2>1, SiteStays
<1>5. CASE \/ Tick \/ ControlUp \/ ControlLost \/ StartRefresh \/ RemoveClosed \/ LookAgain
           \/ FinishRefresh \/ FinishRelist \/ FailRelist \/ HandGroup
           \/ (\E delay \in RetryDelay : FailRefresh(delay)) \/ UNCHANGED vars
           \/ \E S \in SUBSET work.todo : PageRead(S) \/ PageCut(S)
  <2>1. UNCHANGED <<site, told>>
    BY <1>5 DEF Tick, ControlUp, ControlLost, StartRefresh, RemoveClosed, LookAgain, FinishRefresh,
                FinishRelist, FailRelist, HandGroup, FailRefresh, PageRead, PageCut, worldVars, vars
  <2> QED BY <2>1, SiteStays
<1> QED BY <1>1, <1>2, <1>3, <1>4, <1>5 DEF Next

(* Whatever listing, catalog or event is under way, the market list (directory.py) never shows
   open a market reported ended while planned, nor another close time than the last reported. *)
THEOREM SiteAlwaysTrue == Spec => []SiteTrue
<1>1. Init => SiteTrue
  BY DEF Init, SiteTrue
<1> QED BY <1>1, NextSite, NextReports, InitReports, AlwaysPlan, PTL DEF Spec

-----------------------------------------------------------------------------
(* The openings that are owed a listing. *)

LEMMA RequestCovers ==
  ASSUME now \in Nat, NEW pending \in Requests, NEW due \in Nat, NEW t
  PROVE  /\ t <= now /\ Covers(pending, t) => Covers(Request(pending, due), t)
         /\ t = now /\ due <= now + Debounce => Covers(Request(pending, due), t)
<1> DEFINE r == Request(pending, due)
<1>1. /\ r.due \in Nat /\ r.due <= due /\ r.requested = now
      /\ pending.due # None => r.due <= pending.due
  BY RequestIs
<1>2. pending.due \in Nat \cup {None} /\ None \notin Nat /\ Debounce \in Nat
  BY UniverseAssumption DEF Requests, None
<1> HIDE DEF r
<1>3. t <= now /\ Covers(pending, t) => Covers(r, t)
  BY <1>1, <1>2 DEF Covers
<1>4. t = now /\ due <= now + Debounce => Covers(r, t)
  BY <1>1, <1>2 DEF Covers
<1> QED BY <1>3, <1>4 DEF r

LEMMA OpeningsStay ==
  ASSUME PlanInv, Openings, UNCHANGED <<relists, owed>>, now' = now \/ now' = now + 1
  PROVE  Openings'
<1>1. now \in Nat
  BY NowIs DEF PlanInv, Kinds
<1>2. \A t \in Nat : t <= now => t <= now'
  BY <1>1
<1>3. ASSUME NEW g \in GroupIds, NEW t \in owed'[g] PROVE t <= now' /\ Covers(relists'[g], t)
  <2>1. t <= now /\ Covers(relists[g], t)
    BY <1>3 DEF Openings
  <2>2. t \in Nat
    BY <2>1 DEF Covers
  <2> QED BY <1>2, <2>1, <2>2
<1> QED BY <1>3 DEF Openings

LEMMA HearOpenings ==
  ASSUME PlanInv, Openings, Hear
  PROVE  Openings'
<1> DEFINE note == Head(notes)
           groups == {g \in SeriesGroups : Market[note.market].series \in Range(Groups[g].series)}
           asks(g) == note.kind = "open" /\ groups # {} /\ g \in groups
<1>1. /\ relists' = [g \in GroupIds |-> IF asks(g) THEN Request(relists[g], now + Debounce) ELSE relists[g]]
      /\ owed' = [g \in GroupIds |-> IF asks(g) THEN owed[g] \cup {now} ELSE owed[g]]
      /\ now' = now
  BY DEF Hear, Noted
<1> HIDE DEF asks
<1>2. now \in Nat /\ now + Debounce \in Nat /\ now <= now /\ now + Debounce <= now + Debounce
  <2>1. now \in Nat
    BY NowIs DEF PlanInv, Kinds
  <2> QED BY <2>1, UniverseAssumption
<1>3. \A g \in GroupIds : relists[g] \in Requests
  BY DEF PlanInv, Kinds, Dates
<1>4. ASSUME NEW g \in GroupIds, NEW t \in owed'[g] PROVE t <= now' /\ Covers(relists'[g], t)
  <2>1. CASE asks(g)
    <3>1. t \in owed[g] \cup {now} /\ relists'[g] = Request(relists[g], now + Debounce)
      BY <1>1, <1>4, <2>1
    <3>2. /\ t <= now /\ Covers(relists[g], t) => Covers(Request(relists[g], now + Debounce), t)
          /\ t = now => Covers(Request(relists[g], now + Debounce), t)
      BY <1>2, <1>3, RequestCovers
    <3>3. t \in owed[g] => t <= now /\ Covers(relists[g], t)
      BY DEF Openings
    <3> QED BY <1>1, <1>2, <3>1, <3>2, <3>3
  <2>2. CASE ~asks(g)
    BY <1>1, <1>4, <2>2 DEF Openings
  <2> QED BY <2>1, <2>2
<1> QED BY <1>4 DEF Openings

LEMMA RemoveOpenings ==
  ASSUME PlanInv, Openings, RemoveClosed
  PROVE  Openings'
<1> DEFINE asks(g) == g \in SeriesGroups /\ Range(universe.admitted[g]) \cap ClosedNow # {}
<1>1. /\ relists' = [g \in GroupIds |-> IF asks(g) THEN Request(relists[g], now) ELSE relists[g]]
      /\ UNCHANGED <<owed, now>>
  BY DEF RemoveClosed, worldVars
<1> HIDE DEF asks
<1>2. now \in Nat
  BY NowIs DEF PlanInv, Kinds
<1>3. \A g \in GroupIds : relists[g] \in Requests
  BY DEF PlanInv, Kinds, Dates
<1>4. ASSUME NEW g \in GroupIds, NEW t \in owed'[g] PROVE t <= now' /\ Covers(relists'[g], t)
  <2>1. t <= now /\ Covers(relists[g], t)
    BY <1>1, <1>4 DEF Openings
  <2>2. t <= now /\ Covers(relists[g], t) => Covers(Request(relists[g], now), t)
    BY <1>2, <1>3, RequestCovers
  <2> QED BY <1>1, <2>1, <2>2
<1> QED BY <1>4 DEF Openings

(* A request made before the listing started is forgotten with the openings it covers. *)
LEMMA AdoptOpenings ==
  ASSUME PlanInv, Openings, Adopt
  PROVE  Openings'
<1> DEFINE kept(g) == IF work.kind = "close" THEN relists[g] ELSE Forget(g, work.names, work.started)
           asks(g) == \E key \in DOMAIN followUps : key[1] = g /\ Asks(key)
           due == work.started + MinInterval
<1>1. /\ relists' = [g \in GroupIds |-> IF asks(g) THEN Request(kept(g), due) ELSE kept(g)]
      /\ owed' = [g \in GroupIds |-> IF g \in work.names THEN {t \in owed[g] : t > work.started} ELSE owed[g]]
      /\ UNCHANGED now
  BY DEF Adopt
<1>2. now \in Nat /\ due \in Nat /\ work.started \in Nat
  <2>1. now \in Nat /\ work.started \in Nat
    BY NowIs, StepIs DEF PlanInv, Kinds, Rest
  <2> QED BY SMTT(60), <2>1, UniverseAssumption
<1>3. \A g \in GroupIds : relists[g] \in Requests
  BY DEF PlanInv, Kinds, Dates
<1>4. NoRelist \in Requests
  BY DEF NoRelist, Requests, None
<1> HIDE DEF asks, due
<1>5. ASSUME NEW g \in GroupIds, NEW t \in owed'[g] PROVE t <= now' /\ Covers(relists'[g], t)
  <2>1. t \in owed[g] /\ (g \in work.names => t > work.started)
    BY <1>1, <1>5
  <2>2. t <= now /\ Covers(relists[g], t)
    BY <2>1 DEF Openings
  <2>3. kept(g) = relists[g]
    <3>1. CASE g \in work.names
      <4>1. t \in Nat /\ t <= relists[g].requested /\ t > work.started
        BY <2>1, <2>2, <3>1 DEF Covers
      <4>2. relists[g].requested \in Int
        BY <1>3 DEF Requests
      <4>3. ~(relists[g].requested <= work.started)
        BY <1>2, <4>1, <4>2
      <4> QED BY <4>3 DEF Forget
    <3>2. CASE g \notin work.names
      BY <3>2 DEF Forget
    <3> QED BY <3>1, <3>2
  <2>4. relists'[g] = IF asks(g) THEN Request(relists[g], due) ELSE relists[g]
    BY <1>1, <2>3
  <2>5. t <= now /\ Covers(relists[g], t) => Covers(Request(relists[g], due), t)
    BY <1>2, <1>3, RequestCovers
  <2> QED BY <1>1, <2>2, <2>4, <2>5
<1> QED BY <1>5 DEF Openings

LEMMA NextOpenings == PlanInv /\ Openings /\ [Next]_vars => Openings'
<1> SUFFICES ASSUME PlanInv, Openings, [Next]_vars PROVE Openings'
  OBVIOUS
<1>1. CASE Hear
  BY <1>1, HearOpenings
<1>2. CASE RemoveClosed
  BY <1>2, RemoveOpenings
<1>3. CASE Adopt
  BY <1>3, AdoptOpenings
<1>4. CASE \/ \E m \in Tickers : Open(m) \/ Determine(m) \/ Quote(m)
           \/ \E m \in Tickers, close \in Closes : MoveClose(m, close)
  <2>1. UNCHANGED <<relists, owed, now>>
    BY <1>4 DEF Open, Determine, Quote, MoveClose, Changes, clockVars
  <2> QED BY <2>1, OpeningsStay
<1>5. CASE Tick
  <2>1. UNCHANGED <<relists, owed>> /\ now' = now + 1
    BY <1>5 DEF Tick, clockVars
  <2> QED BY <2>1, OpeningsStay
<1>6. CASE \/ ControlUp \/ ControlLost \/ PublishCatalog \/ StartRefresh \/ LookAgain
           \/ FinishRefresh \/ FinishRelist \/ FailRelist \/ HandGroup
           \/ (\E delay \in RetryDelay : FailRefresh(delay)) \/ UNCHANGED vars
           \/ \E S \in SUBSET work.todo : PageRead(S) \/ PageCut(S)
  <2>1. UNCHANGED <<relists, owed, now>>
    BY <1>6 DEF ControlUp, ControlLost, PublishCatalog, StartRefresh, LookAgain, FinishRefresh,
                FinishRelist, FailRelist, HandGroup, FailRefresh, PageRead, PageCut, worldVars, clockVars, vars
  <2> QED BY <2>1, OpeningsStay
<1> QED BY <1>1, <1>2, <1>3, <1>4, <1>5, <1>6 DEF Next

LEMMA InitOpenings == Init => Openings
BY DEF Init, Openings

LEMMA AlwaysKnown == Spec => [](PlanInv /\ Reports /\ Openings)
BY InitPlan, InitReports, InitOpenings, NextPlan, NextReports, NextOpenings, PTL DEF Spec

-----------------------------------------------------------------------------
(* What a pause waits for. *)

LEMMA LatestIs ==
  ASSUME NEW a \in Int, NEW b \in Int, NEW c \in Int
  PROVE  /\ Max({a, b, c}) \in Int
         /\ a <= Max({a, b, c}) /\ b <= Max({a, b, c}) /\ c <= Max({a, b, c})
         /\ \A x \in Int : a <= x /\ b <= x /\ c <= x => Max({a, b, c}) <= x
<1>1. PICK x \in {a, b, c} : \A y \in {a, b, c} : x >= y
  OBVIOUS
<1>2. Max({a, b, c}) \in {a, b, c} /\ \A y \in {a, b, c} : Max({a, b, c}) >= y
  BY <1>1 DEF Max
<1> QED BY <1>2

CloseTold(m) == IF told[m].close = None THEN universe.markets[m].close ELSE told[m].close
OnTime ==
  /\ loop.until <= Max({now, refreshDue})
  /\ \A m \in Wanted(universe) :
       /\ told[m].ended => loop.until <= now
       /\ CloseTold(m) # None => loop.until <= Max({now, CloseTold(m) + CloseDelay})
  /\ \A g \in GroupIds : owed[g] # {} /\ universe # NoDecision =>
       loop.until <= Max({now, relists[g].due, allowed})
Timely == Pausing /\ ~loop.wake => OnTime

LEMMA TimesAre ==
  ASSUME PlanInv
  PROVE  /\ now \in Int /\ refreshDue \in Int /\ allowed \in Int /\ CloseDelay \in Int
         /\ loop.until \in Int /\ Wanted(universe) \in SUBSET Tickers
         /\ \A m \in Wanted(universe) : CloseTold(m) \in Int
         /\ \A g \in GroupIds : relists[g].due \in Int
<1>1. Dates /\ loop \in Loops /\ told \in [Tickers -> Tellings]
  BY DEF PlanInv, Kinds, Rest
<1>2. /\ now \in Int /\ refreshDue \in Int /\ allowed \in Int /\ CloseDelay \in Int /\ loop.until \in Int
      /\ universe \in Decisions
  BY <1>1, NowIs, UniverseAssumption DEF Dates, Loops
<1>3. universe.markets \in Listings /\ Wanted(universe) \in SUBSET Tickers
  BY <1>2, DecisionIs
<1>4. \A m \in Wanted(universe) : universe.markets[m].close \in Int
  BY <1>3, ListedIs DEF Wanted
<1>5. \A m \in Tickers : told[m].close \in Int
  BY <1>1 DEF Tellings
<1>6. \A g \in GroupIds : relists[g].due \in Int
  <2>1. \A g \in GroupIds : relists[g] \in Requests
    BY <1>1 DEF Dates
  <2>2. \A r \in Requests : r.due \in Int
    BY DEF Requests, None
  <2> QED BY <2>1, <2>2
<1> QED BY <1>2, <1>3, <1>4, <1>5, <1>6 DEF CloseTold

(* The length of the pause the loop computes: no later than anything it knows of. *)
LEMMA DeadlineOnTime == PlanInv /\ Reports /\ Openings /\ loop.until = Deadline => OnTime
<1> SUFFICES ASSUME PlanInv, Reports, Openings, loop.until = Deadline PROVE OnTime
  OBVIOUS
<1>1. Dates /\ universe \in Decisions
  BY DEF PlanInv, Kinds, Dates
<1>2. loop.until = IF universe = NoDecision THEN Max({now, refreshDue})
                   ELSE IF ended \cap Planned # {} THEN now ELSE Max({now, Min(Bounds)})
  BY <1>1, DeadlineIs
<1>3. /\ now \in Int /\ refreshDue \in Int /\ allowed \in Int /\ CloseDelay \in Int
      /\ loop.until \in Int /\ Wanted(universe) \in SUBSET Tickers
      /\ \A m \in Wanted(universe) : CloseTold(m) \in Int
      /\ \A g \in GroupIds : relists[g].due \in Int
  BY TimesAre
<1>4. /\ now <= Max({now, refreshDue}) /\ refreshDue <= Max({now, refreshDue})
      /\ Max({now, refreshDue}) \in Int
  BY <1>3, MaxIs
<1>5. \A m \in Wanted(universe) :
        LET b == CloseTold(m) + CloseDelay
        IN Max({now, b}) \in Int /\ now <= Max({now, b}) /\ b <= Max({now, b})
  <2> TAKE m \in Wanted(universe)
  <2>1. CloseTold(m) + CloseDelay \in Int
    BY <1>3
  <2> QED BY <1>3, <2>1, MaxIs
<1>6. \A g \in GroupIds :
        LET b == Max({now, relists[g].due, allowed})
        IN b \in Int /\ now <= b /\ relists[g].due <= b /\ allowed <= b
  BY <1>3, LatestIs
<1>7. CASE universe = NoDecision
  <2>1. Wanted(universe) = {}
    BY <1>7 DEF Wanted, NoDecision
  <2> QED BY <1>2, <1>4, <1>7, <2>1 DEF OnTime
<1>8. CASE universe # NoDecision /\ ended \cap Planned # {}
  <2>1. loop.until = now
    BY <1>2, <1>8
  <2>2. \A m \in Wanted(universe) : loop.until <= now /\ loop.until <= Max({now, CloseTold(m) + CloseDelay})
    BY <1>3, <1>5, <2>1
  <2>3. \A g \in GroupIds : loop.until <= Max({now, relists[g].due, allowed})
    BY <1>6, <2>1
  <2> QED BY <1>4, <2>1, <2>2, <2>3 DEF OnTime
<1>9. CASE universe # NoDecision /\ ended \cap Planned = {}
  <2>1. loop.until = Max({now, Min(Bounds)})
    BY <1>2, <1>9
  <2>2. /\ IsFiniteSet(NextCloses) /\ NextCloses \in SUBSET Int
        /\ IsFiniteSet(NextDues) /\ NextDues \in SUBSET Int
        /\ Min(Bounds) \in Int /\ \A x \in Bounds : Min(Bounds) <= x
    BY <1>1, BoundsHold
  <2>3. \A c \in Int : now <= c /\ Min(Bounds) <= c => loop.until <= c
    BY <1>3, <2>1, <2>2, MaxIs
  <2>4. loop.until <= Max({now, refreshDue})
    <3>1. Min(Bounds) <= refreshDue
      BY <2>2 DEF Bounds
    <3>2. Min(Bounds) <= Max({now, refreshDue})
      BY <1>3, <1>4, <2>2, <3>1
    <3> QED BY <1>4, <2>3, <3>2
  <2>5. Planned = Wanted(universe)
    BY DEF PlanInv, Planning, GoodPlan, Planned
  <2>6. \A m \in Wanted(universe) : m \notin ended
    BY <1>9, <2>5
  <2>7. \A m \in Wanted(universe) : ~told[m].ended
    BY <1>3, <2>6 DEF Reports
  <2>8. ASSUME NEW m \in Wanted(universe), CloseTold(m) # None
        PROVE  loop.until <= Max({now, CloseTold(m) + CloseDelay})
    <3> DEFINE f == AsLastReported(universe.markets)
               close == CloseTold(m)
    <3>1. m \in DOMAIN universe.markets \ ended /\ m \in Tickers
      BY <1>3, <2>6 DEF Wanted
    <3>2. universe.markets \in Listings /\ moved \in [Tickers -> Int]
      BY <1>1, DecisionIs DEF Dates
    <3>3. m \in DOMAIN f /\ f[m].close = IF moved[m] = None THEN universe.markets[m].close ELSE moved[m]
      BY <3>1, <3>2, LastReportIs
    <3>4. told[m].close = moved[m]
      BY <3>1 DEF Reports
    <3>5. f[m].close = close
      BY <3>3, <3>4 DEF CloseTold
    <3>6. close \in {s.close : s \in Range(f)} \ {None}
      BY <2>8, <3>3, <3>5 DEF Range
    <3>7. close \in NextCloses
      BY <3>6 DEF NextCloses
    <3> HIDE DEF close
    <3>8. Min(NextCloses) \in Int /\ Min(NextCloses) <= close /\ Min(NextCloses) + CloseDelay \in Bounds
      <4>1. Min(NextCloses) \in NextCloses /\ Min(NextCloses) <= close
        BY <2>2, <3>7, MinIs
      <4>2. Min(NextCloses) + CloseDelay \in Bounds
        BY <3>7 DEF Bounds
      <4> QED BY <2>2, <4>1, <4>2
    <3>9. Min(Bounds) <= Min(NextCloses) + CloseDelay
      BY <2>2, <3>8
    <3>10. close \in Int
      BY <1>3 DEF close
    <3>11. Min(Bounds) <= close + CloseDelay
      BY <1>3, <2>2, <3>8, <3>9, <3>10
    <3> DEFINE b == Max({now, close + CloseDelay})
    <3>12. b \in Int /\ now <= b /\ close + CloseDelay <= b
      BY <1>5 DEF close
    <3> HIDE DEF b
    <3>13. Min(Bounds) <= b
      BY <1>3, <2>2, <3>10, <3>11, <3>12
    <3>14. loop.until <= b
      BY <2>3, <3>12, <3>13
    <3> QED BY <3>14 DEF b, close
  <2>9. ASSUME NEW g \in GroupIds, owed[g] # {}
        PROVE  loop.until <= Max({now, relists[g].due, allowed})
    <3> DEFINE due == relists[g].due
               b == Max({now, due, allowed})
    <3>1. due # None
      BY <2>9 DEF Openings, Covers
    <3>2. due \in NextDues
      BY <3>1 DEF NextDues
    <3>3. due \in Int /\ b \in Int /\ now <= b /\ due <= b /\ allowed <= b
      BY <1>3, <1>6
    <3> HIDE DEF due, b
    <3>4. Min(NextDues) \in Int /\ Min(NextDues) <= due /\ Max({Min(NextDues), allowed}) \in Bounds
      <4>1. Min(NextDues) \in NextDues /\ Min(NextDues) <= due
        BY <2>2, <3>2, MinIs
      <4>2. Max({Min(NextDues), allowed}) \in Bounds
        BY <3>2 DEF Bounds
      <4> QED BY <2>2, <4>1, <4>2
    <3>5. Min(Bounds) <= Max({Min(NextDues), allowed}) /\ Max({Min(NextDues), allowed}) \in Int
      BY <1>3, <2>2, <3>4, MaxIs
    <3>6. Min(NextDues) <= b
      BY <3>3, <3>4
    <3>7. Max({Min(NextDues), allowed}) <= b
      BY <1>3, <3>3, <3>4, <3>6, MaxIs
    <3>8. Min(Bounds) <= b
      BY <2>2, <3>3, <3>5, <3>7
    <3>9. loop.until <= b
      BY <2>3, <3>3, <3>8
    <3> QED BY <3>9 DEF b, due
  <2> QED BY <2>4, <2>7, <2>8, <2>9 DEF OnTime
<1> QED BY <1>7, <1>8, <1>9

LEMMA PausedOnTime ==
  ASSUME PlanInv', Reports', Openings', Pause
  PROVE  Timely'
<1>1. (PlanInv /\ Reports /\ Openings /\ loop.until = Deadline => OnTime)'
  BY DeadlineOnTime, PTL
<1>2. Dates'
  BY DEF PlanInv, Kinds
<1>3. loop'.until = Deadline'
  BY <1>2, PauseIs
<1>4. OnTime'
  BY <1>1, <1>3
<1> QED BY <1>4 DEF Timely

LEMMA BusyTimely ==
  ASSUME loop'.phase # "pausing" \/ loop'.wake
  PROVE  Timely'
BY DEF Timely, Pausing

(* Time passing only brings the bounds nearer. *)
LEMMA OnTimeStays ==
  ASSUME PlanInv, OnTime, UNCHANGED <<loop, universe, refreshDue, allowed>>, now' = now \/ now' = now + 1,
         \A m \in Tickers : (told'[m].ended <=> told[m].ended) /\ told'[m].close = told[m].close,
         \A g \in GroupIds : owed'[g] = owed[g] /\ relists'[g] = relists[g]
  PROVE  OnTime'
<1>1. /\ now \in Int /\ refreshDue \in Int /\ allowed \in Int /\ CloseDelay \in Int
      /\ loop.until \in Int /\ Wanted(universe) \in SUBSET Tickers
      /\ \A m \in Wanted(universe) : CloseTold(m) \in Int
      /\ \A g \in GroupIds : relists[g].due \in Int
  BY TimesAre
<1>2. now' \in Int /\ now <= now'
  BY <1>1
<1>3. ASSUME NEW x \in Int, loop.until <= Max({now, x}) PROVE loop.until <= Max({now', x})
  <2>1. /\ Max({now', x}) \in Int /\ now' <= Max({now', x}) /\ x <= Max({now', x})
        /\ Max({now, x}) \in Int /\ \A c \in Int : now <= c /\ x <= c => Max({now, x}) <= c
    BY <1>1, <1>2, MaxIs
  <2>2. now <= Max({now', x})
    BY <1>1, <1>2, <2>1
  <2>3. Max({now, x}) <= Max({now', x})
    BY <2>1, <2>2
  <2> QED BY <1>1, <1>3, <2>1, <2>3
<1>4. ASSUME NEW x \in Int, loop.until <= Max({now, x, allowed}) PROVE loop.until <= Max({now', x, allowed})
  <2>1. /\ Max({now', x, allowed}) \in Int /\ now' <= Max({now', x, allowed})
        /\ x <= Max({now', x, allowed}) /\ allowed <= Max({now', x, allowed})
        /\ Max({now, x, allowed}) \in Int
        /\ \A c \in Int : now <= c /\ x <= c /\ allowed <= c => Max({now, x, allowed}) <= c
    BY <1>1, <1>2, LatestIs
  <2>2. now <= Max({now', x, allowed})
    BY <1>1, <1>2, <2>1
  <2>3. Max({now, x, allowed}) <= Max({now', x, allowed})
    BY <2>1, <2>2
  <2> QED BY <1>1, <1>4, <2>1, <2>3
<1>5. loop'.until = loop.until /\ refreshDue' = refreshDue /\ allowed' = allowed /\ universe' = universe
  OBVIOUS
<1>6. Wanted(universe') = Wanted(universe)
  BY <1>5 DEF Wanted
<1>7. loop'.until <= Max({now', refreshDue'})
  <2>1. loop.until <= Max({now, refreshDue})
    BY DEF OnTime
  <2> QED BY <1>1, <1>3, <1>5, <2>1
<1>8. ASSUME NEW m \in Wanted(universe)
      PROVE  /\ told'[m].ended => loop'.until <= now'
             /\ CloseTold(m)' # None => loop'.until <= Max({now', CloseTold(m)' + CloseDelay})
  <2>1. /\ told[m].ended => loop.until <= now
        /\ CloseTold(m) # None => loop.until <= Max({now, CloseTold(m) + CloseDelay})
    BY DEF OnTime
  <2>2. (told'[m].ended <=> told[m].ended) /\ told'[m].close = told[m].close
    BY <1>1
  <2>3. CloseTold(m)' = CloseTold(m)
    BY <1>5, <2>2 DEF CloseTold
  <2>4. CloseTold(m) + CloseDelay \in Int
    BY <1>1
  <2>5. told'[m].ended => loop'.until <= now'
    BY <1>1, <1>2, <1>5, <2>1, <2>2
  <2>6. CloseTold(m) # None => loop.until <= Max({now', CloseTold(m) + CloseDelay})
    BY <1>3, <2>1, <2>4
  <2> QED BY <1>5, <2>3, <2>5, <2>6
<1>9. ASSUME NEW g \in GroupIds, owed'[g] # {}, universe' # NoDecision
      PROVE  loop'.until <= Max({now', relists'[g].due, allowed'})
  <2>1. owed[g] # {} /\ relists'[g].due = relists[g].due
    BY <1>9
  <2>2. loop.until <= Max({now, relists[g].due, allowed})
    BY <1>5, <1>9, <2>1 DEF OnTime
  <2>3. loop.until <= Max({now', relists[g].due, allowed})
    BY <1>1, <1>4, <2>2
  <2> QED BY <1>5, <2>1, <2>3
<1> QED BY <1>6, <1>7, <1>8, <1>9 DEF OnTime

LEMMA TimelyStays ==
  ASSUME PlanInv, Timely, UNCHANGED <<loop, universe, refreshDue, allowed, told, owed, relists>>,
         now' = now \/ now' = now + 1
  PROVE  Timely'
<1>1. CASE Pausing /\ ~loop.wake
  <2>1. OnTime'
    BY <1>1, OnTimeStays DEF Timely
  <2> QED BY <2>1 DEF Timely
<1>2. CASE ~(Pausing /\ ~loop.wake)
  BY <1>2 DEF Timely, Pausing
<1> QED BY <1>1, <1>2

(* An event either wakes the loop or is of no concern to the pause. *)
LEMMA HearTimely ==
  ASSUME PlanInv, Timely, Hear
  PROVE  Timely'
<1> DEFINE note == Head(notes)
           m == note.market
           planned == m \in Planned
           groups == {g \in SeriesGroups : Market[m].series \in Range(Groups[g].series)}
           asks == note.kind = "open" /\ groups # {}
<1>1. /\ UNCHANGED <<now, universe, refreshDue, allowed>>
      /\ relists' = [g \in GroupIds |-> IF asks /\ g \in groups
                                        THEN Request(relists[g], now + Debounce) ELSE relists[g]]
      /\ owed' = [g \in GroupIds |-> IF asks /\ g \in groups THEN owed[g] \cup {now} ELSE owed[g]]
      /\ loop' = IF asks \/ (note.kind # "open" /\ planned) THEN [loop EXCEPT !.wake = TRUE] ELSE loop
  BY DEF Hear, Noted
<1>2. \A k \in Tickers :
        /\ told'[k].ended <=> told[k].ended \/ (k = m /\ note.kind = "end" /\ planned)
        /\ told'[k].close = IF k = m /\ note.kind = "move" /\ planned THEN note.close ELSE told[k].close
  BY HeardIs
<1> HIDE DEF asks, planned, groups
<1>3. CASE asks \/ (note.kind # "open" /\ planned)
  <2>1. loop \in Loops /\ loop' = [loop EXCEPT !.wake = TRUE]
    BY <1>1, <1>3 DEF PlanInv, Kinds
  <2>2. loop'.wake
    BY <2>1 DEF Loops
  <2> QED BY <2>2, BusyTimely
<1>4. CASE ~asks /\ (note.kind = "open" \/ ~planned)
  <2>1. loop' = loop
    BY <1>1, <1>4
  <2>2. \A g \in GroupIds : owed'[g] = owed[g] /\ relists'[g] = relists[g]
    BY <1>1, <1>4
  <2>3. "open" # "end" /\ "open" # "move"
    OBVIOUS
  <2>4. \A k \in Tickers : (told'[k].ended <=> told[k].ended) /\ told'[k].close = told[k].close
    BY <1>2, <1>4, <2>3
  <2>5. CASE Pausing /\ ~loop.wake
    <3>1. OnTime
      BY <2>5 DEF Timely
    <3>2. OnTime'
      BY <1>1, <2>1, <2>2, <2>4, <3>1, OnTimeStays
    <3> QED BY <3>2 DEF Timely
  <2>6. CASE ~(Pausing /\ ~loop.wake)
    BY <2>1, <2>6 DEF Timely, Pausing
  <2> QED BY <2>5, <2>6
<1> QED BY <1>3, <1>4

LEMMA StepTimely ==
  ASSUME PlanInv, PlanInv', Reports', Openings',
         LookAgain \/ FailRelist \/ (\E delay \in RetryDelay : FailRefresh(delay)) \/ Adopt
  PROVE  Timely'
<1>1. now \in Nat /\ allowed \in Int /\ loop \in Loops
  BY NowIs DEF PlanInv, Kinds, Dates
<1>2. RelistOrPause \/ Pause
  BY DEF LookAgain, FailRelist, FailRefresh, Adopt
<1>3. CASE RelistOrPause
  <2>1. loop'.phase = "listing" \/ Pause
    BY <1>1, <1>3, RelistOrPauseIs
  <2> QED BY <2>1, BusyTimely, PausedOnTime
<1>4. CASE Pause
  BY <1>4, PausedOnTime
<1> QED BY <1>2, <1>3, <1>4

LEMMA NextTimely ==
  PlanInv /\ Timely /\ [Next]_vars /\ PlanInv' /\ Reports' /\ Openings' => Timely'
<1> SUFFICES ASSUME PlanInv, Timely, [Next]_vars, PlanInv', Reports', Openings' PROVE Timely'
  OBVIOUS
<1>1. CASE Hear
  BY <1>1, HearTimely
<1>2. CASE LookAgain \/ FailRelist \/ (\E delay \in RetryDelay : FailRefresh(delay)) \/ Adopt
  BY <1>2, StepTimely
<1>3. CASE \/ \E m \in Tickers : Open(m) \/ Determine(m) \/ Quote(m)
           \/ \E m \in Tickers, close \in Closes : MoveClose(m, close)
  <2>1. UNCHANGED <<loop, universe, refreshDue, allowed, told, owed, relists, now>>
    BY <1>3 DEF Open, Determine, Quote, MoveClose, Changes, clockVars
  <2> QED BY <2>1, TimelyStays
<1>4. CASE Tick
  <2>1. UNCHANGED <<loop, universe, refreshDue, allowed, told, owed, relists>> /\ now' = now + 1
    BY <1>4 DEF Tick, clockVars
  <2> QED BY <2>1, TimelyStays
<1>5. CASE \/ ControlUp \/ ControlLost \/ PublishCatalog \/ HandGroup \/ UNCHANGED vars
           \/ \E S \in SUBSET work.todo : PageRead(S) \/ PageCut(S)
  <2>1. UNCHANGED <<loop, universe, refreshDue, allowed, told, owed, relists, now>>
    BY <1>5 DEF ControlUp, ControlLost, PublishCatalog, HandGroup, PageRead, PageCut, worldVars, clockVars, vars
  <2> QED BY <2>1, TimelyStays
<1>6. CASE StartRefresh \/ RemoveClosed \/ FinishRefresh \/ FinishRelist
  <2>1. loop \in Loops
    BY DEF PlanInv, Kinds
  <2>2. loop' = [loop EXCEPT !.phase = "listing"] \/ loop' = [loop EXCEPT !.phase = "applying"]
    BY <1>6 DEF StartRefresh, RemoveClosed, FinishRefresh, FinishRelist, BeginListing, BeginApply
  <2>3. loop'.phase # "pausing"
    BY <2>1, <2>2 DEF Loops
  <2> QED BY <2>3, BusyTimely
<1> QED BY <1>1, <1>2, <1>3, <1>4, <1>5, <1>6 DEF Next

(* A pause of the universe loop (_universe_delay_ns) that no event has cut short ends by the
   next refresh, close, reported end or re-listing owed, whatever happened while the step
   before it listed markets or handed a plan out. *)
THEOREM NothingEverOverslept == Spec => []NothingOverslept
<1>1. Init => Timely
  BY DEF Init, Timely, Pausing
<1>2. PlanInv /\ Openings /\ Timely => NothingOverslept
  <2> SUFFICES ASSUME PlanInv, Openings, Timely, Pausing, ~loop.wake
               PROVE  /\ loop.until <= Max({now, refreshDue})
                      /\ \A m \in Wanted(universe) :
                           LET close == IF told[m].close = None THEN universe.markets[m].close ELSE told[m].close
                           IN /\ told[m].ended => loop.until <= now
                              /\ close # None => loop.until <= Max({now, close + CloseDelay})
                      /\ \A g \in GroupIds : owed[g] # {} =>
                           /\ relists[g].due # None /\ relists[g].due <= Min(owed[g]) + Debounce
                           /\ universe # NoDecision => loop.until <= Max({now, relists[g].due, allowed})
    BY DEF NothingOverslept
  <2>1. OnTime
    BY DEF Timely
  <2>2. ASSUME NEW g \in GroupIds, owed[g] # {}
        PROVE  relists[g].due # None /\ relists[g].due <= Min(owed[g]) + Debounce
    <3>1. \A t \in owed[g] : t <= now /\ t \in Nat /\ Covers(relists[g], t)
      BY DEF Openings, Covers
    <3>2. 0 \in Int /\ now \in Int
      BY TimesAre
    <3>3. IsFiniteSet(0 .. now)
      BY <3>2, FS_Interval
    <3>4. owed[g] \in SUBSET (0 .. now) /\ owed[g] \in SUBSET Int
      BY <3>1, <3>2
    <3>5. IsFiniteSet(owed[g])
      BY <3>3, <3>4, FS_Subset
    <3>6. Min(owed[g]) \in owed[g]
      BY <2>2, <3>4, <3>5, MinIs
    <3>7. Covers(relists[g], Min(owed[g]))
      BY <3>1, <3>6
    <3> QED BY <3>7 DEF Covers
  <2> QED BY <2>1, <2>2, Zenon DEF OnTime, CloseTold
<1>3. PlanInv /\ Reports /\ Openings /\ Timely /\ [Next]_vars => Timely'
  BY NextPlan, NextReports, NextOpenings, NextTimely
<1> QED BY <1>1, <1>2, <1>3, AlwaysKnown, PTL DEF Spec
=============================================================================
