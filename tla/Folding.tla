------------------------------- MODULE Folding -------------------------------
(***************************************************************************)
(* What a fold over a sequence preserves, for any step of it: the planner, *)
(* the selection of markets and the audit are written as such folds.  A    *)
(* module that uses the theorem instantiates Op with its own step; what    *)
(* the step depends on besides is its first argument.                      *)
(***************************************************************************)
EXTENDS Integers, Sequences, TLAPS

CONSTANT Op(_, _, _)

Highest(s) == CHOOSE x \in s : \A y \in s : x >= y

After(c, base, seq, f, s) ==
  IF s = {} THEN base ELSE Op(c, f[s \ {Highest(s)}], seq[Highest(s)])

(* FoldLeft, with its definition written out. *)
Folded(c, base, seq) ==
  (CHOOSE f : f = [s \in SUBSET DOMAIN seq |-> After(c, base, seq, f, s)])[DOMAIN seq]

-----------------------------------------------------------------------------
(* Sets of numbers, and sequences. *)

(* Induction over the numbers up to N, on the set of those not yet reached: the library's,
   which a module that instantiates this one proves of its instances (this module would
   otherwise carry the library's theorems into each of them). *)
Climbs ==
  \A N \in Nat : \A S \in SUBSET (0 .. N) :
    0 \in S /\ (\A n \in 0 .. N - 1 : n \in S => n + 1 \in S) => S = 0 .. N

LEMMA Lengths ==
  ASSUME NEW A, NEW seq \in Seq(A)
  PROVE  Len(seq) \in Nat /\ DOMAIN seq = 1 .. Len(seq)
OBVIOUS

LEMMA Joined ==
  ASSUME NEW A, NEW q \in Seq(A), NEW r \in Seq(A)
  PROVE  /\ q \o r \in Seq(A) /\ Len(q \o r) = Len(q) + Len(r)
         /\ \A n \in 1 .. Len(q) + Len(r) :
              (q \o r)[n] = IF n <= Len(q) THEN q[n] ELSE r[n - Len(q)]
OBVIOUS

LEMMA HighestOf ==
  ASSUME NEW n \in Nat, NEW s \in SUBSET (1 .. n + 1), n + 1 \in s
  PROVE  Highest(s) = n + 1
<1>1. \A y \in s : n + 1 >= y
  OBVIOUS
<1>2. \A x \in s : (\A y \in s : x >= y) => x = n + 1
  BY <1>1
<1> QED BY <1>1, <1>2 DEF Highest

-----------------------------------------------------------------------------
(* The recursion a fold is defined by has a solution, on the subsets of the
   first n positions for every n. *)

Solves(c, base, seq, f, n) ==
  f = [s \in SUBSET (1 .. n) |-> After(c, base, seq, f, s)]

LEMMA SolvesNext ==
  ASSUME NEW c, NEW base, NEW seq, NEW n \in Nat, NEW f, Solves(c, base, seq, f, n)
  PROVE  \E g : Solves(c, base, seq, g, n + 1)
<1> DEFINE g == [s \in SUBSET (1 .. n + 1) |->
                   IF n + 1 \in s THEN Op(c, f[s \ {n + 1}], seq[n + 1]) ELSE f[s]]
<1>1. ASSUME NEW s \in SUBSET (1 .. n + 1), n + 1 \notin s
      PROVE  s \in SUBSET (1 .. n)
  BY <1>1
<1>2. ASSUME NEW s \in SUBSET (1 .. n)
      PROVE  g[s] = f[s]
  BY <1>2
<1>3. ASSUME NEW s \in SUBSET (1 .. n + 1)
      PROVE  g[s] = After(c, base, seq, g, s)
  <2>1. CASE n + 1 \in s
    <3>1. Highest(s) = n + 1 /\ s # {}
      BY <2>1, HighestOf
    <3>2. s \ {n + 1} \in SUBSET (1 .. n)
      OBVIOUS
    <3>3. g[s] = Op(c, f[s \ {n + 1}], seq[n + 1])
      BY <2>1
    <3>4. g[s \ {n + 1}] = f[s \ {n + 1}]
      BY <3>2, <1>2
    <3> HIDE DEF g
    <3> QED BY <3>1, <3>3, <3>4 DEF After
  <2>2. CASE n + 1 \notin s
    <3>1. s \in SUBSET (1 .. n)
      BY <1>1, <2>2
    <3>2. g[s] = f[s]
      BY <1>2, <3>1
    <3>3. f[s] = After(c, base, seq, f, s)
      BY <3>1 DEF Solves
    <3>4. ASSUME s # {} PROVE g[s \ {Highest(s)}] = f[s \ {Highest(s)}]
      <4>1. s \ {Highest(s)} \in SUBSET (1 .. n)
        BY <3>1
      <4> QED BY <4>1, <1>2
    <3> HIDE DEF g
    <3> QED BY <3>2, <3>3, <3>4 DEF After
  <2> QED BY <2>1, <2>2
<1>4. g = [s \in SUBSET (1 .. n + 1) |-> g[s]]
  OBVIOUS
<1>5. Solves(c, base, seq, g, n + 1)
  <2> HIDE DEF g
  <2> QED BY <1>3, <1>4 DEF Solves
<1> QED BY <1>5

LEMMA HasSolution ==
  ASSUME Climbs, NEW c, NEW base, NEW seq, NEW N \in Nat
  PROVE  \E f : Solves(c, base, seq, f, N)
<1> DEFINE S == {n \in 0 .. N : \E f : Solves(c, base, seq, f, n)}
<1>1. 0 \in S
  <2>1. \A s \in SUBSET (1 .. 0) : s = {}
    OBVIOUS
  <2>2. Solves(c, base, seq, [s \in SUBSET (1 .. 0) |-> base], 0)
    BY <2>1 DEF Solves, After
  <2> QED BY <2>2
<1>2. ASSUME NEW n \in 0 .. N - 1, n \in S PROVE n + 1 \in S
  BY <1>2, SolvesNext
<1>3. S \in SUBSET (0 .. N)
  OBVIOUS
<1>4. S = 0 .. N
  <2> HIDE DEF S
  <2> QED BY <1>1, <1>2, <1>3 DEF Climbs
<1>5. N \in S
  BY <1>4
<1> QED BY <1>5

(* A fold whose n-th step leads from T[n - 1] to T[n] ends in the last of them: what each
   change keeps, the replay of all of them (_replay in auditor.py) keeps. *)
THEOREM FoldInvariant ==
  ASSUME Climbs, NEW c, NEW base, NEW A, NEW seq \in Seq(A), NEW T, base \in T[0],
         \A n \in 1 .. Len(seq) : \A acc \in T[n - 1] : Op(c, acc, seq[n]) \in T[n]
  PROVE  Folded(c, base, seq) \in T[Len(seq)]
<1>1. Len(seq) \in Nat /\ DOMAIN seq = 1 .. Len(seq)
  BY Lengths
<1> DEFINE f == CHOOSE f : Solves(c, base, seq, f, Len(seq))
<1>2. Solves(c, base, seq, f, Len(seq))
  BY <1>1, HasSolution
<1>3. Folded(c, base, seq) = f[1 .. Len(seq)]
  BY <1>1 DEF Folded, Solves
<1> HIDE DEF f
<1> DEFINE S == {n \in 0 .. Len(seq) : f[1 .. n] \in T[n]}
<1>4. 0 \in S
  <2>1. 1 .. 0 = {} /\ 1 .. 0 \in SUBSET (1 .. Len(seq))
    BY <1>1
  <2>2. f[1 .. 0] = base
    BY <1>2, <2>1 DEF Solves, After
  <2> QED BY <1>1, <2>2
<1>5. ASSUME NEW n \in 0 .. Len(seq) - 1, n \in S PROVE n + 1 \in S
  <2>1. n \in Nat /\ 1 .. n + 1 \in SUBSET (1 .. Len(seq)) /\ n + 1 \in 1 .. n + 1
    BY <1>1
  <2>2. Highest(1 .. n + 1) = n + 1
    BY <2>1, HighestOf
  <2>3. (1 .. n + 1) \ {n + 1} = 1 .. n /\ 1 .. n + 1 # {}
    <3>1. \A x : x \in (1 .. n + 1) \ {n + 1} <=> x \in 1 .. n
      BY <2>1
    <3> QED BY <2>1, <3>1
  <2>4. f[1 .. n + 1] = Op(c, f[1 .. n], seq[n + 1])
    BY <1>2, <2>1, <2>2, <2>3 DEF Solves, After
  <2>5. f[1 .. n] \in T[n] /\ n + 1 \in 1 .. Len(seq) /\ n + 1 - 1 = n
    BY <1>1, <1>5
  <2> QED BY <1>1, <2>4, <2>5
<1>6. S \in SUBSET (0 .. Len(seq))
  OBVIOUS
<1>7. S = 0 .. Len(seq)
  <2> HIDE DEF S
  <2> QED BY <1>1, <1>4, <1>5, <1>6 DEF Climbs
<1> QED BY <1>1, <1>3, <1>7

-----------------------------------------------------------------------------
(* The states a fold passes through. *)
Trace(c, base, seq, h) ==
  h = [n \in 0 .. Len(seq) |-> IF n = 0 THEN base ELSE Op(c, h[n - 1], seq[n])]

LEMMA HasTrace ==
  ASSUME Climbs, NEW c, NEW base, NEW A, NEW seq \in Seq(A)
  PROVE  \E h : Trace(c, base, seq, h)
<1>1. Len(seq) \in Nat /\ DOMAIN seq = 1 .. Len(seq)
  BY Lengths
<1>2. PICK f : Solves(c, base, seq, f, Len(seq))
  BY <1>1, HasSolution
<1> DEFINE h == [n \in 0 .. Len(seq) |-> f[1 .. n]]
<1>3. ASSUME NEW n \in 0 .. Len(seq)
      PROVE  h[n] = IF n = 0 THEN base ELSE Op(c, h[n - 1], seq[n])
  <2>1. CASE n = 0
    <3>1. 1 .. 0 = {} /\ 1 .. 0 \in SUBSET (1 .. Len(seq))
      BY <1>1
    <3>2. f[1 .. 0] = base
      BY <1>2, <3>1 DEF Solves, After
    <3> QED BY <2>1, <3>2
  <2>2. CASE n # 0
    <3>1. n \in Nat \ {0} /\ n - 1 \in Nat /\ n - 1 \in 0 .. Len(seq)
          /\ 1 .. n \in SUBSET (1 .. Len(seq)) /\ 1 .. n # {} /\ n \in 1 .. n - 1 + 1
          /\ 1 .. n - 1 + 1 = 1 .. n
      <4>1. n \in Nat \ {0} /\ n - 1 + 1 = n /\ n <= Len(seq) /\ n - 1 \in Nat
        BY <1>1, <2>2
      <4>2. n - 1 \in 0 .. Len(seq)
        BY <1>1, <4>1
      <4>3. 1 .. n \in SUBSET (1 .. Len(seq)) /\ n \in 1 .. n
        BY <1>1, <4>1
      <4> QED BY <4>1, <4>2, <4>3
    <3>2. Highest(1 .. n) = n
      <4> DEFINE k == n - 1
                 s == 1 .. n
      <4>1. k \in Nat /\ s \in SUBSET (1 .. k + 1) /\ k + 1 \in s /\ n = k + 1
        BY <3>1
      <4> HIDE DEF k, s
      <4>2. Highest(s) = k + 1
        BY <4>1, HighestOf
      <4> QED BY <4>1, <4>2 DEF s
    <3>3. (1 .. n) \ {n} = 1 .. n - 1
      <4>1. \A x : x \in (1 .. n) \ {n} <=> x \in 1 .. n - 1
        BY <3>1
      <4> QED BY <4>1
    <3>4. f[1 .. n] = Op(c, f[1 .. n - 1], seq[n])
      BY <1>2, <3>1, <3>2, <3>3 DEF Solves, After
    <3>5. h[n] = f[1 .. n] /\ h[n - 1] = f[1 .. n - 1]
      BY <3>1
    <3> QED BY <2>2, <3>4, <3>5
  <2> QED BY <2>1, <2>2
<1>4. h = [n \in 0 .. Len(seq) |-> h[n]]
  OBVIOUS
<1> HIDE DEF h
<1>5. h = [n \in 0 .. Len(seq) |-> IF n = 0 THEN base ELSE Op(c, h[n - 1], seq[n])]
  BY <1>3, <1>4
<1> QED BY <1>5 DEF Trace

(* A function that follows the steps of a fold ends in what the fold returns. *)
LEMMA FoldFollows ==
  ASSUME Climbs, NEW c, NEW base, NEW A, NEW seq \in Seq(A), NEW h, h[0] = base,
         \A n \in 1 .. Len(seq) : h[n] = Op(c, h[n - 1], seq[n])
  PROVE  Folded(c, base, seq) = h[Len(seq)]
<1> DEFINE T == [n \in 0 .. Len(seq) |-> {h[n]}]
<1>1. Len(seq) \in Nat
  BY Lengths
<1>2. base \in T[0]
  BY <1>1
<1>3. ASSUME NEW n \in 1 .. Len(seq), NEW acc \in T[n - 1]
      PROVE  Op(c, acc, seq[n]) \in T[n]
  <2>1. n - 1 \in 0 .. Len(seq) /\ n \in 0 .. Len(seq)
    BY <1>1
  <2>2. acc = h[n - 1] /\ T[n] = {h[n]}
    BY <2>1
  <2> HIDE DEF T
  <2> QED BY <2>2
<1>4. T[Len(seq)] = {h[Len(seq)]}
  BY <1>1
<1> HIDE DEF T
<1>5. Folded(c, base, seq) \in T[Len(seq)]
  BY <1>2, <1>3, FoldInvariant
<1> QED BY <1>4, <1>5

LEMMA FoldEmpty ==
  ASSUME Climbs, NEW c, NEW base
  PROVE  Folded(c, base, << >>) = base
<1> DEFINE h == [n \in {0} |-> base]
           e == << >>
           A == {}
<1>1. e \in Seq(A) /\ Len(e) = 0 /\ 1 .. 0 = {}
  OBVIOUS
<1>2. h[0] = base
  OBVIOUS
<1> HIDE DEF h, e, A
<1>3. \A n \in 1 .. Len(e) : h[n] = Op(c, h[n - 1], e[n])
  BY <1>1
<1>4. e \in Seq(A) /\ h[0] = base
  BY <1>1, <1>2
<1>5. Folded(c, base, e) = h[Len(e)]
  BY <1>3, <1>4, FoldFollows
<1> QED BY <1>1, <1>2, <1>5 DEF e

LEMMA FoldOne ==
  ASSUME Climbs, NEW c, NEW base, NEW x
  PROVE  Folded(c, base, <<x>>) = Op(c, base, x)
<1> DEFINE h == [n \in 0 .. 1 |-> IF n = 0 THEN base ELSE Op(c, base, x)]
           e == <<x>>
           A == {x}
<1>1. e \in Seq(A) /\ Len(e) = 1 /\ e[1] = x
  OBVIOUS
<1>2. h[0] = base /\ h[1] = Op(c, base, x)
  OBVIOUS
<1> HIDE DEF h, e, A
<1>3. \A n \in 1 .. Len(e) : h[n] = Op(c, h[n - 1], e[n])
  <2>1. \A n \in 1 .. Len(e) : n = 1 /\ n - 1 = 0
    BY <1>1
  <2> QED BY <1>1, <1>2, <2>1
<1>4. e \in Seq(A) /\ h[0] = base
  BY <1>1, <1>2
<1>5. Folded(c, base, e) = h[Len(e)]
  BY <1>3, <1>4, FoldFollows
<1> QED BY <1>1, <1>2, <1>5 DEF e

(* What is appended is folded after the rest. *)
THEOREM FoldConcat ==
  ASSUME Climbs, NEW c, NEW base, NEW A, NEW q \in Seq(A), NEW r \in Seq(A)
  PROVE  Folded(c, base, q \o r) = Folded(c, Folded(c, base, q), r)
<1>1. Len(q) \in Nat /\ Len(r) \in Nat
  BY Lengths
<1>2. PICK h : Trace(c, base, q, h)
  BY HasTrace
<1>3. PICK g : Trace(c, Folded(c, base, q), r, g)
  BY HasTrace
<1>4. h[0] = base /\ \A n \in 1 .. Len(q) : h[n] = Op(c, h[n - 1], q[n])
  BY <1>1, <1>2 DEF Trace
<1>5. /\ g[0] = Folded(c, base, q)
      /\ \A n \in 1 .. Len(r) : g[n] = Op(c, g[n - 1], r[n])
  BY <1>1, <1>3 DEF Trace
<1>6. Folded(c, base, q) = h[Len(q)]
  BY <1>4, FoldFollows
<1>7. Folded(c, Folded(c, base, q), r) = g[Len(r)]
  BY <1>5, FoldFollows
<1>8. /\ q \o r \in Seq(A) /\ Len(q \o r) = Len(q) + Len(r)
      /\ \A n \in 1 .. Len(q) + Len(r) :
           (q \o r)[n] = IF n <= Len(q) THEN q[n] ELSE r[n - Len(q)]
  BY Joined
<1> DEFINE k == [n \in 0 .. Len(q) + Len(r) |-> IF n <= Len(q) THEN h[n] ELSE g[n - Len(q)]]
<1>9. k[0] = base
  BY <1>1, <1>4
<1>10. \A n \in 0 .. Len(q) : k[n] = h[n]
  BY <1>1
<1>11. \A n \in 0 .. Len(r) : k[Len(q) + n] = g[n]
  <2> TAKE n \in 0 .. Len(r)
  <2>1. CASE n = 0
    <3>1. k[Len(q)] = h[Len(q)] /\ Len(q) + 0 = Len(q)
      BY <1>1
    <3> HIDE DEF k
    <3> QED BY <2>1, <3>1, <1>5, <1>6
  <2>2. CASE n # 0
    BY <2>2, <1>1
  <2> QED BY <2>1, <2>2
<1> HIDE DEF k
<1>12. ASSUME NEW n \in 1 .. Len(q \o r)
       PROVE  k[n] = Op(c, k[n - 1], (q \o r)[n])
  <2>1. CASE n <= Len(q)
    <3>1. n \in 1 .. Len(q) /\ n \in 0 .. Len(q) /\ n - 1 \in 0 .. Len(q)
      BY <2>1, <1>1, <1>8
    <3>2. (q \o r)[n] = q[n]
      BY <2>1, <1>1, <1>8
    <3> QED BY <3>1, <3>2, <1>4, <1>10
  <2>2. CASE n > Len(q)
    <3> DEFINE j == n - Len(q)
    <3>1. j \in 1 .. Len(r) /\ j \in 0 .. Len(r) /\ j - 1 \in 0 .. Len(r)
          /\ n = Len(q) + j /\ n - 1 = Len(q) + (j - 1)
      BY <2>2, <1>1, <1>8
    <3>2. (q \o r)[n] = r[j]
      BY <2>2, <1>1, <1>8
    <3> HIDE DEF j
    <3>3. k[n] = g[j] /\ k[n - 1] = g[j - 1]
      BY <3>1, <1>11
    <3> QED BY <3>1, <3>2, <3>3, <1>5
  <2> QED BY <2>1, <2>2, <1>1, <1>8
<1>13. Folded(c, base, q \o r) = k[Len(q) + Len(r)]
  <2> DEFINE s == q \o r
  <2>1. s \in Seq(A) /\ Len(s) = Len(q) + Len(r)
        /\ \A n \in 1 .. Len(s) : k[n] = Op(c, k[n - 1], s[n])
    BY <1>8, <1>12
  <2> HIDE DEF s
  <2>2. Folded(c, base, s) = k[Len(s)]
    BY <1>9, <2>1, FoldFollows
  <2> QED BY <2>1, <2>2 DEF s
<1> QED BY <1>1, <1>7, <1>11, <1>13

(* What is first is folded first. *)
LEMMA FoldTail ==
  ASSUME Climbs, NEW c, NEW base, NEW A, NEW q \in Seq(A), q # << >>
  PROVE  Folded(c, base, q) = Folded(c, Op(c, base, Head(q)), Tail(q))
<1> DEFINE e == <<Head(q)>>
           r == Tail(q)
<1>1. e \in Seq(A) /\ r \in Seq(A) /\ q = e \o r
  OBVIOUS
<1>2. Folded(c, base, e) = Op(c, base, Head(q))
  BY FoldOne
<1> HIDE DEF e
<1>3. Folded(c, base, e \o r) = Folded(c, Folded(c, base, e), r)
  <2> HIDE DEF r
  <2> QED BY <1>1, FoldConcat
<1> QED BY <1>1, <1>2, <1>3
=============================================================================
