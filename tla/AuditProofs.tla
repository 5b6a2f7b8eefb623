----------------------------- MODULE AuditProofs ------------------------------
(***************************************************************************)
(* Proofs about Audit: for every rate, bound and schedule the requests are *)
(* paced, a verdict says what was held, and an inconsistent one is real.   *)
(***************************************************************************)
EXTENDS Audit, SequenceTheorems, FiniteSetTheorems, WellFoundedInduction, TLAPS

-----------------------------------------------------------------------------
(* The kinds of values. *)

Frames  == [kind : {"delta", "snapshot", "crossed"}, n : Int, gap : BOOLEAN]
Changes == [kind : {"delta", "snapshot"}, n : Int, at : Nat]
Books   == [gen : Nat, on : BOOLEAN, fresh : BOOLEAN, n : Int]
Taps    == [open : BOOLEAN, gen : Nat, start : Int, events : Seq(Changes),
            fault : {"none", "no_book", "stale", "overflow"}]
Audits  == [phase : {"idle", "lead", "queued", "sent", "read", "settle"},
            at : Int, reply : Int, value : Int]
Limiters == [tokens : 0 .. Capacity * Second, last : Nat, queue : Seq({Auditor, Other}), until : Int]
Held    == [n : Int, at : Int]
Truths  == [held : Seq(Held), whole : BOOLEAN, arrived : Nat, read : Nat]
Verdicts == [outcome : {"none", "undecidable", "exact", "consistent", "inconsistent"},
             index : Int, value : Int, reply : Int]

ExchangeTyped ==
  /\ exch \in 0 .. MaxValue /\ wire \in Seq(Frames) /\ Len(wire) <= MaxWire
  /\ {hole, asked, resync, carried} \subseteq BOOLEAN /\ book \in Books

AuditTyped ==
  /\ tap \in Taps /\ audit \in Audits /\ truth \in Truths /\ verdict \in Verdicts

ClockTyped == now \in Nat /\ stamped \in 0 .. now

(* A fresh book is of a market that is carried, and none that is asked for again is fresh. *)
BookInv == (book.fresh => book.on) /\ (book.on => carried) /\ (resync => ~book.fresh)
-----------------------------------------------------------------------------
(* RequestsPaced: the bucket never holds more than its capacity and what it gained since a
   request leave over when the request and all after it are paid. *)

LimiterTyped == limiter \in Limiters /\ limiter.last <= now /\ sends \in Seq(0 .. limiter.last)

PaidInv ==
  \A i \in DOMAIN sends :
    Cost * Second * (Len(sends) - i + 1) + limiter.tokens
      <= Capacity * Second + Refill * (limiter.last - sends[i])

SleepInv ==
  limiter.until # None =>
    /\ limiter.last <= limiter.until
    /\ Cost * Second <= limiter.tokens + (limiter.until - limiter.last) * Refill

PacedInv == LimiterTyped /\ PaidInv /\ SleepInv /\ RequestsPaced

(* The auditor waits in the limiter once, while its request does. *)
QueueInv ==
  /\ \A i, j \in DOMAIN limiter.queue : limiter.queue[i] = Auditor /\ limiter.queue[j] = Auditor => i = j
  /\ (\E i \in DOMAIN limiter.queue : limiter.queue[i] = Auditor) <=> audit.phase = "queued"
  /\ limiter.until # None => limiter.queue # << >>
-----------------------------------------------------------------------------
(* VerdictTrue: what the tap recorded leads through the books that were held. *)

Result(n, e) == IF e.kind = "snapshot" THEN e.n ELSE n + e.n

Traces(events, held) ==
  /\ Len(held) = Len(events) + 1
  /\ \A i \in 1 .. Len(events) : held[i + 1] = [n |-> Result(held[i].n, events[i]), at |-> events[i].at]

InOrder(events) ==
  /\ \A i, j \in DOMAIN events : i <= j => events[i].at <= events[j].at
  /\ \A i \in DOMAIN events : events[i].at <= stamped

(* An open tap: it has recorded the book's states up to its fault, and it has none exactly
   when one fresh book was held and its changes fit. *)
TapRest ==
  /\ tap.open <=> audit.phase # "idle"
  /\ Len(tap.events) <= MaxEvents /\ InOrder(tap.events)

TapHeld ==
  tap.open =>
    /\ tap.start = None <=> tap.fault = "no_book"
    /\ tap.fault = "none" => Traces(tap.events, truth.held) /\ truth.held[1].n = tap.start
    /\ Len(truth.held) >= 1

TapWhole ==
  tap.open =>
    /\ tap.fault = "none" /\ Fresh => truth.whole
    /\ truth.whole => /\ Fresh /\ tap.gen = book.gen /\ tap.fault \in {"none", "overflow"}
                      /\ tap.fault = "none" <=> Len(truth.held) - 1 <= MaxEvents
                      /\ truth.held[Len(truth.held)].n = book.n

TapInv == TapRest /\ TapHeld /\ TapWhole

(* A verdict is of an audit that is over. *)
VerdictInv == verdict.outcome # "none" => audit.phase = "idle"
-----------------------------------------------------------------------------
(* NoFalseAlarm: the frames under way lead from a fresh book to the exchange's. *)

Breaks(frame) == frame.gap \/ frame.kind = "crossed"

Leads(v) ==
  /\ Fresh => v[0] = book.n
  /\ carried /\ ~hole => v[Len(wire)] = exch
  /\ \A k \in 1 .. Len(wire) :
       /\ wire[k].kind = "snapshot" => v[k] = wire[k].n
       /\ wire[k].kind = "delta" /\ ~wire[k].gap => v[k] = v[k - 1] + wire[k].n

(* The book that REST read has been held, or the frame that makes it is under way, or one
   before it that stales the book. *)
Coming(v) ==
  tap.open /\ truth.whole /\ audit.phase \in {"read", "settle"} =>
    LET k == truth.read - truth.arrived
    IN \/ \E i \in 1 .. Len(truth.held) : truth.held[i].n = audit.value
       \/ k \in 1 .. Len(wire) /\ v[k] = audit.value
       \/ \E j \in 1 .. Len(wire) : j <= k /\ Breaks(wire[j])
       \/ k = Len(wire) + 1 /\ hole

PathInv == \E v \in [0 .. Len(wire) -> 0 .. MaxValue] : Leads(v) /\ Coming(v)

Inv ==
  /\ ClockTyped /\ ExchangeTyped /\ AuditTyped /\ BookInv
  /\ PacedInv /\ QueueInv /\ TapInv /\ VerdictInv /\ PathInv
-----------------------------------------------------------------------------
(* Arithmetic of the limiter. *)

LEMMA TimesMonotone ==
  ASSUME NEW a \in Nat, NEW b \in Int, NEW c \in Int, b <= c
  PROVE  a * b \in Int /\ a * c \in Int /\ a * b <= a * c
OBVIOUS

LEMMA TimesSum ==
  ASSUME NEW a \in Int, NEW b \in Int, NEW c \in Int
  PROVE  a * (b + c) = a * b + a * c /\ (b + c) * a = a * b + a * c
OBVIOUS

(* A wait that is rounded up suffices. *)
LEMMA WaitSuffices ==
  ASSUME NEW n \in Nat, NEW d \in Nat \ {0}
  PROVE  LET q == (n + d - 1) \div d IN q \in Nat /\ n <= q * d
<1> DEFINE q == (n + d - 1) \div d
<1>1. q \in Int /\ q * d <= n + d - 1 /\ n + d - 1 < (q + 1) * d
  OBVIOUS
<1>2. (q + 1) * d = d * q + d * 1 /\ q * d = d * q
  BY <1>1, TimesSum
<1>3. q \in Nat
  OBVIOUS
<1> HIDE DEF q
<1>4. n <= q * d
  BY <1>1, <1>2
<1> QED BY <1>3, <1>4 DEF q

LEMMA Amounts ==
  /\ Cost * Second \in Nat \ {0} /\ Capacity * Second \in Nat /\ Refill \in Nat \ {0}
  /\ Cost * Second <= Capacity * Second
<1>1. Second \in Nat /\ Cost \in Nat /\ Capacity \in Nat /\ Cost <= Capacity /\ Refill \in Nat \ {0}
      /\ Second # 0 /\ Cost # 0
  BY AuditAssumption
<1>2. Cost * Second = Second * Cost /\ Capacity * Second = Second * Capacity
  BY <1>1
<1>3. Second * Cost <= Second * Capacity
  BY <1>1, TimesMonotone
<1>4. Cost * Second \in Nat /\ Cost * Second # 0 /\ Capacity * Second \in Nat
  BY <1>1
<1> QED BY <1>1, <1>2, <1>3, <1>4

LEMMA MinOfTwo ==
  ASSUME NEW a \in Int, NEW b \in Int
  PROVE  Min({a, b}) = IF a <= b THEN a ELSE b
BY DEF Min

(* What a bucket gains, up to its capacity. *)
LEMMA RefilledIs ==
  ASSUME ClockTyped, LimiterTyped
  PROVE  /\ Refilled \in Limiters /\ Refilled.last = now
         /\ Refilled.queue = limiter.queue /\ Refilled.until = limiter.until
         /\ (now - limiter.last) * Refill \in Nat
         /\ Refilled.tokens <= limiter.tokens + (now - limiter.last) * Refill
         /\ \/ Refilled.tokens = Capacity * Second
            \/ Refilled.tokens = limiter.tokens + (now - limiter.last) * Refill
<1> DEFINE gain == (now - limiter.last) * Refill
           more == Min({Capacity * Second, limiter.tokens + gain})
<1>1. now - limiter.last \in Nat /\ limiter.tokens \in 0 .. Capacity * Second /\ now \in Nat
  BY DEF LimiterTyped, Limiters, ClockTyped
<1>2. gain \in Nat
  <2>1. \A a, b \in Nat : a * b \in Nat
    OBVIOUS
  <2> QED BY <1>1, <2>1, Amounts
<1> HIDE DEF gain
<1>3. more = IF Capacity * Second <= limiter.tokens + gain THEN Capacity * Second ELSE limiter.tokens + gain
  BY <1>1, <1>2, Amounts, MinOfTwo
<1>4. more \in 0 .. Capacity * Second /\ more <= limiter.tokens + gain
      /\ (more = Capacity * Second \/ more = limiter.tokens + gain)
  BY <1>1, <1>2, <1>3, Amounts
<1>5. Refilled = [limiter EXCEPT !.tokens = more, !.last = now]
  BY DEF Refilled, gain
<1> HIDE DEF more
<1> QED BY <1>1, <1>2, <1>4, <1>5 DEF LimiterTyped, Limiters, gain

(* A refilled bucket still pays for what was sent. *)
Pays(tokens, last) ==
  \A i \in DOMAIN sends :
    Cost * Second * (Len(sends) - i + 1) + tokens <= Capacity * Second + Refill * (last - sends[i])

LEMMA RefilledPays ==
  ASSUME ClockTyped, LimiterTyped, PaidInv
  PROVE  Pays(Refilled.tokens, now)
<1> SUFFICES ASSUME NEW i \in DOMAIN sends
             PROVE  Cost * Second * (Len(sends) - i + 1) + Refilled.tokens
                      <= Capacity * Second + Refill * (now - sends[i])
  BY DEF Pays
<1> DEFINE gain == (now - limiter.last) * Refill
           paid == Cost * Second * (Len(sends) - i + 1)
           all  == Capacity * Second
           past == Refill * (limiter.last - sends[i])
<1>1. /\ limiter.tokens \in Nat /\ limiter.last \in Nat /\ now \in Nat /\ sends[i] \in Nat
      /\ Len(sends) \in Nat /\ i \in Nat
  BY DEF LimiterTyped, Limiters, ClockTyped
<1>2. paid + limiter.tokens <= all + past
  BY DEF PaidInv
<1>3. Refill * (now - sends[i]) = past + gain
  <2>1. now - sends[i] = (limiter.last - sends[i]) + (now - limiter.last)
    BY <1>1
  <2>2. Refill * ((limiter.last - sends[i]) + (now - limiter.last))
          = past + Refill * (now - limiter.last)
    BY <1>1, Amounts, TimesSum
  <2>3. Refill * (now - limiter.last) = gain
    BY <1>1, Amounts
  <2> QED BY <2>1, <2>2, <2>3
<1>4. Refilled.tokens <= limiter.tokens + gain /\ gain \in Nat /\ Refilled.tokens \in Nat
  BY RefilledIs DEF Limiters
<1>5. paid \in Int /\ past \in Int /\ all \in Int
  BY <1>1, Amounts
<1> HIDE DEF gain, paid, past, all
<1>6. paid + Refilled.tokens <= all + (past + gain)
  BY <1>1, <1>2, <1>4, <1>5
<1> QED BY <1>3, <1>6 DEF gain, paid, past, all

(* Whoever slept as long as it was told finds its tokens. *)
LEMMA SleepSuffices ==
  ASSUME ClockTyped, LimiterTyped, SleepInv, limiter.until # None, limiter.until <= now
  PROVE  Refilled.tokens >= Cost * Second
<1>1. /\ limiter.tokens \in Nat /\ limiter.last \in Nat /\ now \in Nat /\ limiter.until \in Int
      /\ limiter.last <= limiter.until
  BY DEF LimiterTyped, Limiters, ClockTyped, SleepInv
<1>2. Refill * (limiter.until - limiter.last) <= Refill * (now - limiter.last)
  BY <1>1, Amounts, TimesMonotone
<1>3. /\ (limiter.until - limiter.last) * Refill = Refill * (limiter.until - limiter.last)
      /\ (now - limiter.last) * Refill = Refill * (now - limiter.last)
  BY <1>1, Amounts
<1> DEFINE u == Refill * (limiter.until - limiter.last)
           w == Refill * (now - limiter.last)
<1>4. u \in Int /\ w \in Int
  BY <1>1, Amounts
<1>5. Cost * Second <= limiter.tokens + u
  BY <1>3 DEF SleepInv
<1>6. Refilled.tokens = Capacity * Second \/ Refilled.tokens = limiter.tokens + w
  BY <1>3, RefilledIs
<1> HIDE DEF u, w
<1>7. limiter.tokens + w >= Cost * Second
  BY <1>1, <1>2, <1>4, <1>5, Amounts DEF u, w
<1> QED BY <1>6, <1>7, Amounts
-----------------------------------------------------------------------------
(* The steps of the limiter. *)

Paced ==
  \A i, j \in DOMAIN sends :
    i <= j => Cost * Second * (j - i + 1) <= Capacity * Second + Refill * (sends[j] - sends[i])

LEMMA PacedIs ==
  ClockTyped /\ LimiterTyped /\ PaidInv /\ SleepInv /\ Paced => PacedInv
BY SleepSuffices DEF PacedInv, RequestsPaced, Paced

LEMMA PacedIsLater == (ClockTyped /\ LimiterTyped /\ PaidInv /\ SleepInv /\ Paced => PacedInv)'
BY PacedIs, PTL

(* Queueing, giving up and the passing of time take no tokens. *)
LEMMA WaitingPaced ==
  ASSUME ClockTyped, ClockTyped', PacedInv, now <= now', sends' = sends,
         NEW q \in Seq({Auditor, Other}), NEW u \in {limiter.until, None},
         limiter' = [limiter EXCEPT !.queue = q, !.until = u]
  PROVE  PacedInv'
<1>1. /\ limiter.last \in Nat /\ now' \in Nat /\ limiter.last <= now /\ u \in Int
      /\ limiter.last <= now'
  <2>1. limiter \in Limiters /\ limiter.last <= now /\ now \in Int
    BY DEF PacedInv, LimiterTyped, ClockTyped
  <2>2. limiter.last \in Nat /\ limiter.until \in Int
    BY <2>1 DEF Limiters
  <2>3. now' \in Nat
    BY DEF ClockTyped
  <2>4. u \in Int
    BY <2>2 DEF None
  <2> QED BY <2>1, <2>2, <2>3, <2>4
<1>2. limiter' \in Limiters /\ limiter'.last = limiter.last /\ limiter'.tokens = limiter.tokens
      /\ limiter'.until = u
  <2>1. limiter \in Limiters
    BY DEF PacedInv, LimiterTyped
  <2> QED BY <1>1, <2>1 DEF Limiters
<1>3. LimiterTyped'
  BY <1>1, <1>2 DEF PacedInv, LimiterTyped
<1>4. PaidInv' /\ Paced'
  BY <1>2 DEF PacedInv, PaidInv, RequestsPaced, Paced
<1>5. SleepInv'
  BY <1>2 DEF PacedInv, SleepInv
<1> QED BY <1>3, <1>4, <1>5, PacedIsLater

LEMMA Widened ==
  ASSUME NEW a \in Nat, NEW b \in Nat, a <= b, NEW s \in Seq(0 .. a)
  PROVE  s \in Seq(0 .. b)
<1>1. /\ Len(s) \in Nat /\ DOMAIN s = 1 .. Len(s)
      /\ \A i \in 1 .. Len(s) : s[i] \in 0 .. b
  OBVIOUS
<1>2. s = [i \in 1 .. Len(s) |-> s[i]]
  OBVIOUS
<1> QED BY <1>1, <1>2, IsASeq

LEMMA SleepsPaced ==
  ASSUME ClockTyped, ClockTyped', PacedInv, now' = now, sends' = sends,
         Refilled.tokens < Cost * Second,
         limiter' = [Refilled EXCEPT !.until = now + Wait(Refilled)]
  PROVE  PacedInv'
<1> DEFINE r == Refilled
           n == Cost * Second - r.tokens
           w == (n + Refill - 1) \div Refill
<1>1. LimiterTyped /\ PaidInv /\ Paced
  BY DEF PacedInv, RequestsPaced, Paced
<1>2. r \in Limiters /\ r.last = now /\ limiter.last <= now /\ now \in Nat
  BY <1>1, RefilledIs DEF LimiterTyped, ClockTyped
<1>3. n \in Nat
  BY <1>2, Amounts DEF Limiters
<1>4. w \in Nat /\ n <= w * Refill
  BY <1>3, Amounts, WaitSuffices
<1>5. Wait(Refilled) = w
  BY DEF Wait
<1>6. Pays(r.tokens, now)
  BY <1>1, RefilledPays
<1> HIDE DEF r
<1>7. limiter' = [r EXCEPT !.until = now + w]
  BY <1>5 DEF r
<1>8. n = Cost * Second - r.tokens
  BY DEF r
<1> HIDE DEF w, n
<1>9. /\ limiter' \in Limiters /\ limiter'.last = now /\ limiter'.tokens = r.tokens
      /\ limiter'.until = now + w
  <2>1. now + w \in Int
    BY <1>2, <1>4
  <2> QED BY <1>2, <1>7, <2>1 DEF Limiters
<1>10. LimiterTyped'
  <2>1. sends \in Seq(0 .. now)
    <3>1. limiter.last \in Nat /\ sends \in Seq(0 .. limiter.last)
      BY <1>1 DEF LimiterTyped, Limiters
    <3> QED BY <1>2, <3>1, Widened
  <2> QED BY <1>2, <1>9, <2>1 DEF LimiterTyped
<1>11. PaidInv' /\ Paced'
  BY <1>1, <1>6, <1>9 DEF Pays, PaidInv, Paced
<1>12. SleepInv'
  <2>1. (limiter'.until - limiter'.last) * Refill = w * Refill
    <3>1. limiter'.until - limiter'.last = w
      BY <1>2, <1>4, <1>9
    <3> QED BY <3>1
  <2>2. Cost * Second <= r.tokens + w * Refill
    <3>1. w * Refill \in Int /\ Cost * Second \in Int /\ r.tokens \in Int
      BY <1>2, <1>4, Amounts DEF Limiters
    <3> QED BY <3>1, <1>4, <1>8
  <2> QED BY <1>2, <1>4, <1>9, <2>1, <2>2 DEF SleepInv
<1> QED BY <1>10, <1>11, <1>12, PacedIsLater

LEMMA OneMore ==
  ASSUME NEW a \in Int, NEW k \in Int, NEW t \in Int, NEW b \in Int, a * k + t <= b
  PROVE  a * (k + 1) + (t - a) <= b
OBVIOUS

LEMMA SendsPaced ==
  ASSUME ClockTyped, ClockTyped', PacedInv, now' = now, sends' = Append(sends, now),
         Refilled.tokens >= Cost * Second, limiter.queue # << >>,
         limiter' = [Refilled EXCEPT !.tokens = @ - Cost * Second, !.queue = Tail(@), !.until = None]
  PROVE  PacedInv'
<1> DEFINE r == Refilled
           all == Capacity * Second
           one == Cost * Second
<1>1. LimiterTyped /\ PaidInv /\ Paced
  BY DEF PacedInv, RequestsPaced, Paced
<1>2. r \in Limiters /\ r.last = now /\ limiter.last <= now /\ now \in Nat /\ r.queue # << >>
  BY <1>1, RefilledIs DEF LimiterTyped, ClockTyped
<1>3. Pays(r.tokens, now)
  BY <1>1, RefilledPays
<1>4. limiter' = [r EXCEPT !.tokens = r.tokens - one, !.queue = Tail(r.queue), !.until = None]
  OBVIOUS
<1>5. r.tokens \in Nat /\ r.tokens >= one /\ r.tokens <= all /\ all \in Nat /\ one \in Nat
  BY <1>2, Amounts DEF Limiters
<1>6. Tail(r.queue) \in Seq({Auditor, Other})
  BY <1>2 DEF Limiters
<1> HIDE DEF r
<1>7. /\ limiter' \in Limiters /\ limiter'.last = now /\ limiter'.tokens = r.tokens - one
      /\ limiter'.until = None
  <2>1. r.tokens - one \in 0 .. all /\ None \in Int
    BY <1>5 DEF None
  <2>2. r.tokens - one \in 0 .. Capacity * Second
    BY <2>1
  <2> HIDE DEF one, all
  <2> QED BY <1>2, <1>4, <1>6, <2>1, <2>2 DEF Limiters
<1>8. sends \in Seq(0 .. now) /\ Len(sends) \in Nat
  <2>1. limiter.last \in Nat /\ sends \in Seq(0 .. limiter.last)
    BY <1>1 DEF LimiterTyped, Limiters
  <2> QED BY <1>2, <2>1, Widened
<1>9. /\ sends' \in Seq(0 .. now) /\ Len(sends') = Len(sends) + 1
      /\ sends'[Len(sends) + 1] = now
      /\ \A i \in DOMAIN sends : sends'[i] = sends[i] /\ i \in Nat /\ i <= Len(sends) /\ sends[i] \in 0 .. now
      /\ DOMAIN sends' = DOMAIN sends \cup {Len(sends) + 1}
  BY <1>2, <1>8
<1>10. LimiterTyped'
  BY <1>2, <1>7, <1>9 DEF LimiterTyped
<1>11. \A i \in DOMAIN sends :
         one * (Len(sends) - i + 2) + (r.tokens - one) <= all + Refill * (now - sends[i])
  <2> SUFFICES ASSUME NEW i \in DOMAIN sends
               PROVE  one * (Len(sends) - i + 2) + (r.tokens - one) <= all + Refill * (now - sends[i])
    OBVIOUS
  <2> DEFINE k == Len(sends) - i + 1
             past == Refill * (now - sends[i])
  <2>1. k \in Int /\ Len(sends) - i + 2 = k + 1 /\ past \in Int
    BY <1>2, <1>8, <1>9, Amounts, SMTT(60)
  <2>2. one * k + r.tokens <= all + past
    BY <1>3 DEF Pays
  <2>3. one \in Int /\ r.tokens \in Int /\ all + past \in Int
    BY <1>5, <2>1
  <2> HIDE DEF k, past, one, all
  <2>4. one * (k + 1) + (r.tokens - one) <= all + past
    BY <2>1, <2>2, <2>3, OneMore, Zenon
  <2> QED BY <2>1, <2>4 DEF k, past
<1>12. PaidInv'
  <2> SUFFICES ASSUME NEW i \in DOMAIN sends'
               PROVE  one * (Len(sends') - i + 1) + limiter'.tokens
                        <= all + Refill * (limiter'.last - sends'[i])
    BY DEF PaidInv
  <2>1. CASE i \in DOMAIN sends
    <3>1. Len(sends') - i + 1 = Len(sends) - i + 2
      BY <1>8, <1>9, <2>1
    <3> QED BY <1>7, <1>9, <1>11, <2>1, <3>1
  <2>2. CASE i = Len(sends) + 1
    <3>1. Len(sends') - i + 1 = 1 /\ limiter'.last - sends'[i] = 0
      BY <1>2, <1>7, <1>8, <1>9, <2>2
    <3> HIDE DEF one, all
    <3>2. one * (Len(sends') - i + 1) = one /\ Refill * (limiter'.last - sends'[i]) = 0
      <4>1. /\ one * (Len(sends') - i + 1) = one * 1
            /\ Refill * (limiter'.last - sends'[i]) = Refill * 0
        BY <3>1, Zenon
      <4>2. one * 1 = one /\ Refill * 0 = 0
        BY <1>5, Amounts
      <4> QED BY <4>1, <4>2, Zenon
    <3> QED BY <1>5, <1>7, <3>2
  <2> QED BY <1>9, <2>1, <2>2
<1>13. Paced'
  <2> SUFFICES ASSUME NEW i \in DOMAIN sends', NEW j \in DOMAIN sends', i <= j
               PROVE  one * (j - i + 1) <= all + Refill * (sends'[j] - sends'[i])
    BY DEF Paced
  <2>1. CASE i \in DOMAIN sends /\ j \in DOMAIN sends
    BY <1>1, <1>9, <2>1 DEF Paced
  <2>2. CASE j = Len(sends) + 1
    <3>1. j - i + 1 = Len(sends') - i + 1 /\ sends'[j] = limiter'.last
      BY <1>7, <1>8, <1>9, <2>2
    <3>2. one * (Len(sends') - i + 1) + limiter'.tokens
            <= all + Refill * (limiter'.last - sends'[i])
      BY <1>12 DEF PaidInv
    <3> DEFINE a == one * (Len(sends') - i + 1)
               b == Refill * (limiter'.last - sends'[i])
    <3>3. a \in Int /\ b \in Int /\ limiter'.tokens \in Nat
      BY <1>2, <1>5, <1>7, <1>8, <1>9, Amounts, SMTT(60)
    <3>4. a <= all + b
      <4> HIDE DEF a, b, one, all
      <4> QED BY <1>5, <3>2, <3>3 DEF a, b
    <3> QED BY <3>1, <3>4
  <2>3. CASE i = Len(sends) + 1 /\ j \in DOMAIN sends
    BY <1>8, <1>9, <2>3
  <2> QED BY <1>9, <2>1, <2>2, <2>3
<1>14. SleepInv'
  BY <1>7 DEF SleepInv
<1> QED BY <1>10, <1>12, <1>13, <1>14, PacedIsLater

(* Who is in the queue. *)
LEMMA OneLess ==
  ASSUME NEW q \in Seq({Auditor, Other}), NEW k \in DOMAIN q, q[k] = Auditor,
         \A i, j \in DOMAIN q : q[i] = Auditor /\ q[j] = Auditor => i = j
  PROVE  /\ RemoveAt(q, k) \in Seq({Auditor, Other})
         /\ \A i \in DOMAIN RemoveAt(q, k) : RemoveAt(q, k)[i] # Auditor
         /\ k # 1 => RemoveAt(q, k) # << >>
<1>1. Len(q) \in Nat /\ k \in 1 .. Len(q)
  OBVIOUS
<1> DEFINE a == SubSeq(q, 1, k - 1)
           b == SubSeq(q, k + 1, Len(q))
<1>2. /\ a \in Seq({Auditor, Other}) /\ Len(a) = k - 1
      /\ \A i \in 1 .. k - 1 : a[i] = q[i]
  <2>1. \A i \in 1 .. k - 1 : i \in DOMAIN q
    BY <1>1
  <2> QED BY <1>1, <2>1, SubSeqProperties
<1>3. /\ b \in Seq({Auditor, Other}) /\ Len(b) = Len(q) - k
      /\ \A i \in 1 .. Len(q) - k : b[i] = q[k + i]
  <2>1. \A i \in k + 1 .. Len(q) : i \in DOMAIN q
    BY <1>1
  <2> QED BY <1>1, <2>1, SubSeqProperties
<1>4. RemoveAt(q, k) = a \o b
  BY DEF RemoveAt
<1> HIDE DEF a, b
<1>5. /\ a \o b \in Seq({Auditor, Other}) /\ Len(a \o b) = Len(q) - 1
      /\ \A i \in 1 .. Len(q) - 1 : (a \o b)[i] = IF i <= k - 1 THEN q[i] ELSE q[i + 1]
  <2>1. a \o b \in Seq({Auditor, Other}) /\ Len(a \o b) = Len(a) + Len(b)
        /\ \A i \in 1 .. Len(a) + Len(b) : (a \o b)[i] = IF i <= Len(a) THEN a[i] ELSE b[i - Len(a)]
    BY <1>2, <1>3, ConcatProperties, SMTT(60)
  <2>2. ASSUME NEW i \in 1 .. Len(q) - 1 PROVE (a \o b)[i] = IF i <= k - 1 THEN q[i] ELSE q[i + 1]
    <3>1. CASE i <= k - 1
      BY <1>1, <1>2, <1>3, <2>1, <3>1, SMTT(60)
    <3>2. CASE ~(i <= k - 1)
      <4>1. i - (k - 1) \in 1 .. Len(q) - k /\ k + (i - (k - 1)) = i + 1
        BY <1>1, <3>2
      <4>2. (a \o b)[i] = b[i - (k - 1)]
        <5>1. i \in 1 .. Len(a) + Len(b) /\ ~(i <= Len(a)) /\ Len(a) = k - 1
          BY <1>1, <1>2, <1>3, <3>2
        <5> QED BY <2>1, <5>1
      <4> QED BY <1>3, <3>2, <4>1, <4>2
    <3> QED BY <3>1, <3>2
  <2> QED BY <1>1, <1>2, <1>3, <2>1, <2>2, SMTT(60)
<1>6. \A i \in DOMAIN (a \o b) : (a \o b)[i] # Auditor
  <2> SUFFICES ASSUME NEW i \in 1 .. Len(q) - 1, (a \o b)[i] = Auditor PROVE FALSE
    BY <1>5
  <2>1. CASE i <= k - 1
    BY <1>1, <1>5, <2>1
  <2>2. CASE ~(i <= k - 1)
    <3>1. q[i + 1] = Auditor /\ i + 1 \in DOMAIN q /\ i + 1 # k
      BY <1>1, <1>5, <2>2
    <3> QED BY <3>1
  <2> QED BY <2>1, <2>2
<1>7. k # 1 => a \o b # << >>
  BY <1>1, <1>5
<1> QED BY <1>4, <1>5, <1>6, <1>7
-----------------------------------------------------------------------------
(* The verdict. *)

(* The states of a window are a fold: StateOf is its step. *)
StateOf(c, states, e) == Append(states, IF e.kind = "snapshot" THEN e.n ELSE Last(states) + e.n)

F == INSTANCE Folding WITH Op <- StateOf

(* Induction over the numbers, which the lemmas on folds ask for. *)
Less == OpToRel(<, Nat)

LEMMA Smallest ==
  ASSUME NEW S \in SUBSET Nat, S # {}
  PROVE  \E x \in S : \A y \in S : x <= y
<1>1. IsWellFoundedOn(Less, Nat)
  BY NatLessThanWellFounded DEF Less
<1>2. PICK x \in S : \A y \in S : ~(<<y, x>> \in Less)
  BY <1>1, WFMin
<1>3. ASSUME NEW y \in S PROVE x <= y
  <2>1. x \in Nat /\ y \in Nat /\ <<y, x>> \in Nat \X Nat
    OBVIOUS
  <2>2. ~(<<y, x>> \in Less)
    BY <1>2
  <2>3. ~(y < x)
    BY <2>1, <2>2 DEF Less, OpToRel
  <2> QED BY <2>1, <2>3
<1> QED BY <1>3

LEMMA UpTo ==
  ASSUME NEW N \in Nat, NEW S \in SUBSET (0 .. N), 0 \in S,
         \A n \in 0 .. N - 1 : n \in S => n + 1 \in S
  PROVE  S = 0 .. N
<1> DEFINE R == (0 .. N) \ S
<1> SUFFICES ASSUME R # {} PROVE FALSE
  OBVIOUS
<1>1. R \in SUBSET Nat
  OBVIOUS
<1>2. PICK x \in R : \A y \in R : x <= y
  <2> HIDE DEF R
  <2> QED BY <1>1, Smallest
<1>3. x - 1 \in 0 .. N - 1 /\ x - 1 \in S
  BY <1>2
<1> QED BY <1>2, <1>3

LEMMA Climbing == F!Climbs
<1>1. ASSUME NEW N \in Nat, NEW S \in SUBSET (0 .. N), 0 \in S,
             \A n \in 0 .. N - 1 : n \in S => n + 1 \in S
      PROVE  S = 0 .. N
  BY <1>1, UpTo
<1> QED BY <1>1 DEF F!Climbs

LEMMA Longer ==
  ASSUME NEW s \in Seq(Int), NEW e \in Int
  PROVE  /\ Append(s, e) \in Seq(Int) /\ Len(Append(s, e)) = Len(s) + 1
         /\ Append(s, e)[Len(s) + 1] = e
         /\ \A i \in 1 .. Len(s) : Append(s, e)[i] = s[i]
OBVIOUS

LEMMA StatesFolded ==
  ASSUME NEW w
  PROVE  States(w) = F!Folded(0, <<w.start>>, w.events)
BY DEF States, F!Folded, StateOf, FoldLeft, F!After, MapThenFoldSet, F!Highest, Max

(* The states of a window that traces the books held are these books. *)
LEMMA StatesAre ==
  ASSUME NEW w, w.events \in Seq(Changes), NEW held \in Seq(Held),
         Traces(w.events, held), w.start = held[1].n
  PROVE  /\ Len(States(w)) = Len(w.events) + 1
         /\ \A i \in 0 .. Len(w.events) : States(w)[i + 1] = held[i + 1].n
<1> DEFINE N == Len(w.events)
           upto == [n \in 0 .. N |-> [i \in 1 .. n + 1 |-> held[i].n]]
           T == [n \in 0 .. N |-> {upto[n]}]
<1>1. N \in Nat /\ Len(held) = N + 1
  BY DEF Traces
<1>2. \A i \in 1 .. N + 1 : held[i].n \in Int
  <2> SUFFICES ASSUME NEW i \in 1 .. N + 1 PROVE held[i].n \in Int
    OBVIOUS
  <2>1. held[i] \in Held
    BY <1>1
  <2> QED BY <2>1 DEF Held
<1>3. \A n \in 0 .. N : /\ upto[n] \in Seq(Int) /\ Len(upto[n]) = n + 1
                        /\ \A i \in 1 .. n + 1 : upto[n][i] = held[i].n
  BY <1>1, <1>2
<1>4. <<w.start>> = upto[0]
  <2>1. 0 \in 0 .. N
    BY <1>1
  <2>2. upto[0] \in Seq(Int) /\ Len(upto[0]) = 1 /\ upto[0][1] = held[1].n
    <3>1. 0 + 1 = 1 /\ 1 \in 1 .. 0 + 1
      OBVIOUS
    <3> HIDE DEF upto
    <3> QED BY <1>3, <2>1, <3>1
  <2> HIDE DEF upto
  <2> QED BY <2>2
<1>5. ASSUME NEW n \in 1 .. N
      PROVE  StateOf(0, upto[n - 1], w.events[n]) = upto[n]
  <2>1. n - 1 \in 0 .. N /\ n \in 0 .. N /\ n \in Nat /\ n >= 1 /\ n <= N
    BY <1>1
  <2>2. /\ upto[n - 1] \in Seq(Int) /\ Len(upto[n - 1]) = n
        /\ \A i \in 1 .. n : upto[n - 1][i] = held[i].n
    <3>1. n - 1 + 1 = n
      BY <2>1
    <3> QED BY <1>3, <2>1, <3>1
  <2>3. /\ upto[n] \in Seq(Int) /\ Len(upto[n]) = n + 1
        /\ \A i \in 1 .. n + 1 : upto[n][i] = held[i].n
    BY <1>3, <2>1
  <2> HIDE DEF upto
  <2>4. Last(upto[n - 1]) = held[n].n
    BY <2>1, <2>2 DEF Last
  <2>5. held[n + 1].n = Result(held[n].n, w.events[n])
    <3>1. w.events[n] \in Changes /\ held[n + 1] \in Held
      BY <1>1, <2>1
    <3>2. held[n + 1] = [n |-> Result(held[n].n, w.events[n]), at |-> w.events[n].at]
      BY <2>1 DEF Traces
    <3> QED BY <3>2
  <2>6. StateOf(0, upto[n - 1], w.events[n]) = Append(upto[n - 1], held[n + 1].n)
    BY <2>4, <2>5 DEF StateOf, Result
  <2>7. held[n + 1].n \in Int
    BY <1>2, <2>1
  <2>8. Append(upto[n - 1], held[n + 1].n) = upto[n]
    <3> DEFINE a == Append(upto[n - 1], held[n + 1].n)
    <3>1. /\ a \in Seq(Int) /\ Len(a) = n + 1 /\ a[n + 1] = held[n + 1].n
          /\ \A i \in 1 .. n : a[i] = upto[n - 1][i]
      BY <2>1, <2>2, <2>7, Longer
    <3> HIDE DEF a
    <3>2. \A i \in 1 .. n + 1 : a[i] = upto[n][i]
      <4> SUFFICES ASSUME NEW i \in 1 .. n + 1 PROVE a[i] = upto[n][i]
        OBVIOUS
      <4>1. upto[n][i] = held[i].n
        BY <2>3
      <4>2. CASE i = n + 1
        BY <3>1, <4>1, <4>2
      <4>3. CASE i # n + 1
        <5>1. i \in 1 .. n
          BY <2>1, <4>3
        <5> QED BY <2>2, <3>1, <4>1, <5>1
      <4> QED BY <4>2, <4>3
    <3>3. a = upto[n]
      BY <2>1, <2>3, <3>1, <3>2, SeqEqual
    <3> QED BY <3>3 DEF a
  <2> QED BY <2>6, <2>8
<1>6. <<w.start>> \in T[0]
  BY <1>1, <1>4
<1>7. \A n \in 1 .. N : \A acc \in T[n - 1] : StateOf(0, acc, w.events[n]) \in T[n]
  <2> SUFFICES ASSUME NEW n \in 1 .. N, NEW acc \in T[n - 1]
               PROVE  StateOf(0, acc, w.events[n]) \in T[n]
    OBVIOUS
  <2>1. n - 1 \in 0 .. N /\ n \in 0 .. N
    BY <1>1
  <2>2. T[n - 1] = {upto[n - 1]} /\ T[n] = {upto[n]}
    BY <2>1
  <2> QED BY <1>5, <2>2
<1>8. F!Folded(0, <<w.start>>, w.events) \in T[N]
  <2> HIDE DEF T
  <2> QED BY <1>6, <1>7, Climbing, F!FoldInvariant
<1>9. States(w) = upto[N]
  <2>1. N \in 0 .. N
    BY <1>1
  <2> QED BY <1>8, <2>1, StatesFolded
<1>10. N \in 0 .. N /\ \A i \in 0 .. N : i + 1 \in 1 .. N + 1
  BY <1>1
<1> HIDE DEF upto
<1> QED BY <1>3, <1>9, <1>10

LEMMA LargestIs ==
  ASSUME NEW N \in Nat, NEW S \in SUBSET (0 .. N), S # {}
  PROVE  Max(S) \in S /\ \A i \in S : i <= Max(S)
<1> DEFINE R == {n \in Nat : n <= N /\ N - n \in S}
<1>1. R \in SUBSET Nat /\ R # {}
  <2>1. PICK x \in S : TRUE
    OBVIOUS
  <2>2. N - x \in Nat /\ N - x <= N /\ N - (N - x) = x
    BY <2>1
  <2> QED BY <2>1, <2>2
<1>2. PICK y \in R : \A z \in R : y <= z
  <2> HIDE DEF R
  <2> QED BY <1>1, Smallest
<1>3. N - y \in S /\ \A i \in S : i <= N - y
  <2>1. ASSUME NEW i \in S PROVE i <= N - y
    <3>1. N - i \in Nat /\ N - i <= N /\ N - (N - i) = i
      OBVIOUS
    <3>2. y <= N - i
      BY <1>2, <3>1
    <3> QED BY <3>1, <3>2
  <2> QED BY <1>2, <2>1
<1>4. \E x \in S : \A i \in S : x >= i
  BY <1>3
<1>5. Max(S) \in S /\ \A i \in S : Max(S) >= i
  BY <1>4 DEF Max
<1> QED BY <1>5

LEMMA SmallestIs ==
  ASSUME NEW S \in SUBSET Nat, S # {}
  PROVE  Min(S) \in S /\ \A i \in S : Min(S) <= i
<1>1. \E x \in S : \A i \in S : x <= i
  BY Smallest
<1> QED BY <1>1 DEF Min

(* Received counts the changes that were received by the reply. *)
LEMMA ReceivedCounts ==
  ASSUME NEW events \in Seq(Changes), NEW held \in Seq(Held), Traces(events, held),
         InOrder(events), audit.reply \in Int
  PROVE  /\ Received(events) \in 0 .. Len(events)
         /\ Cardinality({i \in 1 .. Len(events) : held[i + 1].at <= audit.reply}) = Received(events)
<1> DEFINE N == Len(events)
           later == {i \in DOMAIN events : events[i].at > audit.reply}
           counted == {i \in 1 .. N : held[i + 1].at <= audit.reply}
<1>1. N \in Nat /\ DOMAIN events = 1 .. N /\ \A i \in 1 .. N : events[i].at \in Nat
  <2>1. N \in Nat /\ DOMAIN events = 1 .. N
    OBVIOUS
  <2>2. \A i \in 1 .. N : events[i] \in Changes
    BY <2>1
  <2> QED BY <2>1, <2>2 DEF Changes
<1>2. \A i \in 1 .. N : held[i + 1].at = events[i].at
  <2> SUFFICES ASSUME NEW i \in 1 .. N PROVE held[i + 1].at = events[i].at
    OBVIOUS
  <2>1. held[i + 1] = [n |-> Result(held[i].n, events[i]), at |-> events[i].at]
    BY DEF Traces
  <2> QED BY <2>1
<1>3. \A i \in 1 .. N : i \in counted <=> i \notin later
  BY <1>1, <1>2
<1>4. ASSUME NEW r \in 0 .. N, counted = 1 .. r PROVE Cardinality(counted) = r
  <2>1. r \in Int /\ 1 \in Int /\ r \in Nat
    BY <1>1
  <2>2. Cardinality(1 .. r) = IF 1 > r THEN 0 ELSE r - 1 + 1
    BY <2>1, FS_Interval
  <2>3. Cardinality(1 .. r) = r
    BY <2>1, <2>2
  <2> QED BY <1>4, <2>3
<1>5. CASE later = {}
  <2>1. Received(events) = N
    BY <1>5 DEF Received
  <2>2. counted = 1 .. N
    BY <1>3, <1>5
  <2> QED BY <1>1, <1>4, <2>1, <2>2
<1>6. CASE later # {}
  <2>1. later \in SUBSET Nat
    BY <1>1
  <2>2. Min(later) \in later /\ \A i \in later : Min(later) <= i
    <3> HIDE DEF later
    <3> QED BY <1>6, <2>1, SmallestIs
  <2> DEFINE m == Min(later)
  <2>3. Received(events) = m - 1
    BY <1>6 DEF Received
  <2>4. m \in 1 .. N /\ events[m].at > audit.reply
    BY <1>1, <2>2
  <2>5. ASSUME NEW i \in 1 .. N PROVE i \in counted <=> i \in 1 .. m - 1
    <3>1. CASE i < m
      <4>1. i \notin later
        <5> SUFFICES ASSUME i \in later PROVE FALSE
          OBVIOUS
        <5>1. m <= i
          BY <2>2
        <5> HIDE DEF m, later
        <5> QED BY <1>1, <2>4, <3>1, <5>1
      <4> HIDE DEF later, counted, m
      <4> QED BY <1>1, <1>3, <2>4, <3>1, <4>1
    <3>2. CASE ~(i < m)
      <4>1. events[m].at <= events[i].at
        BY <1>1, <2>4, <3>2 DEF InOrder
      <4>2. i \in later
        BY <1>1, <2>4, <4>1
      <4> HIDE DEF later, counted, m
      <4> QED BY <1>1, <1>3, <2>4, <3>2, <4>2
    <3> QED BY <3>1, <3>2
  <2> HIDE DEF m
  <2>6. counted = 1 .. m - 1
    <3>1. counted \subseteq 1 .. N /\ 1 .. m - 1 \subseteq 1 .. N
      BY <1>1, <2>4
    <3> HIDE DEF counted
    <3> QED BY <2>5, <3>1
  <2>7. m - 1 \in 0 .. N
    BY <1>1, <2>4
  <2> QED BY <1>4, <2>3, <2>6, <2>7
<1> QED BY <1>5, <1>6

(* classify_window, on the places of the book that REST told of among those held: the
   nearest to the reply, the earlier of two as near. *)
Place(matches, reply, N) ==
  LET before  == {i \in matches : i <= reply}
      nearest == IF before = {} THEN None ELSE Max(before)
      last    == IF before = {} THEN N ELSE Min({N, 2 * reply - nearest - 1})
      after   == {i \in matches : reply < i /\ i <= last}
  IN IF nearest = reply THEN reply ELSE IF after # {} THEN Min(after) ELSE nearest

Nearest(index, matches, reply) ==
  /\ index = None <=> matches = {}
  /\ matches # {} => index \in matches
  /\ matches # {} => \A i \in matches :
       LET closer == Abs(i - reply) - Abs(index - reply)
       IN closer > 0 \/ (closer = 0 /\ index <= i)

LEMMA PlaceIsNearest ==
  ASSUME NEW N \in Nat, NEW reply \in 0 .. N, NEW matches \in SUBSET (0 .. N)
  PROVE  /\ Nearest(Place(matches, reply, N), matches, reply)
         /\ Place(matches, reply, N) = reply <=> reply \in matches
         /\ Place(matches, reply, N) \in Int
<1> DEFINE before == {i \in matches : i <= reply}
           nearest == IF before = {} THEN None ELSE Max(before)
           last == IF before = {} THEN N ELSE Min({N, 2 * reply - nearest - 1})
           after == {i \in matches : reply < i /\ i <= last}
<1>1. Place(matches, reply, N) =
        IF nearest = reply THEN reply ELSE IF after # {} THEN Min(after) ELSE nearest
  BY DEF Place
<1>2. /\ before \in SUBSET (0 .. N)
      /\ \A i : i \in before <=> i \in matches /\ i <= reply
  OBVIOUS
<1> HIDE DEF before
<1>3. /\ before = {} => nearest = None
      /\ before # {} => nearest \in before /\ \A i \in before : i <= nearest
  BY <1>2, LargestIs
<1>4. nearest \in Int /\ (nearest = None \/ nearest \in 0 .. N) /\ None = -1
  <2> HIDE DEF nearest
  <2>1. before # {} => nearest \in 0 .. N
    BY <1>2, <1>3
  <2>2. None = -1
    BY DEF None
  <2> QED BY <1>3, <2>1, <2>2
<1> HIDE DEF nearest
<1>5. /\ before = {} => last = N
      /\ before # {} => last = IF N <= 2 * reply - nearest - 1 THEN N ELSE 2 * reply - nearest - 1
  BY <1>4, MinOfTwo
<1> HIDE DEF last
<1>6. /\ after \in SUBSET Nat
      /\ \A i : i \in after <=> i \in matches /\ reply < i /\ i <= last
  <2>1. \A i : i \in after <=> i \in matches /\ reply < i /\ i <= last
    BY Zenon
  <2> HIDE DEF after
  <2>2. \A i : i \in matches => i \in Nat
    OBVIOUS
  <2>3. after \in SUBSET Nat
    BY <2>1, <2>2, Zenon
  <2> QED BY <2>1, <2>3, Zenon
<1> HIDE DEF after
<1>7. after # {} => Min(after) \in after /\ \A i \in after : Min(after) <= i
  BY <1>6, SmallestIs
<1> DEFINE p == Place(matches, reply, N)
<1>8. CASE nearest = reply
  <2>1. p = reply /\ reply \in matches
    BY <1>1, <1>2, <1>3, <1>4, <1>8
  <2>2. \A i \in matches : Abs(i - reply) - Abs(reply - reply) > 0 \/
          (Abs(i - reply) - Abs(reply - reply) = 0 /\ reply <= i)
    BY DEF Abs
  <2> QED BY <1>4, <2>1, <2>2 DEF Nearest
<1>9. CASE nearest # reply /\ after # {}
  <2>1. p = Min(after) /\ p \in matches /\ reply < p /\ p <= last /\ p \in 0 .. N
        /\ \A i \in after : p <= i
    BY <1>1, <1>6, <1>7, <1>9
  <2> HIDE DEF p
  <2>2. reply \notin matches
    BY <1>2, <1>3, <1>4, <1>9
  <2>3. ASSUME NEW i \in matches
        PROVE  Abs(i - reply) - Abs(p - reply) > 0 \/ (Abs(i - reply) - Abs(p - reply) = 0 /\ p <= i)
    <3>1. CASE i > reply
      <4>1. CASE i <= last
        <5>1. p <= i
          BY <1>6, <2>1, <3>1, <4>1
        <5> QED BY <2>1, <3>1, <5>1 DEF Abs
      <4>2. CASE ~(i <= last)
        <5>1. last \in Int
          BY <1>4, <1>5
        <5> QED BY <2>1, <3>1, <4>2, <5>1 DEF Abs
      <4> QED BY <4>1, <4>2
    <3>2. CASE i <= reply
      <4>1. before # {} /\ nearest \in 0 .. N /\ i <= nearest /\ nearest <= reply
        BY <1>2, <1>3, <3>2
      <4>2. p <= 2 * reply - nearest - 1
        BY <1>5, <2>1, <4>1
      <4> QED BY <2>1, <3>2, <4>1, <4>2 DEF Abs
    <3> QED BY <3>1, <3>2
  <2>4. Abs(p - reply) \in Int
    BY <2>1 DEF Abs
  <2> QED BY <1>4, <2>1, <2>2, <2>3 DEF Nearest, p
<1>10. CASE nearest # reply /\ after = {}
  <2>1. p = nearest
    BY <1>1, <1>10
  <2>2. reply \notin matches
    BY <1>2, <1>3, <1>4, <1>10
  <2> HIDE DEF p
  <2>3. CASE before = {}
    <3>1. matches = {}
      <4> SUFFICES ASSUME NEW i \in matches PROVE FALSE
        OBVIOUS
      <4>1. ~(i <= reply)
        BY <1>2, <2>3
      <4>2. i \in after
        BY <1>5, <1>6, <2>3, <4>1
      <4> QED BY <1>10, <4>2
    <3> QED BY <1>3, <1>4, <2>1, <2>2, <2>3, <3>1 DEF Nearest, p
  <2>4. CASE before # {}
    <3>1. nearest \in matches /\ nearest < reply /\ nearest \in 0 .. N
      BY <1>2, <1>3, <1>4, <1>10, <2>4
    <3>2. ASSUME NEW i \in matches
          PROVE  \/ Abs(i - reply) - Abs(nearest - reply) > 0
                 \/ Abs(i - reply) - Abs(nearest - reply) = 0 /\ nearest <= i
      <4>1. CASE i <= reply
        <5>1. i <= nearest
          BY <1>2, <1>3, <2>4, <4>1
        <5> QED BY <3>1, <4>1, <5>1 DEF Abs
      <4>2. CASE i > reply
        <5>1. ~(i <= last)
          BY <1>6, <1>10, <4>2
        <5>2. i > 2 * reply - nearest - 1
          BY <1>5, <2>4, <3>1, <5>1
        <5> QED BY <3>1, <4>2, <5>2 DEF Abs
      <4> QED BY <4>1, <4>2
    <3>3. nearest # None
      BY <1>4, <3>1
    <3> QED BY <1>4, <2>1, <2>2, <3>1, <3>2, <3>3 DEF Nearest, p
  <2> QED BY <2>3, <2>4
<1> QED BY <1>8, <1>9, <1>10

(* A verdict on a window without a fault is of the books held, and the other is none. *)
LEMMA ClassifiesTrue ==
  ASSUME NEW w, w.events \in Seq(Changes), NEW held \in Seq(Held), Traces(w.events, held),
         w.start = held[1].n, InOrder(w.events), audit.reply \in Int, w.fault = "none"
  PROVE  LET changes == Len(held) - 1
             reply   == Cardinality({i \in 1 .. changes : held[i + 1].at <= audit.reply})
             matches == {i \in 0 .. changes : held[i + 1].n = audit.value}
         IN /\ Classify(w).outcome = IF reply \in matches THEN "exact"
                                     ELSE IF matches = {} THEN "inconsistent" ELSE "consistent"
            /\ Nearest(Classify(w).index, matches, reply)
            /\ Classify(w).index \in Int
<1> DEFINE N == Len(held) - 1
           reply == Cardinality({i \in 1 .. N : held[i + 1].at <= audit.reply})
           matches == {i \in 0 .. N : held[i + 1].n = audit.value}
           rec == Received(w.events)
           same(i) == States(w)[i + 1] = audit.value
           before == {i \in 0 .. rec : same(i)}
           nearest == IF before = {} THEN None ELSE Max(before)
           last == IF before = {} THEN N ELSE Min({N, 2 * rec - nearest - 1})
           after == {i \in rec + 1 .. last : same(i)}
<1>1. N = Len(w.events) /\ N \in Nat
  BY DEF Traces
<1>2. rec \in 0 .. N /\ rec = reply
  BY <1>1, ReceivedCounts
<1>3. \A i \in 0 .. N : same(i) <=> i \in matches
  BY <1>1, StatesAre
<1>4. before = {i \in matches : i <= reply}
  <2>1. \A i : i \in before <=> i \in matches /\ i <= reply
    <3> HIDE DEF rec, N, reply
    <3>1. 0 .. rec \subseteq 0 .. N
      BY <1>1, <1>2
    <3> QED BY <1>1, <1>2, <1>3, <3>1
  <2> HIDE DEF before, matches, reply
  <2> QED BY <2>1
<1>5. Classify(w) =
        IF nearest = rec THEN [outcome |-> "exact", index |-> rec]
        ELSE IF after # {} THEN [outcome |-> "consistent", index |-> Min(after)]
        ELSE IF nearest = None THEN [outcome |-> "inconsistent", index |-> None]
        ELSE [outcome |-> "consistent", index |-> nearest]
  BY <1>1 DEF Classify
<1> HIDE DEF same, rec, N, reply, matches
<1>6. matches \in SUBSET (0 .. N)
  BY DEF matches
<1>7. last \in Int /\ last <= N
  <2>1. before # {} => nearest \in 0 .. N
    <3>1. before \in SUBSET (0 .. N)
      BY <1>4, <1>6
    <3> HIDE DEF before
    <3> QED BY <1>1, <3>1, LargestIs
  <2> HIDE DEF nearest, before
  <2>2. before # {} => last = IF N <= 2 * rec - nearest - 1 THEN N ELSE 2 * rec - nearest - 1
    BY <1>1, <1>2, <2>1, MinOfTwo, SMTT(60)
  <2>3. before = {} => last = N
    OBVIOUS
  <2> HIDE DEF last
  <2> QED BY <1>1, <1>2, <2>1, <2>2, <2>3
<1> HIDE DEF before
<1>8. after = {i \in matches : reply < i /\ i <= last}
  <2> HIDE DEF last
  <2>1. \A i : i \in after <=> i \in matches /\ reply < i /\ i <= last
    <3>1. \A i \in rec + 1 .. last : i \in 0 .. N /\ reply < i /\ i <= last
      BY <1>1, <1>2, <1>7
    <3>2. \A i : i \in after <=> i \in rec + 1 .. last /\ same(i)
      OBVIOUS
    <3>3. \A i \in matches : reply < i /\ i <= last => i \in rec + 1 .. last /\ i \in 0 .. N
      BY <1>1, <1>2, <1>6, <1>7
    <3> HIDE DEF after
    <3> QED BY <1>3, <3>1, <3>2, <3>3, Zenon
  <2> HIDE DEF after
  <2> QED BY <2>1
<1>9. Place(matches, reply, N) = IF nearest = rec THEN rec ELSE IF after # {} THEN Min(after) ELSE nearest
  <2> DEFINE b == {i \in matches : i <= reply}
             e == IF b = {} THEN None ELSE Max(b)
             l == IF b = {} THEN N ELSE Min({N, 2 * reply - e - 1})
             a == {i \in matches : reply < i /\ i <= l}
  <2>1. Place(matches, reply, N) = IF e = reply THEN reply ELSE IF a # {} THEN Min(a) ELSE e
    BY DEF Place
  <2>2. b = before
    BY <1>4
  <2> HIDE DEF b
  <2>3. e = nearest
    BY <2>2
  <2> HIDE DEF e, nearest
  <2>4. l = last
    BY <1>2, <2>2, <2>3
  <2> HIDE DEF l, last
  <2>5. a = after
    BY <1>8, <2>4
  <2> HIDE DEF a, after
  <2> QED BY <1>2, <2>1, <2>3, <2>5
<1> DEFINE p == Place(matches, reply, N)
<1>10. /\ Nearest(p, matches, reply) /\ (p = reply <=> reply \in matches) /\ p \in Int
  BY <1>1, <1>2, <1>6, PlaceIsNearest
<1>11. Classify(w).index = p
  <2> HIDE DEF nearest, after, p
  <2>1. p = IF nearest = rec THEN rec ELSE IF after # {} THEN Min(after) ELSE nearest
    BY <1>9 DEF p
  <2> QED BY <1>5, <2>1
<1>12. Classify(w).outcome = IF reply \in matches THEN "exact"
                             ELSE IF matches = {} THEN "inconsistent" ELSE "consistent"
  <2>0. after # {} => Min(after) \in matches /\ Min(after) # reply
    <3> HIDE DEF after
    <3>1. after \in SUBSET Nat /\ after \subseteq matches
      <4>1. \A i \in after : i \in matches
        BY <1>8
      <4>2. \A i \in matches : i \in Nat
        BY <1>1, <1>6
      <4> HIDE DEF matches
      <4> QED BY <4>1, <4>2, Zenon
    <3>2. \A i \in after : reply < i
      BY <1>8
    <3>3. after # {} => Min(after) \in after
      BY <3>1, SmallestIs
    <3>4. \A i \in after : i # reply
      BY <1>2, <3>1, <3>2
    <3> QED BY <3>1, <3>3, <3>4, Zenon
  <2> HIDE DEF nearest, after, p
  <2>1. p = IF nearest = rec THEN rec ELSE IF after # {} THEN Min(after) ELSE nearest
    BY <1>9 DEF p
  <2>2. p = None <=> matches = {}
    BY <1>10 DEF Nearest
  <2>3. None \notin matches /\ None # rec
    BY <1>2, <1>6 DEF None
  <2>4. CASE nearest = rec
    BY <1>2, <1>5, <1>10, <2>1, <2>4
  <2>5. CASE nearest # rec /\ after # {}
    <3>1. p = Min(after) /\ p # reply /\ reply \notin matches /\ matches # {}
      BY <1>2, <1>10, <2>0, <2>1, <2>5
    <3>2. Classify(w).outcome = "consistent"
      BY <1>5, <2>5
    <3> QED BY <3>1, <3>2
  <2>6. CASE nearest # rec /\ after = {}
    <3>1. p = nearest /\ p # reply /\ reply \notin matches
      BY <1>2, <1>10, <2>1, <2>6
    <3>2. CASE nearest = None
      <4>1. matches = {} /\ Classify(w).outcome = "inconsistent"
        BY <1>5, <2>2, <2>6, <3>1, <3>2
      <4> QED BY <4>1
    <3>3. CASE nearest # None
      <4>1. matches # {} /\ Classify(w).outcome = "consistent"
        BY <1>5, <2>2, <2>6, <3>1, <3>3
      <4> QED BY <3>1, <4>1
    <3> QED BY <3>2, <3>3
  <2> QED BY <2>4, <2>5, <2>6
<1> HIDE DEF p
<1> QED BY <1>10, <1>11, <1>12 DEF N, reply, matches
-----------------------------------------------------------------------------
(* Types. *)

Typed == ClockTyped /\ ExchangeTyped /\ AuditTyped

(* FrameArrives, taken apart. *)
Gapped == Head(wire).gap /\ carried /\ (Head(wire).kind = "delta" \/ ~resync)
Sound  == Fresh /\ ~Gapped

Applied(at) ==
  /\ Head(wire).kind = "delta" /\ carried /\ Sound
  /\ book' = [book EXCEPT !.n = @ + Head(wire).n]
  /\ tap' = Recorded([kind |-> "delta", n |-> Head(wire).n, at |-> at], FALSE)
  /\ truth' = Seen(TRUE, TRUE, at)

Replaced(at) ==
  /\ Head(wire).kind = "snapshot" /\ carried
  /\ book' = [book EXCEPT !.on = TRUE, !.fresh = TRUE, !.n = Head(wire).n]
  /\ tap' = Recorded([kind |-> "snapshot", n |-> Head(wire).n, at |-> at], ~Sound)
  /\ truth' = Seen(TRUE, Sound, at)

Passed(at) ==
  /\ ~(Head(wire).kind = "delta" /\ carried /\ Sound) /\ ~(Head(wire).kind = "snapshot" /\ carried)
  /\ book' = [book EXCEPT !.on = @ \/ (carried /\ Head(wire).kind = "crossed"),
                          !.fresh = Sound /\ Head(wire).kind # "crossed"]
  /\ truth' = Seen(FALSE, Sound /\ Head(wire).kind # "crossed", at)
  /\ UNCHANGED tap

LEMMA Arrives ==
  ASSUME NEW at, FrameArrives(at)
  PROVE  /\ wire # << >> /\ at \in stamped .. now /\ stamped' = at /\ wire' = Tail(wire)
         /\ asked' = (asked \/ Gapped)
         /\ resync' = ((resync \/ Gapped) /\ Head(wire).kind = "delta")
         /\ UNCHANGED <<now, exch, hole, carried, audit, limiter, others, sends, verdict, spent>>
         /\ Applied(at) \/ Replaced(at) \/ Passed(at)
<1>1. /\ wire # << >> /\ at \in stamped .. now /\ stamped' = at /\ wire' = Tail(wire)
      /\ UNCHANGED <<now, exch, hole, carried, audit, limiter, others, sends, verdict, spent>>
  BY DEF FrameArrives
<1>2. /\ asked' = (asked \/ Gapped)
      /\ resync' = ((resync \/ Gapped) /\ Head(wire).kind = "delta")
  BY Zenon DEF FrameArrives, Gapped
<1>3. CASE Head(wire).kind = "delta" /\ carried /\ Sound
  BY <1>3 DEF FrameArrives, Applied, Sound, Gapped
<1>4. CASE Head(wire).kind = "snapshot" /\ carried
  BY <1>4 DEF FrameArrives, Replaced, Sound, Gapped
<1>5. CASE ~(Head(wire).kind = "delta" /\ carried /\ Sound) /\ ~(Head(wire).kind = "snapshot" /\ carried)
  BY <1>5 DEF FrameArrives, Passed, Sound, Gapped
<1> QED BY <1>1, <1>2, <1>3, <1>4, <1>5

(* The first frame. *)
LEMMA HeadIs ==
  ASSUME wire \in Seq(Frames), wire # << >>
  PROVE  /\ Head(wire) = wire[1] /\ wire[1] \in Frames /\ Len(wire) \in Nat \ {0}
         /\ Tail(wire) \in Seq(Frames) /\ Len(Tail(wire)) = Len(wire) - 1
         /\ \A i \in 1 .. Len(wire) - 1 : Tail(wire)[i] = wire[i + 1]
OBVIOUS

LEMMA RecordedTyped ==
  ASSUME tap \in Taps, NEW change \in Changes, NEW b \in BOOLEAN
  PROVE  Recorded(change, b) \in Taps
<1>1. Append(tap.events, change) \in Seq(Changes)
  BY DEF Taps
<1>2. Recorded(change, b) \in {tap, [tap EXCEPT !.fault = "stale"], [tap EXCEPT !.fault = "overflow"],
                               [tap EXCEPT !.events = Append(tap.events, change)]}
  BY DEF Recorded
<1> HIDE DEF Changes
<1>3. /\ [tap EXCEPT !.fault = "stale"] \in Taps /\ [tap EXCEPT !.fault = "overflow"] \in Taps
      /\ [tap EXCEPT !.events = Append(tap.events, change)] \in Taps
  BY <1>1 DEF Taps
<1> QED BY <1>2, <1>3

LEMMA SeenTyped ==
  ASSUME truth \in Truths, book'.n \in Int, NEW at \in Nat, NEW c \in BOOLEAN, NEW b \in BOOLEAN
  PROVE  Seen(c, b, at) \in Truths
<1> DEFINE h == IF c THEN Append(truth.held, [n |-> book'.n, at |-> at]) ELSE truth.held
           t == [truth EXCEPT !.held = h, !.whole = truth.whole /\ b, !.arrived = truth.arrived + 1]
<1>1. h \in Seq(Held)
  <2>1. truth.held \in Seq(Held)
    BY DEF Truths
  <2>2. [n |-> book'.n, at |-> at] \in Held
    BY DEF Held
  <2> HIDE DEF Held
  <2> QED BY <2>1, <2>2
<1>2. truth.arrived + 1 \in Nat /\ (truth.whole /\ b) \in BOOLEAN
  BY DEF Truths
<1> HIDE DEF h
<1>3. t \in Truths
  BY <1>1, <1>2 DEF Truths
<1>4. Seen(c, b, at) = IF tap.open THEN t ELSE truth
  BY DEF Seen, Noted, h
<1> HIDE DEF t
<1> QED BY <1>3, <1>4

LEMMA ArrivalTyped ==
  ASSUME Typed, BookInv, NEW at, FrameArrives(at)
  PROVE  Typed' /\ BookInv'
<1>1. /\ wire # << >> /\ at \in stamped .. now /\ stamped' = at /\ wire' = Tail(wire)
      /\ asked' = (asked \/ Gapped)
      /\ resync' = ((resync \/ Gapped) /\ Head(wire).kind = "delta")
      /\ UNCHANGED <<now, exch, hole, carried, audit, limiter, others, sends, verdict, spent>>
      /\ Applied(at) \/ Replaced(at) \/ Passed(at)
  BY Arrives
<1>2. ClockTyped' /\ at \in Nat
  BY <1>1 DEF Typed, ClockTyped
<1>3. /\ Head(wire) \in Frames /\ wire' \in Seq(Frames) /\ Len(wire') <= MaxWire
  BY <1>1, HeadIs, AuditAssumption, SMTT(60) DEF Typed, ExchangeTyped
<1>4. /\ Head(wire).kind \in {"delta", "snapshot", "crossed"} /\ Head(wire).n \in Int
      /\ Head(wire).gap \in BOOLEAN
  BY <1>3 DEF Frames
<1>5. /\ hole \in BOOLEAN /\ asked \in BOOLEAN /\ resync \in BOOLEAN /\ carried \in BOOLEAN
      /\ exch \in 0 .. MaxValue /\ book \in Books
  BY DEF Typed, ExchangeTyped
<1>6. Fresh \in BOOLEAN /\ Gapped \in BOOLEAN /\ Sound \in BOOLEAN
  <2>1. book.on \in BOOLEAN /\ book.fresh \in BOOLEAN
    BY <1>5 DEF Books
  <2> QED BY <2>1, <1>4, <1>5 DEF Fresh, Gapped, Sound
<1>7. book.gen \in Nat /\ book.n \in Int /\ book.n + Head(wire).n \in Int
  BY <1>4, <1>5 DEF Books
<1>8. tap \in Taps /\ truth \in Truths /\ audit \in Audits /\ verdict \in Verdicts
  BY DEF Typed, AuditTyped
<1>9. CASE Applied(at)
  <2>1. book' \in Books /\ book'.on = book.on /\ book'.fresh = book.fresh
    BY <1>5, <1>7, <1>9 DEF Applied, Books
  <2>2. book'.n \in Int
    BY <2>1 DEF Books
  <2>3. tap' \in Taps
    <3>1. [kind |-> "delta", n |-> Head(wire).n, at |-> at] \in Changes
      BY <1>2, <1>4 DEF Changes
    <3> QED BY <1>8, <1>9, <3>1, RecordedTyped DEF Applied
  <2>4. truth' \in Truths
    <3>1. truth' = Seen(TRUE, TRUE, at)
      BY <1>9 DEF Applied
    <3>2. TRUE \in BOOLEAN
      OBVIOUS
    <3> QED BY <1>2, <1>8, <2>2, <3>1, <3>2, SeenTyped, Zenon
  <2>5. ExchangeTyped' /\ AuditTyped'
    BY <1>1, <1>3, <1>4, <1>5, <1>6, <1>8, <2>1, <2>3, <2>4 DEF ExchangeTyped, AuditTyped
  <2>6. ~resync /\ ~Gapped
    BY <1>5, <1>9 DEF Applied, Sound, Fresh, BookInv
  <2>7. BookInv'
    BY <1>1, <2>1, <2>6 DEF BookInv
  <2> QED BY <1>2, <2>5, <2>7 DEF Typed
<1>10. CASE Replaced(at)
  <2>1. book' \in Books /\ book'.on = TRUE /\ book'.fresh = TRUE
    BY <1>4, <1>5, <1>10 DEF Replaced, Books
  <2>2. book'.n \in Int
    BY <2>1 DEF Books
  <2>3. tap' \in Taps
    <3>1. [kind |-> "snapshot", n |-> Head(wire).n, at |-> at] \in Changes
      BY <1>2, <1>4 DEF Changes
    <3> QED BY <1>6, <1>8, <1>10, <3>1, RecordedTyped DEF Replaced
  <2>4. truth' \in Truths
    <3>1. truth' = Seen(TRUE, Sound, at)
      BY <1>10 DEF Replaced
    <3>2. TRUE \in BOOLEAN
      OBVIOUS
    <3> QED BY <1>2, <1>6, <1>8, <2>2, <3>1, <3>2, SeenTyped, Zenon
  <2>5. ExchangeTyped' /\ AuditTyped'
    BY <1>1, <1>3, <1>4, <1>5, <1>6, <1>8, <2>1, <2>3, <2>4 DEF ExchangeTyped, AuditTyped
  <2>7. BookInv'
    BY <1>1, <1>10, <2>1 DEF BookInv, Replaced
  <2> QED BY <1>2, <2>5, <2>7 DEF Typed
<1>11. CASE Passed(at)
  <2> DEFINE on == book.on \/ (carried /\ Head(wire).kind = "crossed")
             fr == Sound /\ Head(wire).kind # "crossed"
  <2>0. on \in BOOLEAN /\ fr \in BOOLEAN
    BY <1>5, <1>6 DEF Books
  <2>1. book' = [book EXCEPT !.on = on, !.fresh = fr]
    BY <1>11 DEF Passed
  <2>2. truth' = Seen(FALSE, fr, at) /\ tap' = tap
    BY <1>11 DEF Passed
  <2>3. (on => carried) /\ (fr => on) /\ (fr => ~resync /\ ~Gapped)
    BY <1>5 DEF BookInv, Sound, Fresh
  <2> HIDE DEF on, fr
  <2>4. book' \in Books /\ book'.on = on /\ book'.fresh = fr /\ book'.n = book.n
    BY <1>5, <2>0, <2>1 DEF Books
  <2>5. truth' \in Truths
    <3>1. book'.n \in Int
      BY <1>7, <2>4
    <3>2. FALSE \in BOOLEAN
      OBVIOUS
    <3> QED BY <1>2, <1>8, <2>0, <2>2, <3>1, <3>2, SeenTyped, Zenon
  <2>6. ExchangeTyped' /\ AuditTyped'
    BY <1>1, <1>3, <1>4, <1>5, <1>6, <1>8, <2>2, <2>4, <2>5 DEF ExchangeTyped, AuditTyped
  <2>7. BookInv'
    BY <1>1, <2>3, <2>4 DEF BookInv
  <2> QED BY <1>2, <2>6, <2>7 DEF Typed
<1> QED BY <1>1, <1>9, <1>10, <1>11

(* What an audit concludes at its end. *)
Judged(v, held, whole) ==
  LET changes == Len(held) - 1
      reply   == Cardinality({i \in 1 .. changes : held[i + 1].at <= audit.reply})
      matches == {i \in 0 .. changes : held[i + 1].n = audit.value}
  IN IF ~whole \/ changes > MaxEvents THEN v.outcome = "undecidable"
     ELSE /\ v.outcome = IF reply \in matches THEN "exact"
                         ELSE IF matches = {} THEN "inconsistent" ELSE "consistent"
          /\ Nearest(v.index, matches, reply)

LEMMA Judges ==
  ASSUME Typed, TapInv, audit.phase = "settle"
  PROVE  LET v == Classify(Window)
         IN /\ Judged(v, truth.held, truth.whole) /\ v.index \in Int
            /\ v.outcome \in {"undecidable", "exact", "consistent", "inconsistent"}
<1> DEFINE w == Window
           held == truth.held
<1>1. /\ tap \in Taps /\ truth \in Truths /\ audit.reply \in Int /\ book \in Books /\ tap.open
      /\ MaxEvents \in Nat
  BY AuditAssumption DEF Typed, AuditTyped, ExchangeTyped, Audits, TapInv, TapRest
<1>2. held \in Seq(Held) /\ Len(held) \in Nat
  BY <1>1 DEF Truths
<1>3. /\ w.events = tap.events /\ w.start = tap.start /\ tap.events \in Seq(Changes)
      /\ w.fault = IF tap.fault = "none" /\ (book.gen # tap.gen \/ ~Fresh) THEN "stale" ELSE tap.fault
  BY <1>1 DEF Window, Taps
<1>4. (Classify(w).outcome = "undecidable" /\ Classify(w).index = None) \/ w.fault = "none"
  BY DEF Classify
<1> HIDE DEF w
<1>5. CASE w.fault # "none"
  <2>1. ~truth.whole \/ Len(held) - 1 > MaxEvents
    BY <1>1, <1>2, <1>3, <1>5 DEF TapInv, TapRest, TapHeld, TapWhole
  <2> QED BY <1>4, <1>5, <2>1 DEF w, Judged, None
<1>6. CASE w.fault = "none"
  <2>1. tap.fault = "none" /\ Fresh /\ truth.whole
    BY <1>1, <1>3, <1>6 DEF TapInv, TapRest, TapHeld, TapWhole
  <2>2. /\ Traces(w.events, held) /\ w.start = held[1].n /\ InOrder(w.events)
        /\ ~(Len(held) - 1 > MaxEvents)
    BY <1>1, <1>2, <1>3, <2>1 DEF TapInv, TapRest, TapHeld, TapWhole
  <2> DEFINE N == Len(held) - 1
             reply == Cardinality({i \in 1 .. N : held[i + 1].at <= audit.reply})
             matches == {i \in 0 .. N : held[i + 1].n = audit.value}
  <2>3. /\ Classify(w).outcome = IF reply \in matches THEN "exact"
                                 ELSE IF matches = {} THEN "inconsistent" ELSE "consistent"
        /\ Nearest(Classify(w).index, matches, reply)
        /\ Classify(w).index \in Int
    BY <1>1, <1>2, <1>3, <1>6, <2>2, ClassifiesTrue
  <2>4. Judged(Classify(w), held, truth.whole)
    BY <2>1, <2>2, <2>3 DEF Judged
  <2>5. Classify(w).outcome \in {"exact", "inconsistent", "consistent"}
    <3> HIDE DEF reply, matches
    <3> QED BY <2>3
  <2> QED BY <2>3, <2>4, <2>5 DEF w
<1> QED BY <1>5, <1>6

LEMMA OpenTyped ==
  ASSUME Typed
  PROVE  OpenTap \in Taps /\ [NoTap EXCEPT !.open = TRUE] \in Taps /\ NoTap \in Taps
<1>1. book.gen \in Nat /\ book.n \in Int
  BY DEF Typed, ExchangeTyped, Books
<1>2. << >> \in Seq(Changes)
  OBVIOUS
<1> HIDE DEF Changes
<1>3. [NoTap EXCEPT !.open = TRUE] \in Taps /\ NoTap \in Taps
  <2>1. None \in Int
    BY DEF None
  <2> QED BY <1>2, <2>1 DEF NoTap, Taps
<1>4. [open |-> TRUE, gen |-> book.gen, start |-> book.n, events |-> << >>, fault |-> "none"] \in Taps
  BY <1>1, <1>2 DEF Taps
<1> QED BY <1>3, <1>4 DEF OpenTap

(* The exchange and the connection. *)
LEMMA WireTyped ==
  ASSUME Typed, NEW kind \in {"delta", "snapshot", "crossed"}, NEW n \in Int, Len(wire) < MaxWire
  PROVE  /\ Append(wire, Frame(kind, n)) \in Seq(Frames)
         /\ Len(Append(wire, Frame(kind, n))) = Len(wire) + 1
         /\ Len(wire) + 1 <= MaxWire
         /\ Append(wire, Frame(kind, n))[Len(wire) + 1] = Frame(kind, n)
         /\ \A i \in 1 .. Len(wire) : Append(wire, Frame(kind, n))[i] = wire[i]
<1>1. Frame(kind, n) \in Frames
  BY DEF Frame, Frames, Typed, ExchangeTyped
<1>2. wire \in Seq(Frames) /\ MaxWire \in Nat
  BY AuditAssumption DEF Typed, ExchangeTyped
<1> HIDE DEF Frames
<1> QED BY <1>1, <1>2

LEMMA TypedNext ==
  ASSUME Typed, BookInv, TapInv, [Next]_vars
  PROVE  Typed' /\ BookInv'
<1>0. /\ now \in Nat /\ stamped \in 0 .. now /\ exch \in 0 .. MaxValue /\ wire \in Seq(Frames)
      /\ Len(wire) <= MaxWire /\ hole \in BOOLEAN /\ asked \in BOOLEAN /\ resync \in BOOLEAN
      /\ carried \in BOOLEAN /\ book \in Books /\ tap \in Taps /\ audit \in Audits
      /\ truth \in Truths /\ verdict \in Verdicts
  BY DEF Typed, ClockTyped, ExchangeTyped, AuditTyped
<1>01. MaxValue \in Nat /\ MaxWire \in Nat
  BY AuditAssumption
<1>1. CASE Tick
  BY <1>0, <1>1 DEF Tick, net, Typed, ClockTyped, ExchangeTyped, AuditTyped, BookInv
<1>2. ASSUME NEW d \in {-1, 1}, ExchangeChanges(d) PROVE Typed' /\ BookInv'
  <2>1. /\ exch' \in 0 .. MaxValue /\ hole' \in BOOLEAN
        /\ UNCHANGED <<now, stamped, asked, resync, carried, book, tap, audit, verdict, truth>>
    BY <1>0, <1>2 DEF ExchangeChanges
  <2>2. wire' \in Seq(Frames) /\ Len(wire') <= MaxWire
    <3>1. d \in Int
      OBVIOUS
    <3> HIDE DEF Frames
    <3> QED BY <1>0, <1>2, <3>1, WireTyped DEF ExchangeChanges
  <2> QED BY <1>0, <2>1, <2>2 DEF Typed, ClockTyped, ExchangeTyped, AuditTyped, BookInv
<1>3. ASSUME NEW d \in {-1, 1}, FrameLost(d) PROVE Typed' /\ BookInv'
  BY <1>0, <1>3 DEF FrameLost, Typed, ClockTyped, ExchangeTyped, AuditTyped, BookInv
<1>4. CASE ExchangeAnswers
  <2>1. /\ asked' = FALSE /\ hole' = FALSE
        /\ UNCHANGED <<now, exch, stamped, resync, carried, book, tap, audit, verdict, truth>>
    BY <1>4 DEF ExchangeAnswers
  <2>2. wire' \in Seq(Frames) /\ Len(wire') <= MaxWire
    <3>1. exch \in Int
      BY <1>0
    <3> QED BY <1>4, <3>1, WireTyped DEF ExchangeAnswers
  <2> QED BY <1>0, <2>1, <2>2 DEF Typed, ClockTyped, ExchangeTyped, AuditTyped, BookInv
<1>5. ASSUME NEW at \in 0 .. MaxNow, FrameArrives(at) PROVE Typed' /\ BookInv'
  BY <1>5, ArrivalTyped
<1>6. [truth EXCEPT !.whole = FALSE] \in Truths /\ Noted([truth EXCEPT !.whole = FALSE]) \in Truths
  <2>1. [truth EXCEPT !.whole = FALSE] \in Truths
    BY <1>0 DEF Truths
  <2> QED BY <1>0, <2>1 DEF Noted
<1>7. CASE ConnectionLost
  <2>1. book' \in Books /\ book'.fresh = FALSE /\ book'.on = book.on
    BY <1>0, <1>7 DEF ConnectionLost, Books
  <2>2. wire' = << >> /\ hole' = FALSE /\ asked' = TRUE /\ resync' = FALSE /\ truth' \in Truths
        /\ UNCHANGED <<now, exch, stamped, carried, tap, audit, verdict>>
    BY <1>6, <1>7 DEF ConnectionLost
  <2>3. wire' \in Seq(Frames) /\ Len(wire') <= MaxWire
    BY <1>01, <2>2
  <2> QED BY <1>0, <2>1, <2>2, <2>3 DEF Typed, ClockTyped, ExchangeTyped, AuditTyped, BookInv
<1>8. CASE MarketDropped
  <2>1. book' \in Books /\ book'.fresh = FALSE /\ book'.on = FALSE
    BY <1>0, <1>8 DEF MarketDropped, Books
  <2>2. carried' = FALSE /\ hole' = FALSE /\ asked' = FALSE /\ truth' \in Truths
        /\ UNCHANGED <<now, exch, wire, stamped, resync, tap, audit, verdict>>
    BY <1>6, <1>8 DEF MarketDropped
  <2> QED BY <1>0, <2>1, <2>2 DEF Typed, ClockTyped, ExchangeTyped, AuditTyped, BookInv
<1>9. CASE MarketAdded
  BY <1>0, <1>9 DEF MarketAdded, Typed, ClockTyped, ExchangeTyped, AuditTyped, BookInv
<1>10. CASE Acquires
  <2>1. UNCHANGED <<now, net, tap, truth, verdict>> /\ audit' \in {audit, [audit EXCEPT !.phase = "sent"]}
    BY <1>10 DEF Acquires
  <2>2. audit' \in Audits
    BY <1>0, <2>1 DEF Audits
  <2> QED BY <1>0, <2>1, <2>2 DEF net, Typed, ClockTyped, ExchangeTyped, AuditTyped, BookInv
<1>11. CASE OtherAsks
  BY <1>0, <1>11 DEF OtherAsks, net, Typed, ClockTyped, ExchangeTyped, AuditTyped, BookInv
<1>12. CASE AuditBegins
  <2>1. UNCHANGED <<now, net>> /\ verdict' = NoVerdict
        /\ tap' = (IF carried THEN OpenTap ELSE [NoTap EXCEPT !.open = TRUE])
        /\ audit' = [NoAudit EXCEPT !.phase = "lead", !.at = now]
        /\ truth' = [NoTruth EXCEPT !.whole = carried /\ Fresh, !.held = <<[n |-> book.n, at |-> now]>>]
    BY <1>12 DEF AuditBegins
  <2>2. tap' \in Taps
    BY <2>1, OpenTyped
  <2>3. audit' \in Audits /\ verdict' \in Verdicts
    <3>1. None \in Int /\ now \in Int
      BY <1>0 DEF None
    <3>2. audit' \in Audits
      BY <2>1, <3>1 DEF NoAudit, Audits
    <3>3. verdict' \in Verdicts
      BY <2>1, <3>1 DEF NoVerdict, Verdicts
    <3> QED BY <3>2, <3>3
  <2>4. truth' \in Truths
    <3>1. [n |-> book.n, at |-> now] \in Held
      BY <1>0 DEF Held, Books
    <3>2. <<[n |-> book.n, at |-> now]>> \in Seq(Held)
      <4> HIDE DEF Held
      <4> QED BY <3>1
    <3>3. (carried /\ Fresh) \in BOOLEAN
      OBVIOUS
    <3> HIDE DEF Held
    <3> QED BY <2>1, <3>2, <3>3 DEF NoTruth, Truths
  <2> QED BY <1>0, <2>1, <2>2, <2>3, <2>4 DEF net, Typed, ClockTyped, ExchangeTyped, AuditTyped, BookInv
<1>13. CASE LeadPasses
  <2>1. audit' \in Audits /\ UNCHANGED <<now, net, tap, verdict, truth>>
    BY <1>0, <1>13 DEF LeadPasses, Audits
  <2> QED BY <1>0, <2>1 DEF net, Typed, ClockTyped, ExchangeTyped, AuditTyped, BookInv
<1>14. CASE ExchangeReads
  <2>1. audit' \in Audits /\ UNCHANGED <<now, net, tap, verdict>>
    <3>1. exch \in Int
      BY <1>0, <1>01
    <3>2. [audit EXCEPT !.phase = "read", !.value = exch] \in Audits
      BY <1>0, <3>1 DEF Audits
    <3> QED BY <1>14, <3>2 DEF ExchangeReads
  <2>2. truth' \in Truths
    <3>1. truth.arrived + Len(wire) + (IF hole THEN 1 ELSE 0) \in Nat
      BY <1>0 DEF Truths
    <3> QED BY <1>0, <1>14, <3>1 DEF ExchangeReads, Truths
  <2> QED BY <1>0, <2>1, <2>2 DEF net, Typed, ClockTyped, ExchangeTyped, AuditTyped, BookInv
<1>15. CASE ReplyArrives
  <2>1. audit' \in Audits /\ UNCHANGED <<now, net, tap, verdict, truth>>
    <3>1. now \in Int
      BY <1>0
    <3>2. [audit EXCEPT !.phase = "settle", !.reply = now] \in Audits
      BY <1>0, <3>1 DEF Audits
    <3> QED BY <1>15, <3>2 DEF ReplyArrives
  <2> QED BY <1>0, <2>1 DEF net, Typed, ClockTyped, ExchangeTyped, AuditTyped, BookInv
<1>16. NoAudit \in Audits /\ NoTap \in Taps /\ NoTruth \in Truths
  BY OpenTyped DEF NoAudit, NoTruth, Audits, Truths, None
<1>17. CASE AuditFails
  <2>1. audit' = NoAudit /\ tap' = NoTap /\ truth' = NoTruth /\ UNCHANGED <<now, net, verdict>>
    BY <1>17 DEF AuditFails
  <2> QED BY <1>0, <1>16, <2>1 DEF net, Typed, ClockTyped, ExchangeTyped, AuditTyped, BookInv
<1>18. CASE AuditEnds
  <2>1. audit' = NoAudit /\ tap' = NoTap /\ UNCHANGED <<now, net, truth>> /\ audit.phase = "settle"
        /\ verdict' = [outcome |-> Classify(Window).outcome, index |-> Classify(Window).index,
                       value |-> audit.value, reply |-> audit.reply]
    BY <1>18 DEF AuditEnds
  <2>2. verdict' \in Verdicts
    <3>1. Classify(Window).index \in Int
          /\ Classify(Window).outcome \in {"undecidable", "exact", "consistent", "inconsistent"}
      BY <2>1, Judges
    <3> QED BY <1>0, <2>1, <3>1 DEF Verdicts, Audits
  <2> QED BY <1>0, <1>16, <2>1, <2>2 DEF net, Typed, ClockTyped, ExchangeTyped, AuditTyped, BookInv
<1>19. CASE UNCHANGED vars
  BY <1>0, <1>19 DEF vars, net, Typed, ClockTyped, ExchangeTyped, AuditTyped, BookInv
<1> QED BY <1>1, <1>2, <1>3, <1>4, <1>5, <1>7, <1>8, <1>9, <1>10, <1>11, <1>12, <1>13, <1>14,
           <1>15, <1>17, <1>18, <1>19 DEF Next
-----------------------------------------------------------------------------
(* The tap. *)

LEMMA LongerTrace ==
  ASSUME NEW events \in Seq(Changes), NEW held \in Seq(Held), Traces(events, held),
         NEW e \in Changes, NEW h \in Held,
         h = [n |-> Result(held[Len(held)].n, e), at |-> e.at]
  PROVE  Traces(Append(events, e), Append(held, h)) /\ Append(held, h)[1] = held[1]
<1> DEFINE N == Len(events)
           es == Append(events, e)
           hs == Append(held, h)
<1>1. N \in Nat /\ Len(held) = N + 1
  BY DEF Traces
<1> HIDE DEF Held, Changes
<1>2. /\ Len(es) = N + 1 /\ es[N + 1] = e /\ \A i \in 1 .. N : es[i] = events[i]
  OBVIOUS
<1>3. /\ Len(hs) = N + 2 /\ hs[N + 2] = h /\ \A i \in 1 .. N + 1 : hs[i] = held[i]
  BY <1>1
<1> HIDE DEF es, hs
<1>4. ASSUME NEW i \in 1 .. N + 1
      PROVE  hs[i + 1] = [n |-> Result(hs[i].n, es[i]), at |-> es[i].at]
  <2>1. CASE i = N + 1
    BY <1>1, <1>2, <1>3, <2>1
  <2>2. CASE i # N + 1
    <3>1. i \in 1 .. N /\ i \in 1 .. N + 1 /\ i + 1 \in 1 .. N + 1
      BY <1>1, <2>2
    <3>2. held[i + 1] = [n |-> Result(held[i].n, events[i]), at |-> events[i].at]
      BY <3>1 DEF Traces
    <3> QED BY <1>2, <1>3, <3>1, <3>2
  <2> QED BY <2>1, <2>2
<1>5. hs[1] = held[1]
  BY <1>1, <1>3
<1> QED BY <1>1, <1>2, <1>3, <1>4, <1>5 DEF Traces, es, hs

LEMMA StillInOrder ==
  ASSUME ClockTyped, NEW events \in Seq(Changes), InOrder(events), stamped' \in Nat, stamped <= stamped'
  PROVE  InOrder(events)'
<1>1. \A i \in DOMAIN events : events[i].at \in Nat
  <2>1. \A i \in DOMAIN events : events[i] \in Changes
    OBVIOUS
  <2> QED BY <2>1 DEF Changes
<1> QED BY <1>1 DEF InOrder, ClockTyped

LEMMA LongerInOrder ==
  ASSUME ClockTyped, NEW events \in Seq(Changes), InOrder(events),
         NEW e \in Changes, stamped' = e.at, stamped <= e.at
  PROVE  InOrder(Append(events, e))'
<1> DEFINE N == Len(events)
           es == Append(events, e)
<1>1. \A i \in DOMAIN events : events[i].at \in Nat
  <2>1. \A i \in DOMAIN events : events[i] \in Changes
    OBVIOUS
  <2> QED BY <2>1 DEF Changes
<1>2. e.at \in Nat /\ stamped \in Nat /\ N \in Nat /\ DOMAIN events = 1 .. N
  BY DEF Changes, ClockTyped
<1>3. DOMAIN es = 1 .. N + 1 /\ es[N + 1] = e /\ \A i \in 1 .. N : es[i] = events[i]
  <2> HIDE DEF Changes
  <2> QED OBVIOUS
<1> HIDE DEF es
<1>4. \A i \in 1 .. N : es[i].at \in Nat /\ es[i].at <= e.at
  BY <1>1, <1>2, <1>3 DEF InOrder
<1>5. ASSUME NEW i \in 1 .. N + 1, NEW j \in 1 .. N + 1, i <= j
      PROVE  es[i].at <= es[j].at
  <2>1. CASE j \in 1 .. N
    <3>1. i \in 1 .. N
      BY <1>2, <1>5, <2>1
    <3> QED BY <1>2, <1>3, <1>5, <2>1, <3>1 DEF InOrder
  <2>2. CASE j = N + 1
    BY <1>2, <1>3, <1>4, <2>2
  <2> QED BY <1>2, <2>1, <2>2
<1>6. \A i \in 1 .. N + 1 : es[i].at <= stamped'
  BY <1>2, <1>3, <1>4
<1> QED BY <1>3, <1>5, <1>6 DEF InOrder, es

(* A change of a fresh book: it is recorded unless it is one too many. *)
LEMMA Records ==
  ASSUME Typed, TapInv, tap.open, NEW e \in Changes, stamped' = e.at, stamped <= e.at,
         tap' = Recorded(e, FALSE), audit' = audit, Fresh, book'.on, book'.fresh,
         book'.gen = book.gen, book'.n = Result(book.n, e), book'.n \in Int,
         truth'.whole = truth.whole,
         truth'.held = Append(truth.held, [n |-> book'.n, at |-> e.at])
  PROVE  TapInv'
<1> DEFINE h == [n |-> book'.n, at |-> e.at]
<1>1. /\ tap \in Taps /\ truth.held \in Seq(Held) /\ truth.whole \in BOOLEAN /\ MaxEvents \in Nat
      /\ ClockTyped /\ tap.events \in Seq(Changes) /\ Len(tap.events) \in Nat
      /\ tap.fault \in {"none", "no_book", "stale", "overflow"}
  BY AuditAssumption DEF Typed, AuditTyped, Taps, Truths
<1>2. h \in Held /\ e.at \in Nat
  BY DEF Held, Changes
<1>3. /\ Len(truth'.held) = Len(truth.held) + 1 /\ truth'.held[Len(truth'.held)] = h
      /\ Len(truth.held) \in Nat
  <2> HIDE DEF Held
  <2> QED BY <1>1, <1>2
<1>31. truth'.held[Len(truth'.held)].n = book'.n /\ Len(truth'.held) >= 1 /\ Len(truth'.held) \in Nat
  BY <1>3
<1>4. Fresh'
  BY DEF Fresh
<1>5. /\ Len(tap.events) <= MaxEvents /\ InOrder(tap.events)
      /\ tap.start = None <=> tap.fault = "no_book"
      /\ tap.fault = "none" => Traces(tap.events, truth.held) /\ truth.held[1].n = tap.start
      /\ tap.fault = "none" => truth.whole
      /\ truth.whole => /\ tap.gen = book.gen /\ tap.fault \in {"none", "overflow"}
                        /\ tap.fault = "none" <=> Len(truth.held) - 1 <= MaxEvents
                        /\ truth.held[Len(truth.held)].n = book.n
      /\ tap.open <=> audit.phase # "idle"
  BY DEF TapInv, TapRest, TapHeld, TapWhole
<1> HIDE DEF h
<1>6. CASE tap.fault # "none"
  <2>1. tap' = tap
    BY <1>6 DEF Recorded
  <2>2. InOrder(tap.events)'
    <3>1. stamped' \in Nat
      BY <1>2
    <3>2. \A es \in Seq(Changes) : InOrder(es) => InOrder(es)'
      BY <1>1, <3>1, StillInOrder
    <3>3. PICK es \in Seq(Changes) : es = tap.events
      BY <1>1
    <3>4. InOrder(es)'
      BY <1>5, <3>2, <3>3
    <3> QED BY <2>1, <3>3, <3>4
  <2>3. TapRest'
    BY <1>5, <2>1, <2>2 DEF TapRest
  <2>4. TapHeld'
    BY <1>5, <1>6, <1>31, <2>1 DEF TapHeld
  <2>5. TapWhole'
    <3>1. truth.whole => ~(Len(truth'.held) - 1 <= MaxEvents)
      BY <1>1, <1>3, <1>5, <1>6
    <3> QED BY <1>4, <1>5, <1>6, <1>31, <2>1, <3>1 DEF TapWhole
  <2> QED BY <2>3, <2>4, <2>5 DEF TapInv
<1>7. CASE tap.fault = "none" /\ Len(tap.events) >= MaxEvents
  <2>1. tap' = [tap EXCEPT !.fault = "overflow"]
    BY <1>7 DEF Recorded
  <2>2. /\ tap'.open = tap.open /\ tap'.events = tap.events /\ tap'.gen = tap.gen
        /\ tap'.start = tap.start /\ tap'.fault = "overflow"
    BY <1>1, <2>1 DEF Taps
  <2>3. InOrder(tap.events)'
    <3>1. stamped' \in Nat
      BY <1>2
    <3>2. \A es \in Seq(Changes) : InOrder(es) => InOrder(es)'
      BY <1>1, <3>1, StillInOrder
    <3>3. PICK es \in Seq(Changes) : es = tap.events
      BY <1>1
    <3>4. InOrder(es)'
      BY <1>5, <3>2, <3>3
    <3> QED BY <2>2, <3>3, <3>4
  <2>4. Len(truth.held) = Len(tap.events) + 1
    BY <1>5, <1>7 DEF Traces
  <2>5. TapRest'
    BY <1>5, <2>2, <2>3 DEF TapRest
  <2>6. TapHeld'
    BY <1>5, <1>7, <1>31, <2>2 DEF TapHeld
  <2>7. TapWhole'
    <3>1. ~(Len(truth'.held) - 1 <= MaxEvents)
      BY <1>1, <1>3, <1>7, <2>4
    <3> QED BY <1>4, <1>5, <1>7, <1>31, <2>2, <3>1 DEF TapWhole
  <2> QED BY <2>5, <2>6, <2>7 DEF TapInv
<1>8. CASE tap.fault = "none" /\ ~(Len(tap.events) >= MaxEvents)
  <2>1. tap' = [tap EXCEPT !.events = Append(tap.events, e)]
    BY <1>8 DEF Recorded
  <2>2. /\ tap'.open = tap.open /\ tap'.events = Append(tap.events, e) /\ tap'.gen = tap.gen
        /\ tap'.start = tap.start /\ tap'.fault = "none"
    BY <1>1, <1>8, <2>1 DEF Taps
  <2>3. Len(tap'.events) = Len(tap.events) + 1
    <3>1. \A es \in Seq(Changes) : Len(Append(es, e)) = Len(es) + 1
      <4> HIDE DEF Changes
      <4> QED OBVIOUS
    <3> QED BY <1>1, <2>2, <3>1
  <2>4. InOrder(tap.events)'
    <3>1. \A es \in Seq(Changes) : InOrder(es) => InOrder(Append(es, e))'
      BY <1>1, LongerInOrder
    <3>2. PICK es \in Seq(Changes) : es = tap.events
      BY <1>1
    <3>3. InOrder(Append(es, e))'
      BY <1>5, <3>1, <3>2
    <3> QED BY <2>2, <3>2, <3>3
  <2>5. Len(truth.held) = Len(tap.events) + 1
    BY <1>5, <1>8 DEF Traces
  <2>6. h = [n |-> Result(truth.held[Len(truth.held)].n, e), at |-> e.at]
    BY <1>5, <1>8 DEF h
  <2>7. Traces(tap'.events, truth'.held) /\ truth'.held[1] = truth.held[1]
    <3>1. truth'.held = Append(truth.held, h)
      BY DEF h
    <3> QED BY <1>1, <1>2, <1>5, <1>8, <2>2, <2>6, <3>1, LongerTrace, ZenonT(60)
  <2>8. TapRest'
    <3>1. Len(tap'.events) <= MaxEvents
      <4>1. Len(tap.events) + 1 <= MaxEvents
        <5>1. \A n, k \in Nat : ~(n >= k) => n + 1 <= k
          OBVIOUS
        <5> QED BY <1>1, <1>8, <5>1
      <4> QED BY <2>3, <4>1
    <3> QED BY <1>5, <2>2, <2>4, <3>1 DEF TapRest
  <2>9. TapHeld'
    BY <1>5, <1>8, <1>31, <2>2, <2>7 DEF TapHeld
  <2>10. TapWhole'
    <3>1. Len(truth'.held) - 1 <= MaxEvents
      BY <1>1, <1>3, <1>8, <2>5
    <3> QED BY <1>4, <1>5, <1>8, <1>31, <2>2, <3>1 DEF TapWhole
  <2> QED BY <2>8, <2>9, <2>10 DEF TapInv
<1> QED BY <1>6, <1>7, <1>8

LEMMA ArrivalTap ==
  ASSUME Typed, BookInv, TapInv, NEW at, FrameArrives(at)
  PROVE  TapInv'
<1>1. /\ at \in stamped .. now /\ stamped' = at /\ UNCHANGED audit
      /\ Applied(at) \/ Replaced(at) \/ Passed(at)
  BY Arrives
<1>2. at \in Nat /\ stamped \in Nat /\ stamped <= at /\ ClockTyped
  BY <1>1 DEF Typed, ClockTyped
<1>3. wire # << >> /\ Head(wire) \in Frames /\ wire \in Seq(Frames)
  BY Arrives, HeadIs DEF Typed, ExchangeTyped
<1>4. Head(wire).n \in Int /\ Head(wire).kind \in {"delta", "snapshot", "crossed"}
  BY <1>3 DEF Frames
<1>5. /\ tap \in Taps /\ truth \in Truths /\ book \in Books /\ tap.events \in Seq(Changes)
      /\ tap.fault \in {"none", "no_book", "stale", "overflow"} /\ tap.open \in BOOLEAN
  BY DEF Typed, AuditTyped, ExchangeTyped, Taps
<1>6. truth.held \in Seq(Held) /\ Len(truth.held) \in Nat /\ truth.whole \in BOOLEAN
  BY <1>5 DEF Truths
<1>7. book'.n \in Int /\ book'.gen = book.gen
  <2>1. book' \in Books
    BY ArrivalTyped DEF Typed, ExchangeTyped
  <2>2. book'.gen = book.gen
    BY <1>1, <1>5 DEF Applied, Replaced, Passed, Books
  <2> QED BY <2>1, <2>2 DEF Books
<1>8. InOrder(tap.events)'  \/ tap' # tap
  <2>1. \A es \in Seq(Changes) : InOrder(es) => InOrder(es)'
    BY <1>1, <1>2, StillInOrder
  <2>2. PICK es \in Seq(Changes) : es = tap.events
    BY <1>5
  <2>3. InOrder(es)'
    BY <2>1, <2>2 DEF TapInv, TapRest
  <2> QED BY <2>2, <2>3
<1>9. CASE ~tap.open
  <2>1. tap' = tap
    BY <1>1, <1>9 DEF Applied, Replaced, Passed, Recorded
  <2> QED BY <1>1, <1>8, <1>9, <2>1 DEF TapInv, TapRest, TapHeld, TapWhole
<1>10. ASSUME tap.open, Applied(at) PROVE TapInv'
  <2> DEFINE e == [kind |-> "delta", n |-> Head(wire).n, at |-> at]
  <2>1. e \in Changes /\ e.at = at /\ tap' = Recorded(e, FALSE)
    BY <1>2, <1>4, <1>10 DEF Changes, Applied
  <2>2. /\ Fresh /\ book'.on = book.on /\ book'.fresh = book.fresh
        /\ book'.n = book.n + Head(wire).n
    BY <1>5, <1>10 DEF Applied, Sound, Books
  <2>3. book'.n = Result(book.n, e)
    BY <2>2 DEF Result
  <2>4. /\ truth'.whole = truth.whole
        /\ truth'.held = Append(truth.held, [n |-> book'.n, at |-> at])
    BY <1>5, <1>6, <1>10 DEF Applied, Seen, Noted, Truths
  <2> HIDE DEF e
  <2> QED BY <1>1, <1>2, <1>7, <1>10, <2>1, <2>2, <2>3, <2>4, Records DEF Fresh
<1>11. ASSUME tap.open, Replaced(at), Sound PROVE TapInv'
  <2> DEFINE e == [kind |-> "snapshot", n |-> Head(wire).n, at |-> at]
  <2>1. e \in Changes /\ e.at = at /\ tap' = Recorded(e, FALSE)
    <3>1. tap' = Recorded(e, ~Sound)
      BY <1>11 DEF Replaced
    <3> QED BY <1>2, <1>4, <1>11, <3>1 DEF Changes, Recorded
  <2>2. /\ Fresh /\ book'.on /\ book'.fresh /\ book'.n = Head(wire).n
    BY <1>5, <1>11 DEF Replaced, Sound, Books
  <2>3. book'.n = Result(book.n, e)
    BY <2>2 DEF Result
  <2>4. /\ truth'.whole = truth.whole
        /\ truth'.held = Append(truth.held, [n |-> book'.n, at |-> at])
    BY <1>5, <1>6, <1>11 DEF Replaced, Seen, Noted, Truths
  <2> HIDE DEF e
  <2> QED BY <1>1, <1>2, <1>7, <1>11, <2>1, <2>2, <2>3, <2>4, Records
<1>12. ASSUME tap.open, Replaced(at), ~Sound PROVE TapInv'
  <2> DEFINE e == [kind |-> "snapshot", n |-> Head(wire).n, at |-> at]
  <2>1. tap' = IF tap.fault # "none" THEN tap ELSE [tap EXCEPT !.fault = "stale"]
    BY <1>12 DEF Replaced, Recorded
  <2>2. /\ tap'.open /\ tap'.events = tap.events /\ tap'.start = tap.start
        /\ tap'.fault # "none" /\ (tap'.fault = tap.fault \/ (tap'.fault = "stale" /\ tap.fault = "none"))
    BY <1>5, <1>12, <2>1 DEF Taps
  <2>3. truth'.whole = FALSE /\ truth'.held = Append(truth.held, [n |-> book'.n, at |-> at])
    BY <1>5, <1>6, <1>12 DEF Replaced, Seen, Noted, Truths
  <2>4. Len(truth'.held) >= 1
    <3>1. [n |-> book'.n, at |-> at] \in Held
      BY <1>2, <1>7 DEF Held
    <3> HIDE DEF Held
    <3> QED BY <1>6, <2>3, <3>1
  <2>5. InOrder(tap.events)'
    <3>1. \A es \in Seq(Changes) : InOrder(es) => InOrder(es)'
      BY <1>1, <1>2, StillInOrder
    <3>2. PICK es \in Seq(Changes) : es = tap.events
      BY <1>5
    <3>3. InOrder(es)'
      BY <3>1, <3>2 DEF TapInv, TapRest
    <3> QED BY <2>2, <3>2, <3>3
  <2>6. TapRest'
    BY <1>1, <1>12, <2>2, <2>5 DEF TapInv, TapRest
  <2>7. TapHeld'
    BY <1>12, <2>2, <2>4 DEF TapInv, TapHeld
  <2>8. TapWhole'
    BY <2>2, <2>3 DEF TapWhole
  <2> QED BY <2>6, <2>7, <2>8 DEF TapInv
<1>13. ASSUME tap.open, Passed(at) PROVE TapInv'
  <2> DEFINE fr == Sound /\ Head(wire).kind # "crossed"
  <2>1. tap' = tap /\ truth'.held = truth.held /\ truth'.whole = (truth.whole /\ fr)
    BY <1>5, <1>6, <1>13 DEF Passed, Seen, Noted, Truths
  <2>2. book'.n = book.n /\ book'.fresh = fr /\ (book.on => book'.on)
    BY <1>5, <1>13 DEF Passed, Books
  <2>3. Fresh' => fr /\ Fresh
    BY <2>2 DEF Fresh, Sound
  <2>4. fr => Fresh'
    BY <2>2 DEF Fresh, Sound
  <2> HIDE DEF fr
  <2>5. TapRest'
    BY <1>1, <1>8, <2>1 DEF TapInv, TapRest
  <2>6. TapHeld'
    BY <2>1 DEF TapInv, TapHeld
  <2>7. TapWhole'
    BY <1>7, <2>1, <2>2, <2>3, <2>4 DEF TapInv, TapWhole
  <2> QED BY <2>5, <2>6, <2>7 DEF TapInv
<1> QED BY <1>1, <1>9, <1>10, <1>11, <1>12, <1>13

LEMMA SameTap ==
  ASSUME TapInv, UNCHANGED <<tap, stamped, truth, book>>, audit'.phase = "idle" <=> audit.phase = "idle"
  PROVE  TapInv'
BY DEF TapInv, TapRest, TapHeld, TapWhole, InOrder, Fresh

LEMMA StaleTap ==
  ASSUME Typed, TapInv, UNCHANGED <<tap, stamped, audit>>, book'.fresh = FALSE,
         truth' = Noted([truth EXCEPT !.whole = FALSE])
  PROVE  TapInv'
<1>1. truth \in Truths
  BY DEF Typed, AuditTyped
<1>2. ~Fresh'
  BY DEF Fresh
<1>3. CASE tap.open
  <2>1. truth'.held = truth.held /\ truth'.whole = FALSE
    BY <1>1, <1>3 DEF Noted, Truths
  <2> QED BY <1>2, <1>3, <2>1 DEF TapInv, TapRest, TapHeld, TapWhole, InOrder
<1>4. CASE ~tap.open
  BY <1>4 DEF TapInv, TapRest, TapHeld, TapWhole, InOrder
<1> QED BY <1>3, <1>4

LEMMA ClosedTap ==
  ASSUME tap' = NoTap, audit' = NoAudit
  PROVE  TapInv'
<1>1. /\ tap'.open = FALSE /\ tap'.events = << >> /\ audit'.phase = "idle"
  BY DEF NoTap, NoAudit
<1>2. Len(<< >>) <= MaxEvents /\ DOMAIN << >> = {}
  BY AuditAssumption
<1>3. InOrder(tap.events)'
  BY <1>1, <1>2 DEF InOrder
<1> QED BY <1>1, <1>2, <1>3 DEF TapInv, TapRest, TapHeld, TapWhole

(* A fresh book is none of the values that stand for no book. *)
LEMMA FreshIsCount ==
  ASSUME Typed, PathInv, Fresh
  PROVE  book.n \in 0 .. MaxValue
<1>1. PICK v \in [0 .. Len(wire) -> 0 .. MaxValue] : Leads(v)
  BY DEF PathInv
<1>2. Len(wire) \in Nat
  BY DEF Typed, ExchangeTyped
<1>3. 0 \in 0 .. Len(wire)
  BY <1>2
<1> QED BY <1>1, <1>3 DEF Leads

LEMMA OpenedTap ==
  ASSUME Typed, BookInv, PathInv, AuditBegins
  PROVE  TapInv'
<1>1. /\ UNCHANGED <<now, net>> /\ audit'.phase = "lead"
      /\ tap' = (IF carried THEN OpenTap ELSE [NoTap EXCEPT !.open = TRUE])
      /\ truth'.whole = (carried /\ Fresh) /\ truth'.held = <<[n |-> book.n, at |-> now]>>
  BY DEF AuditBegins, NoAudit, NoTruth
<1>2. Fresh => carried
  BY DEF Fresh, BookInv
<1>3. /\ tap'.open /\ tap'.events = << >>
      /\ ~Fresh => tap'.start = None /\ tap'.fault = "no_book"
      /\ Fresh => tap'.start = book.n /\ tap'.fault = "none" /\ tap'.gen = book.gen
  BY <1>1, <1>2 DEF OpenTap, NoTap
<1>4. Len(<< >>) = 0 /\ MaxEvents \in Nat /\ DOMAIN << >> = {}
  BY AuditAssumption
<1>5. InOrder(tap.events)'
  BY <1>3, <1>4 DEF InOrder
<1>6. UNCHANGED book /\ (Fresh' <=> Fresh)
  BY <1>1 DEF net, Fresh
<1>7. Len(truth'.held) = 1 /\ truth'.held[1].n = book.n
  BY <1>1
<1>8. Traces(tap'.events, truth'.held)
  <2>1. \A i \in 1 .. 0 : FALSE
    OBVIOUS
  <2> QED BY <1>3, <1>4, <1>7, <2>1 DEF Traces
<1>9. Fresh => book.n # None
  BY FreshIsCount DEF None
<1>10. TapRest'
  BY <1>1, <1>3, <1>4, <1>5 DEF TapRest
<1>11. TapHeld'
  BY <1>3, <1>7, <1>8, <1>9 DEF TapHeld
<1>12. TapWhole'
  <2>1. Len(truth'.held) - 1 <= MaxEvents
    BY <1>4, <1>7
  <2> QED BY <1>1, <1>2, <1>3, <1>6, <1>7, <2>1 DEF TapWhole
<1> QED BY <1>10, <1>11, <1>12 DEF TapInv

LEMMA TapNext ==
  ASSUME Typed, BookInv, PacedInv, QueueInv, TapInv, PathInv, [Next]_vars
  PROVE  TapInv'
<1>1. CASE Tick \/ (\E d \in {-1, 1} : ExchangeChanges(d) \/ FrameLost(d)) \/ ExchangeAnswers
           \/ MarketAdded \/ OtherAsks \/ UNCHANGED vars
  <2>1. UNCHANGED <<tap, stamped, truth, book, audit>>
    BY <1>1 DEF Tick, ExchangeChanges, FrameLost, ExchangeAnswers, MarketAdded, OtherAsks, vars, net
  <2> QED BY <2>1, SameTap
<1>2. ASSUME NEW at \in 0 .. MaxNow, FrameArrives(at) PROVE TapInv'
  BY <1>2, ArrivalTap
<1>3. CASE ConnectionLost
  <2>1. book'.fresh = FALSE
    BY <1>3 DEF ConnectionLost, Typed, ExchangeTyped, Books
  <2> QED BY <1>3, <2>1, StaleTap DEF ConnectionLost
<1>4. CASE MarketDropped
  <2>1. book'.fresh = FALSE
    BY <1>4 DEF MarketDropped
  <2> QED BY <1>4, <2>1, StaleTap DEF MarketDropped
<1>5. CASE Acquires
  <2>1. /\ UNCHANGED <<tap, stamped, truth, book>> /\ limiter.queue # << >>
        /\ \/ audit' = audit
           \/ Head(limiter.queue) = Auditor /\ audit' = [audit EXCEPT !.phase = "sent"]
    BY <1>5 DEF Acquires, net
  <2>2. audit \in Audits
    BY DEF Typed, AuditTyped
  <2>3. CASE Head(limiter.queue) = Auditor /\ audit' = [audit EXCEPT !.phase = "sent"]
    <3>1. audit.phase = "queued"
      <4>1. 1 \in DOMAIN limiter.queue /\ limiter.queue[1] = Auditor
        <5>1. limiter.queue \in Seq({Auditor, Other})
          BY DEF PacedInv, LimiterTyped, Limiters
        <5> QED BY <2>1, <2>3, <5>1
      <4> QED BY <4>1 DEF QueueInv
    <3>2. audit'.phase = "sent"
      BY <2>2, <2>3 DEF Audits
    <3> QED BY <2>1, <3>1, <3>2, SameTap
  <2>4. CASE audit' = audit
    BY <2>1, <2>4, SameTap
  <2> QED BY <2>1, <2>3, <2>4
<1>6. CASE AuditBegins
  BY <1>6, OpenedTap
<1>7. CASE LeadPasses \/ ReplyArrives
  <2>1. UNCHANGED <<tap, stamped, truth, book>> /\ audit.phase # "idle" /\ audit'.phase # "idle"
    BY <1>7 DEF LeadPasses, ReplyArrives, net, Typed, AuditTyped, Audits
  <2> QED BY <2>1, SameTap
<1>8. CASE ExchangeReads
  <2>1. UNCHANGED <<tap, stamped, book>> /\ audit.phase # "idle" /\ audit'.phase # "idle"
        /\ truth'.held = truth.held /\ truth'.whole = truth.whole
    BY <1>8 DEF ExchangeReads, net, Typed, AuditTyped, Audits, Truths
  <2> QED BY <2>1 DEF TapInv, TapRest, TapHeld, TapWhole, InOrder, Fresh
<1>9. CASE AuditFails \/ AuditEnds
  BY <1>9, ClosedTap DEF AuditFails, AuditEnds
<1> QED BY <1>1, <1>2, <1>3, <1>4, <1>5, <1>6, <1>7, <1>8, <1>9 DEF Next
-----------------------------------------------------------------------------
(* The limiter and the verdict. *)

LEMMA ClockNext ==
  ASSUME Typed, [Next]_vars
  PROVE  now' = now \/ now' = now + 1
<1>1. CASE Tick
  BY <1>1 DEF Tick
<1>2. CASE Next /\ ~Tick
  BY <1>2, Zenon DEF Next, ExchangeChanges, FrameLost, ExchangeAnswers, FrameArrives, ConnectionLost,
     MarketDropped, MarketAdded, Acquires, OtherAsks, AuditBegins, LeadPasses, ExchangeReads,
     ReplyArrives, AuditFails, AuditEnds
<1>3. CASE UNCHANGED vars
  BY <1>3 DEF vars
<1> QED BY <1>1, <1>2, <1>3

LEMMA LimiterNext ==
  ASSUME Typed, Typed', PacedInv, QueueInv, [Next]_vars
  PROVE  PacedInv' /\ QueueInv'
<1>1. /\ limiter \in Limiters /\ limiter.queue \in Seq({Auditor, Other}) /\ limiter.until \in Int
      /\ audit \in Audits /\ ClockTyped /\ ClockTyped' /\ now \in Nat /\ now' \in Nat
  BY DEF PacedInv, LimiterTyped, Limiters, Typed, AuditTyped, ClockTyped
<1>2. now <= now'
  BY <1>1, ClockNext
<1>3. ASSUME UNCHANGED <<limiter, sends>>, audit'.phase = "queued" <=> audit.phase = "queued"
      PROVE  PacedInv' /\ QueueInv'
  <2>1. limiter' = [limiter EXCEPT !.queue = limiter.queue, !.until = limiter.until]
    BY <1>1, <1>3 DEF Limiters
  <2>2. PacedInv'
    BY <1>1, <1>2, <1>3, <2>1, WaitingPaced
  <2> QED BY <1>3, <2>2 DEF QueueInv
<1>4. ASSUME UNCHANGED <<now, sends>>, NEW who \in {Auditor, Other}, limiter' = Queued(who),
             IF who = Auditor THEN audit.phase = "lead" /\ audit'.phase = "queued"
                              ELSE audit'.phase = audit.phase
      PROVE  PacedInv' /\ QueueInv'
  <2> DEFINE q == Append(limiter.queue, who)
  <2>1. /\ q \in Seq({Auditor, Other}) /\ DOMAIN q = 1 .. Len(limiter.queue) + 1
        /\ q[Len(limiter.queue) + 1] = who /\ Len(limiter.queue) \in Nat
        /\ \A i \in 1 .. Len(limiter.queue) : q[i] = limiter.queue[i]
        /\ q # << >>
    BY <1>1
  <2>2. limiter' = [limiter EXCEPT !.queue = q, !.until = limiter.until]
    BY <1>1, <1>4 DEF Queued, Limiters
  <2> HIDE DEF q
  <2>3. PacedInv'
    BY <1>1, <1>2, <1>4, <2>1, <2>2, WaitingPaced
  <2>4. limiter'.queue = q /\ limiter'.until = limiter.until
    BY <1>1, <2>2 DEF Limiters
  <2>5. DOMAIN limiter.queue = 1 .. Len(limiter.queue)
    BY <1>1
  <2>6. \A i \in DOMAIN q : i \in DOMAIN limiter.queue \/ i = Len(limiter.queue) + 1
    BY <2>1, <2>5
  <2>7. Auditor # Other
    BY DEF Auditor, Other
  <2>8. CASE who = Other
    <3>1. \A i \in DOMAIN q : q[i] = Auditor <=> i \in DOMAIN limiter.queue /\ limiter.queue[i] = Auditor
      BY <2>1, <2>5, <2>6, <2>7, <2>8
    <3>2. DOMAIN limiter.queue \subseteq DOMAIN q
      BY <2>1, <2>5
    <3> QED BY <1>4, <2>1, <2>3, <2>4, <2>7, <2>8, <3>1, <3>2 DEF QueueInv
  <2>9. CASE who = Auditor
    <3>1. \A i \in DOMAIN limiter.queue : limiter.queue[i] # Auditor
      BY <1>4, <2>9 DEF QueueInv
    <3>2. \A i \in DOMAIN q : q[i] = Auditor <=> i = Len(limiter.queue) + 1
      BY <2>1, <2>5, <2>6, <2>9, <3>1
    <3>3. Len(limiter.queue) + 1 \in DOMAIN q
      BY <2>1
    <3> QED BY <1>4, <2>1, <2>3, <2>4, <2>9, <3>2, <3>3 DEF QueueInv
  <2> QED BY <2>8, <2>9
<1>5. CASE \/ Tick \/ (\E d \in {-1, 1} : ExchangeChanges(d) \/ FrameLost(d)) \/ ExchangeAnswers
           \/ (\E at \in 0 .. MaxNow : FrameArrives(at)) \/ ConnectionLost \/ MarketDropped
           \/ MarketAdded \/ UNCHANGED vars
  <2>1. UNCHANGED <<limiter, sends, audit>>
    BY <1>5 DEF Tick, ExchangeChanges, FrameLost, ExchangeAnswers, FrameArrives, ConnectionLost,
       MarketDropped, MarketAdded, vars
  <2> QED BY <1>3, <2>1
<1>6. CASE Acquires
  <2>1. /\ limiter.queue # << >> /\ UNCHANGED <<now, net>>
        /\ \/ /\ Refilled.tokens >= Cost * Second /\ sends' = Append(sends, now)
              /\ limiter' = [Refilled EXCEPT !.tokens = @ - Cost * Second, !.queue = Tail(@), !.until = None]
              /\ audit' = IF Head(limiter.queue) = Auditor THEN [audit EXCEPT !.phase = "sent"] ELSE audit
           \/ /\ ~(Refilled.tokens >= Cost * Second) /\ UNCHANGED <<sends, audit>>
              /\ limiter' = [Refilled EXCEPT !.until = now + Wait(Refilled)]
    BY <1>6 DEF Acquires
  <2>2. /\ Refilled \in Limiters /\ Refilled.queue = limiter.queue /\ LimiterTyped
        /\ Refilled.tokens \in Int
    BY <1>1, RefilledIs DEF PacedInv, Limiters
  <2>3. CASE Refilled.tokens >= Cost * Second
    <3>1. PacedInv'
      BY <1>1, <2>1, <2>3, SendsPaced
    <3>2. limiter'.queue = Tail(limiter.queue) /\ limiter'.until = None
      BY <2>1, <2>2, <2>3 DEF Limiters
    <3>3. /\ Len(limiter.queue) \in Nat \ {0} /\ DOMAIN limiter.queue = 1 .. Len(limiter.queue)
          /\ Tail(limiter.queue) \in Seq({Auditor, Other})
          /\ DOMAIN Tail(limiter.queue) = 1 .. Len(limiter.queue) - 1
          /\ \A i \in 1 .. Len(limiter.queue) - 1 : Tail(limiter.queue)[i] = limiter.queue[i + 1]
          /\ Head(limiter.queue) = limiter.queue[1]
      BY <1>1, <2>1
    <3>4. \A i \in 1 .. Len(limiter.queue) - 1 : i \in Nat /\ i + 1 \in DOMAIN limiter.queue
      BY <3>3
    <3>5. 1 \in DOMAIN limiter.queue
      BY <3>3
    <3>6. \A i, j \in DOMAIN limiter'.queue :
            limiter'.queue[i] = Auditor /\ limiter'.queue[j] = Auditor => i = j
      <4> SUFFICES ASSUME NEW i \in 1 .. Len(limiter.queue) - 1, NEW j \in 1 .. Len(limiter.queue) - 1,
                          limiter.queue[i + 1] = Auditor, limiter.queue[j + 1] = Auditor
                   PROVE  i = j
        BY <3>2, <3>3
      <4>1. i + 1 = j + 1
        BY <3>4 DEF QueueInv
      <4> QED BY <3>4, <4>1
    <3>7. CASE Head(limiter.queue) = Auditor
      <4>1. audit'.phase = "sent"
        BY <1>1, <2>1, <2>3, <3>7 DEF Audits
      <4>2. \A i \in 1 .. Len(limiter.queue) - 1 : limiter.queue[i + 1] # Auditor
        <5> SUFFICES ASSUME NEW i \in 1 .. Len(limiter.queue) - 1, limiter.queue[i + 1] = Auditor PROVE FALSE
          OBVIOUS
        <5>1. i + 1 = 1 /\ i >= 1
          BY <3>3, <3>4, <3>5, <3>7 DEF QueueInv
        <5> QED BY <3>4, <5>1
      <4>3. \A i \in DOMAIN limiter'.queue : limiter'.queue[i] # Auditor
        BY <3>2, <3>3, <4>2
      <4> QED BY <3>1, <3>2, <3>6, <4>1, <4>3 DEF QueueInv
    <3>8. CASE Head(limiter.queue) # Auditor
      <4>1. audit' = audit
        BY <2>1, <2>3, <3>8
      <4>2. ASSUME NEW k \in DOMAIN limiter.queue, limiter.queue[k] = Auditor
            PROVE  \E i \in DOMAIN limiter'.queue : limiter'.queue[i] = Auditor
        <5>1. k # 1 /\ k - 1 \in 1 .. Len(limiter.queue) - 1 /\ (k - 1) + 1 = k
          BY <3>3, <3>8, <4>2
        <5> QED BY <3>2, <3>3, <4>2, <5>1
      <4>3. ASSUME NEW i \in DOMAIN limiter'.queue, limiter'.queue[i] = Auditor
            PROVE  \E k \in DOMAIN limiter.queue : limiter.queue[k] = Auditor
        BY <3>2, <3>3, <3>4, <4>3
      <4> QED BY <3>1, <3>2, <3>6, <4>1, <4>2, <4>3 DEF QueueInv
    <3> QED BY <3>1, <3>7, <3>8
  <2>4. CASE ~(Refilled.tokens >= Cost * Second)
    <3>1. Refilled.tokens < Cost * Second
      BY <2>2, <2>4, Amounts
    <3>2. PacedInv'
      BY <1>1, <2>1, <2>4, <3>1, SleepsPaced
    <3>3. limiter'.queue = limiter.queue
      BY <2>1, <2>2, <2>4 DEF Limiters
    <3> QED BY <2>1, <2>4, <3>2, <3>3 DEF QueueInv
  <2> QED BY <2>3, <2>4
<1>7. CASE OtherAsks
  BY <1>4, <1>7 DEF OtherAsks, Auditor, Other
<1>8. CASE AuditBegins \/ ExchangeReads \/ ReplyArrives \/ AuditEnds
  <2>1. UNCHANGED <<limiter, sends>> /\ audit.phase # "queued" /\ audit'.phase # "queued"
    <3>1. CASE AuditBegins
      BY <3>1 DEF AuditBegins, NoAudit
    <3>2. CASE ExchangeReads
      BY <1>1, <3>2 DEF ExchangeReads, Audits
    <3>3. CASE ReplyArrives
      BY <1>1, <3>3 DEF ReplyArrives, Audits
    <3>4. CASE AuditEnds
      <4>1. UNCHANGED <<limiter, sends>> /\ audit.phase = "settle" /\ audit' = NoAudit
        BY <3>4 DEF AuditEnds
      <4> QED BY <4>1 DEF NoAudit
    <3> QED BY <1>8, <3>1, <3>2, <3>3, <3>4
  <2> QED BY <1>3, <2>1
<1>9. CASE LeadPasses
  BY <1>1, <1>4, <1>9 DEF LeadPasses, Audits
<1>10. CASE AuditFails
  <2>1. audit'.phase = "idle" /\ UNCHANGED <<now, sends>>
    BY <1>10 DEF AuditFails, NoAudit
  <2>2. CASE audit.phase # "queued"
    <3>1. UNCHANGED limiter
      BY <1>10, <2>2 DEF AuditFails
    <3> QED BY <1>3, <2>1, <2>2, <3>1
  <2>3. CASE audit.phase = "queued"
    <3> DEFINE k == Turn(Auditor)
               q == RemoveAt(limiter.queue, k)
               u == IF k = 1 THEN None ELSE limiter.until
    <3>1. limiter' = [limiter EXCEPT !.queue = q, !.until = u]
      BY <1>10, <2>3 DEF AuditFails
    <3>2. k \in DOMAIN limiter.queue /\ limiter.queue[k] = Auditor
      BY <2>3 DEF QueueInv, Turn
    <3> HIDE DEF k
    <3>3. /\ q \in Seq({Auditor, Other}) /\ \A i \in DOMAIN q : q[i] # Auditor
          /\ k # 1 => q # << >>
      BY <1>1, <3>2, OneLess DEF QueueInv
    <3> HIDE DEF q
    <3>4. u \in {limiter.until, None}
      OBVIOUS
    <3>5. u # None => q # << >>
      BY <3>3
    <3> HIDE DEF u
    <3>6. PacedInv'
      BY <1>1, <1>2, <2>1, <3>1, <3>3, <3>4, WaitingPaced
    <3>7. limiter'.queue = q /\ limiter'.until = u
      BY <1>1, <3>1 DEF Limiters
    <3> QED BY <2>1, <3>3, <3>5, <3>6, <3>7 DEF QueueInv
  <2> QED BY <2>2, <2>3
<1> QED BY <1>5, <1>6, <1>7, <1>8, <1>9, <1>10 DEF Next

(* A verdict stays what it was concluded from until the next audit begins. *)
Frozen == UNCHANGED <<verdict, truth>>

LEMMA VerdictStays ==
  ASSUME Typed, PacedInv, QueueInv, TapInv, VerdictInv, [Next]_vars, ~AuditEnds, verdict'.outcome # "none"
  PROVE  Frozen /\ audit'.phase = "idle"
<1>1. audit \in Audits /\ (audit.phase = "idle" => ~tap.open)
  BY DEF Typed, AuditTyped, TapInv, TapRest
<1>2. CASE verdict' = verdict
  <2>1. audit.phase = "idle" /\ ~tap.open
    BY <1>1, <1>2 DEF VerdictInv
  <2>2. CASE Tick \/ (\E d \in {-1, 1} : ExchangeChanges(d) \/ FrameLost(d)) \/ ExchangeAnswers
             \/ ConnectionLost \/ MarketDropped \/ MarketAdded \/ OtherAsks \/ UNCHANGED vars
    BY <1>2, <2>1, <2>2 DEF Tick, ExchangeChanges, FrameLost, ExchangeAnswers, ConnectionLost,
       MarketDropped, MarketAdded, OtherAsks, vars, Noted, Frozen
  <2>3. ASSUME NEW at \in 0 .. MaxNow, FrameArrives(at) PROVE Frozen /\ audit'.phase = "idle"
    BY <1>2, <2>1, <2>3, Arrives DEF Applied, Replaced, Passed, Seen, Noted, Frozen
  <2>4. CASE Acquires
    <3>1. /\ limiter.queue # << >> /\ truth' = truth
          /\ audit' = audit \/ Head(limiter.queue) = Auditor
      BY <2>4 DEF Acquires
    <3>2. limiter.queue \in Seq({Auditor, Other})
      BY DEF PacedInv, LimiterTyped, Limiters
    <3>3. 1 \in DOMAIN limiter.queue /\ Head(limiter.queue) = limiter.queue[1]
      BY <3>1, <3>2
    <3>4. Head(limiter.queue) # Auditor
      BY <2>1, <3>3 DEF QueueInv
    <3> QED BY <1>2, <2>1, <3>1, <3>4 DEF Frozen
  <2>5. ~AuditBegins
    BY <1>2, <2>1 DEF AuditBegins, NoVerdict
  <2>6. ~LeadPasses /\ ~ExchangeReads /\ ~ReplyArrives /\ ~AuditFails
    BY <2>1 DEF LeadPasses, ExchangeReads, ReplyArrives, AuditFails
  <2> QED BY <2>2, <2>3, <2>4, <2>5, <2>6 DEF Next
<1>3. CASE verdict' # verdict
  <2>1. AuditBegins
    BY <1>3, Zenon DEF Next, Tick, ExchangeChanges, FrameLost, ExchangeAnswers, FrameArrives,
       ConnectionLost, MarketDropped, MarketAdded, Acquires, OtherAsks, LeadPasses, ExchangeReads,
       ReplyArrives, AuditFails, vars
  <2> QED BY <2>1 DEF AuditBegins, NoVerdict
<1> QED BY <1>2, <1>3

LEMMA SettledRead ==
  ASSUME Typed, TapInv, PathInv, audit.phase = "settle", tap.open, truth.whole,
         truth.read <= truth.arrived
  PROVE  \E i \in 1 .. Len(truth.held) : truth.held[i].n = audit.value
<1>1. PICK v \in [0 .. Len(wire) -> 0 .. MaxValue] : Coming(v)
  BY DEF PathInv
<1> DEFINE k == truth.read - truth.arrived
<1>2. k \in Int /\ k <= 0 /\ Len(wire) \in Nat
  BY DEF Typed, AuditTyped, ExchangeTyped, Truths
<1>3. k \notin 1 .. Len(wire) /\ k # Len(wire) + 1 /\ \A j \in 1 .. Len(wire) : ~(j <= k)
  BY <1>2
<1> QED BY <1>1, <1>3 DEF Coming

LEMMA VerdictNext ==
  ASSUME Typed, Typed', PacedInv, QueueInv, TapInv, VerdictInv, PathInv, VerdictTrue, NoFalseAlarm,
         [Next]_vars
  PROVE  VerdictInv' /\ VerdictTrue' /\ NoFalseAlarm'
<1>1. CASE verdict'.outcome = "none"
  BY <1>1 DEF VerdictInv, VerdictTrue, NoFalseAlarm
<1>2. CASE verdict'.outcome # "none" /\ ~AuditEnds
  <2>1. Frozen /\ audit'.phase = "idle"
    BY <1>2, VerdictStays
  <2> QED BY <2>1 DEF Frozen, VerdictInv, VerdictTrue, NoFalseAlarm
<1>3. CASE AuditEnds
  <2> DEFINE v == Classify(Window)
             held == truth.held
             N == Len(held) - 1
             reply == Cardinality({i \in 1 .. N : held[i + 1].at <= audit.reply})
             matches == {i \in 0 .. N : held[i + 1].n = audit.value}
  <2>1. audit' = NoAudit /\ truth' = truth /\ audit.phase = "settle"
        /\ verdict' = [outcome |-> v.outcome, index |-> v.index, value |-> audit.value, reply |-> audit.reply]
    BY <1>3 DEF AuditEnds
  <2>2. Judged(v, held, truth.whole)
    BY <2>1, Judges
  <2> HIDE DEF v
  <2>3. /\ verdict'.outcome = v.outcome /\ verdict'.index = v.index /\ verdict'.value = audit.value
        /\ verdict'.reply = audit.reply
    BY <2>1
  <2>4. VerdictInv'
    BY <2>1 DEF VerdictInv, NoAudit
  <2>5. CASE ~truth.whole \/ N > MaxEvents
    <3>1. v.outcome = "undecidable"
      BY <2>2, <2>5 DEF Judged
    <3>2. VerdictTrue'
      BY <2>1, <2>3, <2>5, <3>1 DEF VerdictTrue
    <3> QED BY <2>3, <2>4, <3>1, <3>2 DEF NoFalseAlarm
  <2>6. CASE ~(~truth.whole \/ N > MaxEvents)
    <3>1. /\ v.outcome = IF reply \in matches THEN "exact"
                         ELSE IF matches = {} THEN "inconsistent" ELSE "consistent"
          /\ Nearest(v.index, matches, reply)
      BY <2>2, <2>6 DEF Judged
    <3>2. VerdictTrue'
      <4> QED BY <2>1, <2>3, <2>6, <3>1, ZenonT(60) DEF VerdictTrue, Nearest
    <3>3. NoFalseAlarm'
      <4> SUFFICES ASSUME verdict'.outcome = "inconsistent", ~(truth'.arrived < truth'.read) PROVE FALSE
        BY DEF NoFalseAlarm
      <4>1. matches = {}
        BY <2>3, <3>1
      <4>2. truth.read <= truth.arrived
        BY <2>1 DEF Typed, AuditTyped, Truths
      <4>3. tap.open /\ truth.whole
        BY <2>1, <2>6 DEF TapInv, TapRest
      <4>4. PICK i \in 1 .. Len(held) : held[i].n = audit.value
        BY <2>1, <4>2, <4>3, SettledRead
      <4>5. Len(held) \in Nat
        BY DEF Typed, AuditTyped, Truths
      <4>6. i - 1 \in 0 .. N /\ (i - 1) + 1 = i
        BY <4>5
      <4> QED BY <4>1, <4>4, <4>6
    <3> QED BY <2>4, <3>2, <3>3
  <2> QED BY <2>5, <2>6
<1> QED BY <1>1, <1>2, <1>3
-----------------------------------------------------------------------------
(* The frames under way. *)

Paths == [0 .. Len(wire) -> 0 .. MaxValue]

LEMMA PathSame ==
  ASSUME PathInv, UNCHANGED net,
         \A v \in Paths : Leads(v) /\ Coming(v) => Coming(v)'
  PROVE  PathInv'
<1>1. PICK v \in Paths : Leads(v) /\ Coming(v)
  BY DEF PathInv, Paths
<1>2. Leads(v)'
  BY <1>1 DEF Leads, net, Fresh
<1>3. Coming(v)'
  BY <1>1
<1>4. v \in Paths'
  BY <1>1 DEF Paths, net
<1> QED BY <1>2, <1>3, <1>4 DEF PathInv, Paths

LEMMA PathLonger ==
  ASSUME Typed, PathInv, NEW kind \in {"delta", "snapshot", "crossed"}, NEW n \in Int,
         Len(wire) < MaxWire, wire' = Append(wire, Frame(kind, n)), exch' \in 0 .. MaxValue, hole' = FALSE,
         UNCHANGED <<book, carried, tap, audit, truth>>,
         kind = "snapshot" => n = exch', kind = "delta" => carried /\ (~hole => exch' = exch + n)
  PROVE  PathInv'
<1>1. PICK v \in Paths : Leads(v) /\ Coming(v)
  BY DEF PathInv, Paths
<1> DEFINE N == Len(wire)
<1>2. /\ N \in Nat /\ Len(wire') = N + 1 /\ wire'[N + 1] = Frame(kind, n)
      /\ \A i \in 1 .. N : wire'[i] = wire[i]
  BY WireTyped DEF Typed, ExchangeTyped
<1>3. PICK w : w = [i \in 0 .. N + 1 |-> IF i <= N THEN v[i] ELSE exch']
  OBVIOUS
<1>4. /\ w \in [0 .. N + 1 -> 0 .. MaxValue] /\ w[N + 1] = exch' /\ \A i \in 0 .. N : w[i] = v[i]
  <2>1. v \in [0 .. N -> 0 .. MaxValue]
    BY <1>1 DEF Paths
  <2> QED BY <1>2, <1>3, <2>1
<1>5. Frame(kind, n).kind = kind /\ Frame(kind, n).n = n /\ Frame(kind, n).gap = hole
  BY DEF Frame
<1>6. 0 \in 0 .. N /\ N \in 0 .. N /\ \A k \in 1 .. N : k \in 0 .. N /\ k - 1 \in 0 .. N
  BY <1>2
<1> HIDE DEF N
<1>7. Leads(w)'
  <2>1. Fresh' => w[0] = book'.n
    BY <1>1, <1>4, <1>6 DEF Leads, Fresh
  <2>2. w[Len(wire')] = exch'
    BY <1>2, <1>4
  <2>3. ASSUME NEW k \in 1 .. N + 1
        PROVE  /\ wire'[k].kind = "snapshot" => w[k] = wire'[k].n
               /\ wire'[k].kind = "delta" /\ ~wire'[k].gap => w[k] = w[k - 1] + wire'[k].n
    <3>1. CASE k = N + 1
      <4>1. k - 1 = N
        BY <1>2, <3>1
      <4>2. w[k - 1] = v[N]
        BY <1>4, <1>6, <4>1
      <4>3. carried /\ ~hole => v[N] = exch
        BY <1>1 DEF Leads, N
      <4> QED BY <1>2, <1>4, <1>5, <3>1, <4>2, <4>3
    <3>2. CASE k # N + 1
      <4>1. k \in 1 .. N
        BY <1>2, <3>2
      <4>2. w[k] = v[k] /\ w[k - 1] = v[k - 1] /\ wire'[k] = wire[k]
        BY <1>2, <1>4, <1>6, <4>1
      <4> QED BY <1>1, <4>1, <4>2 DEF Leads, N
    <3> QED BY <3>1, <3>2
  <2> QED BY <1>2, <2>1, <2>2, <2>3 DEF Leads
<1>8. Coming(w)'
  <2> SUFFICES ASSUME tap.open, truth.whole, audit.phase \in {"read", "settle"}
               PROVE  LET k == truth.read - truth.arrived
                      IN \/ \E i \in 1 .. Len(truth.held) : truth.held[i].n = audit.value
                         \/ k \in 1 .. N + 1 /\ w[k] = audit.value
                         \/ \E j \in 1 .. N + 1 : j <= k /\ Breaks(wire'[j])
                         \/ k = N + 1 + 1 /\ hole'
    BY <1>2 DEF Coming
  <2> DEFINE k == truth.read - truth.arrived
  <2>1. \/ \E i \in 1 .. Len(truth.held) : truth.held[i].n = audit.value
        \/ k \in 1 .. N /\ v[k] = audit.value
        \/ \E j \in 1 .. N : j <= k /\ Breaks(wire[j])
        \/ k = N + 1 /\ hole
    BY <1>1 DEF Coming, N
  <2> HIDE DEF k
  <2>2. CASE k \in 1 .. N /\ v[k] = audit.value
    <3>1. k \in 1 .. N + 1 /\ w[k] = audit.value
      BY <1>2, <1>4, <1>6, <2>2
    <3> QED BY <3>1 DEF k
  <2>3. CASE \E j \in 1 .. N : j <= k /\ Breaks(wire[j])
    <3>1. PICK j \in 1 .. N : j <= k /\ Breaks(wire[j])
      BY <2>3
    <3>2. j \in 1 .. N + 1 /\ Breaks(wire'[j])
      BY <1>2, <3>1
    <3> QED BY <3>1, <3>2 DEF k
  <2>4. CASE k = N + 1 /\ hole
    <3>1. N + 1 \in 1 .. N + 1 /\ N + 1 <= k /\ Breaks(wire'[N + 1])
      BY <1>2, <1>5, <2>4 DEF Breaks
    <3> QED BY <3>1 DEF k
  <2> QED BY <2>1, <2>2, <2>3, <2>4
<1> QED BY <1>2, <1>4, <1>7, <1>8 DEF PathInv

(* A path of one place, when the book is not fresh. *)
LEMMA PathFresh ==
  ASSUME Typed, Typed', TapInv', wire' = << >>, ~Fresh'
  PROVE  PathInv'
<1>1. PICK w : w = [i \in 0 .. 0 |-> exch']
  OBVIOUS
<1>2. Len(wire') = 0 /\ w \in [0 .. 0 -> 0 .. MaxValue] /\ w[0] = exch'
  BY <1>1 DEF Typed, ExchangeTyped
<1>3. Leads(w)'
  <2>1. \A k \in 1 .. 0 : FALSE
    OBVIOUS
  <2> QED BY <1>2, <2>1 DEF Leads
<1>4. Coming(w)'
  BY DEF Coming, TapInv, TapWhole
<1> QED BY <1>2, <1>3, <1>4 DEF PathInv

LEMMA ArrivalPath ==
  ASSUME Typed, BookInv, TapInv, PathInv, Typed', TapInv', NEW at, FrameArrives(at)
  PROVE  PathInv'
<1>1. PICK v \in Paths : Leads(v) /\ Coming(v)
  BY DEF PathInv, Paths
<1> DEFINE N == Len(wire)
<1>2. /\ wire # << >> /\ wire' = Tail(wire)
      /\ UNCHANGED <<exch, hole, carried, audit>>
      /\ Applied(at) \/ Replaced(at) \/ Passed(at)
  BY Arrives
<1>3. /\ Head(wire) = wire[1] /\ wire[1] \in Frames /\ N \in Nat \ {0} /\ Len(wire') = N - 1
      /\ \A i \in 1 .. N - 1 : wire'[i] = wire[i + 1]
  BY <1>2, HeadIs DEF Typed, ExchangeTyped
<1>4. PICK w : w = [i \in 0 .. N - 1 |-> v[i + 1]]
  OBVIOUS
<1>5. w \in [0 .. N - 1 -> 0 .. MaxValue] /\ \A i \in 0 .. N - 1 : w[i] = v[i + 1]
  <2>1. v \in [0 .. N -> 0 .. MaxValue]
    BY <1>1 DEF Paths
  <2>2. \A i \in 0 .. N - 1 : i + 1 \in 0 .. N
    BY <1>3
  <2> QED BY <1>4, <2>1, <2>2
<1>6. /\ tap \in Taps /\ truth \in Truths /\ book \in Books /\ truth.held \in Seq(Held)
      /\ Len(truth.held) \in Nat /\ truth.whole \in BOOLEAN /\ truth.arrived \in Nat /\ truth.read \in Nat
      /\ carried \in BOOLEAN /\ resync \in BOOLEAN
  BY DEF Typed, AuditTyped, ExchangeTyped, Truths
<1>7. wire[1].kind \in {"delta", "snapshot", "crossed"} /\ wire[1].gap \in BOOLEAN
  BY <1>3 DEF Frames
<1>8. Sound => Fresh /\ carried /\ ~wire[1].gap
  BY <1>3, <1>6, <1>7 DEF Sound, Fresh, Gapped, BookInv
<1>9. 1 \in 1 .. N /\ 0 \in 0 .. N - 1 /\ 1 - 1 = 0 /\ 0 + 1 = 1 /\ N - 1 \in 0 .. N - 1 /\ (N - 1) + 1 = N
  BY <1>3
<1>10. /\ wire[1].kind = "snapshot" => v[1] = wire[1].n
       /\ wire[1].kind = "delta" /\ ~wire[1].gap => v[1] = v[0] + wire[1].n
  BY <1>1, <1>9 DEF Leads, N
<1>11. Fresh' => /\ v[1] = book'.n /\ ~Passed(at)
  <2>1. CASE Applied(at)
    <3>1. book'.n = book.n + wire[1].n /\ Sound /\ wire[1].kind = "delta"
      BY <1>3, <1>6, <2>1 DEF Applied, Books
    <3>2. v[0] = book.n
      BY <1>1, <1>8, <3>1 DEF Leads
    <3> QED BY <1>3, <1>8, <1>10, <2>1, <3>1, <3>2 DEF Applied, Passed
  <2>2. CASE Replaced(at)
    <3>1. book'.n = wire[1].n /\ wire[1].kind = "snapshot"
      BY <1>3, <1>6, <2>2 DEF Replaced, Books
    <3> QED BY <1>10, <2>2, <3>1 DEF Replaced, Passed
  <2>3. CASE Passed(at)
    <3>1. book'.fresh => Sound /\ wire[1].kind # "crossed"
      BY <1>3, <1>6, <2>3 DEF Passed, Books
    <3>2. ~book'.fresh
      BY <1>3, <1>7, <1>8, <2>3, <3>1 DEF Passed
    <3> QED BY <3>2 DEF Fresh
  <2> QED BY <1>2, <2>1, <2>2, <2>3
<1>12. Leads(w)'
  <2>1. Fresh' => w[0] = book'.n
    BY <1>5, <1>9, <1>11
  <2>2. carried' /\ ~hole' => w[Len(wire')] = exch'
    <3>1. w[N - 1] = v[N]
      BY <1>5, <1>9
    <3> QED BY <1>1, <1>2, <1>3, <3>1 DEF Leads
  <2>3. ASSUME NEW k \in 1 .. N - 1
        PROVE  /\ wire'[k].kind = "snapshot" => w[k] = wire'[k].n
               /\ wire'[k].kind = "delta" /\ ~wire'[k].gap => w[k] = w[k - 1] + wire'[k].n
    <3>1. k \in 0 .. N - 1 /\ k - 1 \in 0 .. N - 1 /\ (k - 1) + 1 = k /\ k + 1 \in 1 .. N /\ (k + 1) - 1 = k
      BY <1>3
    <3>2. w[k] = v[k + 1] /\ w[k - 1] = v[k] /\ wire'[k] = wire[k + 1]
      BY <1>3, <1>5, <3>1
    <3> HIDE DEF N
    <3>3. /\ wire[k + 1].kind = "snapshot" => v[k + 1] = wire[k + 1].n
          /\ wire[k + 1].kind = "delta" /\ ~wire[k + 1].gap => v[k + 1] = v[k] + wire[k + 1].n
      BY <1>1, <3>1 DEF Leads, N
    <3> QED BY <3>2, <3>3
  <2> QED BY <1>3, <2>1, <2>2, <2>3 DEF Leads
<1>13. Coming(w)'
  <2> SUFFICES ASSUME tap'.open, truth'.whole, audit.phase \in {"read", "settle"}
               PROVE  LET k == truth'.read - truth'.arrived
                      IN \/ \E i \in 1 .. Len(truth'.held) : truth'.held[i].n = audit.value
                         \/ k \in 1 .. N - 1 /\ w[k] = audit.value
                         \/ \E j \in 1 .. N - 1 : j <= k /\ Breaks(wire'[j])
                         \/ k = N - 1 + 1 /\ hole
    BY <1>2, <1>3 DEF Coming
  <2>1. tap.open
    BY <1>2 DEF TapInv, TapRest
  <2>2. Fresh' /\ truth'.held[Len(truth'.held)].n = book'.n /\ Len(truth'.held) >= 1
    BY DEF TapInv, TapWhole, TapHeld
  <2>3. v[1] = book'.n /\ (Applied(at) \/ Replaced(at))
    BY <1>2, <1>11, <2>2
  <2>4. /\ truth'.held = Append(truth.held, [n |-> book'.n, at |-> at])
        /\ truth'.read = truth.read /\ truth'.arrived = truth.arrived + 1
        /\ truth.whole /\ Sound
    <3>1. CASE Applied(at)
      BY <1>6, <2>1, <3>1 DEF Applied, Seen, Noted, Truths
    <3>2. CASE Replaced(at)
      BY <1>6, <2>1, <3>2 DEF Replaced, Seen, Noted, Truths
    <3> QED BY <2>3, <3>1, <3>2
  <2>5. ~Breaks(wire[1])
    BY <1>3, <1>8, <2>3, <2>4 DEF Breaks, Applied, Replaced
  <2>6. /\ Len(truth'.held) = Len(truth.held) + 1
        /\ \A i \in 1 .. Len(truth.held) : truth'.held[i] = truth.held[i]
    <3>1. [n |-> book'.n, at |-> at] \in Held \/ truth'.held \notin Seq(Held)
      <4>1. book'.n \in Int
        BY DEF Typed, ExchangeTyped, Books
      <4>2. at \in Int
        BY Arrives DEF Typed, ClockTyped
      <4> QED BY <4>1, <4>2 DEF Held
    <3>2. truth'.held \in Seq(Held)
      BY DEF Typed, AuditTyped, Truths
    <3> HIDE DEF Held
    <3> QED BY <1>6, <2>4, <3>1, <3>2
  <2> DEFINE k == truth.read - truth.arrived
  <2>7. truth'.read - truth'.arrived = k - 1 /\ k \in Int
    BY <1>6, <2>4
  <2>8. \/ \E i \in 1 .. Len(truth.held) : truth.held[i].n = audit.value
        \/ k \in 1 .. N /\ v[k] = audit.value
        \/ \E j \in 1 .. N : j <= k /\ Breaks(wire[j])
        \/ k = N + 1 /\ hole
    BY <1>1, <2>1, <2>4 DEF Coming
  <2> HIDE DEF k, N
  <2>9. CASE \E i \in 1 .. Len(truth.held) : truth.held[i].n = audit.value
    <3>1. PICK i \in 1 .. Len(truth.held) : truth.held[i].n = audit.value
      BY <2>9
    <3>2. i \in 1 .. Len(truth'.held) /\ truth'.held[i].n = audit.value
      BY <1>6, <2>6, <3>1
    <3> QED BY <3>2
  <2>10. CASE k = 1 /\ v[1] = audit.value
    <3>1. Len(truth'.held) \in 1 .. Len(truth'.held)
      BY <1>6, <2>6
    <3> QED BY <2>2, <2>3, <2>10, <3>1
  <2>11. CASE k \in 1 .. N /\ k # 1 /\ v[k] = audit.value
    <3>1. k - 1 \in 1 .. N - 1 /\ k - 1 \in 0 .. N - 1 /\ (k - 1) + 1 = k
      BY <1>3, <2>7, <2>11 DEF N
    <3>2. w[k - 1] = audit.value
      BY <1>5, <2>11, <3>1
    <3> QED BY <2>7, <3>1, <3>2
  <2>12. CASE \E j \in 1 .. N : j <= k /\ Breaks(wire[j])
    <3>1. PICK j \in 1 .. N : j <= k /\ Breaks(wire[j])
      BY <2>12
    <3>2. j # 1
      BY <2>5, <3>1
    <3>3. j - 1 \in 1 .. N - 1 /\ (j - 1) + 1 = j /\ j - 1 <= k - 1
      BY <1>3, <2>7, <3>1, <3>2 DEF N
    <3>4. Breaks(wire'[j - 1])
      BY <1>3, <3>1, <3>3 DEF N
    <3> QED BY <2>7, <3>3, <3>4
  <2>13. CASE k = N + 1 /\ hole
    <3>1. k - 1 = N - 1 + 1
      BY <1>3, <2>13 DEF N
    <3> QED BY <2>7, <2>13, <3>1
  <2> QED BY <2>8, <2>9, <2>10, <2>11, <2>12, <2>13
<1> QED BY <1>3, <1>5, <1>12, <1>13 DEF PathInv

(* A book is read: it is the last one sent, and the frame that makes it is under way unless
   it has come already or is one that was lost. *)
LEMMA ReadPath ==
  ASSUME Typed, TapInv, PathInv, BookInv, ExchangeReads
  PROVE  PathInv'
<1> DEFINE N == Len(wire)
<1>1. /\ UNCHANGED <<net, tap>> /\ audit'.value = exch
      /\ truth'.held = truth.held /\ truth'.whole = truth.whole
      /\ truth'.read - truth'.arrived = N + IF hole THEN 1 ELSE 0
  <2>1. truth \in Truths /\ audit \in Audits /\ N \in Nat
    BY DEF Typed, AuditTyped, ExchangeTyped
  <2>2. /\ audit' = [audit EXCEPT !.phase = "read", !.value = exch] /\ UNCHANGED <<net, tap>>
        /\ truth' = [truth EXCEPT !.read = truth.arrived + N + IF hole THEN 1 ELSE 0]
    BY DEF ExchangeReads
  <2>3. truth'.read = truth.arrived + N + (IF hole THEN 1 ELSE 0) /\ truth'.arrived = truth.arrived
    BY <2>1, <2>2 DEF Truths
  <2>4. truth'.held = truth.held /\ truth'.whole = truth.whole /\ audit'.value = exch
    BY <2>1, <2>2 DEF Truths, Audits
  <2> HIDE DEF N
  <2>5. truth.arrived \in Nat
    BY <2>1 DEF Truths
  <2> QED BY <2>1, <2>2, <2>3, <2>4, <2>5
<1>2. ASSUME NEW v \in Paths, Leads(v) PROVE Coming(v)'
  <2> SUFFICES ASSUME tap.open, truth.whole
               PROVE  LET k == truth'.read - truth'.arrived
                      IN \/ \E i \in 1 .. Len(truth.held) : truth.held[i].n = exch
                         \/ k \in 1 .. N /\ v[k] = exch
                         \/ k = N + 1 /\ hole
    BY <1>1, Zenon DEF Coming, net
  <2>1. /\ Fresh /\ carried /\ Len(truth.held) >= 1 /\ truth.held[Len(truth.held)].n = book.n
        /\ Len(truth.held) \in Nat /\ N \in Nat
    BY DEF TapInv, TapHeld, TapWhole, BookInv, Fresh, Typed, AuditTyped, ExchangeTyped, Truths
  <2>2. CASE hole
    BY <1>1, <2>1, <2>2
  <2>3. CASE ~hole /\ N = 0
    <3>1. v[0] = book.n /\ v[0] = exch
      BY <1>2, <2>1, <2>3 DEF Leads
    <3>2. Len(truth.held) \in 1 .. Len(truth.held)
      BY <2>1
    <3> QED BY <2>1, <3>1, <3>2
  <2>4. CASE ~hole /\ N # 0
    <3>1. v[N] = exch
      BY <1>2, <2>1, <2>4 DEF Leads
    <3>2. truth'.read - truth'.arrived = N /\ N \in 1 .. N
      BY <1>1, <2>1, <2>4
    <3> QED BY <3>1, <3>2
  <2> QED BY <2>2, <2>3, <2>4
<1> QED BY <1>1, <1>2, PathSame

LEMMA PathNext ==
  ASSUME Typed, Typed', BookInv, PacedInv, QueueInv, TapInv, TapInv', PathInv, [Next]_vars
  PROVE  PathInv'
<1>0. /\ exch \in 0 .. MaxValue /\ exch' \in 0 .. MaxValue /\ audit \in Audits /\ book \in Books
      /\ truth \in Truths /\ {hole, carried} \subseteq BOOLEAN
  BY DEF Typed, ExchangeTyped, AuditTyped
<1>1. CASE UNCHANGED <<net, tap, truth, audit>>
  <2>1. ASSUME NEW v \in Paths, Coming(v) PROVE Coming(v)'
    BY <1>1, <2>1 DEF Coming, net
  <2> QED BY <1>1, <2>1, PathSame
<1>2. CASE UNCHANGED <<net, tap, truth>> /\ audit'.phase \notin {"read", "settle"}
  <2>1. ASSUME NEW v \in Paths PROVE Coming(v)'
    BY <1>2 DEF Coming
  <2> QED BY <1>2, <2>1, PathSame
<1>3. CASE UNCHANGED net /\ audit'.phase \notin {"read", "settle"}
  <2>1. ASSUME NEW v \in Paths PROVE Coming(v)'
    BY <1>3 DEF Coming
  <2> QED BY <1>3, <2>1, PathSame
<1>4. CASE Tick \/ OtherAsks \/ UNCHANGED vars
  <2>1. UNCHANGED <<net, tap, truth, audit>>
    BY <1>4 DEF Tick, OtherAsks, vars
  <2> QED BY <1>1, <2>1
<1>5. CASE Acquires
  <2>1. UNCHANGED <<net, tap, truth>> /\ (audit' = audit \/ audit' = [audit EXCEPT !.phase = "sent"])
    BY <1>5 DEF Acquires
  <2>2. audit' = audit \/ audit'.phase = "sent"
    BY <1>0, <2>1 DEF Audits
  <2> QED BY <1>1, <1>2, <2>1, <2>2
<1>6. CASE AuditBegins \/ LeadPasses \/ AuditFails \/ AuditEnds
  <2>1. UNCHANGED net /\ audit'.phase \in {"idle", "lead", "queued"}
    <3>1. CASE AuditBegins
      BY <3>1 DEF AuditBegins, NoAudit
    <3>2. CASE LeadPasses
      BY <1>0, <3>2 DEF LeadPasses, Audits
    <3>3. CASE AuditFails \/ AuditEnds
      BY <3>3 DEF AuditFails, AuditEnds, NoAudit
    <3> QED BY <1>6, <3>1, <3>2, <3>3
  <2> QED BY <1>3, <2>1
<1>7. CASE ReplyArrives
  <2>1. UNCHANGED <<net, tap, truth>> /\ audit.phase = "read" /\ audit'.value = audit.value
    BY <1>0, <1>7 DEF ReplyArrives, Audits
  <2>2. ASSUME NEW v \in Paths, Coming(v) PROVE Coming(v)'
    BY <2>1, <2>2 DEF Coming, net
  <2> QED BY <2>1, <2>2, PathSame
<1>8. CASE ExchangeReads
  BY <1>8, ReadPath
<1>9. ASSUME NEW at \in 0 .. MaxNow, FrameArrives(at) PROVE PathInv'
  BY <1>9, ArrivalPath
<1>10. CASE ConnectionLost
  <2>1. wire' = << >> /\ book'.fresh = FALSE
    BY <1>0, <1>10 DEF ConnectionLost, Books
  <2> QED BY <2>1, PathFresh DEF Fresh
<1>11. CASE MarketAdded
  <2>1. wire' = << >> /\ book'.on = FALSE
    BY <1>0, <1>11 DEF MarketAdded, BookInv, Books
  <2> QED BY <2>1, PathFresh DEF Fresh
<1>12. CASE MarketDropped
  <2>1. PICK v \in Paths : Leads(v)
    BY DEF PathInv, Paths
  <2>2. UNCHANGED wire /\ carried' = FALSE /\ ~Fresh'
    BY <1>12 DEF MarketDropped, Fresh
  <2>3. Leads(v)' /\ Coming(v)'
    BY <2>1, <2>2 DEF Leads, Coming, TapInv, TapWhole
  <2> QED BY <2>1, <2>2, <2>3 DEF PathInv, Paths
<1>13. ASSUME NEW d \in {-1, 1}, FrameLost(d) PROVE PathInv'
  <2>1. PICK v \in Paths : Leads(v) /\ Coming(v)
    BY DEF PathInv, Paths
  <2>2. UNCHANGED <<wire, book, carried, tap, truth, audit>> /\ hole' = TRUE
    BY <1>13 DEF FrameLost
  <2>3. Leads(v)'
    BY <2>1, <2>2 DEF Leads, Fresh
  <2>4. Coming(v)'
    BY <2>1, <2>2 DEF Coming
  <2> QED BY <2>1, <2>2, <2>3, <2>4 DEF PathInv, Paths
<1>14. ASSUME NEW d \in {-1, 1}, ExchangeChanges(d) PROVE PathInv'
  <2>1. UNCHANGED <<book, carried, tap, truth, audit>> /\ exch' = exch + d
    BY <1>14 DEF ExchangeChanges
  <2>2. CASE carried
    <3>1. Len(wire) < MaxWire /\ wire' = Append(wire, Frame("delta", d)) /\ hole' = FALSE
      BY <1>14, <2>2 DEF ExchangeChanges
    <3>2. /\ d \in Int /\ "delta" \in {"delta", "snapshot", "crossed"} /\ exch' \in 0 .. MaxValue
          /\ "delta" = "snapshot" => d = exch'
          /\ "delta" = "delta" => carried /\ (~hole => exch' = exch + d)
      BY <1>0, <2>1, <2>2
    <3>3. UNCHANGED <<book, carried, tap, audit, truth>>
      BY <2>1
    <3> QED BY <3>1, <3>2, <3>3, PathLonger, Zenon
  <2>3. CASE ~carried
    <3>1. PICK v \in Paths : Leads(v) /\ Coming(v)
      BY DEF PathInv, Paths
    <3>2. UNCHANGED <<wire, hole>>
      BY <1>14, <2>3 DEF ExchangeChanges
    <3>3. Leads(v)' /\ Coming(v)'
      BY <2>1, <2>3, <3>1, <3>2 DEF Leads, Coming, Fresh
    <3> QED BY <3>1, <3>2, <3>3 DEF PathInv, Paths
  <2> QED BY <2>2, <2>3
<1>15. CASE ExchangeAnswers
  <2>1. PICK kind \in {"snapshot", "crossed"} : wire' = Append(wire, Frame(kind, exch))
    BY <1>15 DEF ExchangeAnswers
  <2>2. Len(wire) < MaxWire /\ hole' = FALSE /\ UNCHANGED <<exch, book, carried, tap, audit, truth>>
    BY <1>15 DEF ExchangeAnswers
  <2>3. /\ exch \in Int /\ kind \in {"delta", "snapshot", "crossed"} /\ exch' \in 0 .. MaxValue
        /\ kind = "snapshot" => exch = exch'
        /\ kind = "delta" => carried /\ (~hole => exch' = exch + exch)
    BY <1>0, <2>1, <2>2
  <2>4. Len(wire) < MaxWire /\ hole' = FALSE /\ UNCHANGED <<book, carried, tap, audit, truth>>
    BY <2>2
  <2> QED BY <2>1, <2>3, <2>4, PathLonger, Zenon
<1> QED BY <1>4, <1>5, <1>6, <1>7, <1>8, <1>9, <1>10, <1>11, <1>12, <1>13, <1>14, <1>15 DEF Next
-----------------------------------------------------------------------------
(* The theorems. *)

IInv == Inv /\ VerdictTrue /\ NoFalseAlarm

LEMMA InitInv ==
  ASSUME Init
  PROVE  IInv
<1>1. /\ Second \in Nat \ {0} /\ Capacity \in Nat \ {0} /\ Cost \in Nat \ {0} /\ Refill \in Nat \ {0}
      /\ MaxEvents \in Nat \ {0} /\ MaxWire \in Nat /\ MaxValue \in Nat
  BY AuditAssumption
<1>2. /\ now = 0 /\ exch = 0 /\ wire = << >> /\ stamped = 0 /\ hole = FALSE /\ asked = FALSE
      /\ resync = FALSE /\ carried = TRUE /\ book = [gen |-> 0, on |-> TRUE, fresh |-> TRUE, n |-> 0]
      /\ tap = NoTap /\ audit = NoAudit /\ verdict = NoVerdict /\ truth = NoTruth
      /\ limiter = [tokens |-> Capacity * Second, last |-> 0, queue |-> << >>, until |-> None]
      /\ sends = << >>
  BY DEF Init
<1>3. << >> \in Seq(Frames) /\ << >> \in Seq(Changes) /\ << >> \in Seq({Auditor, Other})
      /\ << >> \in Seq(Held) /\ << >> \in Seq(0 .. 0) /\ Len(<< >>) = 0 /\ DOMAIN << >> = {}
  OBVIOUS
<1>4. None \in Int
  BY DEF None
<1>5. ClockTyped
  BY <1>2 DEF ClockTyped
<1>6. ExchangeTyped /\ BookInv
  <2>1. book \in Books /\ book.on /\ book.fresh
    BY <1>2 DEF Books
  <2>2. exch \in 0 .. MaxValue /\ Len(wire) <= MaxWire /\ wire \in Seq(Frames)
    BY <1>1, <1>2, <1>3
  <2>3. {hole, asked, resync, carried} \subseteq BOOLEAN
    BY <1>2
  <2> QED BY <1>2, <2>1, <2>2, <2>3 DEF ExchangeTyped, BookInv
<1>7. AuditTyped
  BY <1>2, <1>3, <1>4 DEF AuditTyped, Taps, Audits, Truths, Verdicts, NoTap, NoAudit, NoVerdict, NoTruth
<1>8. PacedInv
  <2>1. Capacity * Second \in Nat
    BY <1>1
  <2>2. Capacity * Second \in 0 .. Capacity * Second
    BY <2>1
  <2>3. limiter \in Limiters
    BY <1>2, <1>3, <1>4, <2>2 DEF Limiters
  <2>4. limiter.until = None /\ limiter.last = 0
    BY <1>2
  <2>5. sends \in Seq(0 .. limiter.last) /\ DOMAIN sends = {}
    BY <1>2, <1>3, <2>4
  <2> QED BY <1>2, <2>3, <2>4, <2>5 DEF PacedInv, LimiterTyped, PaidInv, SleepInv, RequestsPaced
<1>9. QueueInv
  BY <1>2, <1>3 DEF QueueInv, NoAudit
<1>10. TapInv
  BY <1>1, <1>2, <1>3 DEF TapInv, TapRest, TapHeld, TapWhole, InOrder, NoTap, NoAudit
<1>11. VerdictInv /\ VerdictTrue /\ NoFalseAlarm
  BY <1>2 DEF VerdictInv, VerdictTrue, NoFalseAlarm, NoVerdict, NoAudit
<1>12. PathInv
  <2>1. PICK w : w = [i \in 0 .. 0 |-> 0]
    OBVIOUS
  <2>2. w \in [0 .. Len(wire) -> 0 .. MaxValue] /\ w[0] = 0 /\ Len(wire) = 0
    BY <1>1, <1>2, <1>3, <2>1
  <2>3. \A k \in 1 .. 0 : FALSE
    OBVIOUS
  <2>4. Leads(w) /\ Coming(w)
    BY <1>2, <2>2, <2>3 DEF Leads, Coming, NoTap
  <2> QED BY <2>2, <2>4 DEF PathInv
<1> QED BY <1>5, <1>6, <1>7, <1>8, <1>9, <1>10, <1>11, <1>12 DEF IInv, Inv

LEMMA NextInv ==
  ASSUME IInv, [Next]_vars
  PROVE  IInv'
<1>1. /\ Typed /\ BookInv /\ PacedInv /\ QueueInv /\ TapInv /\ VerdictInv /\ PathInv
      /\ VerdictTrue /\ NoFalseAlarm
  BY DEF IInv, Inv, Typed
<1>2. Typed' /\ BookInv'
  BY <1>1, TypedNext
<1>3. PacedInv' /\ QueueInv'
  BY <1>1, <1>2, LimiterNext
<1>4. TapInv'
  BY <1>1, TapNext
<1>5. VerdictInv' /\ VerdictTrue' /\ NoFalseAlarm'
  BY <1>1, <1>2, VerdictNext
<1>6. PathInv'
  BY <1>1, <1>2, <1>4, PathNext
<1>7. (ClockTyped /\ ExchangeTyped /\ AuditTyped)'
  BY <1>2 DEF Typed
<1> QED BY <1>2, <1>3, <1>4, <1>5, <1>6, <1>7 DEF IInv, Inv

LEMMA Invariance == Spec => []IInv
<1>1. Init => IInv
  BY InitInv
<1>2. IInv /\ [Next]_vars => IInv'
  BY NextInv
<1> QED BY <1>1, <1>2, PTL DEF Spec

(* Every variable holds a value of its kind: a tap is open exactly while an audit is under
   way, the auditor waits in the limiter once, exactly while its request does, and the
   bucket holds no more than its capacity (auditor.py _audit_batch, ratelimit.py acquire). *)
THEOREM AuditTypeCorrect == Spec => []TypeOK
<1>1. IInv => TypeOK
  <2> SUFFICES ASSUME IInv PROVE TypeOK
    OBVIOUS
  <2>1. /\ exch \in 0 .. MaxValue /\ Len(wire) <= MaxWire /\ stamped \in 0 .. now
        /\ book.gen \in Nat /\ (book.fresh => book.on)
    BY DEF IInv, Inv, ClockTyped, ExchangeTyped, BookInv, Books
  <2>2. audit.phase \in {"idle", "lead", "queued", "sent", "read", "settle"}
    BY DEF IInv, Inv, AuditTyped, Audits
  <2>3. /\ tap.open <=> audit.phase # "idle"
        /\ tap.open => (tap.start = None <=> tap.fault = "no_book")
        /\ Len(tap.events) <= MaxEvents
    BY DEF IInv, Inv, TapInv, TapRest, TapHeld
  <2>4. limiter.tokens \in 0 .. Capacity * Second
    BY DEF IInv, Inv, PacedInv, LimiterTyped, Limiters
  <2>5. /\ \A i, j \in DOMAIN limiter.queue : limiter.queue[i] = Auditor /\ limiter.queue[j] = Auditor => i = j
        /\ (\E i \in DOMAIN limiter.queue : limiter.queue[i] = Auditor) <=> audit.phase = "queued"
        /\ limiter.until # None => limiter.queue # << >>
    BY DEF IInv, Inv, QueueInv
  <2> QED BY <2>1, <2>2, <2>3, <2>4, <2>5, Zenon DEF TypeOK
<1> QED BY <1>1, Invariance, PTL

(* classify_window and LiveBookTap: whatever the changes, faults and delays, an audit is
   decided exactly when one fresh book was held all through its window and its changes fit,
   and the outcome and the nearest match it names are what the books that were held say. *)
THEOREM VerdictAlwaysTrue == Spec => []VerdictTrue
<1>1. IInv => VerdictTrue
  BY DEF IInv
<1> QED BY <1>1, Invariance, PTL

(* An inconsistent audit is a real signal (docs/adr/0021): for every lead, settle time and
   schedule of the frames, it is reported only while a frame sent before the exchange was
   read has still to come. *)
THEOREM NeverFalseAlarm == Spec => []NoFalseAlarm
<1>1. IInv => NoFalseAlarm
  BY DEF IInv
<1> QED BY <1>1, Invariance, PTL

(* BucketRateLimiter: for every rate, capacity and cost, the requests sent between any two
   instants are paid for by a full bucket and what it gains between them, and a caller that
   slept as long as TokenBucket.wait_ns told finds its tokens. *)
THEOREM RequestsAlwaysPaced == Spec => []RequestsPaced
<1>1. IInv => RequestsPaced
  BY DEF IInv, Inv, PacedInv
<1> QED BY <1>1, Invariance, PTL
=============================================================================
