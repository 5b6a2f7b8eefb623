--------------------------- MODULE LiveBusProofs ----------------------------
(***************************************************************************)
(* Proofs about LiveBus and Hub: for every set of markets, prices and      *)
(* clients and all bounds a consumer's copies follow the books of the      *)
(* publisher, and what its clients hold follows the copies.                *)
(*                                                                         *)
(* The argument: each message is tied to the books just before it (Link),  *)
(* the numbers tell whether a message is the next one (Chain), and between *)
(* two messages a fresh book cannot change (NoNews, Recent).  What a       *)
(* consumer holds after a refresh cycle follows from a ledger of the       *)
(* markets still to come in it, for the consumer and for each message in   *)
(* flight (KnownInv).  What a client holds is a fold over its queue        *)
(* (Taken); each batch the hub offers carries it from the old copies to    *)
(* the new ones (OutboxTaken, ReplyTaken, ResyncsTaken), and the order in  *)
(* which a batch goes through its markets does not matter.                 *)
(***************************************************************************)
EXTENDS Hub, SequenceTheorems, FiniteSetTheorems, WellFoundedInduction, TLAPS

(* From books a to books b without a message: a book may only go stale or leave. *)
NoNews(a, b) ==
  \A m \in Markets : Fresh(b[m]) => Fresh(a[m]) /\ a[m].lv = b[m].lv

(* A book that is fresh after a message was made by it, or is as it was in a. *)
Link(a, msg) ==
  \A m \in Markets : Fresh(msg.after[m]) =>
    \/ msg.m = m /\ msg.kind = "snapshot" /\ msg.lv = msg.after[m].lv
    \/ /\ msg.m = m /\ msg.kind = "delta"
       /\ Fresh(a[m]) /\ msg.after[m].lv = Added(a[m].lv, msg.d)
    \/ /\ msg.m = m => msg.kind \in {"refresh", "catalog", "other"}
       /\ Fresh(a[m]) /\ msg.after[m].lv = a[m].lv

(* The image of a refresh is the book, which is held; a delta leaves its book fresh. *)
Sound(msg) ==
  /\ msg.kind = "refresh" => /\ msg.lv = msg.after[msg.m].lv
                             /\ msg.stale = msg.after[msg.m].stale
                             /\ msg.after[msg.m].held
  /\ msg.kind = "delta" => Fresh(msg.after[msg.m])

(* The consumer, then the messages on their way to it. *)
Place(epoch, seq, after) == [epoch |-> epoch, seq |-> seq, after |-> after]
At(i) == IF i = 0 THEN Place(con.epoch, con.seq, con.seen)
         ELSE Place(bus[i].epoch, bus[i].seq, bus[i].after)

Succeeds(p, msg) == p.epoch = msg.epoch /\ msg.seq = p.seq + 1 => Link(p.after, msg)

Before(p, msg) == p.epoch < msg.epoch \/ (p.epoch = msg.epoch /\ p.seq < msg.seq)

Chain ==
  \A i \in 1 .. Len(bus) :
    Sound(bus[i]) /\ Before(At(i - 1), bus[i]) /\ Succeeds(At(i - 1), bus[i])

Recent ==
  \A i \in 0 .. Len(bus) :
    /\ At(i).epoch <= pub.epoch
    /\ At(i).epoch = pub.epoch => At(i).seq <= pub.seq
    /\ At(i).epoch = pub.epoch /\ At(i).seq = pub.seq => NoNews(At(i).after, books)

Inv == TypeOK /\ Chain /\ Recent /\ CopiesFollow

-----------------------------------------------------------------------------
LEMMA Bounds ==
  /\ MaxCount \in Nat /\ MaxTries \in Nat /\ MaxEpochs \in Nat \ {0} /\ HighWater \in Nat
  /\ NoLevels \in Levels /\ ~Crossed(NoLevels)
  /\ (CHOOSE m \in Markets : TRUE) \in Markets
BY BusAssumption DEF NoLevels, Levels, Crossed, Sides

LEMMA AddedType ==
  ASSUME NEW lv \in Levels, NEW d \in Deltas, Updated(lv, d) \in 0 .. MaxCount
  PROVE  Added(lv, d) \in Levels
BY DEF Levels, Deltas, Updated, Added

LEMMA NoBookType == NoBook \in Books /\ NewBook \in Books /\ ~Fresh(NoBook)
<1>1. NoLevels \in Levels
  BY Bounds
<1>2. NoBook \in Books /\ NewBook \in Books
  BY <1>1 DEF Books, NoBook, NewBook
<1> QED
  BY <1>2 DEF NoBook, Fresh

LEMMA StaleType ==
  ASSUME NEW b \in Books
  PROVE  Stale(b) \in Books /\ ~Fresh(Stale(b))
BY DEF Books, Stale, Fresh

LEMMA BookType ==
  ASSUME NEW b \in Books, NEW lv \in Levels
  PROVE  /\ [b EXCEPT !.lv = lv] \in Books
         /\ [b EXCEPT !.stale = FALSE, !.lv = lv] \in Books
BY DEF Books

LEMMA KeptLink ==
  ASSUME NEW a, NEW b, NEW msg, NoNews(a, b), Link(b, msg)
  PROVE  Link(a, msg)
BY DEF NoNews, Link

(* What a step that publishes does to the chain. *)
LEMMA PublishKeeps ==
  ASSUME Inv, NEW msg \in Messages, NEW due \in SUBSET Markets,
         msg.epoch = pub.epoch, msg.seq = pub.seq + 1,
         Sound(msg), Link(books, msg), NoNews(msg.after, books'),
         Publish(msg, due), con' = con
  PROVE  /\ pub' \in Publishers
         /\ pub'.seq <= pub'.tries
         /\ bus' \in Seq(Messages) /\ Len(bus') <= HighWater
         /\ Chain' /\ Recent'
<1>1. /\ pub.seq \in Nat /\ pub.epoch \in Nat /\ pub.tries \in Nat /\ pub.tries < MaxTries
      /\ pub'.seq = pub.seq + 1 /\ pub'.epoch = pub.epoch
      /\ pub' \in Publishers /\ pub'.seq <= pub'.tries
  <2>1. pub \in Publishers /\ pub.seq <= pub.tries
    BY DEF Inv, TypeOK
  <2>2. /\ pub.tries < MaxTries
        /\ pub' = [pub EXCEPT !.seq = pub.seq + 1, !.tries = pub.tries + 1, !.due = due]
    BY DEF Publish
  <2>3. /\ pub.seq \in Nat /\ pub.epoch \in Nat /\ pub.tries \in Nat
    BY <2>1, Bounds DEF Publishers
  <2>4. /\ pub'.seq = pub.seq + 1 /\ pub'.tries = pub.tries + 1 /\ pub'.epoch = pub.epoch
        /\ pub'.open = pub.open /\ pub'.due = due
    BY <2>1, <2>2 DEF Publishers
  <2>5. pub' \in Publishers
    <3>1. pub' = [epoch |-> pub.epoch, seq |-> pub.seq + 1, tries |-> pub.tries + 1,
                  open |-> pub.open, due |-> due]
      BY <2>1, <2>2 DEF Publishers
    <3>2. /\ pub.epoch \in 1 .. MaxEpochs /\ pub.open \in BOOLEAN
          /\ pub.seq + 1 \in 0 .. MaxTries /\ pub.tries + 1 \in 0 .. MaxTries
      BY <2>1, <2>2, <2>3, Bounds DEF Publishers
    <3> QED
      BY <3>1, <3>2 DEF Publishers
  <2> QED
    BY <2>1, <2>2, <2>3, <2>4, <2>5
<1>2. bus \in Seq(Messages) /\ con.epoch \in Nat /\ con.seq \in Nat
  BY Bounds DEF Inv, TypeOK, Consumers
<1>3. \A i \in 0 .. Len(bus) : At(i).epoch \in Nat /\ At(i).seq \in Nat
  <2> SUFFICES ASSUME NEW i \in 1 .. Len(bus) PROVE At(i).epoch \in Nat /\ At(i).seq \in Nat
    BY <1>2 DEF At, Place
  <2>1. bus[i] \in Messages
    BY <1>2
  <2> QED
    BY <2>1, Bounds DEF At, Place, Messages
<1>4. CASE bus' = bus
  <2>1. \A i \in 0 .. Len(bus) : At(i)' = At(i)
    BY <1>4 DEF At, Place
  <2>2. Chain'
    BY <1>4, <2>1, <1>2 DEF Inv, Chain, Succeeds, Sound, Before
  <2>3. Recent'
    BY <1>1, <1>3, <1>4, <2>1 DEF Inv, Recent
  <2> QED
    BY <1>1, <1>4, <2>2, <2>3 DEF Inv, TypeOK
<1>5. CASE pub.open /\ Len(bus) < HighWater /\ bus' = Append(bus, msg)
  <2>1. /\ bus' \in Seq(Messages) /\ Len(bus') = Len(bus) + 1 /\ Len(bus) \in Nat
        /\ bus'[Len(bus) + 1] = msg
        /\ \A i \in 1 .. Len(bus) : bus'[i] = bus[i]
    BY <1>2, <1>5
  <2>2. \A i \in 0 .. Len(bus) : At(i)' = At(i)
    BY <2>1 DEF At, Place
  <2>4. Succeeds(At(Len(bus)), msg)
    <3> SUFFICES ASSUME At(Len(bus)).epoch = msg.epoch, msg.seq = At(Len(bus)).seq + 1
                 PROVE  Link(At(Len(bus)).after, msg)
      BY DEF Succeeds
    <3>1. NoNews(At(Len(bus)).after, books)
      BY <1>1, <1>3, <2>1 DEF Inv, Recent
    <3> QED
      BY <3>1, KeptLink
  <2>5. Chain'
    <3> SUFFICES ASSUME NEW i \in 1 .. Len(bus) + 1
                 PROVE  /\ Sound(bus'[i]) /\ Before(At(i - 1)', bus'[i])
                        /\ Succeeds(At(i - 1)', bus'[i])
      BY <2>1 DEF Chain, Sound, Succeeds, Link, Fresh, Before
    <3>1. CASE i = Len(bus) + 1
      <4>1. At(i - 1)' = At(Len(bus)) /\ bus'[i] = msg
        BY <3>1, <2>1, <2>2
      <4>2. Before(At(Len(bus)), msg)
        BY <1>1, <1>3, <2>1 DEF Inv, Recent, Before
      <4> QED
        BY <4>1, <4>2, <2>4
    <3>2. CASE i \in 1 .. Len(bus)
      BY <3>2, <2>1, <2>2 DEF Inv, Chain
    <3> QED
      BY <3>1, <3>2, <2>1
  <2>6. Recent'
    <3> SUFFICES ASSUME NEW i \in 0 .. Len(bus) + 1
                 PROVE  /\ At(i)'.epoch <= pub'.epoch
                        /\ At(i)'.epoch = pub'.epoch => At(i)'.seq <= pub'.seq
                        /\ At(i)'.epoch = pub'.epoch /\ At(i)'.seq = pub'.seq
                             => NoNews(At(i)'.after, books')
      BY <2>1 DEF Recent, NoNews, Fresh
    <3>1. CASE i = Len(bus) + 1
      <4>1. At(i)' = Place(msg.epoch, msg.seq, msg.after)
        BY <3>1, <2>1 DEF At, Place
      <4> QED
        BY <4>1, <1>1 DEF Place
    <3>2. CASE i \in 0 .. Len(bus)
      BY <3>2, <2>2, <1>1, <1>3 DEF Inv, Recent
    <3> QED
      BY <3>1, <3>2, <2>1
  <2>7. Len(bus') <= HighWater
    BY <1>5, <2>1, Bounds
  <2> QED
    BY <1>1, <2>1, <2>5, <2>6, <2>7
<1> QED
  BY <1>1, <1>4, <1>5 DEF Publish

(* A silent step of the publisher. *)
LEMMA SilentKeeps ==
  ASSUME Inv, Silent, con' = con, books' \in [Markets -> Books], NoNews(books, books')
  PROVE  Chain' /\ Recent'
<1>1. \A i \in 0 .. Len(bus) : At(i)' = At(i)
  BY DEF Silent, At, Place
<1>2. bus' = bus /\ pub' = pub
  BY DEF Silent
<1>3. Chain'
  BY <1>1, <1>2 DEF Inv, Chain, Succeeds, Sound, Before, Place
<1>4. Recent'
  <2> SUFFICES ASSUME NEW i \in 0 .. Len(bus), At(i).epoch = pub.epoch, At(i).seq = pub.seq
               PROVE  NoNews(At(i).after, books')
    BY <1>1, <1>2 DEF Inv, Recent
  <2>1. NoNews(At(i).after, books)
    BY DEF Inv, Recent
  <2> QED
    BY <2>1 DEF NoNews
<1> QED
  BY <1>3, <1>4

(* A queue cut short. *)
LEMMA CutKeeps ==
  ASSUME Inv, BusCutShort, con' = con
  PROVE  /\ bus' \in Seq(Messages) /\ Len(bus') <= HighWater
         /\ Len(bus') \in 0 .. Len(bus)
         /\ \A i \in 0 .. Len(bus') : At(i)' = At(i)
         /\ Chain'
<1>1. bus \in Seq(Messages) /\ Len(bus) \in Nat /\ Len(bus) <= HighWater
  BY DEF Inv, TypeOK
<1>2. PICK n \in 0 .. Len(bus) : bus' = SubSeq(bus, 1, n)
  BY DEF BusCutShort
<1>3. /\ bus' \in Seq(Messages) /\ Len(bus') = n
      /\ \A i \in 1 .. n : bus'[i] = bus[i]
  BY <1>1, <1>2
<1>4. \A i \in 0 .. n : At(i)' = At(i)
  BY <1>3 DEF At, Place
<1>5. Chain'
  <2> SUFFICES ASSUME NEW i \in 1 .. n
               PROVE  /\ Sound(bus'[i]) /\ Before(At(i - 1)', bus'[i])
                      /\ Succeeds(At(i - 1)', bus'[i])
    BY <1>3 DEF Chain, Sound, Succeeds, Link, Fresh, Before
  <2>1. bus'[i] = bus[i] /\ At(i - 1)' = At(i - 1)
    BY <1>3, <1>4
  <2>2. i \in 1 .. Len(bus)
    BY <1>1
  <2> QED
    BY <2>1, <2>2 DEF Inv, Chain
<1> QED
  BY <1>1, <1>3, <1>4, <1>5, Bounds

LEMMA BusFacts ==
  ASSUME Inv
  PROVE  /\ bus \in Seq(Messages) /\ Len(bus) \in Nat /\ Len(bus) <= HighWater
         /\ \A i \in 1 .. Len(bus) : bus[i] \in Messages
         /\ con \in Consumers /\ pub \in Publishers /\ books \in [Markets -> Books]
         /\ \A i \in 0 .. Len(bus) : At(i).epoch \in Nat /\ At(i).seq \in Nat
         /\ pub.epoch \in Nat /\ pub.seq \in Nat
<1>1. /\ bus \in Seq(Messages) /\ Len(bus) <= HighWater
      /\ con \in Consumers /\ pub \in Publishers /\ books \in [Markets -> Books]
  BY DEF Inv, TypeOK
<1>2. Len(bus) \in Nat /\ \A i \in 1 .. Len(bus) : bus[i] \in Messages
  BY <1>1
<1>3. \A i \in 0 .. Len(bus) : At(i).epoch \in Nat /\ At(i).seq \in Nat
  <2> TAKE i \in 0 .. Len(bus)
  <2>1. CASE i = 0
    BY <2>1, <1>1, Bounds DEF At, Place, Consumers
  <2>2. CASE i # 0
    <3>1. bus[i] \in Messages
      BY <2>2, <1>2
    <3> QED
      BY <2>2, <3>1, Bounds DEF At, Place, Messages
  <2> QED
    BY <2>1, <2>2
<1> QED
  BY <1>1, <1>2, <1>3, Bounds DEF Publishers

(* The head leaves the queue; the consumer takes its place or forgets it. *)
LEMMA TailKeeps ==
  ASSUME Inv, bus # << >>, bus' = Tail(bus), UNCHANGED <<pub, books>>,
         \/ con' = con
         \/ con'.epoch = bus[1].epoch /\ con'.seq = bus[1].seq /\ con'.seen = bus[1].after
  PROVE  /\ bus' \in Seq(Messages) /\ Len(bus') <= HighWater
         /\ Chain' /\ Recent'
<1>1. /\ bus' \in Seq(Messages) /\ Len(bus') = Len(bus) - 1 /\ Len(bus) \in Nat \ {0}
      /\ \A i \in 1 .. Len(bus) - 1 : bus'[i] = bus[i + 1]
      /\ Len(bus') <= HighWater
  BY BusFacts, Bounds
<1>2. \A i \in 1 .. Len(bus) - 1 : At(i)' = At(i + 1)
  BY <1>1 DEF At, Place
<1>3. At(0)' = At(1) \/ At(0)' = At(0)
  BY <1>1 DEF At, Place
<1>4. Sound(bus[1]) /\ Before(At(0), bus[1]) /\ Succeeds(At(0), bus[1])
  BY <1>1 DEF Inv, Chain
<1>5. Chain'
  <2> SUFFICES ASSUME NEW i \in 1 .. Len(bus) - 1
               PROVE  /\ Sound(bus'[i]) /\ Before(At(i - 1)', bus'[i])
                      /\ Succeeds(At(i - 1)', bus'[i])
    BY <1>1 DEF Chain, Sound, Succeeds, Link, Fresh, Before
  <2>1. bus'[i] = bus[i + 1] /\ i + 1 \in 1 .. Len(bus)
    BY <1>1
  <2>2. Sound(bus[i + 1]) /\ Before(At(i), bus[i + 1]) /\ Succeeds(At(i), bus[i + 1])
    BY <2>1 DEF Inv, Chain
  <2>3. CASE At(i - 1)' = At(i)
    BY <2>1, <2>2, <2>3
  <2>4. CASE i = 1 /\ At(0)' = At(0)
    <3>1. /\ At(0).epoch \in Nat /\ At(0).seq \in Nat
          /\ bus[1].epoch \in Nat /\ bus[1].seq \in Nat
          /\ bus[2].epoch \in Nat /\ bus[2].seq \in Nat
      <4>1. At(0).epoch \in Nat /\ At(0).seq \in Nat
        BY BusFacts
      <4>2. bus[1] \in Messages /\ bus[2] \in Messages
        BY <2>1, <2>4, BusFacts
      <4> QED
        BY <4>1, <4>2, Bounds DEF Messages
    <3>2. Before(At(1), bus[2]) /\ At(1).epoch = bus[1].epoch /\ At(1).seq = bus[1].seq
      BY <2>2, <2>4 DEF At, Place
    <3>3. Before(At(0), bus[2]) /\ ~(At(0).epoch = bus[2].epoch /\ bus[2].seq = At(0).seq + 1)
      BY <1>4, <3>1, <3>2 DEF Before
    <3>4. At(i - 1)' = At(0) /\ bus'[i] = bus[2]
      BY <2>1, <2>4
    <3>5. Succeeds(At(0), bus[2])
      BY <3>3 DEF Succeeds
    <3> QED
      BY <2>2, <2>4, <3>3, <3>4, <3>5
  <2> QED
    BY <1>2, <1>3, <2>3, <2>4, <1>1
<1>6. Recent'
  <2> SUFFICES ASSUME NEW i \in 0 .. Len(bus) - 1
               PROVE  /\ At(i)'.epoch <= pub.epoch
                      /\ At(i)'.epoch = pub.epoch => At(i)'.seq <= pub.seq
                      /\ At(i)'.epoch = pub.epoch /\ At(i)'.seq = pub.seq
                           => NoNews(At(i)'.after, books)
    BY <1>1 DEF Recent, NoNews, Fresh
  <2>1. PICK j \in 0 .. Len(bus) : At(i)' = At(j)
    <3>1. CASE i = 0
      BY <3>1, <1>3, <1>1
    <3>2. CASE i # 0
      BY <3>2, <1>2, <1>1
    <3> QED
      BY <3>1, <3>2
  <2> QED
    BY <2>1 DEF Inv, Recent
<1> QED
  BY <1>1, <1>5, <1>6

(* What one message does to the copy of its market, when the copy followed the
   book of a and the message is linked to a, or the copy is not there. *)
LEMMA ChangeFollows ==
  ASSUME NEW msg \in Messages, NEW a \in [Markets -> Books], NEW copy \in Copies,
         Sound(msg), Link(a, msg) \/ copy.st = "unknown", ~Crossed(copy.lv),
         Fresh(a[msg.m]) =>
           copy.st # "stale" /\ (copy.st = "fresh" => copy.lv = a[msg.m].lv)
  PROVE  LET b == msg.after[msg.m]
             c == Applied(copy, msg)
         IN /\ c \in Copies /\ ~Crossed(c.lv)
            /\ Fresh(b) => c.st # "stale" /\ (c.st = "fresh" => c.lv = b.lv)
<1> DEFINE b == msg.after[msg.m]
<1>1. /\ b \in Books /\ b.lv \in Levels /\ msg.lv \in Levels /\ msg.stale \in BOOLEAN
      /\ msg.m \in Markets
      /\ msg.kind \in {"snapshot", "delta", "refresh", "catalog", "other"}
      /\ copy.lv \in Levels /\ copy.st \in {"unknown", "fresh", "stale"}
  BY DEF Messages, Books, Copies
<1>2. /\ NoCopy \in Copies /\ ~Crossed(NoCopy.lv) /\ NoCopy.st = "unknown"
      /\ \A lv \in Levels : /\ Copy(FALSE, lv) \in Copies /\ Copy(TRUE, lv) \in Copies
                            /\ Copy(FALSE, lv).lv = lv /\ Copy(TRUE, lv).lv = lv
                            /\ Copy(FALSE, lv).st = "fresh" /\ Copy(TRUE, lv).st = "stale"
  BY Bounds DEF NoCopy, Copies, Copy
<1>3. CASE msg.kind = "refresh"
  <2>1. Applied(copy, msg) = Adopt(msg)
    BY <1>3 DEF Applied
  <2>2. msg.lv = b.lv /\ msg.stale = b.stale
    BY <1>3 DEF Sound
  <2>3. CASE Crossed(msg.lv)
    BY <2>1, <2>3, <1>2 DEF Adopt
  <2>4. CASE ~Crossed(msg.lv) /\ msg.stale = TRUE
    <3>1. Applied(copy, msg) = Copy(TRUE, b.lv) /\ ~Fresh(b)
      BY <2>1, <2>2, <2>4 DEF Adopt, Fresh
    <3> QED
      BY <3>1, <2>2, <2>4, <1>1, <1>2
  <2>5. CASE ~Crossed(msg.lv) /\ msg.stale = FALSE
    <3>1. Applied(copy, msg) = Copy(FALSE, b.lv)
      BY <2>1, <2>2, <2>5 DEF Adopt
    <3> QED
      BY <3>1, <2>2, <2>5, <1>1, <1>2
  <2> QED
    BY <2>3, <2>4, <2>5, <1>1
<1>4. CASE msg.kind \in {"catalog", "other"}
  <2>1. Applied(copy, msg) = copy
    BY <1>4 DEF Applied
  <2>2. Link(a, msg) => (Fresh(b) => Fresh(a[msg.m]) /\ b.lv = a[msg.m].lv)
    BY <1>1, <1>4 DEF Link
  <2> QED
    BY <2>1, <2>2
<1>5. CASE msg.kind = "snapshot"
  <2>1. Applied(copy, msg) = Change(copy, msg)
    BY <1>5 DEF Applied
  <2>2. Link(a, msg) => (Fresh(b) => msg.lv = b.lv)
    BY <1>1, <1>5 DEF Link
  <2>3. CASE copy.st = "unknown" \/ Crossed(msg.lv)
    <3>1. Applied(copy, msg) = NoCopy
      BY <2>1, <2>3, <1>5 DEF Change
    <3> QED
      BY <3>1, <1>2
  <2>4. CASE copy.st # "unknown" /\ ~Crossed(msg.lv)
    <3>1. Applied(copy, msg) = Copy(FALSE, msg.lv)
      BY <2>1, <2>4, <1>5 DEF Change
    <3> QED
      BY ZenonT(60), <3>1, <2>2, <2>4, <1>1, <1>2
  <2> QED
    BY <2>3, <2>4
<1>6. CASE msg.kind = "delta"
  <2>1. Applied(copy, msg) = Change(copy, msg)
    BY <1>6 DEF Applied
  <2>2. Link(a, msg) => Fresh(b) /\ Fresh(a[msg.m]) /\ b.lv = Added(a[msg.m].lv, msg.d)
    BY <1>1, <1>6 DEF Link, Sound
  <2>3. Link(a, msg) => copy.st # "stale" /\ (copy.st = "fresh" => copy.lv = a[msg.m].lv)
    BY <2>2
  <2>4. CASE copy.st = "unknown"
    <3>1. Applied(copy, msg) = NoCopy
      BY <2>1, <2>4 DEF Change
    <3> QED
      BY <3>1, <1>2
  <2>5. CASE copy.st = "fresh"
    <3>1. Applied(copy, msg) = NoCopy
            \/ (Applied(copy, msg) = Copy(FALSE, b.lv) /\ ~Crossed(b.lv))
      BY <2>1, <2>2, <2>3, <2>5, <1>6 DEF Change
    <3> QED
      BY <3>1, <1>1, <1>2
  <2> QED
    BY <2>3, <2>4, <2>5, <1>1
<1> QED
  BY <1>1, <1>3, <1>4, <1>5, <1>6

LEMMA ObserveKeeps ==
  ASSUME Inv, bus # << >>, con' = Observed(Head(bus))
  PROVE  /\ con' \in Consumers /\ CopiesFollow'
         /\ \A m \in Markets : ~Crossed(con'.copy[m].lv)
         /\ con'.epoch = bus[1].epoch /\ con'.seq = bus[1].seq /\ con'.seen = bus[1].after
<1> DEFINE msg == bus[1]
           kept == IF Follows(msg) THEN con.copy ELSE [m \in Markets |-> NoCopy]
           a == IF Follows(msg) THEN con.seen ELSE [m \in Markets |-> NoBook]
<1>1. 1 \in 1 .. Len(bus) /\ Head(bus) = msg /\ msg \in Messages
  BY BusFacts
<1>2. Sound(msg) /\ Succeeds(At(0), msg)
  BY <1>1 DEF Inv, Chain
<1>3. /\ con \in Consumers /\ \A m \in Markets : ~Crossed(con.copy[m].lv)
      /\ con.copy \in [Markets -> Copies] /\ con.seen \in [Markets -> Books]
      /\ con.broken \in BOOLEAN /\ con.cats \in 0 .. 2
  BY BusFacts DEF Inv, TypeOK, Consumers
<1>4. NoCopy \in Copies /\ ~Crossed(NoCopy.lv) /\ NoCopy.st = "unknown"
  BY Bounds DEF NoCopy, Copies
<1>5. /\ kept \in [Markets -> Copies] /\ a \in [Markets -> Books]
      /\ \A m \in Markets : ~Crossed(kept[m].lv)
  BY <1>3, <1>4, NoBookType
<1>6. \A m \in Markets : Fresh(a[m]) =>
        kept[m].st # "stale" /\ (kept[m].st = "fresh" => kept[m].lv = a[m].lv)
  BY <1>4, NoBookType DEF Inv, CopiesFollow
<1>7. msg.m \in Markets /\ msg.after \in [Markets -> Books]
  BY <1>1 DEF Messages
<1>8. /\ con'.epoch = msg.epoch /\ con'.seq = msg.seq /\ con'.seen = msg.after
      /\ con'.copy = [kept EXCEPT ![msg.m] = Applied(kept[msg.m], msg)]
  BY <1>1 DEF Observed
<1> DEFINE NewCopyOK == Applied(kept[msg.m], msg) \in Copies /\ ~Crossed(Applied(kept[msg.m], msg).lv)
<1>13. kept[msg.m] \in Copies /\ ~Crossed(kept[msg.m].lv)
  BY <1>5, <1>7
<1>14. \A m \in Markets \ {msg.m} : con'.copy[m] = kept[m]
  BY <1>5, <1>8
<1>15. con'.copy[msg.m] = Applied(kept[msg.m], msg)
  BY <1>5, <1>7, <1>8
<1> HIDE DEF msg, kept, a
<1>9. Follows(msg) => NewCopyOK /\ CopiesFollow'
  <2> HAVE Follows(msg)
  <2>1. Link(a, msg)
    BY <1>2 DEF Follows, Succeeds, At, Place, a, msg
  <2>2. /\ Applied(kept[msg.m], msg) \in Copies /\ ~Crossed(Applied(kept[msg.m], msg).lv)
        /\ Fresh(msg.after[msg.m]) =>
             /\ Applied(kept[msg.m], msg).st # "stale"
             /\ Applied(kept[msg.m], msg).st = "fresh" =>
                  Applied(kept[msg.m], msg).lv = msg.after[msg.m].lv
    BY <2>1, <1>13, <1>1, <1>2, <1>5, <1>6, <1>7, ChangeFollows
  <2>3. \A m \in Markets \ {msg.m} :
          Fresh(msg.after[m]) => Fresh(a[m]) /\ msg.after[m].lv = a[m].lv
    BY <2>1 DEF Link
  <2>4. CopiesFollow'
    <3> SUFFICES ASSUME NEW m \in Markets, Fresh(msg.after[m])
                 PROVE  /\ con'.copy[m].st # "stale"
                        /\ con'.copy[m].st = "fresh" => con'.copy[m].lv = msg.after[m].lv
      BY <1>8 DEF CopiesFollow, Fresh
    <3>1. CASE m = msg.m
      BY <3>1, <2>2, <1>15
    <3>2. CASE m # msg.m
      BY <3>2, <2>3, <1>6, <1>14
    <3> QED
      BY <3>1, <3>2
  <2> QED
    BY <2>2, <2>4
<1>10. ~Follows(msg) => NewCopyOK /\ CopiesFollow'
  <2> HAVE ~Follows(msg)
  <2>1. \A m \in Markets : kept[m].st = "unknown"
    BY <1>4 DEF kept
  <2>2. /\ Applied(kept[msg.m], msg) \in Copies /\ ~Crossed(Applied(kept[msg.m], msg).lv)
        /\ Fresh(msg.after[msg.m]) =>
             /\ Applied(kept[msg.m], msg).st # "stale"
             /\ Applied(kept[msg.m], msg).st = "fresh" =>
                  Applied(kept[msg.m], msg).lv = msg.after[msg.m].lv
    BY <2>1, <1>13, <1>1, <1>2, <1>5, <1>6, <1>7, ChangeFollows
  <2>3. CopiesFollow'
    <3> SUFFICES ASSUME NEW m \in Markets, Fresh(msg.after[m])
                 PROVE  /\ con'.copy[m].st # "stale"
                        /\ con'.copy[m].st = "fresh" => con'.copy[m].lv = msg.after[m].lv
      BY <1>8 DEF CopiesFollow, Fresh
    <3>1. CASE m = msg.m
      BY <3>1, <2>2, <1>15
    <3>2. CASE m # msg.m
      BY <3>2, <2>1, <1>14
    <3> QED
      BY <3>1, <3>2
  <2> QED
    BY <2>2, <2>3
<1>11. con'.copy \in [Markets -> Copies] /\ \A m \in Markets : ~Crossed(con'.copy[m].lv)
  <2>1. Applied(kept[msg.m], msg) \in Copies /\ ~Crossed(Applied(kept[msg.m], msg).lv)
    BY <1>9, <1>10
  <2> QED
    BY <2>1, <1>5, <1>7, <1>8
<1>12. con' \in Consumers
  <2>1. /\ con' = [epoch |-> con'.epoch, seq |-> con'.seq, copy |-> con'.copy,
                   broken |-> con'.broken, seen |-> con'.seen, cats |-> con'.cats]
        /\ con'.broken \in BOOLEAN /\ con'.cats \in 0 .. 2
    BY <1>1, <1>3 DEF Observed, Most, Broke, msg
  <2>2. con'.epoch \in 0 .. MaxEpochs /\ con'.seq \in 0 .. MaxTries
    BY <1>1, <1>8, Bounds DEF Messages
  <2> QED
    BY <2>1, <2>2, <1>7, <1>8, <1>11 DEF Consumers
<1> QED
  BY <1>8, <1>9, <1>10, <1>11, <1>12 DEF msg

-----------------------------------------------------------------------------
(* What every step must show, per part of the state. *)
LEMMA InvParts ==
  ASSUME pub' \in Publishers, pub'.seq <= pub'.tries, books' \in [Markets -> Books],
         bus' \in Seq(Messages), Len(bus') <= HighWater, con' \in Consumers,
         \A m \in Markets : Fresh(books'[m]) => ~Crossed(books'[m].lv),
         \A m \in Markets : ~Crossed(con'.copy[m].lv),
         Chain', Recent', CopiesFollow'
  PROVE  Inv'
BY DEF Inv, TypeOK, Fresh

(* A step of the publisher leaves the consumer alone. *)
LEMMA ConsumerWaits ==
  ASSUME Inv, con' = con
  PROVE  /\ con' \in Consumers /\ CopiesFollow'
         /\ \A m \in Markets : ~Crossed(con'.copy[m].lv)
BY DEF Inv, TypeOK, CopiesFollow, Fresh

LEMMA SilentStep ==
  ASSUME Inv, Silent, con' = con, books' \in [Markets -> Books], NoNews(books, books')
  PROVE  Inv'
<1>1. Chain' /\ Recent'
  BY SilentKeeps
<1>2. /\ pub' \in Publishers /\ pub'.seq <= pub'.tries
      /\ bus' \in Seq(Messages) /\ Len(bus') <= HighWater
  BY DEF Silent, Inv, TypeOK
<1>3. \A m \in Markets : Fresh(books'[m]) => ~Crossed(books'[m].lv)
  BY DEF NoNews, Inv, TypeOK
<1> QED
  BY <1>1, <1>2, <1>3, ConsumerWaits, InvParts

LEMMA PublishStep ==
  ASSUME Inv, NEW msg \in Messages, NEW due \in SUBSET Markets,
         msg.epoch = pub.epoch, msg.seq = pub.seq + 1,
         Sound(msg), Link(books, msg), NoNews(msg.after, books'),
         Publish(msg, due), con' = con, books' \in [Markets -> Books],
         \A m \in Markets : Fresh(books'[m]) => ~Crossed(books'[m].lv)
  PROVE  Inv'
<1>1. /\ pub' \in Publishers /\ pub'.seq <= pub'.tries
      /\ bus' \in Seq(Messages) /\ Len(bus') <= HighWater
      /\ Chain' /\ Recent'
  BY PublishKeeps
<1> QED
  BY <1>1, ConsumerWaits, InvParts

(* The next message has an epoch and a number of its type. *)
LEMMA NextNumber ==
  ASSUME Inv, pub.tries < MaxTries
  PROVE  pub.epoch \in 1 .. MaxEpochs /\ pub.seq + 1 \in 1 .. MaxTries
<1>1. /\ pub.epoch \in 1 .. MaxEpochs /\ pub.seq \in Nat /\ pub.tries \in Nat
      /\ pub.seq <= pub.tries
  BY Bounds DEF Inv, TypeOK, Publishers
<1> QED
  BY <1>1, Bounds

LEMMA SnapshotStep ==
  ASSUME Inv, NEW m \in Markets, NEW lv \in Levels, SnapshotArrives(m, lv)
  PROVE  Inv'
<1> DEFINE book == IF books[m].held THEN books[m] ELSE NewBook
           bad == [books EXCEPT ![m] = Stale(book)]
           good == [books EXCEPT ![m] = [book EXCEPT !.stale = FALSE, !.lv = lv]]
<1>1. books \in [Markets -> Books] /\ book \in Books /\ con' = con
  BY BusFacts, NoBookType DEF SnapshotArrives
<1>2. CASE Crossed(lv)
  <2>1. books' = bad /\ Silent
    BY <1>2 DEF SnapshotArrives
  <2>2. books' \in [Markets -> Books] /\ ~Fresh(books'[m])
    BY <2>1, <1>1, StaleType
  <2>3. NoNews(books, books')
    BY <2>1, <2>2, <1>1 DEF NoNews
  <2> QED
    BY <2>1, <2>2, <2>3, <1>1, SilentStep
<1>3. CASE ~Crossed(lv)
  <2>1. books' = good /\ Publish(SnapshotOf(m, good), pub.due)
    BY <1>3 DEF SnapshotArrives
  <2>2. good \in [Markets -> Books] /\ good[m].lv = lv
    <3>1. [book EXCEPT !.stale = FALSE, !.lv = lv] \in Books
      BY <1>1, BookType
    <3>2. [book EXCEPT !.stale = FALSE, !.lv = lv].lv = lv
      BY <1>1 DEF Books
    <3> QED
      BY <1>1, <3>1, <3>2
  <2>3. \A k \in Markets \ {m} : good[k] = books[k]
    BY <1>1
  <2> DEFINE msg == SnapshotOf(m, good)
  <2>4. /\ msg \in Messages /\ msg.epoch = pub.epoch /\ msg.seq = pub.seq + 1
        /\ msg.m = m /\ msg.kind = "snapshot" /\ msg.lv = lv /\ msg.after = good
    <3> HIDE DEF good
    <3>1. pub.tries < MaxTries
      BY <2>1 DEF Publish
    <3> QED
      BY <3>1, <2>2, NextNumber DEF SnapshotOf, Message, Messages
  <2> HIDE DEF good, msg
  <2>5. Sound(msg) /\ Link(books, msg) /\ NoNews(msg.after, books')
    BY <2>1, <2>2, <2>3, <2>4 DEF Sound, Link, NoNews
  <2>6. \A k \in Markets : Fresh(books'[k]) => ~Crossed(books'[k].lv)
    BY <2>1, <2>2, <2>3, <1>3 DEF Inv, TypeOK
  <2>7. pub.due \in SUBSET Markets
    BY DEF Inv, TypeOK, Publishers
  <2> QED
    BY <2>1, <2>2, <2>4, <2>5, <2>6, <2>7, <1>1, PublishStep DEF msg
<1> QED
  BY <1>2, <1>3

LEMMA DeltaStep ==
  ASSUME Inv, NEW m \in Markets, NEW d \in Deltas, DeltaArrives(m, d)
  PROVE  Inv'
<1> DEFINE up == Updated(books[m].lv, d)
           lv == Added(books[m].lv, d)
           added == [books EXCEPT ![m].lv = Added(books[m].lv, d)]
<1>1. /\ books \in [Markets -> Books] /\ books[m] \in Books /\ books[m].lv \in Levels
      /\ con' = con /\ Fresh(books[m]) /\ up <= MaxCount
  BY BusFacts DEF DeltaArrives, Books
<1>2. up \in Int
  <2>1. books[m].lv[d.side][d.price] \in Nat /\ d.n \in Int
    BY <1>1, Bounds DEF Levels, Deltas
  <2> QED
    BY <2>1 DEF Updated
<1>3. CASE up < 0
  <2>1. books' = [books EXCEPT ![m] = Stale(books[m])] /\ Silent
    BY <1>3, <1>2 DEF DeltaArrives
  <2>2. books' \in [Markets -> Books] /\ ~Fresh(books'[m])
    BY <2>1, <1>1, StaleType
  <2>3. NoNews(books, books')
    BY <2>1, <2>2, <1>1 DEF NoNews
  <2> QED
    BY <2>1, <2>2, <2>3, <1>1, SilentStep
<1>4. CASE up >= 0
  <2>1. up \in 0 .. MaxCount
    BY <1>1, <1>2, <1>4, Bounds
  <2>2. lv \in Levels
    BY <2>1, <1>1, AddedType
  <2>3. /\ added \in [Markets -> Books] /\ added[m].lv = lv /\ Fresh(added[m])
        /\ \A k \in Markets \ {m} : added[k] = books[k]
    <3>1. /\ [books[m] EXCEPT !.lv = lv] \in Books /\ [books[m] EXCEPT !.lv = lv].lv = lv
          /\ Fresh([books[m] EXCEPT !.lv = lv])
      BY <1>1, <2>2 DEF Books, Fresh
    <3>2. added = [books EXCEPT ![m] = [books[m] EXCEPT !.lv = lv]]
      BY <1>1
    <3> HIDE DEF lv, added
    <3> QED
      BY <1>1, <3>1, <3>2
  <2>4. CASE Crossed(added[m].lv)
    <3>1. books' = [added EXCEPT ![m] = Stale(added[m])] /\ Silent
      BY <2>4, <1>2, <1>4 DEF DeltaArrives
    <3> HIDE DEF added, up, lv
    <3>2. books' \in [Markets -> Books] /\ ~Fresh(books'[m])
      BY <3>1, <2>3, StaleType
    <3>3. NoNews(books, books')
      BY <3>1, <3>2, <2>3, <1>1 DEF NoNews
    <3> QED
      BY <3>1, <3>2, <3>3, <1>1, SilentStep
  <2>5. CASE ~Crossed(added[m].lv)
    <3> DEFINE msg == DeltaOf(m, d, added)
    <3>1. books' = added /\ Publish(msg, pub.due)
      BY <2>5, <1>2, <1>4 DEF DeltaArrives
    <3> HIDE DEF added
    <3>2. /\ msg \in Messages /\ msg.epoch = pub.epoch /\ msg.seq = pub.seq + 1
          /\ msg.m = m /\ msg.kind = "delta" /\ msg.d = d /\ msg.after = added
      <4>1. pub.tries < MaxTries
        BY <3>1 DEF Publish
      <4> QED
        BY <4>1, <2>3, NextNumber, Bounds DEF DeltaOf, Message, Messages
    <3> HIDE DEF msg, up
    <3>3. Sound(msg) /\ Link(books, msg) /\ NoNews(msg.after, books')
      BY <3>1, <3>2, <2>3, <1>1 DEF Sound, Link, NoNews
    <3>4. \A k \in Markets : Fresh(books'[k]) => ~Crossed(books'[k].lv)
      BY <3>1, <2>3, <2>5 DEF Inv, TypeOK
    <3>5. pub.due \in SUBSET Markets
      BY DEF Inv, TypeOK, Publishers
    <3> QED
      BY <3>1, <3>2, <3>3, <3>4, <3>5, <2>3, <1>1, PublishStep
  <2> QED
    BY <2>4, <2>5
<1> QED
  BY <1>2, <1>3, <1>4

LEMMA StaleInKeeps ==
  ASSUME Inv, NEW ms \in SUBSET Markets, books' = StaleIn(ms)
  PROVE  /\ books' \in [Markets -> Books] /\ NoNews(books, books')
         /\ \A m \in Markets : Fresh(books'[m]) => ~Crossed(books'[m].lv)
<1>1. books \in [Markets -> Books]
  BY BusFacts
<1>2. books' \in [Markets -> Books]
  BY <1>1, StaleType DEF StaleIn
<1>3. \A m \in Markets : Fresh(books'[m]) => books'[m] = books[m]
  BY <1>1, StaleType DEF StaleIn
<1> QED
  BY <1>2, <1>3 DEF NoNews, Inv, TypeOK

(* A notice is about no book. *)
LEMMA NoticeStep ==
  ASSUME Inv, NEW kind \in {"catalog", "other"}, NEW due \in SUBSET Markets,
         NEW after, after \in [Markets -> Books],
         \A m \in Markets : Fresh(after[m]) <=> Fresh(books[m]),
         \A m \in Markets : after[m].lv = books[m].lv,
         Publish(Notice(kind, after), due), con' = con,
         books' \in [Markets -> Books], NoNews(after, books')
  PROVE  Inv'
<1> DEFINE msg == Notice(kind, after)
<1>1. /\ msg \in Messages /\ msg.epoch = pub.epoch /\ msg.seq = pub.seq + 1
      /\ msg.kind = kind /\ msg.after = after
  <2>1. pub.tries < MaxTries
    BY DEF Publish
  <2>2. (CHOOSE m \in Markets : TRUE) \in Markets /\ NoLevels \in Levels
    BY Bounds
  <2> QED
    BY <2>1, <2>2, NextNumber DEF Notice, Message, Messages
<1> HIDE DEF msg
<1>2. Sound(msg) /\ Link(books, msg)
  BY <1>1 DEF Sound, Link
<1>3. \A m \in Markets : Fresh(books'[m]) => ~Crossed(books'[m].lv)
  BY DEF NoNews, Inv, TypeOK
<1> QED
  BY <1>1, <1>2, <1>3, PublishStep DEF msg

LEMMA RefreshStep ==
  ASSUME Inv, NEW m \in Markets, PublishRefresh(m)
  PROVE  Inv'
<1>1. /\ books \in [Markets -> Books] /\ books[m] \in Books /\ m \in pub.due
      /\ pub.due \in SUBSET Markets /\ books' = books /\ con' = con
  BY BusFacts DEF PublishRefresh, Publishers
<1>2. NoNews(books, books) /\ \A k \in Markets : Fresh(books'[k]) => ~Crossed(books'[k].lv)
  BY <1>1 DEF NoNews, Inv, TypeOK
<1>3. CASE books[m].held
  <2> DEFINE msg == RefreshOf(m)
  <2>1. Publish(msg, pub.due \ {m})
    BY <1>3 DEF PublishRefresh
  <2>2. /\ msg \in Messages /\ msg.epoch = pub.epoch /\ msg.seq = pub.seq + 1
        /\ msg.m = m /\ msg.kind = "refresh" /\ msg.lv = books[m].lv
        /\ msg.stale = books[m].stale /\ msg.after = books
    <3>1. pub.tries < MaxTries
      BY <2>1 DEF Publish
    <3>2. books[m].lv \in Levels /\ books[m].stale \in BOOLEAN
      BY <1>1 DEF Books
    <3> QED
      BY <3>1, <3>2, <1>1, NextNumber DEF RefreshOf, Message, Messages
  <2> HIDE DEF msg
  <2>3. Sound(msg) /\ Link(books, msg)
    BY <2>2, <1>3 DEF Sound, Link
  <2> QED
    BY <2>1, <2>2, <2>3, <1>1, <1>2, PublishStep
<1>4. CASE ~books[m].held
  <2>1. pub' = [pub EXCEPT !.due = pub.due \ {m}] /\ bus' = bus
    BY <1>4 DEF PublishRefresh
  <2>2. /\ pub' \in Publishers /\ pub'.epoch = pub.epoch /\ pub'.seq = pub.seq
        /\ pub'.seq <= pub'.tries
    BY <2>1, <1>1 DEF Inv, TypeOK, Publishers
  <2>3. \A i \in 0 .. Len(bus) : At(i)' = At(i)
    BY <2>1, <1>1 DEF At, Place
  <2>4. Chain'
    BY <2>1, <2>3 DEF Inv, Chain, Succeeds, Sound, Before
  <2>5. Recent'
    BY <2>1, <2>2, <2>3, <1>1 DEF Inv, Recent
  <2>6. bus' \in Seq(Messages) /\ Len(bus') <= HighWater
    BY <2>1 DEF Inv, TypeOK
  <2> QED
    BY <2>2, <2>4, <2>5, <2>6, <1>1, <1>2, ConsumerWaits, InvParts
<1> QED
  BY <1>3, <1>4

LEMMA CycleStep == ASSUME Inv, CycleBegins PROVE Inv'
<1>1. /\ books \in [Markets -> Books] /\ con' = con
      /\ books' = [m \in Markets |-> IF books[m].held THEN [books[m] EXCEPT !.begun = Most(@ + 1)]
                                      ELSE books[m]]
      /\ Publish(Notice("catalog", books'), {m \in Markets : books[m].held})
  BY BusFacts DEF CycleBegins
<1>2. \A m \in Markets : /\ books'[m] \in Books /\ books'[m].lv = books[m].lv
                         /\ Fresh(books'[m]) <=> Fresh(books[m])
  BY <1>1 DEF Books, Most, Fresh
<1>3. books' \in [Markets -> Books]
  BY <1>1, <1>2
<1>4. NoNews(books', books')
  BY DEF NoNews
<1> QED
  BY <1>1, <1>2, <1>3, <1>4, NoticeStep

LEMMA OtherStep == ASSUME Inv, OtherEvent PROVE Inv'
<1>1. /\ Publish(Notice("other", books), pub.due) /\ con' = con
      /\ books \in [Markets -> Books] /\ pub.due \in SUBSET Markets
  BY BusFacts DEF OtherEvent, Publishers
<1>2. PICK ms \in SUBSET Markets : books' = StaleIn(ms)
  BY DEF OtherEvent
<1>3. books' \in [Markets -> Books] /\ NoNews(books, books')
  BY <1>2, StaleInKeeps
<1> QED
  BY <1>1, <1>3, NoticeStep

LEMMA GoStaleStep == ASSUME Inv, BooksGoStale PROVE Inv'
<1>1. PICK ms \in SUBSET Markets : books' = StaleIn(ms)
  BY DEF BooksGoStale
<1>2. books' \in [Markets -> Books] /\ NoNews(books, books')
  BY <1>1, StaleInKeeps
<1> QED
  BY <1>2, SilentStep DEF BooksGoStale

LEMMA LeavesStep ==
  ASSUME Inv, NEW m \in Markets, MarketLeaves(m)
  PROVE  Inv'
<1>1. /\ books \in [Markets -> Books] /\ con' = con /\ Silent
      /\ books' = [books EXCEPT ![m] = NoBook]
  BY BusFacts DEF MarketLeaves
<1>2. books' \in [Markets -> Books] /\ NoNews(books, books')
  BY <1>1, NoBookType DEF NoNews
<1> QED
  BY <1>1, <1>2, SilentStep

LEMMA CloseStep == ASSUME Inv, ClosePublisher PROVE Inv'
<1>1. /\ pub' = [pub EXCEPT !.open = FALSE] /\ BusCutShort /\ books' = books /\ con' = con
  BY DEF ClosePublisher
<1>2. /\ bus' \in Seq(Messages) /\ Len(bus') <= HighWater /\ Len(bus') \in 0 .. Len(bus)
      /\ \A i \in 0 .. Len(bus') : At(i)' = At(i)
      /\ Chain'
  BY <1>1, CutKeeps
<1>3. /\ pub' \in Publishers /\ pub'.seq <= pub'.tries
      /\ pub'.epoch = pub.epoch /\ pub'.seq = pub.seq
  BY <1>1 DEF Inv, TypeOK, Publishers
<1>4. Recent'
  <2> SUFFICES ASSUME NEW i \in 0 .. Len(bus')
               PROVE  /\ At(i).epoch <= pub.epoch
                      /\ At(i).epoch = pub.epoch => At(i).seq <= pub.seq
                      /\ At(i).epoch = pub.epoch /\ At(i).seq = pub.seq
                           => NoNews(At(i).after, books)
    BY <1>1, <1>2, <1>3 DEF Recent
  <2>1. i \in 0 .. Len(bus)
    BY <1>2, BusFacts
  <2> QED
    BY <2>1 DEF Inv, Recent
<1>5. books' \in [Markets -> Books] /\ \A m \in Markets : Fresh(books'[m]) => ~Crossed(books'[m].lv)
  BY <1>1 DEF Inv, TypeOK
<1> QED
  BY <1>1, <1>2, <1>3, <1>4, <1>5, ConsumerWaits, InvParts

LEMMA RestartStep == ASSUME Inv, RestartRecorder PROVE Inv'
<1>1. /\ pub' = NewPublisher(pub.epoch + 1, pub.tries) /\ pub.epoch < MaxEpochs
      /\ books' = [m \in Markets |-> NoBook] /\ BusCutShort /\ con' = con
  BY DEF RestartRecorder
<1>2. /\ bus' \in Seq(Messages) /\ Len(bus') <= HighWater /\ Len(bus') \in 0 .. Len(bus)
      /\ \A i \in 0 .. Len(bus') : At(i)' = At(i)
      /\ Chain'
  BY <1>1, CutKeeps
<1>3. pub.epoch \in 1 .. MaxEpochs /\ pub.tries \in 0 .. MaxTries
  BY DEF Inv, TypeOK, Publishers
<1>4. /\ pub' \in Publishers /\ pub'.seq <= pub'.tries /\ pub'.epoch = pub.epoch + 1
  BY <1>1, <1>3, Bounds DEF NewPublisher, Publishers
<1>5. Recent'
  <2> SUFFICES ASSUME NEW i \in 0 .. Len(bus') PROVE At(i)'.epoch < pub'.epoch
    <3>1. \A i \in 0 .. Len(bus') : At(i)'.epoch \in Nat
      BY <1>2, BusFacts
    <3> QED
      BY <3>1, <1>3, <1>4, Bounds DEF Recent
  <2>1. i \in 0 .. Len(bus)
    BY <1>2, BusFacts
  <2>2. At(i).epoch <= pub.epoch /\ At(i).epoch \in Nat
    BY <2>1, BusFacts DEF Inv, Recent
  <2> QED
    BY <2>2, <1>2, <1>3, <1>4, Bounds
<1>6. books' \in [Markets -> Books] /\ \A m \in Markets : Fresh(books'[m]) => ~Crossed(books'[m].lv)
  BY <1>1, NoBookType
<1> QED
  BY <1>1, <1>2, <1>4, <1>5, <1>6, ConsumerWaits, InvParts

LEMMA ReceiveStep == ASSUME Inv, Receive \/ Undecodable PROVE Inv'
<1>1. /\ bus # << >> /\ bus' = Tail(bus) /\ UNCHANGED <<pub, books>>
      /\ con' = Observed(Head(bus)) \/ con' = con
  BY DEF Receive, Undecodable
<1>2. /\ con' \in Consumers /\ CopiesFollow'
      /\ \A m \in Markets : ~Crossed(con'.copy[m].lv)
      /\ \/ con' = con
         \/ con'.epoch = bus[1].epoch /\ con'.seq = bus[1].seq /\ con'.seen = bus[1].after
  BY <1>1, ObserveKeeps, ConsumerWaits
<1>3. bus' \in Seq(Messages) /\ Len(bus') <= HighWater /\ Chain' /\ Recent'
  BY <1>1, <1>2, TailKeeps
<1>4. /\ pub' \in Publishers /\ pub'.seq <= pub'.tries /\ books' \in [Markets -> Books]
      /\ \A m \in Markets : Fresh(books'[m]) => ~Crossed(books'[m].lv)
  BY <1>1 DEF Inv, TypeOK
<1> QED
  BY <1>2, <1>3, <1>4, InvParts

(* A consumer that has observed nothing. *)
LEMMA NewConsumerFacts ==
  /\ NewConsumer \in Consumers /\ NewConsumer.epoch = 0
  /\ \A m \in Markets : /\ ~Fresh(NewConsumer.seen[m]) /\ ~Crossed(NewConsumer.copy[m].lv)
  /\ << >> \in Seq(Messages) /\ Len(<< >>) = 0 /\ 0 <= HighWater
<1>1. NoCopy \in Copies /\ ~Crossed(NoCopy.lv)
  BY Bounds DEF NoCopy, Copies
<1>2. /\ NewConsumer.seen = [m \in Markets |-> NoBook] /\ NewConsumer.epoch = 0
      /\ NewConsumer.copy = [m \in Markets |-> NoCopy]
  BY DEF NewConsumer, NoEpoch
<1>3. NewConsumer \in Consumers
  BY <1>1, NoBookType, Bounds DEF NewConsumer, NoEpoch, Consumers
<1> QED
  BY <1>1, <1>2, <1>3, NoBookType, Bounds

LEMMA RestartConsumerStep == ASSUME Inv, RestartConsumer PROVE Inv'
<1>1. con' = NewConsumer /\ bus' = << >> /\ pub' = pub /\ books' = books
  BY DEF RestartConsumer
<1>2. /\ con' \in Consumers /\ \A m \in Markets : ~Crossed(con'.copy[m].lv)
      /\ bus' \in Seq(Messages) /\ Len(bus') = 0 /\ Len(bus') <= HighWater
  BY <1>1, NewConsumerFacts
<1>3. CopiesFollow' /\ Chain'
  BY <1>1, <1>2, NewConsumerFacts DEF CopiesFollow, Chain, Fresh
<1>4. pub.epoch \in 1 .. MaxEpochs
  BY DEF Inv, TypeOK, Publishers
<1>5. Recent'
  BY <1>1, <1>2, <1>4, NewConsumerFacts, Bounds DEF Recent, At, Place
<1>6. /\ pub' \in Publishers /\ pub'.seq <= pub'.tries /\ books' \in [Markets -> Books]
      /\ \A m \in Markets : Fresh(books'[m]) => ~Crossed(books'[m].lv)
  BY <1>1 DEF Inv, TypeOK
<1> QED
  BY <1>2, <1>3, <1>5, <1>6, InvParts

LEMMA InvInit == ASSUME Init PROVE Inv
<1>1. con = NewConsumer /\ bus = << >> /\ pub = NewPublisher(1, 0)
      /\ books = [m \in Markets |-> NoBook]
  BY DEF Init
<1>2. /\ con \in Consumers /\ \A m \in Markets : ~Crossed(con.copy[m].lv)
      /\ bus \in Seq(Messages) /\ Len(bus) = 0 /\ Len(bus) <= HighWater
  BY <1>1, NewConsumerFacts
<1>3. CopiesFollow /\ Chain
  BY <1>1, <1>2, NewConsumerFacts DEF CopiesFollow, Chain
<1>4. pub \in Publishers /\ pub.seq <= pub.tries /\ pub.epoch = 1
  BY <1>1, Bounds DEF NewPublisher, Publishers
<1>5. Recent
  BY <1>1, <1>2, <1>4, NewConsumerFacts DEF Recent, At, Place
<1>6. books \in [Markets -> Books] /\ \A m \in Markets : Fresh(books[m]) => ~Crossed(books[m].lv)
  BY <1>1, NoBookType
<1> QED
  BY <1>2, <1>3, <1>4, <1>5, <1>6 DEF Inv, TypeOK

LEMMA InvNext == Inv /\ [Next]_vars => Inv'
<1> SUFFICES ASSUME Inv, [Next]_vars PROVE Inv'
  OBVIOUS
<1>1. ASSUME NEW m \in Markets, NEW lv \in Levels, SnapshotArrives(m, lv) PROVE Inv'
  BY <1>1, SnapshotStep
<1>2. ASSUME NEW m \in Markets, NEW d \in Deltas, DeltaArrives(m, d) PROVE Inv'
  BY <1>2, DeltaStep
<1>3. ASSUME NEW m \in Markets, MarketLeaves(m) PROVE Inv'
  BY <1>3, LeavesStep
<1>4. ASSUME NEW m \in Markets, PublishRefresh(m) PROVE Inv'
  BY <1>4, RefreshStep
<1>5. CASE OtherEvent
  BY <1>5, OtherStep
<1>6. CASE BooksGoStale
  BY <1>6, GoStaleStep
<1>7. CASE CycleBegins
  BY <1>7, CycleStep
<1>8. CASE ClosePublisher
  BY <1>8, CloseStep
<1>9. CASE RestartRecorder
  BY <1>9, RestartStep
<1>10. CASE Receive \/ Undecodable
  BY <1>10, ReceiveStep
<1>11. CASE RestartConsumer
  BY <1>11, RestartConsumerStep
<1>12. CASE UNCHANGED vars
  BY SMTT(60), <1>12 DEF vars, Inv, TypeOK, Chain, Recent, CopiesFollow, At, Place, Succeeds,
               Sound, Before, Link, NoNews, Fresh
<1> QED
  BY <1>1, <1>2, <1>3, <1>4, <1>5, <1>6, <1>7, <1>8, <1>9, <1>10, <1>11, <1>12 DEF Next

-----------------------------------------------------------------------------
LEMMA InvAlways == Spec => []Inv
<1>1. Init => Inv
  BY InvInit
<1>2. Inv /\ [Next]_vars => Inv'
  BY InvNext
<1> QED
  BY <1>1, <1>2, PTL DEF Spec

(* LiveBooks: for every set of markets and prices, every queue bound and any losses,
   a fresh copy has the publisher's levels as of the last message observed whenever
   the publisher's book is fresh, and a stale copy is stale at the publisher. *)
THEOREM CopiesAlwaysFollow == Spec => []CopiesFollow
<1>1. Inv => CopiesFollow
  BY DEF Inv
<1> QED
  BY <1>1, InvAlways, PTL

(* SequencedPublisher, LiveBooks: every step keeps the state well formed, and no copy
   holds a crossed book. *)
THEOREM TypeCorrect == Spec => []TypeOK
<1>1. Inv => TypeOK
  BY DEF Inv
<1> QED
  BY <1>1, InvAlways, PTL
-----------------------------------------------------------------------------
(* KnownAfterCycle.  A message does not say what is left of the refresh cycle when
   it was sent, so the invariant states that there is a ledger of it: for the consumer
   and each message in flight a set of markets still to come. *)

Goes(p, msg) == p.epoch = msg.epoch /\ msg.seq = p.seq + 1

Latest(p) == p.epoch = pub.epoch /\ p.seq = pub.seq

(* From books p with due left to the next message with left left: a cycle starts
   when nothing is left, and in a cycle a market is crossed out by its image or
   because its book was gone, which makes it one that no cycle began with. *)
Owed(p, due, msg, left) ==
  \A m \in Markets :
    IF msg.kind = "catalog" THEN msg.after[m].begun = 2 => p[m].begun >= 1 /\ m \notin due
    ELSE msg.after[m].begun >= 1 =>
           /\ p[m].begun = msg.after[m].begun
           /\ m \in due => m \in left \/ (msg.kind = "refresh" /\ msg.m = m)

StillOwed(p, due, b, left) ==
  \A m \in Markets :
    b[m].begun >= 1 => p[m].begun = b[m].begun /\ (m \in due => m \in left)

AllOwed(msg, left) ==
  msg.kind = "catalog" => \A m \in Markets : msg.after[m].begun >= 1 => m \in left

(* A consumer that has seen a cycle begin knows what is not left of it. *)
Learnt(left) ==
  con.cats >= 1 /\ ~con.broken =>
    \A m \in Markets :
      con.seen[m].begun >= 1 /\ con.copy[m].st = "unknown" =>
        m \in left /\ (con.cats = 2 => con.seen[m].begun = 1)

Ledger(D) ==
  /\ \A i \in 1 .. Len(bus) : AllOwed(bus[i], D[i])
  /\ \A i \in 1 .. Len(bus) :
       Goes(At(i - 1), bus[i]) => Owed(At(i - 1).after, D[i - 1], bus[i], D[i])
  /\ \A i \in 0 .. Len(bus) : Latest(At(i)) => StillOwed(At(i).after, D[i], books, pub.due)
  /\ Learnt(D[0])

BegunHeld == \A m \in Markets : books[m].begun >= 1 => books[m].held

KnownInv == BegunHeld /\ \E D \in [0 .. Len(bus) -> SUBSET Markets] : Ledger(D)

LEMMA BegunType ==
  ASSUME NEW b \in [Markets -> Books], NEW m \in Markets
  PROVE  b[m].begun \in 0 .. 2 /\ b[m].held \in BOOLEAN /\ b[m] \in Books
BY DEF Books

LEMMA OwedLater ==
  ASSUME NEW p, NEW due, NEW q, NEW more, NEW msg, NEW left,
         StillOwed(p, due, q, more), Owed(q, more, msg, left)
  PROVE  Owed(p, due, msg, left)
<1> SUFFICES ASSUME NEW m \in Markets
             PROVE  IF msg.kind = "catalog"
                    THEN msg.after[m].begun = 2 => p[m].begun >= 1 /\ m \notin due
                    ELSE msg.after[m].begun >= 1 =>
                           /\ p[m].begun = msg.after[m].begun
                           /\ m \in due => m \in left \/ (msg.kind = "refresh" /\ msg.m = m)
  BY DEF Owed
<1>1. q[m].begun >= 1 => p[m].begun = q[m].begun /\ (m \in due => m \in more)
  BY DEF StillOwed
<1>2. CASE msg.kind = "catalog"
  <2>1. msg.after[m].begun = 2 => q[m].begun >= 1 /\ m \notin more
    BY <1>2 DEF Owed
  <2> QED BY <1>1, <1>2, <2>1
<1>3. CASE msg.kind # "catalog"
  <2>1. msg.after[m].begun >= 1 =>
          /\ q[m].begun = msg.after[m].begun
          /\ m \in more => m \in left \/ (msg.kind = "refresh" /\ msg.m = m)
    BY <1>3 DEF Owed
  <2> QED BY <1>1, <1>3, <2>1
<1> QED BY <1>2, <1>3

LEMMA StillLater ==
  ASSUME NEW p, NEW due, NEW q, NEW more, NEW b, NEW left,
         StillOwed(p, due, q, more), StillOwed(q, more, b, left)
  PROVE  StillOwed(p, due, b, left)
BY DEF StillOwed

(* A message is sent, or spends its number and is lost. *)
LEMMA LedgerSent ==
  ASSUME Inv, KnownInv, NEW msg, NEW due \in SUBSET Markets,
         msg.epoch = pub.epoch, msg.seq = pub.seq + 1, Publish(msg, due), con' = con,
         Owed(books, pub.due, msg, due), AllOwed(msg, due),
         StillOwed(msg.after, due, books', due)
  PROVE  \E D \in [0 .. Len(bus') -> SUBSET Markets] : Ledger(D)'
<1>1. PICK D \in [0 .. Len(bus) -> SUBSET Markets] : Ledger(D)
  BY DEF KnownInv
<1>2. /\ pub.seq \in Nat /\ pub.epoch \in Nat
      /\ pub'.seq = pub.seq + 1 /\ pub'.epoch = pub.epoch /\ pub'.due = due
  <2>1. pub \in Publishers /\ pub.seq \in Nat /\ pub.epoch \in Nat
    BY BusFacts
  <2> QED BY <2>1 DEF Publish, Publishers
<1>3. bus \in Seq(Messages) /\ Len(bus) \in Nat
  BY BusFacts
<1>4. \A i \in 0 .. Len(bus) : ~(At(i).epoch = pub'.epoch /\ At(i).seq = pub'.seq)
  <2> TAKE i \in 0 .. Len(bus)
  <2>1. At(i).epoch = pub.epoch => At(i).seq <= pub.seq
    BY DEF Inv, Recent
  <2>2. At(i).seq \in Nat
    BY BusFacts
  <2> QED BY <2>1, <2>2, <1>2
<1>5. CASE bus' = bus
  <2>1. \A i \in 0 .. Len(bus) : At(i)' = At(i)
    BY <1>5 DEF At, Place
  <2>2. \A i \in 1 .. Len(bus) : i - 1 \in 0 .. Len(bus)
    BY <1>3
  <2>3. \A i \in 1 .. Len(bus) : AllOwed(bus[i], D[i])'
    BY <1>1, <1>5 DEF Ledger, AllOwed
  <2>4. \A i \in 1 .. Len(bus) :
          Goes(At(i - 1)', bus'[i]) => Owed(At(i - 1).after', D[i - 1], bus'[i], D[i])
    BY <1>1, <1>5, <2>1, <2>2 DEF Ledger
  <2>5. \A i \in 0 .. Len(bus) : ~Latest(At(i))'
    BY <1>4, <2>1 DEF Latest
  <2>6. Learnt(D[0])'
    BY <1>1 DEF Ledger, Learnt
  <2>7. Ledger(D)'
    BY <1>5, <2>3, <2>4, <2>5, <2>6 DEF Ledger, Goes, Owed
  <2> QED BY <1>5, <2>7
<1>6. CASE bus' = Append(bus, msg)
  <2>1. /\ Len(bus') = Len(bus) + 1 /\ bus'[Len(bus) + 1] = msg
        /\ \A i \in 1 .. Len(bus) : bus'[i] = bus[i]
    BY <1>3, <1>6
  <2>2. \A i \in 0 .. Len(bus) : At(i)' = At(i)
    BY <1>3, <2>1 DEF At, Place
  <2>3. \A i : i = Len(bus) + 1 => At(i)' = Place(msg.epoch, msg.seq, msg.after)
    <3>1. Len(bus) + 1 # 0
      BY <1>3
    <3> QED BY <3>1, <2>1 DEF At
  <2>10. \E F \in [0 .. Len(bus') -> SUBSET Markets] :
           F[Len(bus) + 1] = due /\ \A i \in 0 .. Len(bus) : F[i] = D[i]
    <3> DEFINE F == [i \in 0 .. Len(bus) + 1 |-> IF i = Len(bus) + 1 THEN due ELSE D[i]]
    <3>1. F \in [0 .. Len(bus') -> SUBSET Markets]
      BY <1>3, <2>1
    <3>2. F[Len(bus) + 1] = due /\ \A i \in 0 .. Len(bus) : F[i] = D[i]
      BY <1>3
    <3> HIDE DEF F
    <3> QED BY <3>1, <3>2
  <2>4. PICK E \in [0 .. Len(bus') -> SUBSET Markets] :
          E[Len(bus) + 1] = due /\ \A i \in 0 .. Len(bus) : E[i] = D[i]
    BY <2>10
  <2>5. \A i \in 1 .. Len(bus) + 1 : AllOwed(bus[i], E[i])'
    <3> TAKE i \in 1 .. Len(bus) + 1
    <3>1. CASE i = Len(bus) + 1
      BY <3>1, <2>1, <2>4 DEF AllOwed
    <3>2. CASE i \in 1 .. Len(bus)
      <4>1. AllOwed(bus[i], D[i]) /\ i \in 0 .. Len(bus)
        BY <1>1, <1>3, <3>2 DEF Ledger
      <4> QED BY <4>1, <3>2, <2>1, <2>4 DEF AllOwed
    <3> QED BY <3>1, <3>2, <1>3
  <2>6. \A i \in 1 .. Len(bus) + 1 :
          Goes(At(i - 1)', bus'[i]) => Owed(At(i - 1).after', E[i - 1], bus'[i], E[i])
    <3> TAKE i \in 1 .. Len(bus) + 1
    <3>1. CASE i = Len(bus) + 1
      <4>1. i - 1 = Len(bus) /\ Len(bus) \in 0 .. Len(bus)
        BY <3>1, <1>3
      <4>2. HAVE Goes(At(i - 1)', bus'[i])
      <4>3. Goes(At(Len(bus)), msg)
        BY <4>1, <4>2, <3>1, <2>1, <2>2
      <4>4. Latest(At(Len(bus)))
        <5>1. At(Len(bus)).seq \in Nat
          BY <4>1, BusFacts
        <5> QED BY <4>3, <5>1, <1>2 DEF Goes, Latest
      <4>5. StillOwed(At(Len(bus)).after, D[Len(bus)], books, pub.due)
        BY <1>1, <4>1, <4>4 DEF Ledger
      <4>6. Owed(At(Len(bus)).after, D[Len(bus)], msg, due)
        BY <4>5, OwedLater
      <4> QED BY <3>1, <4>1, <4>6, <2>1, <2>2, <2>4
    <3>2. CASE i \in 1 .. Len(bus)
      <4>1. i - 1 \in 0 .. Len(bus) /\ i \in 0 .. Len(bus)
        BY <3>2, <1>3
      <4>2. Goes(At(i - 1), bus[i]) => Owed(At(i - 1).after, D[i - 1], bus[i], D[i])
        BY <1>1, <3>2 DEF Ledger
      <4> QED BY <3>2, <4>1, <4>2, <2>1, <2>2, <2>4
    <3> QED BY <3>1, <3>2, <1>3
  <2>7. \A i \in 0 .. Len(bus) + 1 :
          Latest(At(i))' => StillOwed(At(i).after', E[i], books', pub'.due)
    <3> TAKE i \in 0 .. Len(bus) + 1
    <3>1. CASE i = Len(bus) + 1
      BY <3>1, <2>3, <2>4, <1>2 DEF Place
    <3>2. CASE i \in 0 .. Len(bus)
      BY <3>2, <2>2, <1>4 DEF Latest
    <3> QED BY <3>1, <3>2, <1>3
  <2>8. Learnt(E[0])'
    <3>1. 0 \in 0 .. Len(bus)
      BY <1>3
    <3> QED BY <3>1, <1>1, <2>4 DEF Ledger, Learnt
  <2>9. Ledger(E)'
    BY <2>1, <2>5, <2>6, <2>7, <2>8 DEF Ledger, Goes, Owed, StillOwed
  <2> QED BY <2>4, <2>9
<1> QED BY <1>5, <1>6 DEF Publish

(* Nothing is sent. *)
LEMMA LedgerQuiet ==
  ASSUME Inv, KnownInv, bus' = bus, con' = con, pub'.epoch = pub.epoch, pub'.seq = pub.seq,
         StillOwed(books, pub.due, books', pub'.due)
  PROVE  \E D \in [0 .. Len(bus') -> SUBSET Markets] : Ledger(D)'
<1>1. PICK D \in [0 .. Len(bus) -> SUBSET Markets] : Ledger(D)
  BY DEF KnownInv
<1>2. \A i \in 0 .. Len(bus) : At(i)' = At(i)
  BY DEF At, Place
<1>3. Len(bus) \in Nat
  BY BusFacts
<1>4. \A i \in 1 .. Len(bus) : AllOwed(bus[i], D[i])'
  BY <1>1 DEF Ledger, AllOwed
<1>5. \A i \in 1 .. Len(bus) :
        Goes(At(i - 1)', bus'[i]) => Owed(At(i - 1).after', D[i - 1], bus'[i], D[i])
  <2>1. \A i \in 1 .. Len(bus) : i - 1 \in 0 .. Len(bus)
    BY <1>3
  <2> QED BY <1>1, <1>2, <2>1 DEF Ledger
<1>6. \A i \in 0 .. Len(bus) : Latest(At(i))' => StillOwed(At(i).after', D[i], books', pub'.due)
  <2> TAKE i \in 0 .. Len(bus)
  <2>1. HAVE Latest(At(i))'
  <2>2. Latest(At(i)) /\ At(i)' = At(i)
    BY <2>1, <1>2 DEF Latest
  <2>3. StillOwed(At(i).after, D[i], books, pub.due)
    BY <2>2, <1>1 DEF Ledger
  <2> QED BY <2>2, <2>3, StillLater
<1>7. Learnt(D[0])'
  BY <1>1 DEF Ledger, Learnt
<1>8. Ledger(D)'
  BY <1>4, <1>5, <1>6, <1>7 DEF Ledger, Goes, Owed, StillOwed
<1> QED BY <1>8

(* What the consumer has not taken is cut short. *)
LEMMA LedgerCut ==
  ASSUME Inv, KnownInv, BusCutShort, con' = con,
         \/ pub'.epoch = pub.epoch /\ pub'.seq = pub.seq /\ pub'.due = pub.due /\ books' = books
         \/ pub'.epoch = pub.epoch + 1
  PROVE  \E D \in [0 .. Len(bus') -> SUBSET Markets] : Ledger(D)'
<1>1. PICK D \in [0 .. Len(bus) -> SUBSET Markets] : Ledger(D)
  BY DEF KnownInv
<1>2. PICK n \in 0 .. Len(bus) : bus' = SubSeq(bus, 1, n)
  BY DEF BusCutShort
<1>3. /\ bus \in Seq(Messages) /\ Len(bus) \in Nat /\ n \in Nat
      /\ 0 .. n \subseteq 0 .. Len(bus) /\ 1 .. n \subseteq 1 .. Len(bus)
      /\ pub.epoch \in Nat
  BY BusFacts
<1>4. Len(bus') = n /\ \A i \in 1 .. n : bus'[i] = bus[i]
  BY <1>2, <1>3
<1>5. \A i \in 0 .. n : At(i)' = At(i)
  BY <1>3, <1>4 DEF At, Place
<1>6. PICK E \in [0 .. n -> SUBSET Markets] : \A i \in 0 .. n : E[i] = D[i]
  <2> DEFINE F == [i \in 0 .. n |-> D[i]]
  <2>1. F \in [0 .. n -> SUBSET Markets] /\ \A i \in 0 .. n : F[i] = D[i]
    BY <1>3
  <2> HIDE DEF F
  <2> QED BY <2>1
<1>7. \A i \in 1 .. n : AllOwed(bus[i], E[i])'
  BY <1>1, <1>3, <1>4, <1>6 DEF Ledger, AllOwed
<1>8. \A i \in 1 .. n :
        Goes(At(i - 1)', bus'[i]) => Owed(At(i - 1).after', E[i - 1], bus'[i], E[i])
  <2>1. \A i \in 1 .. n : i - 1 \in 0 .. n /\ i \in 0 .. n /\ i \in 1 .. Len(bus)
    BY <1>3
  <2> QED BY <1>1, <1>4, <1>5, <1>6, <2>1 DEF Ledger
<1>9. \A i \in 0 .. n : Latest(At(i))' => StillOwed(At(i).after', E[i], books', pub'.due)
  <2> TAKE i \in 0 .. n
  <2>1. i \in 0 .. Len(bus) /\ At(i)' = At(i) /\ E[i] = D[i]
    BY <1>3, <1>5, <1>6
  <2>2. HAVE Latest(At(i))'
  <2>3. CASE pub'.epoch = pub.epoch /\ pub'.seq = pub.seq /\ pub'.due = pub.due /\ books' = books
    <3>1. Latest(At(i))
      BY <2>1, <2>2, <2>3 DEF Latest
    <3>2. StillOwed(At(i).after, D[i], books, pub.due)
      BY <3>1, <2>1, <1>1 DEF Ledger
    <3> QED BY <3>2, <2>1, <2>3
  <2>4. CASE pub'.epoch = pub.epoch + 1
    <3>1. At(i).epoch <= pub.epoch /\ At(i).epoch \in Nat
      BY <2>1, BusFacts DEF Inv, Recent
    <3> QED BY <3>1, <2>1, <2>2, <2>4, <1>3 DEF Latest
  <2> QED BY <2>3, <2>4
<1>10. Learnt(E[0])'
  <2>1. 0 \in 0 .. n
    BY <1>3
  <2> QED BY <2>1, <1>1, <1>6 DEF Ledger, Learnt
<1>11. Ledger(E)'
  BY <1>4, <1>7, <1>8, <1>9, <1>10 DEF Ledger, Goes, Owed, StillOwed
<1> QED BY <1>4, <1>6, <1>11

(* A consumer takes up the next message, or one that does not follow. *)
LEMMA LearntObserved ==
  ASSUME Inv, NEW D \in [0 .. Len(bus) -> SUBSET Markets], Ledger(D),
         bus # << >>, con' = Observed(Head(bus))
  PROVE  Learnt(D[1])'
<1> DEFINE msg == bus[1]
           kept == IF Follows(msg) THEN con.copy ELSE [m \in Markets |-> NoCopy]
           cats == IF Follows(msg) THEN con.cats ELSE 0
<1>1. 1 \in 1 .. Len(bus) /\ Head(bus) = msg /\ msg \in Messages /\ con \in Consumers
  BY BusFacts
<1>2. /\ con'.copy = [kept EXCEPT ![msg.m] = Applied(kept[msg.m], msg)]
      /\ con'.broken = (con.broken \/ Broke(kept[msg.m], msg))
      /\ con'.seen = msg.after
      /\ con'.cats = IF msg.kind = "catalog" THEN Most(cats + 1) ELSE cats
  BY <1>1 DEF Observed
<1>3. /\ con.copy \in [Markets -> Copies] /\ con.seen \in [Markets -> Books]
      /\ con.cats \in 0 .. 2 /\ msg.m \in Markets /\ msg.after \in [Markets -> Books]
  BY <1>1 DEF Consumers, Messages
<1>4. kept \in [Markets -> Copies] /\ cats \in 0 .. 2
  BY <1>3, Bounds DEF NoCopy, Copies
<1>5. AllOwed(msg, D[1])
  BY <1>1 DEF Ledger
<1>6. Follows(msg) => Owed(con.seen, D[0], msg, D[1])
  <2>1. 1 \in 1 .. Len(bus) => (Goes(At(1 - 1), bus[1]) => Owed(At(1 - 1).after, D[1 - 1], bus[1], D[1]))
    BY DEF Ledger
  <2>2. At(1 - 1) = Place(con.epoch, con.seq, con.seen)
    BY DEF At
  <2> QED BY <2>1, <2>2, <1>1 DEF Follows, Goes, Place
<1>7. Follows(msg) => Learnt(D[0])
  BY DEF Ledger
<1> HIDE DEF msg, kept, cats
<1> SUFFICES ASSUME con'.cats >= 1, ~con'.broken, NEW m \in Markets,
                    msg.after[m].begun >= 1, con'.copy[m].st = "unknown"
             PROVE  m \in D[1] /\ (con'.cats = 2 => msg.after[m].begun = 1)
  BY <1>2 DEF Learnt
<1>8. msg.after[m].begun \in 0 .. 2
  BY <1>3, BegunType
<1>9. kept[m].st = "unknown" /\ ~(msg.kind = "refresh" /\ msg.m = m)
  <2>1. ~Broke(kept[msg.m], msg)
    BY <1>2
  <2>2. CASE m = msg.m
    <3>1. Applied(kept[msg.m], msg).st = "unknown"
      BY <2>2, <1>2, <1>3, <1>4
    <3> QED BY <3>1, <2>1, <2>2 DEF Broke
  <2>3. CASE m # msg.m
    <3>1. con'.copy[m] = kept[m]
      BY <2>3, <1>2, <1>3, <1>4
    <3> QED BY <3>1, <2>3
  <2> QED BY <2>2, <2>3
<1>10. Follows(msg) => con.copy[m].st = "unknown" /\ ~con.broken /\ cats = con.cats
  BY <1>2, <1>9 DEF kept, cats
<1>11. ~Follows(msg) => cats = 0
  BY DEF cats
<1>12. CASE msg.kind = "catalog"
  <2>1. m \in D[1]
    BY <1>5, <1>12 DEF AllOwed
  <2>2. ASSUME con'.cats = 2, msg.after[m].begun = 2 PROVE FALSE
    <3>1. cats >= 1
      BY <2>2, <1>2, <1>4, <1>12 DEF Most
    <3>2. Follows(msg) /\ con.cats >= 1
      BY <3>1, <1>10, <1>11
    <3>3. con.seen[m].begun >= 1 /\ m \notin D[0]
      BY <3>2, <2>2, <1>6, <1>12 DEF Owed
    <3> QED BY <3>2, <3>3, <1>7, <1>10 DEF Learnt
  <2> QED BY <2>1, <2>2, <1>8
<1>13. CASE msg.kind # "catalog"
  <2>1. con'.cats = cats
    BY <1>2, <1>13
  <2>2. Follows(msg) /\ cats = con.cats
    BY <2>1, <1>10, <1>11
  <2>3. con.seen[m].begun = msg.after[m].begun /\ (m \in D[0] => m \in D[1])
    BY <2>2, <1>6, <1>9, <1>13 DEF Owed
  <2>4. m \in D[0] /\ (con.cats = 2 => con.seen[m].begun = 1)
    BY <2>1, <2>2, <2>3, <1>7, <1>10 DEF Learnt
  <2> QED BY <2>1, <2>2, <2>3, <2>4
<1> QED BY <1>12, <1>13

(* The head leaves the queue; the consumer takes it up or not. *)
LEMMA LedgerTail ==
  ASSUME Inv, KnownInv, bus # << >>, bus' = Tail(bus), UNCHANGED <<pub, books>>,
         con' = con \/ con' = Observed(Head(bus))
  PROVE  \E D \in [0 .. Len(bus') -> SUBSET Markets] : Ledger(D)'
<1>1. PICK D \in [0 .. Len(bus) -> SUBSET Markets] : Ledger(D)
  BY DEF KnownInv
<1>2. /\ bus \in Seq(Messages) /\ Len(bus) \in Nat \ {0} /\ Len(bus') = Len(bus) - 1
      /\ \A i \in 1 .. Len(bus) - 1 : bus'[i] = bus[i + 1]
  BY BusFacts
<1>3. \A i \in 1 .. Len(bus) - 1 : At(i)' = At(i + 1)
  BY <1>2 DEF At, Place
<1>4. \E first \in 0 .. 1 : At(0)' = At(first) /\ Learnt(D[first])'
  <2>1. CASE con' = con
    <3>1. At(0)' = At(0) /\ Learnt(D[0])'
      BY <2>1, <1>1 DEF At, Ledger, Learnt
    <3> QED BY <3>1
  <2>2. CASE con' = Observed(Head(bus))
    <3>1. Learnt(D[1])'
      BY <2>2, <1>1, LearntObserved
    <3>2. At(0)' = At(1)
      BY <2>2, <1>2 DEF At, Observed
    <3> QED BY <3>1, <3>2
  <2> QED BY <2>1, <2>2
<1>5. PICK first \in 0 .. 1 : At(0)' = At(first) /\ Learnt(D[first])'
  BY <1>4
<1>6. PICK E \in [0 .. Len(bus') -> SUBSET Markets] :
        E[0] = D[first] /\ \A i \in 1 .. Len(bus) - 1 : E[i] = D[i + 1]
  <2> DEFINE F == [i \in 0 .. Len(bus) - 1 |-> IF i = 0 THEN D[first] ELSE D[i + 1]]
  <2>1. F \in [0 .. Len(bus') -> SUBSET Markets]
    BY <1>2
  <2>2. F[0] = D[first] /\ \A i \in 1 .. Len(bus) - 1 : F[i] = D[i + 1]
    BY <1>2
  <2> HIDE DEF F
  <2> QED BY <2>1, <2>2
<1>7. \A i \in 1 .. Len(bus) - 1 : AllOwed(bus[i], E[i])'
  <2> TAKE i \in 1 .. Len(bus) - 1
  <2>1. i + 1 \in 1 .. Len(bus)
    BY <1>2
  <2>2. AllOwed(bus[i + 1], D[i + 1])
    BY <2>1, <1>1 DEF Ledger
  <2> QED BY <2>2, <1>2, <1>6 DEF AllOwed
<1>8. \A i \in 1 .. Len(bus) - 1 :
        Goes(At(i - 1)', bus'[i]) => Owed(At(i - 1).after', E[i - 1], bus'[i], E[i])
  <2> TAKE i \in 1 .. Len(bus) - 1
  <2>1. i + 1 \in 1 .. Len(bus) /\ (i + 1) - 1 = i /\ bus'[i] = bus[i + 1]
    BY <1>2
  <2>2. Goes(At(i), bus[i + 1]) => Owed(At(i).after, D[i], bus[i + 1], D[i + 1])
    BY <2>1, <1>1 DEF Ledger
  <2>3. CASE i # 1
    <3>1. i - 1 \in 1 .. Len(bus) - 1 /\ (i - 1) + 1 = i
      BY <2>3, <1>2
    <3>2. At(i - 1)' = At(i) /\ E[i - 1] = D[i]
      BY <3>1, <1>3, <1>6
    <3> QED BY <3>2, <2>1, <2>2, <1>6
  <2>4. CASE i = 1 /\ first = 1
    <3>1. At(i - 1)' = At(1) /\ E[i - 1] = D[1]
      BY <2>4, <1>5, <1>6
    <3> QED BY <3>1, <2>1, <2>2, <2>4, <1>6
  <2>5. CASE i = 1 /\ first = 0
    <3>1. At(i - 1)' = At(0)
      BY <2>5, <1>5
    <3>2. 1 \in 1 .. Len(bus) /\ 2 \in 1 .. Len(bus)
      BY <2>1, <2>5, <1>2
    <3>3. Before(At(1 - 1), bus[1]) /\ Before(At(2 - 1), bus[2])
      BY <3>2 DEF Inv, Chain
    <3>4. Before(At(0), bus[1]) /\ Before(At(1), bus[2])
      BY <3>3
    <3>5. /\ At(0).epoch \in Nat /\ At(0).seq \in Nat /\ At(1).epoch \in Nat /\ At(1).seq \in Nat
          /\ At(1).epoch = bus[1].epoch /\ At(1).seq = bus[1].seq
      BY <3>2, BusFacts DEF At, Place
    <3>6. bus[2].epoch \in Nat /\ bus[2].seq \in Nat
      <4>1. bus[2] \in Messages
        BY <3>2, BusFacts
      <4> QED BY <4>1, Bounds DEF Messages
    <3>7. ~Goes(At(0), bus[2])
      BY <3>4, <3>5, <3>6 DEF Before, Goes
    <3> QED BY <3>1, <3>7, <2>1, <2>5
  <2> QED BY <2>3, <2>4, <2>5
<1>9. \A i \in 0 .. Len(bus) - 1 :
        Latest(At(i))' => StillOwed(At(i).after', E[i], books', pub'.due)
  <2> TAKE i \in 0 .. Len(bus) - 1
  <2>1. PICK j \in 0 .. Len(bus) : At(i)' = At(j) /\ E[i] = D[j]
    <3>1. CASE i = 0
      <4>1. first \in 0 .. Len(bus)
        BY <1>2
      <4> QED BY <3>1, <4>1, <1>5, <1>6
    <3>2. CASE i # 0
      <4>1. i \in 1 .. Len(bus) - 1 /\ i + 1 \in 0 .. Len(bus)
        BY <3>2, <1>2
      <4> QED BY <4>1, <1>3, <1>6
    <3> QED BY <3>1, <3>2
  <2>2. HAVE Latest(At(i))'
  <2>3. Latest(At(j))
    BY <2>1, <2>2 DEF Latest
  <2> QED BY <2>1, <2>3, <1>1 DEF Ledger
<1>10. Learnt(E[0])'
  BY <1>5, <1>6 DEF Learnt
<1>11. Ledger(E)'
  BY <1>2, <1>7, <1>8, <1>9, <1>10 DEF Ledger, Goes, Owed, StillOwed
<1> QED BY <1>2, <1>6, <1>11

(* Books that keep what a cycle began with, or lose it. *)
LEMMA NoneBegun ==
  ASSUME NEW b, NEW due,
         \A m \in Markets : books[m].begun = b[m].begun \/ ~(b[m].begun >= 1)
  PROVE  StillOwed(books, due, b, due)
BY DEF StillOwed

LEMMA BegunAfterStale ==
  ASSUME Inv, NEW ms \in SUBSET Markets, books' = StaleIn(ms)
  PROVE  \A m \in Markets : books'[m].begun = books[m].begun /\ books'[m].held = books[m].held
<1>1. books \in [Markets -> Books]
  BY BusFacts
<1>2. \A m \in Markets : books'[m] = Stale(books[m]) \/ books'[m] = books[m]
  BY DEF StaleIn
<1> QED BY <1>1, <1>2 DEF Stale, Books

LEMMA KnownSnapshot ==
  ASSUME Inv, KnownInv, NEW m \in Markets, NEW lv \in Levels, SnapshotArrives(m, lv)
  PROVE  KnownInv'
<1> DEFINE book == IF books[m].held THEN books[m] ELSE NewBook
           bad == [books EXCEPT ![m] = Stale(book)]
           good == [books EXCEPT ![m] = [book EXCEPT !.stale = FALSE, !.lv = lv]]
<1>1. books \in [Markets -> Books] /\ book \in Books /\ con' = con
  BY BusFacts, NoBookType DEF SnapshotArrives
<1>2. book.begun = books[m].begun \/ book.begun = 0
  BY DEF NewBook
<1>3. book.held = TRUE
  BY <1>1, BegunType DEF NewBook
<1>4. \A b \in {bad, good} :
        /\ b[m].held = TRUE /\ b[m].begun = book.begun
        /\ \A k \in Markets \ {m} : b[k] = books[k]
  <2>1. /\ Stale(book).held = TRUE /\ Stale(book).begun = book.begun
        /\ [book EXCEPT !.stale = FALSE, !.lv = lv].held = TRUE
        /\ [book EXCEPT !.stale = FALSE, !.lv = lv].begun = book.begun
    BY <1>1, <1>3 DEF Books, Stale
  <2> HIDE DEF book
  <2> QED BY <2>1, <1>1
<1>5. books' \in {bad, good} /\ books' \in [Markets -> Books]
  <2>1. Stale(book) \in Books /\ [book EXCEPT !.stale = FALSE, !.lv = lv] \in Books
    BY <1>1, StaleType, BookType
  <2>2. bad \in [Markets -> Books] /\ good \in [Markets -> Books]
    BY <2>1, <1>1
  <2> HIDE DEF bad, good
  <2> QED BY <2>2 DEF SnapshotArrives, bad, good
<1>6. \A k \in Markets : books[k].begun = books'[k].begun \/ ~(books'[k].begun >= 1)
  <2> TAKE k \in Markets
  <2>1. CASE k = m
    <3>1. books'[m].begun = book.begun
      BY <1>4, <1>5
    <3> HIDE DEF book
    <3> QED BY <2>1, <3>1, <1>2
  <2>2. CASE k # m
    BY <2>2, <1>4, <1>5
  <2> QED BY <2>1, <2>2
<1>7. BegunHeld'
  <2>1. \A k \in Markets : books'[k].begun >= 1 => books'[k].held
    BY <1>4, <1>5 DEF KnownInv, BegunHeld
  <2> QED BY <2>1 DEF BegunHeld
<1>8. StillOwed(books, pub.due, books', pub.due)
  BY <1>6, NoneBegun
<1> HIDE DEF bad, good, book
<1>9. CASE Crossed(lv)
  <2>1. Silent
    BY <1>9 DEF SnapshotArrives
  <2> QED BY <2>1, <1>1, <1>7, <1>8, LedgerQuiet DEF Silent, KnownInv
<1>10. CASE ~Crossed(lv)
  <2>1. books' = good /\ Publish(SnapshotOf(m, good), pub.due)
    BY <1>10 DEF SnapshotArrives, good, book
  <2> DEFINE msg == SnapshotOf(m, good)
  <2>2. /\ msg.epoch = pub.epoch /\ msg.seq = pub.seq + 1
        /\ msg.kind = "snapshot" /\ msg.after = books'
    BY <2>1 DEF SnapshotOf, Message
  <2> HIDE DEF msg
  <2>3. Owed(books, pub.due, msg, pub.due) /\ AllOwed(msg, pub.due)
    BY <2>2, <1>6 DEF Owed, AllOwed
  <2>4. StillOwed(msg.after, pub.due, books', pub.due)
    BY <2>2 DEF StillOwed
  <2>5. pub.due \in SUBSET Markets
    BY BusFacts DEF Publishers
  <2>6. Publish(msg, pub.due)
    BY <2>1 DEF msg
  <2> QED BY <2>2, <2>3, <2>4, <2>5, <2>6, <1>1, <1>7, LedgerSent DEF KnownInv
<1> QED BY <1>9, <1>10

LEMMA KnownDelta ==
  ASSUME Inv, KnownInv, NEW m \in Markets, NEW d \in Deltas, DeltaArrives(m, d)
  PROVE  KnownInv'
<1> DEFINE lv == Added(books[m].lv, d)
           added == [books EXCEPT ![m].lv = Added(books[m].lv, d)]
<1>1. books \in [Markets -> Books] /\ books[m] \in Books /\ con' = con
  BY BusFacts DEF DeltaArrives
<1>2. added = [books EXCEPT ![m] = [books[m] EXCEPT !.lv = lv]]
  BY <1>1
<1>3. /\ [books[m] EXCEPT !.lv = lv].held = books[m].held
      /\ [books[m] EXCEPT !.lv = lv].begun = books[m].begun
      /\ Stale(books[m]).held = books[m].held /\ Stale(books[m]).begun = books[m].begun
      /\ Stale([books[m] EXCEPT !.lv = lv]).held = books[m].held
      /\ Stale([books[m] EXCEPT !.lv = lv]).begun = books[m].begun
  BY <1>1 DEF Books, Stale
<1> DEFINE next == {[books EXCEPT ![m] = Stale(books[m])], [added EXCEPT ![m] = Stale(added[m])], added}
<1>4. \A b \in next : \A k \in Markets : b[k].held = books[k].held /\ b[k].begun = books[k].begun
  <2> HIDE DEF lv
  <2>1. added[m] = [books[m] EXCEPT !.lv = lv] /\ \A k \in Markets \ {m} : added[k] = books[k]
    BY <1>1, <1>2
  <2>2. added = [k \in Markets |-> added[k]]
    BY <1>1, <1>2
  <2> HIDE DEF added
  <2> QED BY <1>1, <1>3, <2>1, <2>2
<1>5. /\ books' \in next
      /\ Silent \/ (books' = added /\ Publish(DeltaOf(m, d, added), pub.due))
  <2> HIDE DEF added
  <2> QED BY DEF DeltaArrives, added
<1>6. \A k \in Markets : books'[k].held = books[k].held /\ books'[k].begun = books[k].begun
  BY <1>4, <1>5
<1>7. BegunHeld'
  <2>1. \A k \in Markets : books'[k].begun >= 1 => books'[k].held
    BY <1>6 DEF KnownInv, BegunHeld
  <2> QED BY <2>1 DEF BegunHeld
<1>8. StillOwed(books, pub.due, books', pub.due)
  BY <1>6, NoneBegun
<1> HIDE DEF next, added, lv
<1>9. CASE Silent
  BY <1>9, <1>1, <1>7, <1>8, LedgerQuiet DEF Silent, KnownInv
<1>10. CASE books' = added /\ Publish(DeltaOf(m, d, added), pub.due)
  <2> DEFINE msg == DeltaOf(m, d, added)
  <2>2. /\ msg.epoch = pub.epoch /\ msg.seq = pub.seq + 1
        /\ msg.kind = "delta" /\ msg.after = books'
    BY <1>10 DEF DeltaOf, Message
  <2> HIDE DEF msg
  <2>3. Owed(books, pub.due, msg, pub.due) /\ AllOwed(msg, pub.due)
    BY <2>2, <1>6 DEF Owed, AllOwed
  <2>4. StillOwed(msg.after, pub.due, books', pub.due)
    BY <2>2 DEF StillOwed
  <2>5. pub.due \in SUBSET Markets
    BY BusFacts DEF Publishers
  <2>6. Publish(msg, pub.due)
    BY <1>10 DEF msg
  <2> QED BY <2>2, <2>3, <2>4, <2>5, <2>6, <1>1, <1>7, LedgerSent DEF KnownInv
<1> QED BY <1>5, <1>9, <1>10

LEMMA KnownOther == ASSUME Inv, KnownInv, OtherEvent PROVE KnownInv'
<1> DEFINE msg == Notice("other", books)
<1>1. Publish(msg, pub.due) /\ con' = con /\ pub.due \in SUBSET Markets
  BY BusFacts DEF OtherEvent, Publishers
<1>2. PICK ms \in SUBSET Markets : books' = StaleIn(ms)
  BY DEF OtherEvent
<1>3. \A m \in Markets : books'[m].begun = books[m].begun /\ books'[m].held = books[m].held
  BY <1>2, BegunAfterStale
<1>4. BegunHeld'
  <2>1. \A k \in Markets : books'[k].begun >= 1 => books'[k].held
    BY <1>3 DEF KnownInv, BegunHeld
  <2> QED BY <2>1 DEF BegunHeld
<1>5. /\ msg.epoch = pub.epoch /\ msg.seq = pub.seq + 1
      /\ msg.kind = "other" /\ msg.after = books
  BY DEF Notice, Message
<1> HIDE DEF msg
<1>6. Owed(books, pub.due, msg, pub.due) /\ AllOwed(msg, pub.due)
  BY <1>5 DEF Owed, AllOwed
<1>7. StillOwed(msg.after, pub.due, books', pub.due)
  BY <1>3, <1>5 DEF StillOwed
<1> QED BY <1>1, <1>4, <1>5, <1>6, <1>7, LedgerSent DEF KnownInv

LEMMA KnownGoStale == ASSUME Inv, KnownInv, BooksGoStale PROVE KnownInv'
<1>1. PICK ms \in SUBSET Markets : books' = StaleIn(ms)
  BY DEF BooksGoStale
<1>2. \A m \in Markets : books'[m].begun = books[m].begun /\ books'[m].held = books[m].held
  BY <1>1, BegunAfterStale
<1>3. BegunHeld'
  <2>1. \A k \in Markets : books'[k].begun >= 1 => books'[k].held
    BY <1>2 DEF KnownInv, BegunHeld
  <2> QED BY <2>1 DEF BegunHeld
<1>4. StillOwed(books, pub.due, books', pub.due)
  BY <1>2, NoneBegun
<1> QED BY <1>3, <1>4, LedgerQuiet DEF BooksGoStale, Silent, KnownInv

LEMMA KnownLeaves ==
  ASSUME Inv, KnownInv, NEW m \in Markets, MarketLeaves(m) PROVE KnownInv'
<1>1. /\ books \in [Markets -> Books] /\ con' = con /\ Silent
      /\ books' = [books EXCEPT ![m] = NoBook] /\ NoBook.begun = 0
  BY BusFacts DEF MarketLeaves, NoBook
<1>2. /\ books'[m] = NoBook /\ \A k \in Markets \ {m} : books'[k] = books[k]
  BY <1>1
<1>3. BegunHeld'
  <2>1. \A k \in Markets : books'[k].begun >= 1 => books'[k].held
    BY <1>1, <1>2 DEF KnownInv, BegunHeld
  <2> QED BY <2>1 DEF BegunHeld
<1>4. \A k \in Markets : books[k].begun = books'[k].begun \/ ~(books'[k].begun >= 1)
  BY <1>1, <1>2
<1>5. StillOwed(books, pub.due, books', pub.due)
  BY <1>4, NoneBegun
<1> QED BY <1>1, <1>3, <1>5, LedgerQuiet DEF Silent, KnownInv

LEMMA KnownRefresh ==
  ASSUME Inv, KnownInv, NEW m \in Markets, PublishRefresh(m) PROVE KnownInv'
<1>1. books' = books /\ con' = con /\ pub \in Publishers /\ pub.due \in SUBSET Markets
  BY BusFacts DEF PublishRefresh, Publishers
<1>2. BegunHeld'
  BY <1>1 DEF KnownInv, BegunHeld
<1>3. CASE books[m].held
  <2> DEFINE msg == RefreshOf(m)
  <2>1. Publish(msg, pub.due \ {m})
    BY <1>3 DEF PublishRefresh
  <2>2. /\ msg.epoch = pub.epoch /\ msg.seq = pub.seq + 1 /\ msg.m = m
        /\ msg.kind = "refresh" /\ msg.after = books
    BY DEF RefreshOf, Message
  <2> HIDE DEF msg
  <2>3. Owed(books, pub.due, msg, pub.due \ {m}) /\ AllOwed(msg, pub.due \ {m})
    BY <2>2 DEF Owed, AllOwed
  <2>4. StillOwed(msg.after, pub.due \ {m}, books', pub.due \ {m})
    BY <2>2, <1>1 DEF StillOwed
  <2>5. pub.due \ {m} \in SUBSET Markets
    BY <1>1
  <2> QED BY <2>1, <2>2, <2>3, <2>4, <2>5, <1>1, <1>2, LedgerSent DEF KnownInv
<1>4. CASE ~books[m].held
  <2>1. pub' = [pub EXCEPT !.due = pub.due \ {m}] /\ bus' = bus
    BY <1>4 DEF PublishRefresh
  <2>2. pub'.epoch = pub.epoch /\ pub'.seq = pub.seq /\ pub'.due = pub.due \ {m}
    BY <2>1, <1>1 DEF Publishers
  <2>3. ~(books[m].begun >= 1)
    BY <1>4 DEF KnownInv, BegunHeld
  <2>4. StillOwed(books, pub.due, books', pub'.due)
    BY <1>1, <2>2, <2>3 DEF StillOwed
  <2> QED BY <1>1, <1>2, <2>1, <2>2, <2>4, LedgerQuiet DEF KnownInv
<1> QED BY <1>3, <1>4

LEMMA KnownCycle == ASSUME Inv, KnownInv, CycleBegins PROVE KnownInv'
<1> DEFINE msg == Notice("catalog", books')
           due == {m \in Markets : books[m].held}
<1>1. /\ books \in [Markets -> Books] /\ con' = con /\ pub.due = {}
      /\ books' = [m \in Markets |-> IF books[m].held THEN [books[m] EXCEPT !.begun = Most(@ + 1)]
                                      ELSE books[m]]
      /\ Publish(msg, due)
  BY BusFacts DEF CycleBegins
<1>2. /\ msg.epoch = pub.epoch /\ msg.seq = pub.seq + 1
      /\ msg.kind = "catalog" /\ msg.after = books'
  BY DEF Notice, Message
<1> HIDE DEF msg
<1>3. \A m \in Markets :
        /\ books'[m].begun >= 1 => books'[m].held /\ m \in due
        /\ books'[m].begun = 2 => books[m].begun >= 1
  <2> TAKE m \in Markets
  <2>1. books[m] \in Books /\ books[m].begun \in 0 .. 2 /\ books[m].held \in BOOLEAN
    BY <1>1, BegunType
  <2>2. CASE books[m].held
    <3>1. /\ books'[m].begun = Most(books[m].begun + 1) /\ books'[m].held = TRUE
      BY <2>1, <2>2, <1>1 DEF Books
    <3> QED BY <3>1, <2>1, <2>2 DEF Most
  <2>3. CASE ~books[m].held
    <3>1. books'[m] = books[m] /\ ~(books[m].begun >= 1)
      BY <2>3, <1>1 DEF KnownInv, BegunHeld
    <3> QED BY <3>1, <2>1
  <2> QED BY <2>2, <2>3
<1> HIDE DEF due
<1>4. Owed(books, pub.due, msg, due) /\ AllOwed(msg, due)
  BY <1>1, <1>2, <1>3 DEF Owed, AllOwed
<1>5. StillOwed(msg.after, due, books', due) /\ BegunHeld'
  <2>1. \A k \in Markets : books'[k].begun >= 1 => books'[k].held
    BY <1>3
  <2> QED BY <2>1, <1>2 DEF StillOwed, BegunHeld
<1>6. due \in SUBSET Markets
  BY DEF due
<1> QED BY <1>1, <1>2, <1>4, <1>5, <1>6, LedgerSent DEF KnownInv

LEMMA KnownClose == ASSUME Inv, KnownInv, ClosePublisher PROVE KnownInv'
<1>1. /\ pub' = [pub EXCEPT !.open = FALSE] /\ BusCutShort /\ books' = books /\ con' = con
      /\ pub \in Publishers
  BY BusFacts DEF ClosePublisher
<1>2. pub'.epoch = pub.epoch /\ pub'.seq = pub.seq /\ pub'.due = pub.due
  BY <1>1 DEF Publishers
<1> QED BY <1>1, <1>2, LedgerCut DEF KnownInv, BegunHeld

LEMMA KnownRestart == ASSUME Inv, KnownInv, RestartRecorder PROVE KnownInv'
<1>1. /\ pub' = NewPublisher(pub.epoch + 1, pub.tries) /\ BusCutShort
      /\ books' = [m \in Markets |-> NoBook] /\ con' = con
  BY DEF RestartRecorder
<1>2. pub'.epoch = pub.epoch + 1
  BY <1>1 DEF NewPublisher
<1>3. BegunHeld'
  BY <1>1 DEF BegunHeld, NoBook
<1> QED BY <1>1, <1>2, <1>3, LedgerCut DEF KnownInv

(* A consumer that has seen nothing, and nothing on its way. *)
LEMMA NothingLearnt ==
  ASSUME con = NewConsumer, bus = << >>, pub.epoch # 0
  PROVE  \E D \in [0 .. Len(bus) -> SUBSET Markets] : Ledger(D)
<1>1. Len(bus) = 0 /\ 0 .. 0 = {0} /\ 1 .. 0 = {}
  OBVIOUS
<1>2. con.cats = 0 /\ con.epoch = 0
  BY DEF NewConsumer, NoEpoch
<1>3. PICK D \in [0 .. Len(bus) -> SUBSET Markets] : TRUE
  <2>1. [i \in 0 .. Len(bus) |-> {}] \in [0 .. Len(bus) -> SUBSET Markets]
    OBVIOUS
  <2> QED BY <2>1
<1>4. \A i \in 0 .. Len(bus) : ~Latest(At(i))
  BY <1>1, <1>2 DEF Latest, At, Place
<1>5. Learnt(D[0])
  BY <1>2 DEF Learnt
<1>6. Ledger(D)
  BY <1>1, <1>4, <1>5 DEF Ledger
<1> QED BY <1>6

LEMMA KnownConsumer == ASSUME Inv, KnownInv, RestartConsumer PROVE KnownInv'
<1>1. con' = NewConsumer /\ bus' = << >> /\ pub' = pub /\ books' = books
  BY DEF RestartConsumer
<1>2. pub'.epoch # 0
  BY <1>1, BusFacts DEF Publishers
<1>3. (\E D \in [0 .. Len(bus) -> SUBSET Markets] : Ledger(D))'
  <2>1. (con = NewConsumer /\ bus = << >> /\ pub.epoch # 0 =>
           \E D \in [0 .. Len(bus) -> SUBSET Markets] : Ledger(D))'
    BY NothingLearnt, PTL
  <2> QED BY <1>1, <1>2, <2>1
<1> QED BY <1>1, <1>3 DEF KnownInv, BegunHeld

LEMMA KnownReceive == ASSUME Inv, KnownInv, Receive \/ Undecodable PROVE KnownInv'
<1>1. /\ bus # << >> /\ bus' = Tail(bus) /\ UNCHANGED <<pub, books>>
      /\ con' = Observed(Head(bus)) \/ con' = con
  BY DEF Receive, Undecodable
<1> QED BY <1>1, LedgerTail DEF KnownInv, BegunHeld

LEMMA KnownInit == ASSUME Init PROVE KnownInv
<1>1. con = NewConsumer /\ bus = << >> /\ pub.epoch # 0 /\ BegunHeld
  BY DEF Init, NewPublisher, BegunHeld, NoBook
<1>2. \E D \in [0 .. Len(bus) -> SUBSET Markets] : Ledger(D)
  BY <1>1, NothingLearnt
<1> QED BY <1>1, <1>2 DEF KnownInv

LEMMA KnownNext == Inv /\ KnownInv /\ [Next]_vars => KnownInv'
<1> SUFFICES ASSUME Inv, KnownInv, [Next]_vars PROVE KnownInv'
  OBVIOUS
<1>1. ASSUME NEW m \in Markets, NEW lv \in Levels, SnapshotArrives(m, lv) PROVE KnownInv'
  BY <1>1, KnownSnapshot
<1>2. ASSUME NEW m \in Markets, NEW d \in Deltas, DeltaArrives(m, d) PROVE KnownInv'
  BY <1>2, KnownDelta
<1>3. ASSUME NEW m \in Markets, MarketLeaves(m) PROVE KnownInv'
  BY <1>3, KnownLeaves
<1>4. ASSUME NEW m \in Markets, PublishRefresh(m) PROVE KnownInv'
  BY <1>4, KnownRefresh
<1>5. CASE OtherEvent
  BY <1>5, KnownOther
<1>6. CASE BooksGoStale
  BY <1>6, KnownGoStale
<1>7. CASE CycleBegins
  BY <1>7, KnownCycle
<1>8. CASE ClosePublisher
  BY <1>8, KnownClose
<1>9. CASE RestartRecorder
  BY <1>9, KnownRestart
<1>10. CASE Receive \/ Undecodable
  BY <1>10, KnownReceive
<1>11. CASE RestartConsumer
  BY <1>11, KnownConsumer
<1>12. CASE UNCHANGED vars
  <2>1. StillOwed(books, pub.due, books', pub'.due)
    BY <1>12 DEF vars, StillOwed
  <2> QED BY <1>12, <2>1, LedgerQuiet DEF vars, KnownInv, BegunHeld
<1> QED
  BY <1>1, <1>2, <1>3, <1>4, <1>5, <1>6, <1>7, <1>8, <1>9, <1>10, <1>11, <1>12 DEF Next

LEMMA KnownSuffices == Inv /\ KnownInv => KnownAfterCycle
<1> SUFFICES ASSUME Inv, KnownInv, con.cats = 2, ~con.broken,
                    NEW m \in Markets, con.seen[m].begun = 2, con.copy[m].st = "unknown"
             PROVE  FALSE
  BY DEF KnownAfterCycle
<1>1. \E D \in [0 .. Len(bus) -> SUBSET Markets] : Learnt(D[0])
  BY DEF KnownInv, Ledger
<1> QED BY <1>1 DEF Learnt

(* _bus_refresh_loop, LiveBooks.observe: for every set of markets, queue bound, losses
   and restarts, a consumer that followed a whole refresh cycle without a loss holds a
   copy of every book that was held when the cycle began and when it ended, unless a
   book broke an invariant. *)
THEOREM KnownAlwaysAfterCycle == Spec => []KnownAfterCycle
<1>1. Inv /\ KnownInv => KnownAfterCycle
  BY KnownSuffices
<1>2. Init => KnownInv
  BY KnownInit
<1>3. Inv /\ KnownInv /\ [Next]_vars => KnownInv'
  BY KnownNext
<1> QED BY <1>1, <1>2, <1>3, InvAlways, PTL DEF Spec
-----------------------------------------------------------------------------
(* The sessions.  What a client holds is a fold over what is queued for it, and what is
   queued is made by folds over markets: each of them by its step. *)

ViewStep(c, view, line) == Viewed(view, line)
ResyncStep(copies, q, m) == q \o Resync(m, copies)
ImageStep(copies, q, m) == q \o Image(m, copies)
DropStep(c, q, m) == Append(q, Line("resync", m))
ReplyStep(c, q, line) == IF line.reply THEN Append(q, line) ELSE q
Viewing == INSTANCE Folding WITH Op <- ViewStep
Resyncing == INSTANCE Folding WITH Op <- ResyncStep
Imaging == INSTANCE Folding WITH Op <- ImageStep
Dropping == INSTANCE Folding WITH Op <- DropStep
Replying == INSTANCE Folding WITH Op <- ReplyStep

(* Induction over the numbers, which the lemmas on folds ask for. *)
Less == OpToRel(<, Nat)

LEMMA Smallest ==
  ASSUME NEW S \in SUBSET Nat, S # {}
  PROVE  \E x \in S : \A y \in S : x <= y
<1>1. IsWellFoundedOn(Less, Nat)
  BY NatLessThanWellFounded DEF Less
<1>2. PICK x \in S : \A y \in S : ~(<<y, x>> \in Less)
  BY <1>1, WFMin
<1>3. ASSUME NEW y \in S PROVE x <= y
  <2>1. x \in Nat /\ y \in Nat /\ <<y, x>> \in Nat \X Nat
    OBVIOUS
  <2>2. ~(<<y, x>> \in Less)
    BY <1>2
  <2>3. ~(y < x)
    BY <2>1, <2>2 DEF Less, OpToRel
  <2> QED BY <2>1, <2>3
<1> QED BY <1>3

LEMMA UpTo ==
  ASSUME NEW N \in Nat, NEW S \in SUBSET (0 .. N), 0 \in S,
         \A n \in 0 .. N - 1 : n \in S => n + 1 \in S
  PROVE  S = 0 .. N
<1> DEFINE R == (0 .. N) \ S
<1> SUFFICES ASSUME R # {} PROVE FALSE
  OBVIOUS
<1>1. R \in SUBSET Nat
  OBVIOUS
<1>2. PICK x \in R : \A y \in R : x <= y
  <2> HIDE DEF R
  <2> QED BY <1>1, Smallest
<1>3. x - 1 \in 0 .. N - 1 /\ x - 1 \in S
  BY <1>2
<1> QED BY <1>2, <1>3

LEMMA Climbing == Viewing!Climbs /\ Resyncing!Climbs /\ Imaging!Climbs /\ Dropping!Climbs /\ Replying!Climbs
<1>1. ASSUME NEW N \in Nat, NEW S \in SUBSET (0 .. N), 0 \in S,
             \A n \in 0 .. N - 1 : n \in S => n + 1 \in S
      PROVE  S = 0 .. N
  BY <1>1, UpTo
<1> QED BY <1>1 DEF Viewing!Climbs, Resyncing!Climbs, Imaging!Climbs, Dropping!Climbs, Replying!Climbs

(* What is left of a view once the messages of q are taken. *)
Taken(view, q) == FoldLeft(Viewed, view, q)

Kinds == {"subscribed", "snapshot", "delta", "stale", "fresh", "resync", "other"}

Lines ==
  [kind : Kinds, m : Markets, copy : Copies, d : Deltas \cup {NoDelta},
   on : SUBSET Markets, new : SUBSET Markets, reply : BOOLEAN]

(* A client adds what it is told, so that its levels are bounded only by the hub's. *)
Sights == [st : {"unknown", "fresh", "stale"}, lv : [Sides -> [Prices -> Int]]]
Views == [Markets -> Sights]

(* As far as the feed tells: the levels of a book that is not fresh may differ. *)
Same(a, b) == a.st = b.st /\ (a.st = "fresh" => a.lv = b.lv)

LEMMA CopySight ==
  /\ Copies \in SUBSET Sights /\ NoCopy \in Copies /\ NoCopy \in Sights
  /\ NoView \in Views /\ NoView \in [Markets -> Copies]
  /\ \A m \in Markets : NoView[m] = NoCopy
  /\ NoCopy.st = "unknown"
<1>1. Levels \in SUBSET [Sides -> [Prices -> Int]]
  BY Bounds DEF Levels
<1>2. Copies \in SUBSET Sights
  BY <1>1 DEF Copies, Sights
<1>3. NoCopy \in Copies /\ NoCopy.st = "unknown"
  BY Bounds DEF NoCopy, Copies
<1> QED BY <1>2, <1>3 DEF NoView, Views

LEMMA LineType ==
  ASSUME NEW kind \in Kinds, NEW m \in Markets
  PROVE  /\ Line(kind, m) \in Lines
         /\ Line(kind, m).kind = kind /\ Line(kind, m).m = m /\ Line(kind, m).reply = FALSE
BY CopySight DEF Line, Lines

LEMMA LineFacts ==
  ASSUME NEW l \in Lines
  PROVE  /\ l.kind \in Kinds /\ l.m \in Markets /\ l.copy \in Copies
         /\ l.d \in Deltas \cup {NoDelta} /\ l.on \in SUBSET Markets
         /\ l.new \in SUBSET Markets /\ l.reply \in BOOLEAN
BY DEF Lines

LEMMA SightAdded ==
  ASSUME NEW b \in Sights, NEW d \in Deltas \cup {NoDelta}
  PROVE  [b EXCEPT !.lv = Added(b.lv, d)] \in Sights
<1>1. b.lv \in [Sides -> [Prices -> Int]] /\ d.side \in Sides /\ d.n \in Int
  BY DEF Sights, Deltas, NoDelta, Sides
<1> DEFINE row == [b.lv[d.side] EXCEPT ![d.price] = @ + d.n]
<1>2. row \in [Prices -> Int]
  <2>1. b.lv[d.side] \in [Prices -> Int]
    BY <1>1
  <2>2. CASE d.price \in Prices
    <3>1. b.lv[d.side][d.price] + d.n \in Int
      BY <1>1, <2>1, <2>2
    <3> QED BY <2>1, <3>1
  <2>3. CASE d.price \notin Prices
    BY <2>1, <2>3
  <2> QED BY <2>2, <2>3
<1>3. Added(b.lv, d) = [b.lv EXCEPT ![d.side] = row]
  BY DEF Added
<1> HIDE DEF row
<1>4. Added(b.lv, d) \in [Sides -> [Prices -> Int]]
  BY <1>1, <1>2, <1>3
<1> QED BY <1>4 DEF Sights

LEMMA ViewedType ==
  ASSUME NEW v \in Views, NEW l \in Lines
  PROVE  Viewed(v, l) \in Views
<1>1. /\ l.kind \in Kinds /\ l.m \in Markets /\ l.copy \in Sights
      /\ l.d \in Deltas \cup {NoDelta} /\ v[l.m] \in Sights
  BY LineFacts, CopySight DEF Views
<1>2. CASE l.kind = "subscribed"
  BY <1>2, CopySight DEF Viewed, Views
<1>3. CASE l.kind = "snapshot"
  BY <1>1, <1>3 DEF Viewed, Views
<1>4. CASE l.kind = "resync"
  BY <1>1, <1>4, CopySight DEF Viewed, Views
<1>5. CASE l.kind \in {"stale", "fresh"} /\ v[l.m].st # "unknown"
  <2>1. [v[l.m] EXCEPT !.st = l.kind] \in Sights
    BY <1>1, <1>5 DEF Sights
  <2>2. Viewed(v, l) = [v EXCEPT ![l.m] = [v[l.m] EXCEPT !.st = l.kind]]
    BY <1>1, <1>5 DEF Viewed, Views
  <2> QED BY <1>1, <2>1, <2>2 DEF Views
<1>6. CASE l.kind = "delta" /\ v[l.m].st = "fresh"
  <2>1. [v[l.m] EXCEPT !.lv = Added(v[l.m].lv, l.d)] \in Sights
    BY <1>1, SightAdded
  <2>2. Viewed(v, l) = [v EXCEPT ![l.m] = [v[l.m] EXCEPT !.lv = Added(v[l.m].lv, l.d)]]
    BY <1>1, <1>6 DEF Viewed, Views
  <2> QED BY <1>1, <2>1, <2>2 DEF Views
<1>7. CASE l.kind \in {"stale", "fresh"} /\ v[l.m].st = "unknown"
  BY <1>7 DEF Viewed
<1>8. CASE l.kind = "delta" /\ v[l.m].st # "fresh"
  BY <1>8 DEF Viewed
<1>9. CASE l.kind = "other"
  BY <1>9 DEF Viewed
<1> QED BY <1>1, <1>2, <1>3, <1>4, <1>5, <1>6, <1>7, <1>8, <1>9 DEF Kinds

LEMMA TakenIs ==
  ASSUME NEW v, NEW q
  PROVE  Taken(v, q) = Viewing!Folded(0, v, q)
BY DEF Taken, FoldLeft, MapThenFoldSet, Max, ViewStep, Viewing!Folded, Viewing!After,
       Viewing!Highest

LEMMA TakenNone ==
  ASSUME NEW v
  PROVE  Taken(v, << >>) = v
<1>1. Viewing!Folded(0, v, << >>) = v
  BY Climbing, Viewing!FoldEmpty
<1> QED BY <1>1, TakenIs

LEMMA TakenOne ==
  ASSUME NEW v, NEW l
  PROVE  Taken(v, <<l>>) = Viewed(v, l)
<1>1. Viewing!Folded(0, v, <<l>>) = ViewStep(0, v, l)
  BY Climbing, Viewing!FoldOne
<1> QED BY <1>1, TakenIs DEF ViewStep

LEMMA TakenMore ==
  ASSUME NEW v, NEW q \in Seq(Lines), NEW r \in Seq(Lines)
  PROVE  Taken(v, q \o r) = Taken(Taken(v, q), r)
<1>1. Viewing!Folded(0, v, q \o r) = Viewing!Folded(0, Viewing!Folded(0, v, q), r)
  BY Climbing, Viewing!FoldConcat
<1> QED BY <1>1, TakenIs

LEMMA TakenFirst ==
  ASSUME NEW v, NEW q \in Seq(Lines), q # << >>
  PROVE  Taken(v, q) = Taken(Viewed(v, Head(q)), Tail(q))
<1>1. Viewing!Folded(0, v, q) = Viewing!Folded(0, ViewStep(0, v, Head(q)), Tail(q))
  BY Climbing, Viewing!FoldTail
<1> QED BY <1>1, TakenIs DEF ViewStep

LEMMA TakenType ==
  ASSUME NEW v \in Views, NEW q \in Seq(Lines)
  PROVE  Taken(v, q) \in Views
<1> DEFINE T == [n \in 0 .. Len(q) |-> Views]
<1>1. Len(q) \in Nat /\ v \in T[0] /\ T[Len(q)] = Views
  BY LenProperties
<1>2. ASSUME NEW n \in 1 .. Len(q), NEW acc \in T[n - 1]
      PROVE  ViewStep(0, acc, q[n]) \in T[n]
  <2>1. acc \in Views /\ T[n] = Views /\ q[n] \in Lines
    BY <1>1, ElementOfSeq
  <2> QED BY <2>1, ViewedType DEF ViewStep
<1> HIDE DEF T
<1>3. Viewing!Folded(0, v, q) \in T[Len(q)]
  BY <1>1, <1>2, Climbing, Viewing!FoldInvariant
<1> QED BY <1>1, <1>3, TakenIs

(* SetToSeq goes through the whole set. *)
LEMMA Enumerates ==
  ASSUME NEW S, IsFiniteSet(S)
  PROVE  /\ SetToSeq(S) \in Seq(S) /\ Len(SetToSeq(S)) \in Nat
         /\ \A m \in S : \E n \in 1 .. Len(SetToSeq(S)) : SetToSeq(S)[n] = m
<1> DEFINE N == Cardinality(S)
           f == SetToSeq(S)
<1>1. N \in Nat /\ ExistsBijection(1 .. N, S)
  BY FS_CardinalityType
<1>2. \E g \in [1 .. N -> S] : IsInjective(g)
  BY <1>1 DEF ExistsBijection, Bijection, Injection
<1>3. f \in [1 .. N -> S] /\ IsInjective(f)
  BY <1>2 DEF SetToSeq
<1> HIDE DEF f
<1>4. f \in Injection(1 .. N, S)
  BY <1>3 DEF Injection
<1>5. IsFiniteSet(1 .. N) /\ Cardinality(1 .. N) = N
  <2>1. /\ IsFiniteSet(1 .. N)
        /\ Cardinality(1 .. N) = IF 1 > N THEN 0 ELSE N - 1 + 1
    <3> HIDE DEF N
    <3> QED BY <1>1, FS_Interval
  <2> QED BY <1>1, <2>1
<1>6. f \in Surjection(1 .. N, S)
  BY <1>4, <1>5, FS_Injection
<1>7. f \in Seq(S) /\ Len(f) = N
  <2> HIDE DEF N
  <2> QED BY <1>1, <1>3
<1> QED BY <1>1, <1>6, <1>7 DEF Surjection, f

LEMMA FiniteMarkets ==
  ASSUME NEW S \in SUBSET Markets
  PROVE  IsFiniteSet(S)
BY BusAssumption, FS_Subset

LEMMA ImageTaken ==
  ASSUME NEW v \in Views, NEW m \in Markets, NEW copies \in [Markets -> Copies]
  PROVE  /\ Image(m, copies) \in Seq(Lines)
         /\ Taken(v, Image(m, copies)) =
              IF copies[m].st = "unknown" THEN v ELSE [v EXCEPT ![m] = copies[m]]
<1> DEFINE l == [Line("snapshot", m) EXCEPT !.copy = copies[m]]
<1>1. l \in Lines /\ l.kind = "snapshot" /\ l.m = m /\ l.copy = copies[m]
  <2>1. Line("snapshot", m) \in Lines
    BY LineType DEF Kinds
  <2> QED BY <2>1 DEF Lines, Line
<1>2. Viewed(v, l) = [v EXCEPT ![m] = copies[m]]
  <2> HIDE DEF l
  <2> QED BY <1>1 DEF Viewed
<1>3. Image(m, copies) = IF copies[m].st = "unknown" THEN << >> ELSE <<l>>
  BY DEF Image
<1> HIDE DEF l
<1>4. << >> \in Seq(Lines) /\ <<l>> \in Seq(Lines)
  BY <1>1
<1> QED BY <1>2, <1>3, <1>4, TakenNone, TakenOne

LEMMA DropTaken ==
  ASSUME NEW v \in Views, NEW m \in Markets
  PROVE  /\ <<Line("resync", m)>> \in Seq(Lines)
         /\ Taken(v, <<Line("resync", m)>>) = [v EXCEPT ![m] = NoCopy]
<1> DEFINE l == Line("resync", m)
<1>1. l \in Lines /\ l.kind = "resync" /\ l.m = m
  BY LineType DEF Kinds
<1> HIDE DEF l
<1>2. Viewed(v, l) = [v EXCEPT ![m] = NoCopy]
  BY <1>1 DEF Viewed
<1>3. <<l>> \in Seq(Lines)
  BY <1>1
<1>4. Taken(v, <<l>>) = Viewed(v, l)
  BY TakenOne
<1> QED BY <1>2, <1>3, <1>4 DEF l

LEMMA ResyncTaken ==
  ASSUME NEW v \in Views, NEW m \in Markets, NEW copies \in [Markets -> Copies]
  PROVE  /\ Resync(m, copies) \in Seq(Lines)
         /\ \A k \in Markets \ {m} : Taken(v, Resync(m, copies))[k] = v[k]
         /\ Same(Taken(v, Resync(m, copies))[m], copies[m])
<1> DEFINE q == <<Line("resync", m)>>
           r == Image(m, copies)
           w == [v EXCEPT ![m] = NoCopy]
<1>1. w \in Views /\ w[m] = NoCopy /\ \A k \in Markets \ {m} : w[k] = v[k]
  BY CopySight DEF Views
<1>2. q \in Seq(Lines) /\ Taken(v, q) = w
  BY DropTaken
<1>3. r \in Seq(Lines)
      /\ Taken(w, r) = IF copies[m].st = "unknown" THEN w ELSE [w EXCEPT ![m] = copies[m]]
  <2> HIDE DEF w
  <2> QED BY <1>1, ImageTaken
<1>4. Resync(m, copies) = q \o r
  BY DEF Resync
<1> HIDE DEF q, r, w
<1>5. Resync(m, copies) \in Seq(Lines) /\ Taken(v, Resync(m, copies)) = Taken(w, r)
  BY <1>2, <1>3, <1>4, TakenMore, ConcatProperties
<1>6. CASE copies[m].st = "unknown"
  BY <1>1, <1>3, <1>5, <1>6, CopySight DEF Same
<1>7. CASE copies[m].st # "unknown"
  <2>1. Taken(w, r) = [w EXCEPT ![m] = copies[m]] /\ w \in [Markets -> Sights]
    BY <1>1, <1>3, <1>7 DEF Views
  <2> QED BY <1>1, <1>5, <2>1 DEF Same
<1> QED BY <1>6, <1>7

(* _lag: a resync of every market, in any order, leaves a client with the hub's copies. *)
LEMMA ResyncsTaken ==
  ASSUME NEW v \in Views, NEW r \in Seq(Lines), NEW S \in SUBSET Markets,
         NEW copies \in [Markets -> Copies]
  PROVE  LET q == FoldLeft(LAMBDA q, m : q \o Resync(m, copies), r, SetToSeq(S))
         IN  q \in Seq(Lines) /\ \A m \in S : Same(Taken(v, q)[m], copies[m])
<1> DEFINE f == SetToSeq(S)
           q == FoldLeft(LAMBDA q, m : q \o Resync(m, copies), r, f)
           T == [n \in 0 .. Len(f) |->
                   {p \in Seq(Lines) :
                      \A i \in 1 .. n : Same(Taken(v, p)[f[i]], copies[f[i]])}]
<1>1. /\ f \in Seq(S) /\ Len(f) \in Nat
      /\ \A m \in S : \E n \in 1 .. Len(f) : f[n] = m
  BY FiniteMarkets, Enumerates
<1>2. q = Resyncing!Folded(copies, r, f)
  BY DEF FoldLeft, MapThenFoldSet, Max, ResyncStep, Resyncing!Folded, Resyncing!After,
         Resyncing!Highest
<1> HIDE DEF f, q
<1>3. r \in T[0]
  BY <1>1
<1>4. ASSUME NEW n \in 1 .. Len(f), NEW p \in T[n - 1]
      PROVE  ResyncStep(copies, p, f[n]) \in T[n]
  <2>0. n - 1 \in 0 .. Len(f) /\ n \in 0 .. Len(f)
    BY <1>1
  <2>1. p \in Seq(Lines) /\ \A i \in 1 .. n - 1 : Same(Taken(v, p)[f[i]], copies[f[i]])
    BY <2>0
  <2>2. \A i \in 1 .. n : f[i] \in Markets
    BY <1>1, ElementOfSeq
  <2> DEFINE w == Taken(v, p)
             m == f[n]
  <2>3. w \in Views /\ m \in Markets
    BY <2>1, <2>2, TakenType
  <2> HIDE DEF w, m
  <2>4. /\ Resync(m, copies) \in Seq(Lines)
        /\ \A k \in Markets \ {m} : Taken(w, Resync(m, copies))[k] = w[k]
        /\ Same(Taken(w, Resync(m, copies))[m], copies[m])
    BY <2>3, ResyncTaken
  <2> DEFINE z == Resync(m, copies)
  <2>5. z \in Seq(Lines)
    BY <2>4
  <2>6. Taken(v, p \o z) = Taken(w, z) /\ p \o z \in Seq(Lines)
    <3> HIDE DEF z
    <3> QED BY <2>1, <2>5, TakenMore, ConcatProperties DEF w
  <2>7. ASSUME NEW i \in 1 .. n PROVE Same(Taken(w, z)[f[i]], copies[f[i]])
    <3>1. CASE f[i] = m
      BY <2>4, <3>1
    <3>2. CASE f[i] # m
      <4>1. i \in 1 .. n - 1
        BY <1>1, <3>2 DEF m
      <4>2. f[i] \in Markets \ {m}
        BY <2>2, <3>2
      <4> QED BY <2>1, <2>4, <4>1, <4>2 DEF w
    <3> QED BY <3>1, <3>2
  <2>8. ResyncStep(copies, p, f[n]) = p \o z
    BY DEF ResyncStep, m
  <2>9. T[n] = {x \in Seq(Lines) : \A i \in 1 .. n : Same(Taken(v, x)[f[i]], copies[f[i]])}
    BY <2>0
  <2> HIDE DEF T, z
  <2> QED BY SMTT(60), <2>6, <2>7, <2>8, <2>9
<1>5. T[Len(f)] =
        {p \in Seq(Lines) :
           \A i \in 1 .. Len(f) : Same(Taken(v, p)[f[i]], copies[f[i]])}
  <2>1. Len(f) \in 0 .. Len(f)
    BY <1>1
  <2> QED BY <2>1, Zenon
<1> HIDE DEF T
<1>6. q \in T[Len(f)]
  BY <1>1, <1>2, <1>3, <1>4, Climbing, Resyncing!FoldInvariant
<1>7. q \in Seq(Lines) /\ \A i \in 1 .. Len(f) : Same(Taken(v, q)[f[i]], copies[f[i]])
  BY <1>5, <1>6
<1>8. \A m \in S : Same(Taken(v, q)[m], copies[m])
  BY <1>1, <1>7
<1> QED BY <1>7, <1>8 DEF q, f

(* subscribe: the images of the newly followed markets, in any order. *)
LEMMA ImagesTaken ==
  ASSUME NEW v \in Views, NEW r \in Seq(Lines), NEW S \in SUBSET Markets,
         NEW copies \in [Markets -> Copies]
  PROVE  LET q == FoldLeft(LAMBDA q, m : q \o Image(m, copies), r, SetToSeq(S))
         IN  /\ q \in Seq(Lines)
             /\ \A m \in Markets :
                  Taken(v, q)[m] = IF m \in S /\ copies[m].st # "unknown" THEN copies[m]
                                   ELSE Taken(v, r)[m]
<1> DEFINE f == SetToSeq(S)
           q == FoldLeft(LAMBDA q, m : q \o Image(m, copies), r, f)
           Shown(n, m) == (\E i \in 1 .. n : f[i] = m) /\ copies[m].st # "unknown"
           Holds(n, p) == \A m \in Markets :
             Taken(v, p)[m] = IF Shown(n, m) THEN copies[m] ELSE Taken(v, r)[m]
           T == [n \in 0 .. Len(f) |-> {p \in Seq(Lines) : Holds(n, p)}]
<1>1. /\ f \in Seq(S) /\ Len(f) \in Nat
      /\ \A m \in S : \E n \in 1 .. Len(f) : f[n] = m
      /\ \A n \in 1 .. Len(f) : f[n] \in S
  <2>1. /\ f \in Seq(S) /\ Len(f) \in Nat
        /\ \A m \in S : \E n \in 1 .. Len(f) : f[n] = m
    BY FiniteMarkets, Enumerates
  <2> HIDE DEF f
  <2> QED BY <2>1, ElementOfSeq
<1>2. q = Imaging!Folded(copies, r, f)
  BY DEF FoldLeft, MapThenFoldSet, Max, ImageStep, Imaging!Folded, Imaging!After,
         Imaging!Highest
<1> HIDE DEF f, q
<1>3. r \in T[0]
  <2>1. Holds(0, r)
    OBVIOUS
  <2> HIDE DEF Holds
  <2> QED BY <1>1, <2>1
<1>4. ASSUME NEW n \in 1 .. Len(f), NEW p \in T[n - 1]
      PROVE  ImageStep(copies, p, f[n]) \in T[n]
  <2>1. n - 1 \in 0 .. Len(f) /\ n \in 0 .. Len(f)
    BY <1>1
  <2>2. p \in Seq(Lines) /\ Holds(n - 1, p)
    <3> HIDE DEF Holds
    <3> QED BY <2>1
  <2> DEFINE w == Taken(v, p)
             m == f[n]
             z == Image(m, copies)
  <2>3. w \in Views /\ m \in Markets
    BY <1>1, <2>2, TakenType
  <2> HIDE DEF w, m
  <2>4. z \in Seq(Lines)
        /\ Taken(w, z) = IF copies[m].st = "unknown" THEN w ELSE [w EXCEPT ![m] = copies[m]]
    BY <2>3, ImageTaken
  <2> HIDE DEF z
  <2>5. Taken(v, p \o z) = Taken(w, z) /\ p \o z \in Seq(Lines)
    BY <2>2, <2>4, TakenMore, ConcatProperties DEF w
  <2>6. \A k : Shown(n, k) <=> Shown(n - 1, k) \/ (k = m /\ copies[k].st # "unknown")
    BY SMTT(60), <1>1 DEF m
  <2>7. \A k \in Markets : w[k] = IF Shown(n - 1, k) THEN copies[k] ELSE Taken(v, r)[k]
    BY <2>2 DEF w
  <2> HIDE DEF Shown
  <2>8. Holds(n, p \o z)
    <3> SUFFICES ASSUME NEW k \in Markets
                 PROVE  Taken(w, z)[k] = IF Shown(n, k) THEN copies[k] ELSE Taken(v, r)[k]
      BY <2>5
    <3>1. CASE copies[m].st = "unknown"
      BY <2>4, <2>6, <2>7, <3>1
    <3>2. CASE copies[m].st # "unknown" /\ k = m
      BY <2>3, <2>4, <2>6, <3>2 DEF Views
    <3>3. CASE copies[m].st # "unknown" /\ k # m
      BY <2>3, <2>4, <2>6, <2>7, <3>3 DEF Views
    <3> QED BY <3>1, <3>2, <3>3
  <2>9. ImageStep(copies, p, f[n]) = p \o z
    BY DEF ImageStep, m, z
  <2> HIDE DEF Holds
  <2>10. T[n] = {x \in Seq(Lines) : Holds(n, x)}
    BY <2>1
  <2> HIDE DEF T
  <2> QED BY <2>5, <2>8, <2>9, <2>10
<1>5. T[Len(f)] = {p \in Seq(Lines) : Holds(Len(f), p)}
  <2> HIDE DEF Holds
  <2> QED BY <1>1
<1> HIDE DEF T
<1>6. q \in T[Len(f)]
  BY <1>1, <1>2, <1>3, <1>4, Climbing, Imaging!FoldInvariant
<1>7. q \in Seq(Lines) /\ Holds(Len(f), q)
  <2> HIDE DEF Holds
  <2> QED BY <1>5, <1>6
<1>8. \A m : Shown(Len(f), m) <=> m \in S /\ copies[m].st # "unknown"
  BY <1>1
<1> HIDE DEF Shown
<1>9. \A m \in Markets :
        Taken(v, q)[m] = IF m \in S /\ copies[m].st # "unknown" THEN copies[m]
                         ELSE Taken(v, r)[m]
  BY <1>7, <1>8
<1> QED BY <1>7, <1>9 DEF q, f

(* _fan_out: the markets a loss took the copies of. *)
Drops(S) == FoldLeft(LAMBDA q, m : Append(q, Line("resync", m)), << >>, SetToSeq(S))

LEMMA DropsTaken ==
  ASSUME NEW v \in Views, NEW S \in SUBSET Markets
  PROVE  /\ Drops(S) \in Seq(Lines)
         /\ \A m \in Markets : Taken(v, Drops(S))[m] = IF m \in S THEN NoCopy ELSE v[m]
<1> DEFINE f == SetToSeq(S)
           q == Drops(S)
           Gone(n, m) == \E i \in 1 .. n : f[i] = m
           Holds(n, p) == \A m \in Markets :
             Taken(v, p)[m] = IF Gone(n, m) THEN NoCopy ELSE v[m]
           T == [n \in 0 .. Len(f) |-> {p \in Seq(Lines) : Holds(n, p)}]
<1>1. /\ f \in Seq(S) /\ Len(f) \in Nat
      /\ \A m \in S : \E n \in 1 .. Len(f) : f[n] = m
      /\ \A n \in 1 .. Len(f) : f[n] \in S
  <2>1. /\ f \in Seq(S) /\ Len(f) \in Nat
        /\ \A m \in S : \E n \in 1 .. Len(f) : f[n] = m
    BY FiniteMarkets, Enumerates
  <2> HIDE DEF f
  <2> QED BY <2>1, ElementOfSeq
<1>2. q = Dropping!Folded(0, << >>, f)
  BY DEF Drops, FoldLeft, MapThenFoldSet, Max, DropStep, Dropping!Folded, Dropping!After,
         Dropping!Highest
<1> HIDE DEF f, q
<1> DEFINE e == << >>
<1>3. e \in T[0]
  <2>1. Holds(0, e)
    BY TakenNone
  <2> HIDE DEF Holds
  <2>2. e \in Seq(Lines)
    OBVIOUS
  <2> HIDE DEF e
  <2> QED BY <1>1, <2>1, <2>2
<1>4. ASSUME NEW n \in 1 .. Len(f), NEW p \in T[n - 1]
      PROVE  DropStep(0, p, f[n]) \in T[n]
  <2>1. n - 1 \in 0 .. Len(f) /\ n \in 0 .. Len(f)
    BY <1>1
  <2>2. p \in Seq(Lines) /\ Holds(n - 1, p)
    <3> HIDE DEF Holds
    <3> QED BY <2>1
  <2> DEFINE w == Taken(v, p)
             m == f[n]
             l == Line("resync", m)
             z == <<l>>
  <2>3. w \in Views /\ m \in Markets
    BY <1>1, <2>2, TakenType
  <2> HIDE DEF w, m
  <2>4. z \in Seq(Lines) /\ Taken(w, z) = [w EXCEPT ![m] = NoCopy]
    BY <2>3, DropTaken
  <2>5. Append(p, l) = p \o z
    <3>1. l \in Lines
      BY <2>3, LineType DEF Kinds
    <3> HIDE DEF l
    <3> QED BY <2>2, <3>1
  <2> HIDE DEF l, z
  <2>6. Taken(v, p \o z) = Taken(w, z) /\ p \o z \in Seq(Lines)
    BY <2>2, <2>4, TakenMore, ConcatProperties DEF w
  <2>7. \A k : Gone(n, k) <=> Gone(n - 1, k) \/ k = m
    BY SMTT(60), <1>1 DEF m
  <2>8. \A k \in Markets : w[k] = IF Gone(n - 1, k) THEN NoCopy ELSE v[k]
    BY <2>2 DEF w
  <2> HIDE DEF Gone
  <2>9. Holds(n, p \o z)
    <3> SUFFICES ASSUME NEW k \in Markets
                 PROVE  Taken(w, z)[k] = IF Gone(n, k) THEN NoCopy ELSE v[k]
      BY <2>6
    <3> QED BY <2>3, <2>4, <2>7, <2>8 DEF Views
  <2>10. DropStep(0, p, f[n]) = p \o z
    BY <2>5 DEF DropStep, m, l
  <2> HIDE DEF Holds
  <2>11. T[n] = {x \in Seq(Lines) : Holds(n, x)}
    BY <2>1
  <2> HIDE DEF T
  <2> QED BY <2>6, <2>9, <2>10, <2>11
<1>5. T[Len(f)] = {p \in Seq(Lines) : Holds(Len(f), p)}
  <2> HIDE DEF Holds
  <2> QED BY <1>1
<1> HIDE DEF T
<1>6. q \in T[Len(f)]
  <2>1. q = Dropping!Folded(0, e, f)
    BY <1>2
  <2> HIDE DEF e
  <2> QED BY <1>1, <1>3, <1>4, <2>1, Climbing, Dropping!FoldInvariant
<1>7. q \in Seq(Lines) /\ Holds(Len(f), q)
  <2> HIDE DEF Holds
  <2> QED BY <1>5, <1>6
<1>8. \A m : Gone(Len(f), m) <=> m \in S
  BY <1>1
<1> HIDE DEF Gone
<1>9. \A m \in Markets : Taken(v, q)[m] = IF m \in S THEN NoCopy ELSE v[m]
  BY <1>7, <1>8
<1> QED BY <1>7, <1>9 DEF q

-----------------------------------------------------------------------------
(* An offer. *)

Sessions ==
  [at : {"out", "open", "over"}, subs : SUBSET Markets, queue : Seq(Lines), lags : Nat,
   code : Nat, gone : BOOLEAN, reading : BOOLEAN, view : Views]

(* A connection that is served will hold the hub's copies of what it follows; for one
   that is closing nothing is queued. *)
Good(s, copies) ==
  /\ s.code = NoCode /\ ~s.gone =>
       \A m \in s.subs : Same(Taken(s.view, s.queue)[m], copies[m])
  /\ s.code # NoCode => s.queue = << >>

LEMMA RepliesType ==
  ASSUME NEW q \in Seq(Lines)
  PROVE  Replies(q) \in Seq(Lines)
<1> DEFINE T == [n \in 0 .. Len(q) |-> Seq(Lines)]
           e == << >>
<1>1. Len(q) \in Nat /\ T[0] = Seq(Lines) /\ T[Len(q)] = Seq(Lines) /\ e \in Seq(Lines)
  BY LenProperties
<1>2. ASSUME NEW n \in 1 .. Len(q), NEW acc \in T[n - 1]
      PROVE  ReplyStep(0, acc, q[n]) \in T[n]
  <2>1. acc \in Seq(Lines) /\ T[n] = Seq(Lines) /\ q[n] \in Lines
    BY <1>1, ElementOfSeq
  <2> HIDE DEF T
  <2> QED BY <2>1 DEF ReplyStep
<1>3. Replies(q) = Replying!Folded(0, e, q)
  BY DEF Replies, FoldLeft, MapThenFoldSet, Max, ReplyStep, Replying!Folded,
         Replying!After, Replying!Highest
<1> HIDE DEF T, e
<1>4. e \in T[0]
  BY <1>1
<1>5. Replying!Folded(0, e, q) \in T[Len(q)]
  BY <1>2, <1>4, Climbing, Replying!FoldInvariant
<1> QED BY <1>1, <1>3, <1>5

LEMMA SessionFields ==
  ASSUME NEW s \in Sessions
  PROVE  /\ s.at \in {"out", "open", "over"} /\ s.subs \in SUBSET Markets
         /\ s.queue \in Seq(Lines) /\ s.lags \in Nat /\ s.code \in Nat
         /\ s.gone \in BOOLEAN /\ s.reading \in BOOLEAN /\ s.view \in Views
BY DEF Sessions

LEMMA ClosedType ==
  ASSUME NEW s \in Sessions, NEW code \in Nat, code # NoCode,
         s.code # NoCode => s.queue = << >>
  PROVE  /\ Closed(s, code) \in Sessions
         /\ Closed(s, code).at = s.at /\ Closed(s, code).subs = s.subs
         /\ Closed(s, code).gone = s.gone /\ Closed(s, code).reading = s.reading
         /\ Closed(s, code).code # NoCode /\ Closed(s, code).queue = << >>
<1> DEFINE e == << >>
<1>1. e \in Seq(Lines)
  OBVIOUS
<1> HIDE DEF e
<1>2. [s EXCEPT !.lags = 0, !.view = NoView, !.code = code, !.queue = e] \in Sessions
  BY <1>1, CopySight DEF Sessions
<1>3. Closed(s, code) = IF s.code # NoCode THEN s
        ELSE [s EXCEPT !.lags = 0, !.view = NoView, !.code = code, !.queue = e]
  BY DEF Closed, Shut, Sessions, e
<1>4. CASE s.code # NoCode
  BY <1>3, <1>4
<1>5. CASE s.code = NoCode
  BY <1>2, <1>3, <1>5 DEF Sessions, e
<1> QED BY <1>4, <1>5

(* offer, _lag: if the messages would leave a served client with the hub's copies, so
   does the offer, whether it queues them, lags or closes. *)
LEMMA OfferedKeeps ==
  ASSUME NEW s \in Sessions, NEW lines \in Seq(Lines), NEW copies \in [Markets -> Copies],
         s.code # NoCode => s.queue = << >>,
         s.code = NoCode /\ ~s.gone =>
           \A m \in s.subs : Same(Taken(Taken(s.view, s.queue), lines)[m], copies[m])
  PROVE  /\ Offered(s, lines, copies) \in Sessions
         /\ Offered(s, lines, copies).at = s.at
         /\ Offered(s, lines, copies).subs = s.subs
         /\ Offered(s, lines, copies).gone = s.gone
         /\ Offered(s, lines, copies).reading = s.reading
         /\ Good(Offered(s, lines, copies), copies)
<1> DEFINE r == Replies(lines)
           p == FoldLeft(LAMBDA q, m : q \o Resync(m, copies), r, SetToSeq(s.subs))
           off == Offered(s, lines, copies)
           more == s.queue \o lines
<1>1. /\ s.subs \in SUBSET Markets /\ s.queue \in Seq(Lines) /\ s.lags \in Nat
      /\ s.code \in Nat /\ s.gone \in BOOLEAN /\ s.view \in Views
  BY SessionFields
<1>2. r \in Seq(Lines)
  BY RepliesType
<1>3. more \in Seq(Lines) /\ Taken(s.view, more) = Taken(Taken(s.view, s.queue), lines)
  BY <1>1, TakenMore, ConcatProperties
<1>4. p \in Seq(Lines) /\ \A m \in s.subs : Same(Taken(s.view, p)[m], copies[m])
  <2> HIDE DEF r
  <2> QED BY <1>1, <1>2, ResyncsTaken
<1>5. off = IF s.code # NoCode \/ s.gone \/ lines = << >> THEN s
            ELSE IF Len(s.queue) + Len(lines) <= QueueMax THEN [s EXCEPT !.queue = more]
            ELSE Lagged(s, r, copies)
  BY <1>1 DEF Offered
<1>6. Lagged(s, r, copies) =
        IF s.lags + 1 >= LagLimit THEN Closed(s, TooSlow)
        ELSE [s EXCEPT !.lags = s.lags + 1, !.queue = p]
  BY <1>1 DEF Lagged, Sessions
<1> HIDE DEF r, p, more, off
<1>7. CASE s.code # NoCode \/ s.gone \/ lines = << >>
  <2>1. off = s
    BY <1>5, <1>7
  <2>2. CASE s.code # NoCode \/ s.gone
    BY <2>1, <2>2 DEF Good, off
  <2>3. CASE lines = << >>
    <3>1. Taken(Taken(s.view, s.queue), lines) = Taken(s.view, s.queue)
      BY <2>3, TakenNone
    <3> QED BY <2>1, <3>1 DEF Good, off
  <2> QED BY <1>7, <2>2, <2>3
<1>8. CASE ~(s.code # NoCode \/ s.gone \/ lines = << >>)
           /\ Len(s.queue) + Len(lines) <= QueueMax
  <2>1. off = [s EXCEPT !.queue = more]
    BY <1>5, <1>8
  <2>2. off \in Sessions /\ off.queue = more /\ off.view = s.view /\ off.code = s.code
        /\ off.at = s.at /\ off.subs = s.subs /\ off.gone = s.gone /\ off.reading = s.reading
    BY <1>3, <2>1 DEF Sessions
  <2>3. Good(off, copies)
    BY <1>3, <1>8, <2>2 DEF Good
  <2> QED BY <2>2, <2>3 DEF off
<1>9. CASE ~(s.code # NoCode \/ s.gone \/ lines = << >>)
           /\ ~(Len(s.queue) + Len(lines) <= QueueMax)
  <2>1. off = Lagged(s, r, copies)
    BY <1>5, <1>9
  <2>2. CASE s.lags + 1 >= LagLimit
    <3>1. off = Closed(s, TooSlow) /\ TooSlow \in Nat /\ TooSlow # NoCode
      BY <1>6, <2>1, <2>2 DEF TooSlow, NoCode
    <3> DEFINE code == TooSlow
    <3>2. code \in Nat /\ code # NoCode /\ off = Closed(s, code)
      BY <3>1
    <3> HIDE DEF code
    <3>3. /\ off \in Sessions /\ off.at = s.at /\ off.subs = s.subs /\ off.gone = s.gone
          /\ off.reading = s.reading /\ off.code # NoCode /\ off.queue = << >>
      BY <3>2, ClosedType
    <3> QED BY <3>3 DEF Good, off
  <2>3. CASE ~(s.lags + 1 >= LagLimit)
    <3>1. off = [s EXCEPT !.lags = s.lags + 1, !.queue = p] /\ s.lags + 1 \in Nat
      BY <1>1, <1>6, <2>1, <2>3
    <3>2. off \in Sessions /\ off.queue = p /\ off.view = s.view /\ off.code = s.code
          /\ off.at = s.at /\ off.subs = s.subs /\ off.gone = s.gone /\ off.reading = s.reading
      BY <1>4, <3>1 DEF Sessions
    <3>3. Good(off, copies)
      BY <1>4, <1>9, <3>2 DEF Good
    <3> QED BY <3>2, <3>3 DEF off
  <2> QED BY <2>2, <2>3
<1> QED BY <1>7, <1>8, <1>9

-----------------------------------------------------------------------------
(* What a message means to a client. *)

LEMMA ChangeTaken ==
  ASSUME NEW v \in Views, NEW msg \in Messages, NEW now \in [Markets -> Copies],
         Kept(msg) \in Copies, Same(v[msg.m], Kept(msg))
  PROVE  /\ ChangeLines(msg, now) \in Seq(Lines)
         /\ Taken(v, ChangeLines(msg, now)) \in Views
         /\ \A k \in Markets \ {msg.m} : Taken(v, ChangeLines(msg, now))[k] = v[k]
         /\ Kept(msg).st = now[msg.m].st => Taken(v, ChangeLines(msg, now)) = v
         /\ Kept(msg).st # now[msg.m].st =>
              Same(Taken(v, ChangeLines(msg, now))[msg.m], now[msg.m])
<1> DEFINE was == Kept(msg)
           m == msg.m
           q == ChangeLines(msg, now)
<1>1. m \in Markets
  BY DEF Messages
<1>2. was.st \in {"unknown", "fresh", "stale"} /\ now[m].st \in {"unknown", "fresh", "stale"}
      /\ v[m].st = was.st
  BY <1>1 DEF Copies, Same
<1>3. q = CASE was.st = now[m].st -> << >>
            [] was.st # now[m].st /\ now[m].st = "unknown" -> <<Line("resync", m)>>
            [] was.st # now[m].st /\ (was.st = "unknown" \/ now[m].st = "fresh") ->
                 Image(m, now)
            [] OTHER -> <<Line("stale", m)>>
  BY DEF ChangeLines
<1> SUFFICES /\ q \in Seq(Lines)
             /\ Taken(v, q) \in Views
             /\ \A k \in Markets \ {m} : Taken(v, q)[k] = v[k]
             /\ was.st = now[m].st => Taken(v, q) = v
             /\ was.st # now[m].st => Same(Taken(v, q)[m], now[m])
  OBVIOUS
<1> HIDE DEF was, m, q
<1>4. ASSUME q \in Seq(Lines) PROVE Taken(v, q) \in Views
  BY <1>4, TakenType
<1>5. CASE was.st = now[m].st
  <2>1. q = << >>
    BY <1>3, <1>5
  <2>2. q \in Seq(Lines)
    BY <2>1
  <2>3. Taken(v, q) = v
    BY <2>1, TakenNone
  <2> QED BY <1>4, <1>5, <2>2, <2>3
<1>6. CASE was.st # now[m].st /\ now[m].st = "unknown"
  <2>1. q = <<Line("resync", m)>>
    BY <1>3, <1>6
  <2>2. q \in Seq(Lines) /\ Taken(v, q) = [v EXCEPT ![m] = NoCopy]
    BY <1>1, <2>1, DropTaken
  <2> QED BY <1>1, <1>4, <1>6, <2>2, CopySight DEF Same, Views
<1>7. CASE was.st # now[m].st /\ now[m].st # "unknown"
           /\ (was.st = "unknown" \/ now[m].st = "fresh")
  <2>1. q = Image(m, now)
    BY <1>3, <1>7
  <2>2. q \in Seq(Lines) /\ Taken(v, q) = [v EXCEPT ![m] = now[m]]
    BY <1>1, <1>7, <2>1, ImageTaken
  <2> QED BY <1>1, <1>4, <1>7, <2>2 DEF Same, Views
<1>8. CASE was.st # now[m].st /\ now[m].st = "stale" /\ was.st # "unknown"
  <2> DEFINE l == Line("stale", m)
  <2>1. q = <<l>>
    BY <1>3, <1>8
  <2>2. l \in Lines /\ l.kind = "stale" /\ l.m = m
    BY <1>1, LineType DEF Kinds
  <2> HIDE DEF l
  <2>3. q \in Seq(Lines) /\ Taken(v, q) = Viewed(v, l)
    BY <2>1, <2>2, TakenOne
  <2>4. Viewed(v, l) = [v EXCEPT ![m] = [v[m] EXCEPT !.st = "stale"]]
    BY <1>1, <1>2, <1>8, <2>2 DEF Viewed, Views
  <2>5. [v[m] EXCEPT !.st = "stale"].st = "stale"
    BY <1>1 DEF Views, Sights
  <2> QED BY <1>1, <1>4, <1>8, <2>3, <2>4, <2>5 DEF Same, Views
<1> QED BY <1>2, <1>5, <1>6, <1>7, <1>8

(* _fan_out: the change and the event bring a client what they bring the hub. *)
LEMMA EventTaken ==
  ASSUME NEW v \in Views, NEW msg \in Messages, NEW now \in [Markets -> Copies],
         NEW trade \in BOOLEAN,
         Kept(msg) \in Copies, Same(v[msg.m], Kept(msg)),
         now[msg.m] = Applied(Kept(msg), msg),
         msg.kind = "refresh" /\ Kept(msg).st = "fresh" /\ now[msg.m].st = "fresh" =>
           now[msg.m].lv = Kept(msg).lv
  PROVE  /\ ChangeLines(msg, now) \in Seq(Lines) /\ EventLines(msg, now, trade) \in Seq(Lines)
         /\ \A k \in Markets \ {msg.m} :
              Taken(Taken(v, ChangeLines(msg, now)), EventLines(msg, now, trade))[k] = v[k]
         /\ Same(Taken(Taken(v, ChangeLines(msg, now)),
                       EventLines(msg, now, trade))[msg.m], now[msg.m])
<1> DEFINE was == Kept(msg)
           m == msg.m
           w == Taken(v, ChangeLines(msg, now))
           e == EventLines(msg, now, trade)
<1>1. /\ m \in Markets /\ msg.d \in Deltas \cup {NoDelta} /\ msg.lv \in Levels
      /\ msg.kind \in {"snapshot", "delta", "refresh", "catalog", "other"}
  BY DEF Messages
<1>2. /\ was.st \in {"unknown", "fresh", "stale"} /\ now[m].st \in {"unknown", "fresh", "stale"}
      /\ v[m].st = was.st /\ (v[m].st = "fresh" => v[m].lv = was.lv)
  BY <1>1 DEF Copies, Same
<1>3. /\ ChangeLines(msg, now) \in Seq(Lines)
      /\ w \in Views
      /\ \A k \in Markets \ {m} : w[k] = v[k]
      /\ was.st = now[m].st => w = v
      /\ was.st # now[m].st => Same(w[m], now[m])
  BY ChangeTaken
<1> DEFINE applied == was.st # "unknown" /\ now[m].st = "fresh"
           l == [Line("delta", m) EXCEPT !.d = msg.d]
<1>4. e = CASE msg.kind = "snapshot" /\ applied /\ was.st = "fresh" -> Image(m, now)
            [] msg.kind = "delta" /\ applied -> <<l>>
            [] msg.kind = "other" /\ trade -> <<Line("other", m)>>
            [] OTHER -> << >>
  BY DEF EventLines
<1>5. now[m] = Applied(was, msg)
  OBVIOUS
<1>6. msg.kind = "refresh" /\ was.st = "fresh" /\ now[m].st = "fresh" => now[m].lv = was.lv
  OBVIOUS
<1> SUFFICES /\ e \in Seq(Lines)
             /\ \A k \in Markets \ {m} : Taken(w, e)[k] = w[k]
             /\ Same(Taken(w, e)[m], now[m])
  BY <1>3
<1>7. l \in Lines /\ l.kind = "delta" /\ l.m = m /\ l.d = msg.d
  <2>1. Line("delta", m) \in Lines
    BY <1>1, LineType DEF Kinds
  <2> QED BY <1>1, <2>1 DEF Lines, Line
<1> HIDE DEF was, m, w, e, l
<1>8. ASSUME e = << >>, was.st = now[m].st => Same(v[m], now[m])
      PROVE  /\ e \in Seq(Lines) /\ \A k \in Markets \ {m} : Taken(w, e)[k] = w[k]
             /\ Same(Taken(w, e)[m], now[m])
  <2>1. e \in Seq(Lines)
    BY <1>8
  <2>2. Taken(w, e) = w
    BY <1>8, TakenNone
  <2> QED BY <1>3, <1>8, <2>1, <2>2
<1>9. CASE msg.kind \in {"catalog", "other"}
  <2>1. now[m] = was /\ Same(v[m], now[m])
    BY <1>2, <1>5, <1>9 DEF Applied, Same
  <2>2. CASE msg.kind = "other" /\ trade
    <3> DEFINE o == Line("other", m)
    <3>1. e = <<o>>
      BY <1>4, <2>2
    <3>2. o \in Lines /\ o.kind = "other"
      BY <1>1, LineType DEF Kinds
    <3> HIDE DEF o
    <3>3. e \in Seq(Lines) /\ Taken(w, e) = Viewed(w, o)
      BY <3>1, <3>2, TakenOne
    <3>4. Viewed(w, o) = w
      BY <3>2 DEF Viewed
    <3> QED BY <1>3, <2>1, <3>3, <3>4
  <2>3. CASE ~(msg.kind = "other" /\ trade)
    <3>1. e = << >>
      BY <1>4, <1>9, <2>3
    <3> QED BY <1>8, <2>1, <3>1
  <2> QED BY <2>2, <2>3
<1>10. CASE msg.kind = "refresh"
  <2>1. e = << >>
    BY <1>4, <1>10
  <2>2. was.st = now[m].st => Same(v[m], now[m])
    BY <1>2, <1>6, <1>10 DEF Same
  <2> QED BY <1>8, <2>1, <2>2
<1>11. CASE msg.kind = "snapshot"
  <2>1. CASE was.st = "fresh" /\ now[m].st = "fresh"
    <3>1. e = Image(m, now)
      BY <1>4, <1>11, <2>1
    <3>2. e \in Seq(Lines) /\ Taken(w, e) = [w EXCEPT ![m] = now[m]]
      BY <1>1, <1>3, <2>1, <3>1, ImageTaken
    <3> QED BY <1>1, <1>3, <3>2 DEF Same, Views
  <2>2. CASE ~(was.st = "fresh" /\ now[m].st = "fresh")
    <3>1. e = << >>
      BY <1>4, <1>11, <2>2
    <3>2. was.st = now[m].st => Same(v[m], now[m])
      <4>1. now[m].st \in {"unknown", "fresh"}
        BY <1>5, <1>11, CopySight DEF Applied, Change, Copy
      <4> QED BY <1>2, <2>2, <4>1 DEF Same
    <3> QED BY <1>8, <3>1, <3>2
  <2> QED BY <2>1, <2>2
<1>12. CASE msg.kind = "delta"
  <2>1. CASE was.st # "unknown" /\ now[m].st = "fresh"
    <3>1. e = <<l>>
      BY <1>4, <1>12, <2>1
    <3>2. was.st = "fresh" /\ now[m].lv = Added(was.lv, msg.d)
      BY <1>2, <1>5, <1>12, <2>1, CopySight DEF Applied, Change, Copy
    <3>3. w = v
      BY <1>3, <2>1, <3>2
    <3>4. e \in Seq(Lines) /\ Taken(w, e) = Viewed(v, l)
      BY <1>7, <3>1, <3>3, TakenOne
    <3>5. Viewed(v, l) = [v EXCEPT ![m] = [v[m] EXCEPT !.lv = Added(v[m].lv, msg.d)]]
      BY <1>1, <1>2, <1>7, <3>2 DEF Viewed, Views
    <3>6. [v[m] EXCEPT !.lv = Added(v[m].lv, msg.d)].st = "fresh"
          /\ [v[m] EXCEPT !.lv = Added(v[m].lv, msg.d)].lv = Added(v[m].lv, msg.d)
      BY <1>1, <1>2, <3>2 DEF Views, Sights
    <3> QED BY <1>1, <1>2, <2>1, <3>2, <3>3, <3>4, <3>5, <3>6 DEF Same, Views
  <2>2. CASE ~(was.st # "unknown" /\ now[m].st = "fresh")
    <3>1. e = << >>
      BY <1>4, <1>12, <2>2
    <3>2. was.st = now[m].st => Same(v[m], now[m])
      BY <1>2, <2>2 DEF Same
    <3> QED BY <1>8, <3>1, <3>2
  <2> QED BY <2>1, <2>2
<1> QED BY <1>1, <1>9, <1>10, <1>11, <1>12

(* _fan_out: the batch of one session keeps its client with the hub. *)
LEMMA OutboxTaken ==
  ASSUME NEW c \in Clients, NEW v \in Views, NEW msg \in Messages, NEW trade \in BOOLEAN,
         NEW S \in SUBSET Markets, NEW now \in [Markets -> Copies],
         con.copy \in [Markets -> Copies], now = Observed(msg).copy,
         \A m \in Markets : c \in followers[m] <=> m \in S,
         \A m \in S : Same(v[m], con.copy[m]),
         msg.kind = "refresh" /\ Kept(msg).st = "fresh" /\ now[msg.m].st = "fresh" =>
           now[msg.m].lv = Kept(msg).lv
  PROVE  /\ Outbox(c, msg, now, trade) \in Seq(Lines)
         /\ \A m \in S : Same(Taken(v, Outbox(c, msg, now, trade))[m], now[m])
<1> DEFINE D == {m \in LostBy(msg) : c \in followers[m]}
           gone == FoldLeft(LAMBDA q, m : Append(q, Line("resync", m)), << >>, SetToSeq(D))
           kept == IF Follows(msg) THEN con.copy ELSE [m \in Markets |-> NoCopy]
           w == Taken(v, gone)
           cl == ChangeLines(msg, now)
           el == EventLines(msg, now, trade)
           out == Outbox(c, msg, now, trade)
<1>1. msg.m \in Markets
  BY DEF Messages
<1>2. D \in SUBSET Markets
  BY DEF LostBy
<1>3. gone \in Seq(Lines) /\ \A m \in Markets : w[m] = IF m \in D THEN NoCopy ELSE v[m]
  <2>1. gone = Drops(D)
    BY DEF Drops
  <2> HIDE DEF D, gone
  <2> QED BY <1>2, <2>1, DropsTaken
<1>4. w \in Views
  <2> HIDE DEF gone
  <2> QED BY <1>3, TakenType
<1>5. Kept(msg) = kept[msg.m] /\ kept \in [Markets -> Copies]
  BY <1>1, CopySight DEF Kept
<1>6. /\ now[msg.m] = Applied(kept[msg.m], msg)
      /\ \A k \in Markets \ {msg.m} : now[k] = kept[k]
  <2>1. now = [kept EXCEPT ![msg.m] = Applied(@, msg)]
    BY DEF Observed
  <2> HIDE DEF kept
  <2> QED BY <1>1, <1>5, <2>1
<1>7. \A m \in S : Same(w[m], kept[m])
  <2> TAKE m \in S
  <2>1. CASE Follows(msg)
    <3>1. m \notin D /\ kept[m] = con.copy[m]
      BY <2>1 DEF LostBy
    <3> HIDE DEF D, w, kept
    <3> QED BY <1>3, <3>1
  <2>2. CASE ~Follows(msg) /\ m \in D
    <3>1. kept[m] = NoCopy
      BY <2>2
    <3> HIDE DEF D, w, kept
    <3> QED BY <1>3, <2>2, <3>1 DEF Same
  <2>3. CASE ~Follows(msg) /\ m \notin D
    <3>1. kept[m] = NoCopy /\ con.copy[m].st = "unknown"
      BY <2>3 DEF LostBy
    <3> HIDE DEF D, w, kept
    <3> QED BY <1>3, <2>3, <3>1, CopySight DEF Same
  <2> QED BY <2>1, <2>2, <2>3
<1>8. out = IF c \in followers[msg.m] THEN gone \o cl \o el ELSE gone
  BY DEF Outbox
<1> HIDE DEF D, gone, kept, w, cl, el, out
<1>9. CASE msg.m \in S
  <2>1. Kept(msg) \in Copies /\ Same(w[msg.m], Kept(msg)) /\ now[msg.m] = Applied(Kept(msg), msg)
    BY <1>1, <1>5, <1>6, <1>7, <1>9
  <2>2. /\ cl \in Seq(Lines) /\ el \in Seq(Lines)
        /\ \A k \in Markets \ {msg.m} : Taken(Taken(w, cl), el)[k] = w[k]
        /\ Same(Taken(Taken(w, cl), el)[msg.m], now[msg.m])
    BY <1>4, <2>1, EventTaken DEF cl, el
  <2> DEFINE q == gone \o cl
  <2>3. q \in Seq(Lines) /\ Taken(v, q) = Taken(w, cl)
    BY <1>3, <2>2, TakenMore, ConcatProperties DEF w
  <2>4. out = q \o el
    BY <1>1, <1>8, <1>9
  <2> HIDE DEF q
  <2>5. out \in Seq(Lines) /\ Taken(v, out) = Taken(Taken(w, cl), el)
    BY <2>2, <2>3, <2>4, TakenMore, ConcatProperties
  <2>6. ASSUME NEW m \in S PROVE Same(Taken(v, out)[m], now[m])
    <3>1. CASE m = msg.m
      BY <2>2, <2>5, <3>1
    <3>2. CASE m # msg.m
      BY <1>6, <1>7, <2>2, <2>5, <3>2
    <3> QED BY <3>1, <3>2
  <2> QED BY <2>5, <2>6 DEF out
<1>10. CASE msg.m \notin S
  <2>1. out = gone
    BY <1>1, <1>8, <1>10
  <2>2. \A m \in S : Same(Taken(v, out)[m], now[m])
    BY <1>6, <1>7, <1>10, <2>1 DEF w
  <2> QED BY <1>3, <2>1, <2>2 DEF out
<1> QED BY <1>9, <1>10

(* A fresh image of a book that the hub holds fresh brings no other levels. *)
LEMMA RefreshBrings ==
  ASSUME Inv, bus # << >>, NEW msg, msg = Head(bus),
         msg.kind = "refresh", Kept(msg).st = "fresh", Observed(msg).copy[msg.m].st = "fresh"
  PROVE  Observed(msg).copy[msg.m].lv = Kept(msg).lv
<1>1. msg \in Messages /\ msg = bus[1] /\ 1 \in 1 .. Len(bus)
  BY DEF Inv, TypeOK
<1>2. Follows(msg) /\ Kept(msg) = con.copy[msg.m]
  BY CopySight DEF Kept
<1>3. Sound(msg) /\ Succeeds(At(0), msg)
  BY <1>1 DEF Inv, Chain
<1>4. Link(con.seen, msg)
  BY <1>2, <1>3 DEF Succeeds, At, Place, Follows
<1>5. con.copy \in [Markets -> Copies] /\ msg.m \in Markets
  BY <1>1 DEF Inv, TypeOK, Consumers, Messages
<1>6. Observed(msg).copy[msg.m] = Adopt(msg)
  BY <1>2, <1>5 DEF Observed, Applied
<1>7. ~msg.stale /\ Observed(msg).copy[msg.m].lv = msg.lv
  BY <1>6, CopySight DEF Adopt, Copy
<1>8. Fresh(msg.after[msg.m]) /\ msg.lv = msg.after[msg.m].lv
  BY <1>3, <1>7 DEF Sound, Fresh
<1>9. Fresh(con.seen[msg.m]) /\ msg.after[msg.m].lv = con.seen[msg.m].lv
  BY <1>4, <1>5, <1>8 DEF Link
<1>10. con.copy[msg.m].lv = con.seen[msg.m].lv
  BY <1>2, <1>5, <1>9 DEF Inv, CopiesFollow
<1> QED BY <1>2, <1>7, <1>8, <1>9, <1>10

-----------------------------------------------------------------------------
(* The sessions' invariant: what the hub knows of its sessions agrees with what they
   follow, and each is good for the hub's copies. *)

Kempt ==
  /\ sessions \in [Clients -> Sessions]
  /\ followers \in [Markets -> SUBSET Clients]
  /\ \A c \in Clients :
       /\ sessions[c].at = "out" => sessions[c].subs = {}
       /\ sessions[c].reading => sessions[c].at = "open"
       /\ \A m \in Markets : c \in followers[m] <=> m \in sessions[c].subs

AllGood == \A c \in Clients : Good(sessions[c], con.copy)

LEMMA CopiesType ==
  ASSUME Inv
  PROVE  con.copy \in [Markets -> Copies]
BY DEF Inv, TypeOK, Consumers

LEMMA FreshSessions ==
  /\ OutSession \in Sessions /\ OpenSession \in Sessions
  /\ OutSession.at = "out" /\ OutSession.subs = {} /\ ~OutSession.reading
  /\ OpenSession.at = "open" /\ OpenSession.subs = {}
  /\ OutSession.queue = << >> /\ OpenSession.code = NoCode
  /\ <<Hello>> \in Seq(Lines) /\ Hello \in Lines /\ Hello.kind = "other"
  /\ \A copies : Good(OutSession, copies) /\ Good(OpenSession, copies)
<1>1. Hello \in Lines /\ Hello.kind = "other"
  BY Bounds, LineType DEF Hello, Nobody, Kinds
<1>2. <<Hello>> \in Seq(Lines)
  BY <1>1
<1> DEFINE e == << >>
<1>3. e \in Seq(Lines)
  OBVIOUS
<1>4. OutSession \in Sessions
  <2>1. OutSession = [at |-> "out", subs |-> {}, queue |-> e, lags |-> 0, code |-> NoCode,
                      gone |-> FALSE, reading |-> FALSE, view |-> NoView]
    BY DEF OutSession
  <2> HIDE DEF e
  <2> QED BY <1>3, <2>1, CopySight DEF Sessions, NoCode
<1> DEFINE h == <<Hello>>
<1>5. OpenSession = [OutSession EXCEPT !.at = "open", !.queue = h, !.reading = TRUE]
  BY DEF OpenSession
<1>6. OpenSession \in Sessions
  <2> HIDE DEF h
  <2>1. h \in Seq(Lines)
    BY <1>2 DEF h
  <2> QED BY <1>4, <1>5, <2>1 DEF Sessions
<1> HIDE DEF h
<1>7. OutSession.at = "out" /\ OutSession.subs = {} /\ ~OutSession.reading
      /\ OutSession.queue = << >> /\ OutSession.code = NoCode
  BY DEF OutSession
<1>8. OpenSession.at = "open" /\ OpenSession.subs = {} /\ OpenSession.code = NoCode
  BY <1>5, <1>7 DEF OutSession
<1> QED BY <1>1, <1>2, <1>4, <1>6, <1>7, <1>8 DEF Good

(* A step of one session that leaves what it follows: what is left to show of it. *)
LEMMA OneSession ==
  ASSUME Kempt, AllGood, NEW c \in Clients, NEW s \in Sessions, con' = con,
         sessions' = [sessions EXCEPT ![c] = s], followers' = followers,
         s.subs = sessions[c].subs, s.at = "out" => s.subs = {}, s.reading => s.at = "open",
         Good(s, con.copy)
  PROVE  Kempt' /\ AllGood'
<1>1. sessions' \in [Clients -> Sessions] /\ sessions'[c] = s
      /\ \A k \in Clients \ {c} : sessions'[k] = sessions[k]
  BY DEF Kempt
<1>2. Kempt'
  <2> SUFFICES ASSUME NEW k \in Clients
               PROVE  /\ sessions'[k].at = "out" => sessions'[k].subs = {}
                      /\ sessions'[k].reading => sessions'[k].at = "open"
                      /\ \A m \in Markets : k \in followers'[m] <=> m \in sessions'[k].subs
    BY <1>1 DEF Kempt
  <2> QED BY <1>1 DEF Kempt
<1>3. AllGood'
  <2> SUFFICES ASSUME NEW k \in Clients PROVE Good(sessions'[k], con'.copy)
    BY DEF AllGood, Good, Same, Taken
  <2> QED BY <1>1 DEF AllGood
<1> QED BY <1>2, <1>3

(* receive, _fan_out *)
LEMMA HubReceives ==
  ASSUME Inv, Inv', Kempt, AllGood, HubReceive
  PROVE  Kempt' /\ AllGood'
<1> DEFINE msg == Head(bus)
           now == con'.copy
<1>1. bus # << >> /\ con' = Observed(msg) /\ followers' = followers
  BY DEF HubReceive, Receive
<1>2. PICK trade \in BOOLEAN :
        sessions' = [c \in Clients |-> Offered(sessions[c], Outbox(c, msg, now, trade), now)]
  BY DEF HubReceive
<1>3. msg \in Messages
  BY <1>1 DEF Inv, TypeOK
<1>4. con.copy \in [Markets -> Copies] /\ now \in [Markets -> Copies]
  BY CopiesType DEF Inv, TypeOK, Consumers
<1>5. now = Observed(msg).copy
  BY <1>1
<1> HIDE DEF now
<1>6. msg.kind = "refresh" /\ Kept(msg).st = "fresh" /\ now[msg.m].st = "fresh" =>
        now[msg.m].lv = Kept(msg).lv
  <2> HIDE DEF msg
  <2>1. msg = Head(bus)
    BY DEF msg
  <2> QED BY <1>1, <1>5, <2>1, RefreshBrings
<1> HIDE DEF msg
<1>7. ASSUME NEW c \in Clients
      PROVE  /\ sessions'[c] \in Sessions
             /\ sessions'[c].at = sessions[c].at /\ sessions'[c].subs = sessions[c].subs
             /\ sessions'[c].reading = sessions[c].reading
             /\ Good(sessions'[c], now)
  <2> DEFINE s == sessions[c]
             out == Outbox(c, msg, now, trade)
  <2>1. s \in Sessions /\ Good(s, con.copy)
        /\ \A m \in Markets : c \in followers[m] <=> m \in s.subs
    BY DEF Kempt, AllGood
  <2>2. Taken(s.view, s.queue) \in Views /\ s.subs \in SUBSET Markets
    <3> HIDE DEF s
    <3>1. s.view \in Views /\ s.queue \in Seq(Lines) /\ s.subs \in SUBSET Markets
      BY <2>1, SessionFields
    <3> DEFINE a == s.view
               b == s.queue
    <3>2. a \in Views /\ b \in Seq(Lines)
      BY <3>1
    <3> HIDE DEF a, b
    <3>3. Taken(a, b) \in Views
      BY <3>2, TakenType
    <3> QED BY <3>1, <3>3 DEF a, b
  <2>3. sessions'[c] = Offered(s, out, now)
    BY <1>2
  <2> HIDE DEF s, out
  <2>4. CASE s.code = NoCode /\ ~s.gone
    <3> DEFINE w == Taken(s.view, s.queue)
               R == s.subs
    <3>1. w \in Views /\ R \in SUBSET Markets
          /\ (\A m \in Markets : c \in followers[m] <=> m \in R)
          /\ (\A m \in R : Same(w[m], con.copy[m]))
      BY <2>1, <2>2, <2>4 DEF Good
    <3> HIDE DEF w, R
    <3>2. out \in Seq(Lines) /\ \A m \in R : Same(Taken(w, out)[m], now[m])
      BY <1>3, <1>4, <1>5, <1>6, <3>1, OutboxTaken DEF out
    <3> HIDE DEF out
    <3>3. \A m \in s.subs : Same(Taken(Taken(s.view, s.queue), out)[m], now[m])
      BY <3>2 DEF w, R
    <3> QED BY <1>4, <2>1, <2>3, <2>4, <3>2, <3>3, OfferedKeeps DEF s
  <2>5. CASE ~(s.code = NoCode /\ ~s.gone)
    <3>1. sessions'[c] = s
      BY <2>1, <2>3, <2>5, SessionFields DEF Offered
    <3> QED BY <2>1, <2>5, <3>1 DEF Good, s
  <2> QED BY <2>4, <2>5
<1>8. sessions' \in [Clients -> Sessions]
  <2>1. sessions' = [c \in Clients |-> sessions'[c]]
    BY <1>2
  <2> QED BY <1>7, <2>1
<1>9. Kempt'
  <2> SUFFICES ASSUME NEW k \in Clients
               PROVE  /\ sessions'[k].at = "out" => sessions'[k].subs = {}
                      /\ sessions'[k].reading => sessions'[k].at = "open"
                      /\ \A m \in Markets : k \in followers'[m] <=> m \in sessions'[k].subs
    BY <1>1, <1>8 DEF Kempt
  <2> QED BY <1>1, <1>7 DEF Kempt
<1>10. AllGood'
  <2> SUFFICES ASSUME NEW k \in Clients PROVE Good(sessions'[k], con'.copy)
    BY DEF AllGood, Good, Same, Taken
  <2> QED BY <1>7 DEF now
<1> QED BY <1>9, <1>10

(* admit *)
LEMMA Admits ==
  ASSUME Inv, Kempt, AllGood, NEW c \in Clients, Admit(c)
  PROVE  Kempt' /\ AllGood'
<1> DEFINE s == OpenSession
<1>1. /\ sessions' = [sessions EXCEPT ![c] = s] /\ followers' = followers /\ con' = con
      /\ sessions[c].at = "out"
  BY DEF Admit, vars
<1>2. s \in Sessions /\ s.at = "open" /\ s.subs = {} /\ Good(s, con.copy)
  BY FreshSessions
<1>3. sessions[c].subs = {}
  BY <1>1 DEF Kempt
<1> HIDE DEF s
<1> QED BY <1>1, <1>2, <1>3, OneSession

(* subscribe: the reply and the images bring a client exactly the hub's copies. *)
LEMMA ReplyTaken ==
  ASSUME NEW s \in Sessions, NEW on \in SUBSET Markets, NEW v \in Views,
         con.copy \in [Markets -> Copies],
         \A m \in s.subs : Same(v[m], con.copy[m])
  PROVE  /\ Reply(s, on) \in Seq(Lines)
         /\ \A m \in on : Same(Taken(v, Reply(s, on))[m], con.copy[m])
<1> DEFINE l == Subscribed(on, on \ s.subs)
           r == <<l>>
           S == on \ s.subs
           copies == con.copy
           q == FoldLeft(LAMBDA q, m : q \o Image(m, copies), r, SetToSeq(S))
<1>1. l \in Lines /\ l.kind = "subscribed" /\ l.on = on /\ l.new = on \ s.subs
  <2>1. Line("subscribed", Nobody) \in Lines
    BY Bounds, LineType DEF Nobody, Kinds
  <2> QED BY <2>1 DEF Subscribed, Lines, Line
<1> HIDE DEF l
<1>2. r \in Seq(Lines) /\ Taken(v, r) = Viewed(v, l)
  BY <1>1, TakenOne
<1>3. \A m \in Markets : Viewed(v, l)[m] = IF m \in on \cap s.subs THEN v[m] ELSE NoCopy
  BY <1>1 DEF Viewed
<1>4. S \in SUBSET Markets /\ copies \in [Markets -> Copies]
  OBVIOUS
<1>5. Reply(s, on) = q
  BY DEF Reply, l
<1> HIDE DEF r, S, copies
<1>6. /\ q \in Seq(Lines)
      /\ \A m \in Markets :
           Taken(v, q)[m] = IF m \in S /\ copies[m].st # "unknown" THEN copies[m]
                            ELSE Taken(v, r)[m]
  BY <1>2, <1>4, ImagesTaken
<1> HIDE DEF q
<1>7. ASSUME NEW m \in on PROVE Same(Taken(v, q)[m], con.copy[m])
  <2>1. m \in Markets
    OBVIOUS
  <2>2. CASE m \in s.subs
    <3>1. Taken(v, q)[m] = v[m]
      BY <1>2, <1>3, <1>6, <2>1, <2>2 DEF S
    <3> QED BY <2>2, <3>1
  <2>3. CASE m \notin s.subs /\ con.copy[m].st # "unknown"
    <3>1. Taken(v, q)[m] = con.copy[m]
      BY <1>6, <2>1, <2>3 DEF S, copies
    <3> QED BY <3>1 DEF Same
  <2>4. CASE m \notin s.subs /\ con.copy[m].st = "unknown"
    <3>1. Taken(v, q)[m] = NoCopy
      BY <1>2, <1>3, <1>6, <2>1, <2>4 DEF copies
    <3> QED BY <2>4, <3>1, CopySight DEF Same
  <2> QED BY <2>2, <2>3, <2>4
<1> QED BY <1>5, <1>6, <1>7

LEMMA Subscribes ==
  ASSUME Inv, Kempt, AllGood, NEW c \in Clients, NEW asked \in SUBSET Markets,
         Subscribe(c, asked)
  PROVE  Kempt' /\ AllGood'
<1>1. PICK on \in SUBSET (asked \cap listed) :
        /\ followers' = [m \in Markets |->
             IF m \in on THEN followers[m] \cup {c} ELSE followers[m] \ {c}]
        /\ sessions' = [sessions EXCEPT
             ![c] = Offered([sessions[c] EXCEPT !.subs = on], Reply(sessions[c], on), con.copy)]
  BY DEF Subscribe
<1>2. con' = con /\ sessions[c].reading
  BY DEF Subscribe, vars
<1> DEFINE s == sessions[c]
           s2 == [s EXCEPT !.subs = on]
           lines == Reply(s, on)
           off == Offered(s2, lines, con.copy)
           copies == con.copy
<1>3. s \in Sessions /\ Good(s, con.copy) /\ s.at = "open" /\ on \in SUBSET Markets
  BY <1>2 DEF Kempt, AllGood
<1>4. copies \in [Markets -> Copies]
  BY CopiesType
<1> HIDE DEF s
<1>5. /\ s2 \in Sessions /\ s2.at = s.at /\ s2.subs = on /\ s2.queue = s.queue
      /\ s2.code = s.code /\ s2.gone = s.gone /\ s2.view = s.view /\ s2.reading = s.reading
  BY <1>3 DEF Sessions
<1>6. s.view \in Views /\ s.queue \in Seq(Lines)
  BY <1>3, SessionFields
<1> DEFINE a == s.view
           b == s.queue
<1>7. Taken(a, b) \in Views
  <2> HIDE DEF a, b
  <2>1. a \in Views /\ b \in Seq(Lines)
    BY <1>6 DEF a, b
  <2> QED BY <2>1, TakenType
<1> HIDE DEF s2
<1>8. lines \in Seq(Lines)
      /\ (s.code = NoCode /\ ~s.gone =>
            \A m \in on : Same(Taken(Taken(s.view, s.queue), lines)[m], copies[m]))
  <2>1. CASE s.code = NoCode /\ ~s.gone
    <3> DEFINE w == Taken(s.view, s.queue)
    <3>1. w \in Views /\ \A m \in s.subs : Same(w[m], con.copy[m])
      BY <1>3, <1>7, <2>1 DEF Good
    <3> HIDE DEF w
    <3>2. lines \in Seq(Lines) /\ \A m \in on : Same(Taken(w, lines)[m], con.copy[m])
      BY <1>3, <1>4, <3>1, ReplyTaken
    <3> QED BY <3>2 DEF w
  <2>2. CASE ~(s.code = NoCode /\ ~s.gone)
    <3> DEFINE l == Subscribed(on, on \ s.subs)
               r == <<l>>
               S == on \ s.subs
    <3>1. Line("subscribed", Nobody) \in Lines
      BY Bounds, LineType DEF Nobody, Kinds
    <3>2. l \in Lines
      BY <1>3, <3>1 DEF Subscribed, Lines, Line
    <3> HIDE DEF l
    <3>3. r \in Seq(Lines) /\ S \in SUBSET Markets /\ NoView \in Views
      BY <1>3, <3>2, CopySight
    <3> DEFINE q == FoldLeft(LAMBDA q, m : q \o Image(m, copies), r, SetToSeq(S))
    <3>4. lines = q
      BY DEF Reply, l
    <3> HIDE DEF r, S, copies
    <3>5. q \in Seq(Lines)
      BY <1>4, <3>3, ImagesTaken
    <3> HIDE DEF q, lines
    <3> QED BY <2>2, <3>4, <3>5
  <2> QED BY <2>1, <2>2
<1> HIDE DEF lines, copies
<1>9. s2.code # NoCode => s2.queue = << >>
  BY <1>3, <1>5 DEF Good
<1>10. s2.code = NoCode /\ ~s2.gone =>
         \A m \in s2.subs : Same(Taken(Taken(s2.view, s2.queue), lines)[m], copies[m])
  BY <1>5, <1>8
<1>11. /\ off \in Sessions /\ off.at = s2.at /\ off.subs = s2.subs
       /\ off.reading = s2.reading /\ Good(off, con.copy)
  <2>1. off = Offered(s2, lines, copies)
    BY DEF copies
  <2> HIDE DEF off
  <2> QED BY <1>4, <1>5, <1>8, <1>9, <1>10, <2>1, OfferedKeeps DEF copies
<1>12. sessions' = [sessions EXCEPT ![c] = off]
  BY <1>1 DEF s, s2, lines
<1> HIDE DEF off
<1>13. sessions' \in [Clients -> Sessions] /\ sessions'[c] = off
       /\ \A k \in Clients \ {c} : sessions'[k] = sessions[k]
  BY <1>11, <1>12 DEF Kempt
<1>14. \A m \in Markets, k \in Clients :
         k \in followers'[m] <=> IF k = c THEN m \in on ELSE k \in followers[m]
  BY <1>1 DEF Kempt
<1>15. Kempt'
  <2>1. followers' \in [Markets -> SUBSET Clients]
    BY <1>1 DEF Kempt
  <2> SUFFICES ASSUME NEW k \in Clients
               PROVE  /\ sessions'[k].at = "out" => sessions'[k].subs = {}
                      /\ sessions'[k].reading => sessions'[k].at = "open"
                      /\ \A m \in Markets : k \in followers'[m] <=> m \in sessions'[k].subs
    BY <1>13, <2>1 DEF Kempt
  <2>2. CASE k = c
    BY <1>3, <1>5, <1>11, <1>13, <1>14, <2>2
  <2>3. CASE k # c
    BY <1>13, <1>14, <2>3 DEF Kempt
  <2> QED BY <2>2, <2>3
<1>16. AllGood'
  <2> SUFFICES ASSUME NEW k \in Clients PROVE Good(sessions'[k], con'.copy)
    BY DEF AllGood, Good, Same, Taken
  <2> QED BY <1>2, <1>11, <1>13 DEF AllGood
<1> QED BY <1>15, <1>16

(* _error *)
LEMMA Refuses ==
  ASSUME Inv, Kempt, AllGood, NEW c \in Clients, Unacceptable(c)
  PROVE  Kempt' /\ AllGood'
<1> DEFINE s == sessions[c]
           l == ErrorLine
           lines == <<l>>
           copies == con.copy
           off == Offered(s, lines, copies)
<1>1. /\ sessions' = [sessions EXCEPT ![c] = off] /\ followers' = followers /\ con' = con
  BY DEF Unacceptable, vars
<1>2. s \in Sessions /\ Good(s, copies) /\ (s.at = "out" => s.subs = {})
      /\ (s.reading => s.at = "open")
  BY DEF Kempt, AllGood
<1>3. l \in Lines /\ l.kind = "other"
  <2>1. Line("other", Nobody) \in Lines /\ Line("other", Nobody).kind = "other"
    BY Bounds, LineType DEF Nobody, Kinds
  <2> QED BY <2>1 DEF ErrorLine, Lines
<1> HIDE DEF l
<1>4. lines \in Seq(Lines)
  BY <1>3
<1>5. \A w : Taken(w, lines) = w
  <2> TAKE w
  <2>1. Taken(w, lines) = Viewed(w, l)
    BY TakenOne
  <2> QED BY <1>3, <2>1 DEF Viewed
<1>6. copies \in [Markets -> Copies]
  BY CopiesType
<1> HIDE DEF s, lines, copies
<1>7. s.code # NoCode => s.queue = << >>
  BY <1>2 DEF Good
<1>8. s.code = NoCode /\ ~s.gone =>
        \A m \in s.subs : Same(Taken(Taken(s.view, s.queue), lines)[m], copies[m])
  BY <1>2, <1>5 DEF Good
<1>9. /\ off \in Sessions /\ off.at = s.at /\ off.subs = s.subs /\ off.reading = s.reading
      /\ Good(off, copies)
  BY <1>2, <1>4, <1>6, <1>7, <1>8, OfferedKeeps
<1> HIDE DEF off
<1>10. off.subs = sessions[c].subs /\ Good(off, con.copy)
       /\ (off.at = "out" => off.subs = {}) /\ (off.reading => off.at = "open")
  BY <1>2, <1>9 DEF s, copies
<1> QED BY <1>1, <1>9, <1>10, OneSession

(* _within_limits *)
LEMMA Breaks ==
  ASSUME Inv, Kempt, AllGood, NEW c \in Clients, BreakLimits(c)
  PROVE  Kempt' /\ AllGood'
<1> DEFINE s == sessions[c]
           code == PolicyViolation
           z == Closed(s, code)
           t == [z EXCEPT !.reading = FALSE]
<1>1. /\ sessions' = [sessions EXCEPT ![c] = t] /\ followers' = followers /\ con' = con
      /\ s.reading
  BY DEF BreakLimits, vars
<1>2. s \in Sessions /\ Good(s, con.copy) /\ s.at = "open"
  BY <1>1 DEF Kempt, AllGood
<1>3. code \in Nat /\ code # NoCode
  BY DEF PolicyViolation, NoCode
<1> HIDE DEF s, code
<1>4. s.code # NoCode => s.queue = << >>
  BY <1>2 DEF Good
<1>5. /\ z \in Sessions /\ z.at = s.at /\ z.subs = s.subs /\ z.code # NoCode
      /\ z.queue = << >>
  BY <1>2, <1>3, <1>4, ClosedType
<1> HIDE DEF z
<1>6. /\ t \in Sessions /\ t.at = "open" /\ t.subs = s.subs /\ t.code # NoCode
      /\ t.queue = << >> /\ ~t.reading
  BY <1>2, <1>5 DEF Sessions
<1> HIDE DEF t
<1>7. t.subs = sessions[c].subs /\ Good(t, con.copy)
  BY <1>6 DEF Good, s
<1> QED BY <1>1, <1>6, <1>7, OneSession

(* _read *)
LEMMA Disconnects ==
  ASSUME Inv, Kempt, AllGood, NEW c \in Clients, Disconnect(c)
  PROVE  Kempt' /\ AllGood'
<1> DEFINE s == sessions[c]
           q == [i \in DOMAIN s.queue |-> Hello]
           t == [s EXCEPT !.lags = 0, !.view = NoView, !.gone = TRUE, !.reading = FALSE,
                          !.queue = q]
<1>1. s \in Sessions /\ Good(s, con.copy) /\ s.reading /\ s.at = "open"
  BY DEF Kempt, AllGood, Disconnect
<1>2. s.queue \in Seq(Lines) /\ DOMAIN s.queue = 1 .. Len(s.queue) /\ Len(s.queue) \in Nat
  <2>1. s.queue \in Seq(Lines)
    BY <1>1, SessionFields
  <2> QED BY <2>1, LenProperties
<1>3. q \in Seq(Lines) /\ (s.queue = << >> => q = << >>)
  BY <1>2, FreshSessions
<1>4. sessions' = [sessions EXCEPT ![c] = t] /\ followers' = followers /\ con' = con
  <2>1. [Shut(s) EXCEPT !.gone = TRUE, !.reading = FALSE,
                        !.queue = [i \in DOMAIN @ |-> Hello]] = t
    BY <1>1 DEF Shut, Sessions
  <2>2. sessions' = [sessions EXCEPT ![c] =
          [Shut(s) EXCEPT !.gone = TRUE, !.reading = FALSE,
                          !.queue = [i \in DOMAIN @ |-> Hello]]]
    BY DEF Disconnect
  <2> HIDE DEF s, t
  <2> QED BY <2>1, <2>2 DEF Disconnect, vars
<1> HIDE DEF s, q
<1>5. /\ t \in Sessions /\ t.at = "open" /\ t.subs = s.subs /\ t.gone /\ ~t.reading
      /\ t.queue = q /\ t.code = s.code
  BY <1>1, <1>3, CopySight DEF Sessions
<1> HIDE DEF t
<1>6. t.subs = sessions[c].subs /\ Good(t, con.copy)
  BY <1>1, <1>3, <1>5 DEF Good, s
<1> QED BY <1>4, <1>5, <1>6, OneSession

LEMMA OverType ==
  ASSUME NEW s \in Sessions
  PROVE  /\ Over(s) \in Sessions /\ Over(s).at = "over" /\ Over(s).subs = s.subs
         /\ Over(s).gone /\ ~Over(s).reading /\ Over(s).queue = << >>
         /\ \A copies : Good(Over(s), copies)
<1> DEFINE t == Over(s)
<1>1. t = [OutSession EXCEPT !.at = "over", !.subs = s.subs, !.gone = TRUE]
  BY DEF Over
<1>2. s.subs \in SUBSET Markets
  BY SessionFields
<1>3. /\ t \in Sessions /\ t.at = "over" /\ t.subs = s.subs /\ t.gone
      /\ t.reading = OutSession.reading /\ t.queue = OutSession.queue
  <2> HIDE DEF t
  <2> QED BY <1>1, <1>2, FreshSessions DEF Sessions
<1> HIDE DEF t
<1> QED BY <1>3, FreshSessions DEF Good, t

(* _write *)
LEMMA Sends ==
  ASSUME Inv, Kempt, AllGood, NEW c \in Clients, Send(c)
  PROVE  Kempt' /\ AllGood'
<1> DEFINE s == sessions[c]
           v == IF s.gone THEN NoView ELSE Viewed(s.view, Head(s.queue))
           q == Tail(s.queue)
           sent == [s EXCEPT !.queue = q, !.view = v]
           end == Over(s)
<1>1. s \in Sessions /\ Good(s, con.copy) /\ s.at = "open" /\ s.queue # << >>
      /\ (s.reading => s.at = "open")
  BY DEF Kempt, AllGood, Send
<1>2. s.queue \in Seq(Lines) /\ s.view \in Views /\ s.gone \in BOOLEAN
  BY <1>1, SessionFields
<1>3. followers' = followers /\ con' = con
      /\ (sessions' = [sessions EXCEPT ![c] = sent] \/ sessions' = [sessions EXCEPT ![c] = end])
  <2>1. [s EXCEPT !.queue = Tail(@),
                  !.view = IF s.gone THEN NoView ELSE Viewed(@, Head(s.queue))] = sent
    BY <1>1 DEF Sessions
  <2> HIDE DEF sent
  <2> QED BY <2>1 DEF Send, vars
<1>4. q \in Seq(Lines) /\ Head(s.queue) \in Lines
  BY <1>1, <1>2
<1>5. v \in Views
  <2> DEFINE l == Head(s.queue)
             a == s.view
  <2>1. l \in Lines /\ a \in Views
    BY <1>2, <1>4
  <2> HIDE DEF l, a
  <2>2. Viewed(a, l) \in Views
    BY <2>1, ViewedType
  <2>3. v = IF s.gone THEN NoView ELSE Viewed(a, l)
    BY DEF a, l
  <2> HIDE DEF v
  <2> QED BY <2>2, <2>3, CopySight
<1>6. ~s.gone => Taken(v, q) = Taken(s.view, s.queue)
  <2> DEFINE a == s.view
             b == s.queue
  <2>1. b \in Seq(Lines) /\ b # << >>
    BY <1>1, <1>2
  <2>2. ~s.gone => v = Viewed(a, Head(b)) /\ q = Tail(b)
    OBVIOUS
  <2> HIDE DEF a, b, v, q
  <2>3. Taken(a, b) = Taken(Viewed(a, Head(b)), Tail(b))
    BY <2>1, TakenFirst
  <2> QED BY <2>2, <2>3 DEF a, b
<1> HIDE DEF s, v, q
<1>7. CASE sessions' = [sessions EXCEPT ![c] = sent]
  <2>1. /\ sent \in Sessions /\ sent.at = "open" /\ sent.subs = s.subs
        /\ sent.queue = q /\ sent.view = v /\ sent.code = s.code /\ sent.gone = s.gone
    BY <1>1, <1>4, <1>5 DEF Sessions
  <2> HIDE DEF sent
  <2>2. s.code = NoCode
    BY <1>1 DEF Good
  <2>3. Good(sent, con.copy)
    BY <1>1, <1>6, <2>1, <2>2 DEF Good
  <2>4. sent.subs = sessions[c].subs
    BY <2>1 DEF s
  <2> QED BY <1>3, <1>7, <2>1, <2>3, <2>4, OneSession
<1>8. CASE sessions' = [sessions EXCEPT ![c] = end]
  <2>1. /\ end \in Sessions /\ end.at = "over" /\ end.subs = s.subs /\ ~end.reading
        /\ Good(end, con.copy)
    BY <1>1, OverType
  <2> HIDE DEF end
  <2>2. end.subs = sessions[c].subs
    BY <2>1 DEF s
  <2> QED BY <1>3, <1>8, <2>1, <2>2, OneSession
<1> QED BY <1>3, <1>7, <1>8

LEMMA Ends ==
  ASSUME Inv, Kempt, AllGood, NEW c \in Clients, EndSession(c)
  PROVE  Kempt' /\ AllGood'
<1> DEFINE s == sessions[c]
           end == Over(s)
<1>1. s \in Sessions
  BY DEF Kempt
<1>2. sessions' = [sessions EXCEPT ![c] = end] /\ followers' = followers /\ con' = con
  BY DEF EndSession, vars
<1> HIDE DEF s
<1>3. /\ end \in Sessions /\ end.at = "over" /\ end.subs = s.subs /\ ~end.reading
      /\ Good(end, con.copy)
  BY <1>1, OverType
<1> HIDE DEF end
<1>4. end.subs = sessions[c].subs
  BY <1>3 DEF s
<1> QED BY <1>2, <1>3, <1>4, OneSession

(* _drop_stale_lags *)
LEMMA Forgets ==
  ASSUME Inv, Kempt, AllGood, NEW c \in Clients, LagForgotten(c)
  PROVE  Kempt' /\ AllGood'
<1> DEFINE s == sessions[c]
           n == s.lags - 1
           t == [s EXCEPT !.lags = n]
<1>1. s \in Sessions /\ Good(s, con.copy) /\ (s.at = "out" => s.subs = {})
      /\ (s.reading => s.at = "open") /\ s.lags > 0
  BY DEF Kempt, AllGood, LagForgotten
<1>2. sessions' = [sessions EXCEPT ![c] = t] /\ followers' = followers /\ con' = con
  <2>1. sessions' = [sessions EXCEPT ![c] = [s EXCEPT !.lags = @ - 1]]
    BY DEF LagForgotten, Kempt
  <2>2. [s EXCEPT !.lags = @ - 1] = t
    BY <1>1 DEF Sessions
  <2> HIDE DEF s, t
  <2> QED BY <2>1, <2>2 DEF LagForgotten, vars
<1>3. n \in Nat
  BY <1>1, SessionFields
<1> HIDE DEF s, n
<1>4. /\ t \in Sessions /\ t.at = s.at /\ t.subs = s.subs /\ t.queue = s.queue
      /\ t.view = s.view /\ t.code = s.code /\ t.gone = s.gone /\ t.reading = s.reading
  BY <1>1, <1>3 DEF Sessions
<1> HIDE DEF t
<1>5. t.subs = sessions[c].subs /\ Good(t, con.copy)
  BY <1>1, <1>4 DEF Good, s
<1> QED BY <1>1, <1>2, <1>4, <1>5, OneSession

(* detach *)
LEMMA Detaches ==
  ASSUME Inv, Kempt, AllGood, NEW c \in Clients, Detach(c)
  PROVE  Kempt' /\ AllGood'
<1> DEFINE s == OutSession
<1>1. /\ sessions' = [sessions EXCEPT ![c] = s] /\ con' = con
      /\ followers' = [m \in Markets |->
           IF m \in sessions[c].subs THEN followers[m] \ {c} ELSE followers[m]]
  BY DEF Detach, vars
<1>2. s \in Sessions /\ s.subs = {} /\ ~s.reading /\ Good(s, con.copy)
  BY FreshSessions
<1> HIDE DEF s
<1>3. sessions' \in [Clients -> Sessions] /\ sessions'[c] = s
      /\ \A k \in Clients \ {c} : sessions'[k] = sessions[k]
  BY <1>1, <1>2 DEF Kempt
<1>4. \A m \in Markets, k \in Clients :
        k \in followers'[m] <=> k # c /\ k \in followers[m]
  <2> TAKE m \in Markets, k \in Clients
  <2>1. c \in followers[m] <=> m \in sessions[c].subs
    BY DEF Kempt
  <2> QED BY <1>1, <2>1
<1>5. Kempt'
  <2>1. followers' \in [Markets -> SUBSET Clients]
    BY <1>1 DEF Kempt
  <2> SUFFICES ASSUME NEW k \in Clients
               PROVE  /\ sessions'[k].at = "out" => sessions'[k].subs = {}
                      /\ sessions'[k].reading => sessions'[k].at = "open"
                      /\ \A m \in Markets : k \in followers'[m] <=> m \in sessions'[k].subs
    BY <1>3, <2>1 DEF Kempt
  <2>2. CASE k = c
    BY <1>2, <1>3, <1>4, <2>2
  <2>3. CASE k # c
    BY <1>3, <1>4, <2>3 DEF Kempt
  <2> QED BY <2>2, <2>3
<1>6. AllGood'
  <2> SUFFICES ASSUME NEW k \in Clients PROVE Good(sessions'[k], con'.copy)
    BY DEF AllGood, Good, Same, Taken
  <2> QED BY <1>1, <1>2, <1>3 DEF AllGood
<1> QED BY <1>5, <1>6

(* close_sessions *)
LEMMA CloseAll ==
  ASSUME Inv, Kempt, AllGood, CloseSessions
  PROVE  Kempt' /\ AllGood'
<1> DEFINE code == GoingAway
<1>1. /\ followers' = followers /\ con' = con
      /\ sessions' = [c \in Clients |->
           IF sessions[c].at = "open" THEN Closed(sessions[c], code) ELSE sessions[c]]
  BY DEF CloseSessions, vars
<1>2. code \in Nat /\ code # NoCode
  BY DEF GoingAway, NoCode
<1> HIDE DEF code
<1>3. ASSUME NEW c \in Clients
      PROVE  /\ sessions'[c] \in Sessions /\ Good(sessions'[c], con.copy)
             /\ sessions'[c].at = sessions[c].at /\ sessions'[c].subs = sessions[c].subs
             /\ sessions'[c].reading = sessions[c].reading
  <2> DEFINE s == sessions[c]
  <2>1. s \in Sessions /\ Good(s, con.copy)
    BY DEF Kempt, AllGood
  <2>2. sessions'[c] = IF s.at = "open" THEN Closed(s, code) ELSE s
    BY <1>1
  <2> HIDE DEF s
  <2>3. s.code # NoCode => s.queue = << >>
    BY <2>1 DEF Good
  <2> DEFINE z == Closed(s, code)
  <2>4. /\ z \in Sessions /\ z.at = s.at /\ z.subs = s.subs /\ z.reading = s.reading
        /\ z.code # NoCode /\ z.queue = << >>
    BY <1>2, <2>1, <2>3, ClosedType
  <2> HIDE DEF z
  <2>5. Good(z, con.copy)
    BY <2>4 DEF Good
  <2>6. sessions'[c] = z \/ sessions'[c] = s
    BY <2>2 DEF z
  <2> QED BY <2>1, <2>4, <2>5, <2>6 DEF s
<1>4. sessions' \in [Clients -> Sessions]
  <2>1. sessions' = [c \in Clients |-> sessions'[c]]
    BY <1>1
  <2> QED BY <1>3, <2>1
<1>5. Kempt'
  <2> SUFFICES ASSUME NEW k \in Clients
               PROVE  /\ sessions'[k].at = "out" => sessions'[k].subs = {}
                      /\ sessions'[k].reading => sessions'[k].at = "open"
                      /\ \A m \in Markets : k \in followers'[m] <=> m \in sessions'[k].subs
    BY <1>1, <1>4 DEF Kempt
  <2> QED BY <1>1, <1>3 DEF Kempt
<1>6. AllGood'
  <2> SUFFICES ASSUME NEW k \in Clients PROVE Good(sessions'[k], con'.copy)
    BY DEF AllGood, Good, Same, Taken
  <2> QED BY <1>1, <1>3
<1> QED BY <1>5, <1>6

(* No client is connected. *)
LEMMA NobodyConnected ==
  ASSUME sessions = [c \in Clients |-> OutSession], followers = [m \in Markets |-> {}]
  PROVE  Kempt /\ AllGood
<1> DEFINE s == OutSession
<1>1. s \in Sessions /\ s.subs = {} /\ ~s.reading /\ Good(s, con.copy)
  BY FreshSessions
<1>2. sessions = [c \in Clients |-> s]
  OBVIOUS
<1> HIDE DEF s
<1> QED BY <1>1, <1>2 DEF Kempt, AllGood

LEMMA HubRestarts ==
  ASSUME RestartHub
  PROVE  Kempt' /\ AllGood'
<1>1. (sessions = [c \in Clients |-> OutSession])' /\ (followers = [m \in Markets |-> {}])'
  BY DEF RestartHub
<1>2. (sessions = [c \in Clients |-> OutSession] /\ followers = [m \in Markets |-> {}]
         => Kempt /\ AllGood)'
  BY NobodyConnected, PTL
<1> QED BY <1>1, <1>2

LEMMA Unmoved ==
  ASSUME Kempt, AllGood, con' = con, sessions' = sessions, followers' = followers
  PROVE  Kempt' /\ AllGood'
<1>1. Kempt'
  BY DEF Kempt
<1>2. AllGood'
  BY DEF AllGood, Good, Same, Taken
<1> QED BY <1>1, <1>2

(* What the hub and its sessions do is a step of the bus, or none. *)
LEMMA HubStepsBus == [HubNext]_allVars => [Next]_vars
<1>1. ASSUME BusStep PROVE Next
  BY <1>1 DEF BusStep, Next
<1>2. ASSUME HubReceive PROVE Next
  BY <1>2 DEF HubReceive, Next
<1>3. ASSUME RestartHub PROVE Next
  BY <1>3 DEF RestartHub, Next
<1>4. ASSUME CloseSessions PROVE vars' = vars
  BY <1>4 DEF CloseSessions
<1>5. ASSUME NEW c \in Clients, SessionStep(c) PROVE vars' = vars
  <2>1. CASE Admit(c)
    BY <2>1 DEF Admit
  <2>2. CASE Unacceptable(c) \/ BreakLimits(c) \/ Disconnect(c)
    BY <2>2 DEF Unacceptable, BreakLimits, Disconnect
  <2>3. CASE \E asked \in SUBSET Markets : Subscribe(c, asked)
    BY <2>3 DEF Subscribe
  <2>4. CASE Send(c)
    BY <2>4 DEF Send
  <2>5. CASE EndSession(c) \/ Detach(c) \/ LagForgotten(c)
    BY <2>5 DEF EndSession, Detach, LagForgotten
  <2> QED BY <1>5, <2>1, <2>2, <2>3, <2>4, <2>5 DEF SessionStep
<1>6. ASSUME UNCHANGED allVars PROVE vars' = vars
  BY <1>6 DEF allVars
<1> QED BY <1>1, <1>2, <1>3, <1>4, <1>5, <1>6 DEF HubNext

LEMMA HubKeeps == Inv /\ Inv' /\ Kempt /\ AllGood /\ [HubNext]_allVars => Kempt' /\ AllGood'
<1> SUFFICES ASSUME Inv, Inv', Kempt, AllGood, [HubNext]_allVars PROVE Kempt' /\ AllGood'
  OBVIOUS
<1>1. CASE BusStep
  <2>1. sessions' = sessions /\ followers' = followers
    BY <1>1 DEF BusStep, hubVars
  <2>2. con' = con
    BY <1>1 DEF BusStep, SnapshotArrives, DeltaArrives, MarketLeaves, PublishRefresh,
                OtherEvent, BooksGoStale, CycleBegins, ClosePublisher, RestartRecorder,
                Undecodable
  <2> QED BY <2>1, <2>2, Unmoved
<1>2. CASE HubReceive
  BY <1>2, HubReceives
<1>3. CASE RestartHub
  BY <1>3, HubRestarts
<1>4. CASE CloseSessions
  BY <1>4, CloseAll
<1>5. ASSUME NEW c \in Clients, SessionStep(c) PROVE Kempt' /\ AllGood'
  <2>1. CASE Admit(c)
    BY <2>1, Admits
  <2>2. CASE Unacceptable(c)
    BY <2>2, Refuses
  <2>3. CASE BreakLimits(c)
    BY <2>3, Breaks
  <2>4. CASE Disconnect(c)
    BY <2>4, Disconnects
  <2>5. CASE \E asked \in SUBSET Markets : Subscribe(c, asked)
    BY <2>5, Subscribes
  <2>6. CASE Send(c)
    BY <2>6, Sends
  <2>7. CASE EndSession(c)
    BY <2>7, Ends
  <2>8. CASE Detach(c)
    BY <2>8, Detaches
  <2>9. CASE LagForgotten(c)
    BY <2>9, Forgets
  <2> QED
    BY <1>5, <2>1, <2>2, <2>3, <2>4, <2>5, <2>6, <2>7, <2>8, <2>9 DEF SessionStep
<1>6. CASE UNCHANGED allVars
  BY <1>6, Unmoved DEF allVars, vars, hubVars
<1> QED BY <1>1, <1>2, <1>3, <1>4, <1>5, <1>6 DEF HubNext

-----------------------------------------------------------------------------
(* Where the hub's runs begin. *)

LEMMA SecondCycle ==
  ASSUME InSecondCycle
  PROVE  Inv /\ KnownInv
<1> DEFINE n == 2 * Cardinality(Markets) + 2
<1>1. n \in 0 .. MaxTries /\ 1 \in 1 .. MaxEpochs /\ 1 \in 0 .. MaxEpochs
  <2>1. Cardinality(Markets) \in Nat
    BY BusAssumption, FS_CardinalityType
  <2> QED BY <2>1, BusAssumption, HubAssumption
<1>2. PICK lvs \in [Markets -> {lv \in Levels : ~Crossed(lv)}] :
        books = [m \in Markets |-> [NewBook EXCEPT !.stale = FALSE, !.lv = lvs[m], !.begun = 2]]
  BY DEF InSecondCycle
<1>3. /\ pub = [NewPublisher(1, n) EXCEPT !.seq = n, !.due = Markets]
      /\ con = [NewConsumer EXCEPT !.epoch = 1, !.seq = n, !.seen = books, !.cats = 2,
                  !.copy = [m \in Markets |-> Copy(FALSE, books[m].lv)]]
      /\ bus = << >>
  BY DEF InSecondCycle
<1> HIDE DEF n
<1>4. /\ pub.epoch = 1 /\ pub.seq = n /\ pub.tries = n /\ pub.due = Markets
      /\ pub \in Publishers
  <2>1. pub = [epoch |-> 1, seq |-> n, tries |-> n, open |-> TRUE, due |-> Markets]
    BY <1>3 DEF NewPublisher
  <2> QED BY <1>1, <2>1 DEF Publishers
<1>5. \A m \in Markets :
        /\ books[m] \in Books /\ books[m].held /\ Fresh(books[m])
        /\ books[m].lv \in Levels /\ ~Crossed(books[m].lv)
  <2> TAKE m \in Markets
  <2>1. lvs[m] \in Levels /\ ~Crossed(lvs[m])
    BY <1>2
  <2>2. books[m] = [held |-> TRUE, stale |-> FALSE, lv |-> lvs[m], begun |-> 2]
    BY <1>2 DEF NewBook
  <2> QED BY <2>1, <2>2 DEF Books, Fresh
<1>6. books \in [Markets -> Books]
  BY <1>2, <1>5
<1>7. /\ con.epoch = 1 /\ con.seq = n /\ con.seen = books /\ con.cats = 2 /\ con.broken = FALSE
      /\ con.copy = [m \in Markets |-> Copy(FALSE, books[m].lv)]
  BY <1>3 DEF NewConsumer
<1>8. con.copy \in [Markets -> Copies]
      /\ \A m \in Markets : con.copy[m].st = "fresh" /\ con.copy[m].lv = books[m].lv
  BY <1>5, <1>7 DEF Copy, Copies
<1>9. con \in Consumers
  <2> DEFINE cp == [m \in Markets |-> Copy(FALSE, books[m].lv)]
  <2>1. con = [epoch |-> 1, seq |-> n, copy |-> cp, broken |-> FALSE, seen |-> books,
               cats |-> 2]
    <3>1. con = [NewConsumer EXCEPT !.epoch = 1, !.seq = n, !.seen = books, !.cats = 2,
                                    !.copy = cp]
      BY <1>3
    <3> HIDE DEF cp
    <3> QED BY <3>1 DEF NewConsumer
  <2>2. cp \in [Markets -> Copies]
    BY <1>7, <1>8
  <2> HIDE DEF cp
  <2> QED BY <1>1, <1>6, <2>1, <2>2 DEF Consumers
<1>10. TypeOK
  <2>1. bus \in Seq(Messages) /\ Len(bus) <= HighWater
    BY <1>3, Bounds
  <2>2. pub.seq <= pub.tries
    BY <1>1, <1>4
  <2>3. \A m \in Markets : /\ Fresh(books[m]) => ~Crossed(books[m].lv)
                           /\ ~Crossed(con.copy[m].lv)
    BY <1>5, <1>8
  <2> QED BY <1>4, <1>6, <1>9, <2>1, <2>2, <2>3 DEF TypeOK
<1>11. Len(bus) = 0 /\ 0 .. 0 = {0} /\ 1 .. 0 = {}
  BY <1>3
<1>12. At(0).epoch = 1 /\ At(0).seq = n /\ At(0).after = books
  BY <1>7 DEF At, Place
<1>13. Inv
  <2>1. Chain
    BY <1>11 DEF Chain
  <2>2. Recent
    BY <1>1, <1>4, <1>11, <1>12 DEF Recent, NoNews
  <2>3. CopiesFollow
    BY <1>7, <1>8 DEF CopiesFollow
  <2> QED BY <1>10, <2>1, <2>2, <2>3 DEF Inv
<1>14. KnownInv
  <2> DEFINE D == [i \in {0} |-> Markets]
  <2>1. D \in [0 .. Len(bus) -> SUBSET Markets] /\ D[0] = Markets
    BY <1>11
  <2> HIDE DEF D
  <2>2. StillOwed(books, D[0], books, pub.due)
    BY <1>4, <2>1 DEF StillOwed
  <2>3. Learnt(D[0])
    BY <1>8 DEF Learnt
  <2>4. Ledger(D)
    BY <1>11, <1>12, <2>2, <2>3 DEF Ledger
  <2>5. BegunHeld
    BY <1>5 DEF BegunHeld
  <2> QED BY <2>1, <2>4, <2>5 DEF KnownInv
<1> QED BY <1>13, <1>14

LEMMA AllFollow ==
  ASSUME Inv, Following
  PROVE  Kempt /\ AllGood
<1> DEFINE e == << >>
           s == [OpenSession EXCEPT !.subs = Markets, !.queue = e, !.view = con.copy]
<1>1. sessions = [c \in Clients |-> s] /\ followers = [m \in Markets |-> Clients]
  BY DEF Following
<1>2. con.copy \in [Markets -> Copies] /\ con.copy \in Views /\ e \in Seq(Lines)
  BY CopiesType, CopySight DEF Views
<1> HIDE DEF e
<1>3. /\ s \in Sessions /\ s.at = "open" /\ s.subs = Markets /\ s.queue = e
      /\ s.view = con.copy /\ s.code = NoCode
  BY <1>2, FreshSessions DEF Sessions
<1> HIDE DEF s
<1>4. Taken(s.view, s.queue) = con.copy
  BY <1>3, TakenNone DEF e
<1>5. Good(s, con.copy)
  BY <1>3, <1>4 DEF Good, Same
<1> QED BY <1>1, <1>3, <1>5 DEF Kempt, AllGood

HubInv == Inv /\ KnownInv /\ Kempt /\ AllGood

LEMMA HubInvAlways == HubSpec => []HubInv
<1>1. HubInit => HubInv
  <2> SUFFICES ASSUME HubInit PROVE HubInv
    OBVIOUS
  <2>1. Inv /\ KnownInv
    BY SecondCycle DEF HubInit
  <2>2. CASE Unconnected
    BY <2>1, <2>2, NobodyConnected DEF Unconnected, HubInv
  <2>3. CASE Following
    BY <2>1, <2>3, AllFollow DEF HubInv
  <2> QED BY <2>2, <2>3 DEF HubInit
<1>2. HubInv /\ [HubNext]_allVars => HubInv'
  BY HubStepsBus, HubKeeps, InvNext, KnownNext DEF HubInv
<1> QED BY <1>1, <1>2, PTL DEF HubSpec

(* LiveHub._fan_out, ClientSession.offer: for every set of clients and markets, queue
   bound and lag limit, and whatever a bus loses, a connected client holds of each market
   it follows what the hub holds, once it has taken what is queued for it. *)
THEOREM ClientsAlwaysFollow == HubSpec => []ClientsFollow
<1>1. HubInv => ClientsFollow
  <2> SUFFICES ASSUME Kempt, AllGood PROVE ClientsFollow
    BY DEF HubInv
  <2> SUFFICES ASSUME NEW c \in Clients
               PROVE  LET s == sessions[c]
                          end == Taken(s.view, s.queue)
                      IN /\ s.at = "open" /\ s.code = NoCode /\ ~s.gone =>
                              \A m \in s.subs :
                                /\ c \in followers[m]
                                /\ end[m].st = con.copy[m].st
                                /\ end[m].st = "fresh" => end[m].lv = con.copy[m].lv
                         /\ s.code # NoCode => s.queue = << >>
                         /\ \A m \in Markets : c \in followers[m] => m \in s.subs
    BY DEF ClientsFollow, Taken
  <2>1. sessions[c] \in Sessions /\ Good(sessions[c], con.copy)
        /\ \A m \in Markets : c \in followers[m] <=> m \in sessions[c].subs
    BY DEF Kempt, AllGood
  <2>2. sessions[c].subs \in SUBSET Markets
    BY <2>1, SessionFields
  <2> QED BY <2>1, <2>2 DEF Good, Same
<1> QED BY <1>1, HubInvAlways, PTL

(* LiveBooks.observe under LiveHub: with the clients connected the copies are typed, and
   follow the publisher's books, and a whole refresh cycle makes every book known. *)
THEOREM HubFollowsBus == HubSpec => [](TypeOK /\ CopiesFollow /\ KnownAfterCycle)
<1>1. HubInv => TypeOK /\ CopiesFollow
  BY DEF HubInv, Inv
<1>2. HubInv => KnownAfterCycle
  BY KnownSuffices DEF HubInv
<1> QED BY <1>1, <1>2, HubInvAlways, PTL
=============================================================================
