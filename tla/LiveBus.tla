------------------------------ MODULE LiveBus -------------------------------
(***************************************************************************)
(* The live book bus: SequencedPublisher (src/tape/bus/envelope.py) numbers*)
(* what the supervisors and the refresh cycle of the recorder publish, the *)
(* transport loses what it likes (sockets.py), and a consumer rebuilds the *)
(* books with LiveBooks (livebooks.py).  The exchange is abstract: any     *)
(* snapshot or delta may reach a supervisor.  One connection holds a       *)
(* market, and a refresh slice is one market, as refresh_slices makes it   *)
(* while there are no more markets than slices.                            *)
(***************************************************************************)
EXTENDS Integers, Sequences, FiniteSets

CONSTANTS
  Markets,
  Prices,
  HighWater,   \* messages queued for the consumer before its copies are dropped
  MaxCount,    \* bound: resting count of a level
  MaxTries,    \* bound: messages attempted, over all epochs
  MaxEpochs    \* bound: starts of the recorder

ASSUME BusAssumption ==
  /\ IsFiniteSet(Markets) /\ Markets # {} /\ Prices \subseteq Nat
  /\ HighWater \in Nat /\ MaxCount \in Nat /\ MaxTries \in Nat /\ MaxEpochs \in Nat \ {0}

VARIABLES
  pub,    \* SequencedPublisher and the refresh cycle
  books,  \* the supervisors' books
  bus,    \* messages on their way to the consumer
  con     \* LiveBooks

vars == <<pub, books, bus, con>>

-----------------------------------------------------------------------------
(* Book.  A level that is not there has count 0. *)

Sides == {"bid", "ask"}
Levels == [Sides -> [Prices -> 0 .. MaxCount]]
Deltas == [side : Sides, price : Prices, n : {-1, 1}]
NoLevels == [s \in Sides |-> [p \in Prices |-> 0]]

Crossed(lv) ==
  \E p, q \in Prices : p >= q /\ lv["bid"][p] > 0 /\ lv["ask"][q] > 0

Updated(lv, d) == lv[d.side][d.price] + d.n

Added(lv, d) == [lv EXCEPT ![d.side][d.price] = @ + d.n]

Most(n) == IF n > 2 THEN 2 ELSE n

(* begun is history: how many refresh cycles began while the book was held, 2 for
   more. *)
NoBook == [held |-> FALSE, stale |-> TRUE, lv |-> NoLevels, begun |-> 0]
NewBook == [held |-> TRUE, stale |-> TRUE, lv |-> NoLevels, begun |-> 0]

Fresh(b) == b.held /\ ~b.stale

Stale(b) == [b EXCEPT !.stale = TRUE]

StaleIn(ms) == [m \in Markets |-> IF m \in ms THEN Stale(books[m]) ELSE books[m]]

-----------------------------------------------------------------------------
(* The publisher.  due holds the markets left in the refresh cycle. *)

NewPublisher(e, tries) == [epoch |-> e, seq |-> 0, tries |-> tries, open |-> TRUE, due |-> {}]

(* kind and the fields it uses: "snapshot": m, lv; "delta": m, d; "refresh": m, lv,
   stale; "catalog" and "other": none.  after is history: the books when the
   message was made up. *)
Message(kind, m, lv, stale, d, after) ==
  [epoch |-> pub.epoch, seq |-> pub.seq + 1, kind |-> kind, m |-> m, lv |-> lv,
   stale |-> stale, d |-> d, after |-> after]

NoDelta == [side |-> "bid", price |-> 0, n |-> 0]

SnapshotOf(m, after) == Message("snapshot", m, after[m].lv, FALSE, NoDelta, after)
DeltaOf(m, d, after) == Message("delta", m, NoLevels, FALSE, d, after)
RefreshOf(m) == Message("refresh", m, books[m].lv, books[m].stale, NoDelta, books)
Notice(kind, after) ==
  Message(kind, CHOOSE m \in Markets : TRUE, NoLevels, FALSE, NoDelta, after)

(* Mutant: only a message that is handed over gets a number of its own. *)
PublishNumbersSent(msg, due) ==
  /\ pub.tries < MaxTries
  /\ \/ /\ pub.open /\ Len(bus) < HighWater /\ bus' = Append(bus, msg)
        /\ pub' = [pub EXCEPT !.seq = @ + 1, !.tries = @ + 1, !.due = due]
     \/ bus' = bus /\ pub' = [pub EXCEPT !.tries = @ + 1, !.due = due]

(* SequencedPublisher.publish: the number is spent whatever becomes of the
   message.  A full queue, a failed send or a closed socket loses it. *)
Publish(msg, due) ==
  /\ pub.tries < MaxTries
  /\ pub' = [pub EXCEPT !.seq = @ + 1, !.tries = @ + 1, !.due = due]
  /\ \/ pub.open /\ Len(bus) < HighWater /\ bus' = Append(bus, msg)
     \/ bus' = bus

Silent == UNCHANGED <<pub, bus>>

(* _on_snapshot: a book is created for it; a crossed one leaves the book stale and
   is not published. *)
SnapshotArrives(m, lv) ==
  LET book == IF books[m].held THEN books[m] ELSE NewBook
      bad  == [books EXCEPT ![m] = Stale(book)]
      good == [books EXCEPT ![m] = [book EXCEPT !.stale = FALSE, !.lv = lv]]
  IN /\ IF Crossed(lv) THEN books' = bad /\ Silent
        ELSE books' = good /\ Publish(SnapshotOf(m, good), pub.due)
     /\ UNCHANGED con

(* _on_delta on a fresh book: a delta that would make a level negative changes
   nothing, one that crosses the book is applied, and both leave it stale. *)
DeltaArrives(m, d) ==
  LET added == [books EXCEPT ![m].lv = Added(books[m].lv, d)]
  IN /\ Fresh(books[m]) /\ Updated(books[m].lv, d) <= MaxCount
     /\ CASE Updated(books[m].lv, d) < 0 ->
               books' = [books EXCEPT ![m] = Stale(@)] /\ Silent
          [] Updated(books[m].lv, d) >= 0 /\ Crossed(added[m].lv) ->
               books' = [added EXCEPT ![m] = Stale(@)] /\ Silent
          [] OTHER ->
               books' = added /\ Publish(DeltaOf(m, d, added), pub.due)
     /\ UNCHANGED con

(* _on_gap: the event is published, then the connection's books go stale.  A trade, a
   ticker, a lifecycle event or a status report changes no book. *)
OtherEvent ==
  /\ Publish(Notice("other", books), pub.due)
  /\ \E ms \in SUBSET Markets : books' = StaleIn(ms)
  /\ UNCHANGED con

(* A connection ends or replays a message: its books go stale without an event. *)
BooksGoStale ==
  /\ \E ms \in SUBSET Markets : books' = StaleIn(ms)
  /\ books' # books
  /\ Silent /\ UNCHANGED con

(* _record_change: the market left the group. *)
MarketLeaves(m) ==
  /\ books[m].held
  /\ books' = [books EXCEPT ![m] = NoBook]
  /\ Silent /\ UNCHANGED con

(* _bus_refresh_loop: a cycle opens with the catalog and fixes its markets. *)
CycleBegins ==
  /\ pub.due = {}
  /\ books' = [m \in Markets |->
                 IF books[m].held THEN [books[m] EXCEPT !.begun = Most(@ + 1)] ELSE books[m]]
  /\ Publish(Notice("catalog", books'), {m \in Markets : books[m].held})
  /\ UNCHANGED con

(* Mutant: stale books are left out of the cycle. *)
PublishRefreshSkipsStale(m) ==
  /\ m \in pub.due
  /\ IF Fresh(books[m]) THEN Publish(RefreshOf(m), pub.due \ {m})
     ELSE pub' = [pub EXCEPT !.due = @ \ {m}] /\ UNCHANGED bus
  /\ UNCHANGED <<books, con>>

(* _publish_refreshes: a market no longer held is skipped. *)
PublishRefresh(m) ==
  /\ m \in pub.due
  /\ IF books[m].held THEN Publish(RefreshOf(m), pub.due \ {m})
     ELSE pub' = [pub EXCEPT !.due = @ \ {m}] /\ UNCHANGED bus
  /\ UNCHANGED <<books, con>>

(* What a closed or vanished socket leaves for the consumer. *)
BusCutShort == \E n \in 0 .. Len(bus) : bus' = SubSeq(bus, 1, n)

(* Recorder.stop closes the bus; supervisors that are late count errors. *)
ClosePublisher ==
  /\ pub.open /\ pub' = [pub EXCEPT !.open = FALSE]
  /\ BusCutShort
  /\ UNCHANGED <<books, con>>

(* The recorder ends, or crashes, and is started again. *)
RestartRecorder ==
  /\ pub.epoch < MaxEpochs
  /\ pub' = NewPublisher(pub.epoch + 1, pub.tries)
  /\ books' = [m \in Markets |-> NoBook]
  /\ BusCutShort
  /\ UNCHANGED con

-----------------------------------------------------------------------------
(* The consumer. *)

NoEpoch == 0
NoCopy == [st |-> "unknown", lv |-> NoLevels]
Copy(stale, lv) == [st |-> IF stale THEN "stale" ELSE "fresh", lv |-> lv]

(* LiveBooks.__init__.  broken: _book_errors is not 0.  seen and cats are history:
   the publisher's books at the latest message, and how many catalogs were observed
   since the latest reset, 2 for more. *)
NewConsumer ==
  [epoch |-> NoEpoch, seq |-> 0, copy |-> [m \in Markets |-> NoCopy], broken |-> FALSE,
   seen |-> [m \in Markets |-> NoBook], cats |-> 0]

(* _follow: no reset is due. *)
Follows(msg) == con.epoch = msg.epoch /\ msg.seq = con.seq + 1

(* Mutant: an image is taken as it is. *)
AdoptUnchecked(msg) == Copy(msg.stale, msg.lv)

(* _adopt *)
Adopt(msg) == IF Crossed(msg.lv) THEN NoCopy ELSE Copy(msg.stale, msg.lv)

(* _change *)
Change(copy, msg) ==
  CASE copy.st = "unknown" -> NoCopy
    [] copy.st # "unknown" /\ msg.kind = "snapshot" ->
         IF Crossed(msg.lv) THEN NoCopy ELSE Copy(FALSE, msg.lv)
    [] copy.st = "stale" /\ msg.kind = "delta" -> copy
    [] OTHER ->
         IF Updated(copy.lv, msg.d) < 0 \/ Crossed(Added(copy.lv, msg.d)) THEN NoCopy
         ELSE Copy(FALSE, Added(copy.lv, msg.d))

(* _apply, on the copies the reset left; then what broke a book invariant. *)
Applied(copy, msg) ==
  CASE msg.kind = "refresh"              -> Adopt(msg)
    [] msg.kind \in {"snapshot", "delta"} -> Change(copy, msg)
    [] OTHER                             -> copy

Broke(copy, msg) ==
  /\ Applied(copy, msg).st = "unknown"
  /\ msg.kind = "refresh" \/ copy.st # "unknown"

(* observe *)
Observed(msg) ==
  LET kept == IF Follows(msg) THEN con.copy ELSE [m \in Markets |-> NoCopy]
      cats == IF Follows(msg) THEN con.cats ELSE 0
  IN [epoch |-> msg.epoch, seq |-> msg.seq,
      copy |-> [kept EXCEPT ![msg.m] = Applied(@, msg)],
      broken |-> con.broken \/ Broke(kept[msg.m], msg),
      seen |-> msg.after,
      cats |-> IF msg.kind = "catalog" THEN Most(cats + 1) ELSE cats]

(* LiveHub.receive *)
Receive ==
  /\ bus # << >>
  /\ con' = Observed(Head(bus)) /\ bus' = Tail(bus)
  /\ UNCHANGED <<pub, books>>

(* LiveHub.receive: a message that does not decode is only counted. *)
Undecodable ==
  /\ bus # << >>
  /\ bus' = Tail(bus)
  /\ UNCHANGED <<pub, books, con>>

RestartConsumer ==
  /\ con.epoch # NoEpoch
  /\ con' = NewConsumer /\ bus' = << >>
  /\ UNCHANGED <<pub, books>>

-----------------------------------------------------------------------------
Init ==
  /\ pub = NewPublisher(1, 0)
  /\ books = [m \in Markets |-> NoBook]
  /\ bus = << >> /\ con = NewConsumer

Next ==
  \/ \E m \in Markets :
       \/ \E lv \in Levels : SnapshotArrives(m, lv)
       \/ \E d \in Deltas : DeltaArrives(m, d)
       \/ MarketLeaves(m)
       \/ PublishRefresh(m)
  \/ OtherEvent \/ BooksGoStale \/ CycleBegins \/ ClosePublisher \/ RestartRecorder
  \/ Receive \/ Undecodable \/ RestartConsumer

Spec == Init /\ [][Next]_vars

-----------------------------------------------------------------------------
Publishers ==
  [epoch : 1 .. MaxEpochs, seq : 0 .. MaxTries, tries : 0 .. MaxTries, open : BOOLEAN,
   due : SUBSET Markets]

Books == [held : BOOLEAN, stale : BOOLEAN, lv : Levels, begun : 0 .. 2]

Messages ==
  [epoch : 1 .. MaxEpochs, seq : 1 .. MaxTries, m : Markets, lv : Levels, stale : BOOLEAN,
   kind : {"snapshot", "delta", "refresh", "catalog", "other"},
   d : Deltas \cup {NoDelta}, after : [Markets -> Books]]

Copies == [st : {"unknown", "fresh", "stale"}, lv : Levels]

Consumers ==
  [epoch : 0 .. MaxEpochs, seq : 0 .. MaxTries, copy : [Markets -> Copies], broken : BOOLEAN,
   seen : [Markets -> Books], cats : 0 .. 2]

(* Every variable holds a value of its kind; a book that is trusted by its holder,
   publisher or consumer, is not crossed. *)
TypeOK ==
  /\ pub \in Publishers /\ pub.seq <= pub.tries
  /\ books \in [Markets -> Books]
  /\ bus \in Seq(Messages) /\ Len(bus) <= HighWater
  /\ con \in Consumers
  /\ \A m \in Markets : /\ Fresh(books[m]) => ~Crossed(books[m].lv)
                        /\ ~Crossed(con.copy[m].lv)

(* LiveBooks: a book reported stale is stale at the publisher, and a fresh one has
   the publisher's levels, as of the last message observed and whenever the
   publisher's book is fresh too. *)
CopiesFollow ==
  \A m \in Markets :
    Fresh(con.seen[m]) =>
      /\ con.copy[m].st # "stale"
      /\ con.copy[m].st = "fresh" => con.copy[m].lv = con.seen[m].lv

(* _bus_refresh_loop, observe: a consumer that has followed a whole cycle without
   loss knows every book that was held when the cycle began and when it ended,
   unless a book broke an invariant. *)
KnownAfterCycle ==
  con.cats = 2 /\ ~con.broken =>
    \A m \in Markets :
      con.seen[m].begun = 2 => con.copy[m].st # "unknown"
=============================================================================
