--------------------------- MODULE BookSyncProofs ---------------------------
(***************************************************************************)
(* Proofs about BookSync, for every set of markets, command size and       *)
(* schedule of faults, sends, membership changes and losses.  Inv: the     *)
(* state is well formed and a fresh book is one that the connection        *)
(* carries.  MemberInv: the changes left to send lead to the desired       *)
(* group, and at most one subscribe is outstanding.  TrueInv: the frames   *)
(* on the wire are linked to the latest one taken up, the baseline is      *)
(* never ahead of it, and an untainted fresh book shows what the exchange  *)
(* had when it sent that one.                                              *)
(***************************************************************************)
EXTENDS BookSync, FiniteSetTheorems, SequenceTheorems, TLAPS

Ops == {"subscribe", "add", "delete", "unsubscribe"}

Changes == [op : Ops, ms : SUBSET Markets, sent : BOOLEAN]

Commands == [op : Ops \cup {"get_snapshot"}, ms : SUBSET Markets]

Messages ==
  [kind : {"snapshot", "delta", "subscribed", "unsubscribed", "error"}, m : Markets \cup {None},
   n : Nat \cup {None}, seq : Nat \cup {None}, ord : Nat, truth : [Markets -> Nat],
   covers : SUBSET Markets, first : BOOLEAN]

Exchanges ==
  [count : [Markets -> Nat], sub : SUBSET Markets, live : SUBSET Markets, owed : SUBSET Markets,
   seq : Nat, ord : Nat, wire : Seq(Messages), cmds : Seq(Commands)]

Books == [held : BOOLEAN, stale : BOOLEAN, n : Nat]

Clients ==
  [base : Nat \cup {None}, resyncing : BOOLEAN, awaiting : SUBSET Markets,
   book : [Markets -> Books]]

-----------------------------------------------------------------------------
(* The inductive invariant.  The lock's owner matters to the books: a sid that is
   dropped takes every applied market with it. *)

SoundExchange(y) == y \in Exchanges /\ y.owed \cup y.live \subseteq y.sub

FreshOnly(s, ms) == s \in Clients /\ \A m \in Markets : Fresh(s.book[m]) => m \in ms

Carried == IF sid THEN applied ELSE {}

UnsubscribesAll(q) ==
  \A i \in 1 .. Len(q) : q[i].op = "unsubscribe" => i = 1 /\ q[i].ms = applied

OwnerInv ==
  /\ lock \in {"free", "group", "frame"}
  /\ lock = "free" <=> todo = << >>
  /\ conn # "up" => todo = << >>
  /\ todo \in Seq(Changes) /\ UnsubscribesAll(todo)

FlagsInv ==
  /\ conn \in {"down", "up", "lost"} /\ {sid, pending, deferred, waiting} \subseteq BOOLEAN
  /\ desired \in SUBSET Markets /\ applied \in SUBSET Markets

Inv ==
  /\ FlagsInv /\ OwnerInv
  /\ SoundExchange(x) /\ held \in Seq(Messages)
  /\ FreshOnly(c, Carried)

-----------------------------------------------------------------------------
(* What a frame does to the books. *)

LEMMA CheckedKeeps ==
  ASSUME NEW s, NEW ms, NEW msg \in Messages, FreshOnly(s, ms)
  PROVE  FreshOnly(Checked(s, msg), ms)
<1>1. Observed(Baseline(s, msg), msg.seq) \in Nat \cup {None}
  BY DEF Observed, Baseline, None, FreshOnly, Clients, Messages
<1> QED
  BY <1>1 DEF Checked, FreshOnly, Clients, Fresh

LEMMA RequestedKeeps ==
  ASSUME NEW s, NEW ms, NEW asked \in SUBSET Markets, FreshOnly(s, ms)
  PROVE  FreshOnly(Requested(s, asked), ms)
BY DEF Requested, FreshOnly, Clients, Fresh

LEMMA ResyncedKeeps ==
  ASSUME NEW s, NEW ms, NEW again \in BOOLEAN, FreshOnly(s, ms)
  PROVE  FreshOnly(Resynced(s, again), ms)
BY ZenonT(60) DEF Resynced, FreshOnly, Clients, Books, Fresh, Stale

LEMMA PrunedKeeps ==
  ASSUME NEW s, NEW ms, NEW keep, FreshOnly(s, ms)
  PROVE  FreshOnly(Pruned(s, keep), ms)
BY DEF Pruned, FreshOnly, Clients, Books, Fresh, NoBook

(* Released books are not fresh. *)
LEMMA ReleasedKeeps ==
  ASSUME NEW s, NEW ms, NEW gone, FreshOnly(s, ms)
  PROVE  FreshOnly(Released(s, gone), ms \ gone)
BY DEF Released, FreshOnly, Clients, Books, Fresh, NoBook, Stale

LEMMA SnapshotKeeps ==
  ASSUME NEW s, NEW msg \in Messages, FreshOnly(s, Carried), applied \in SUBSET Markets
  PROVE  FreshOnly(OnSnapshot(s, msg), Carried)
<1> DEFINE t == FinishResync(s, msg.m)
<1>1. FreshOnly(t, Carried)
  BY DEF FinishResync, FreshOnly, Clients, Fresh
<1>2. CASE ~Touchable(msg.m)
  BY <1>1, <1>2 DEF OnSnapshot
<1>3. CASE Touchable(msg.m)
  <2>1. msg.m \in Markets /\ msg.m \in Carried /\ msg.n \in Nat \cup {None}
    BY <1>3 DEF Touchable, Carried, Messages
  <2> HIDE DEF t
  <2>2. FreshOnly([t EXCEPT !.book[msg.m] =
                     [held |-> TRUE, stale |-> TRUE, n |-> t.book[msg.m].n]], Carried)
    BY <1>1, <2>1 DEF FreshOnly, Clients, Books, Fresh
  <2>3. ASSUME msg.n # None
        PROVE  FreshOnly([t EXCEPT !.book[msg.m] = [held |-> TRUE, stale |-> FALSE, n |-> msg.n]],
                         Carried)
    BY <1>1, <2>1, <2>3 DEF FreshOnly, Clients, Books, Fresh
  <2> QED
    BY <1>3, <2>2, <2>3 DEF OnSnapshot, t
<1> QED
  BY <1>2, <1>3

LEMMA DeltaKeeps ==
  ASSUME NEW s, NEW msg \in Messages, FreshOnly(s, Carried), applied \in SUBSET Markets
  PROVE  FreshOnly(OnDelta(s, msg), Carried)
<1>1. CASE ~Applies(s, msg)
  BY <1>1 DEF OnDelta
<1>2. CASE Applies(s, msg)
  <2>1. msg.m \in Markets /\ msg.n \in Nat \cup {None}
    BY <1>2 DEF Applies, Touchable, Messages
  <2>2. FreshOnly([s EXCEPT !.book[msg.m].stale = TRUE], Carried)
    BY <2>1 DEF FreshOnly, Clients, Books, Fresh
  <2>3. ASSUME ~Breaks(s, msg)
        PROVE  FreshOnly([s EXCEPT !.book[msg.m].n = @ + msg.n], Carried)
    <3>1. s.book[msg.m].n + msg.n \in Nat
      BY <1>2, <2>1, <2>3 DEF Breaks, FreshOnly, Clients, Books, None
    <3> QED
      BY <2>1, <3>1 DEF FreshOnly, Clients, Books, Fresh
  <2> QED
    BY <1>2, <2>1, <2>2, <2>3, RequestedKeeps DEF OnDelta
<1> QED
  BY <1>1, <1>2

LEMMA DispatchKeeps ==
  ASSUME NEW s, NEW msg \in Messages, FreshOnly(s, Carried), applied \in SUBSET Markets
  PROVE  FreshOnly(Dispatched(s, msg), Carried)
<1>1. FreshOnly([s EXCEPT !.resyncing = FALSE, !.awaiting = {}], Carried)
  BY DEF FreshOnly, Clients, Fresh
<1>2. FreshOnly([s EXCEPT !.base = None], Carried)
  BY DEF FreshOnly, Clients, Fresh
<1> QED
  BY <1>1, <1>2, SnapshotKeeps, DeltaKeeps DEF Dispatched

-----------------------------------------------------------------------------
(* What the exchange does to the wire. *)

LEMMA WireKeeps ==
  ASSUME NEW y, SoundExchange(y), NEW q \in Seq(Messages)
  PROVE  SoundExchange([y EXCEPT !.wire = q])
BY DEF SoundExchange, Exchanges

LEMMA EmitKeeps ==
  ASSUME NEW y, SoundExchange(y), NEW kind \in {"snapshot", "delta"}, NEW m \in y.sub,
         NEW n \in Nat \cup {None}
  PROVE  SoundExchange(Emit(y, kind, m, n))
<1> DEFINE owed == IF kind = "snapshot" THEN y.owed \ {m} ELSE y.owed
           z == [y EXCEPT !.seq = @ + 1, !.ord = @ + 1, !.live = @ \cup {m}, !.owed = owed]
           msg == Message(z, kind, m, n, z.seq, m \notin y.live)
<1>1. /\ z \in Exchanges /\ z.wire = y.wire
      /\ z.owed \cup z.live \subseteq z.sub
  <2>1. /\ owed \in SUBSET Markets /\ owed \subseteq y.sub
        /\ y.live \cup {m} \in SUBSET Markets /\ y.live \cup {m} \subseteq y.sub
        /\ y.seq + 1 \in Nat /\ y.ord + 1 \in Nat
    BY DEF SoundExchange, Exchanges
  <2> HIDE DEF owed
  <2> QED
    BY <2>1 DEF SoundExchange, Exchanges
<1> HIDE DEF z
<1>2. msg \in Messages
  BY <1>1 DEF Message, Messages, SoundExchange, Exchanges
<1> HIDE DEF msg
<1>3. Append(z.wire, msg) \in Seq(Messages)
  BY <1>1, <1>2, AppendProperties DEF Exchanges
<1>4. Emit(y, kind, m, n) = [z EXCEPT !.wire = Append(z.wire, msg)]
  BY <1>1 DEF Emit, z, msg
<1> QED
  BY <1>1, <1>3, <1>4, WireKeeps, ZenonT(60) DEF SoundExchange

LEMMA ReplyKeeps ==
  ASSUME NEW y, SoundExchange(y), NEW kind \in {"subscribed", "unsubscribed", "error"}
  PROVE  SoundExchange(Reply(y, kind))
<1>1. Message(y, kind, None, None, None, FALSE) \in Messages
  BY DEF Message, Messages, SoundExchange, Exchanges
<1>2. y.wire \in Seq(Messages)
  BY DEF SoundExchange, Exchanges
<1>3. Append(y.wire, Message(y, kind, None, None, None, FALSE)) \in Seq(Messages)
  BY <1>1, <1>2, AppendProperties
<1> QED
  BY <1>3, WireKeeps DEF Reply

LEMMA SentKeeps ==
  ASSUME NEW y, SoundExchange(y), NEW op \in Ops \cup {"get_snapshot"}, NEW ms \in SUBSET Markets
  PROVE  SoundExchange(Sent(y, op, ms))
<1>1. [op |-> op, ms |-> ms] \in Commands
  BY DEF Commands
<1>2. Append(y.cmds, [op |-> op, ms |-> ms]) \in Seq(Commands)
  BY <1>1 DEF SoundExchange, Exchanges
<1> QED
  BY <1>2 DEF Sent, SoundExchange, Exchanges

LEMMA RequestKeeps ==
  ASSUME NEW y, SoundExchange(y), NEW ms \in SUBSET Markets
  PROVE  SoundExchange(Request(y, ms))
<1>1. << >> \in Seq(Messages)
  BY EmptySeq
<1> QED
  BY <1>1, SentKeeps, WireKeeps DEF Request

LEMMA NoExchangeSound ==
  ASSUME NEW count \in [Markets -> Nat]
  PROVE  SoundExchange(NoExchange(count))
<1>1. << >> \in Seq(Messages) /\ << >> \in Seq(Commands)
  BY EmptySeq
<1> QED
  BY <1>1 DEF NoExchange, SoundExchange, Exchanges

(* Each command leaves the members, the snapshots owed and the markets streamed
   consistent. *)
LEMMA DoesKeeps ==
  ASSUME NEW y, SoundExchange(y), NEW cmd \in Commands
  PROVE  SoundExchange(ExchangeDoes(y, cmd))
<1>1. /\ cmd.ms \in SUBSET Markets
      /\ cmd.op \in {"subscribe", "add", "delete", "unsubscribe", "get_snapshot"}
  BY DEF Commands, Ops
<1>2. SoundExchange([y EXCEPT !.sub = cmd.ms, !.owed = cmd.ms, !.live = {}])
  BY <1>1 DEF SoundExchange, Exchanges
<1>3. SoundExchange([y EXCEPT !.sub = {}, !.owed = {}, !.live = {}, !.seq = 0])
  BY <1>1 DEF SoundExchange, Exchanges
<1>4. SoundExchange([y EXCEPT !.sub = @ \cup cmd.ms, !.owed = @ \cup cmd.ms])
  BY <1>1 DEF SoundExchange, Exchanges
<1>5. SoundExchange([y EXCEPT !.sub = @ \ cmd.ms, !.owed = @ \ cmd.ms, !.live = @ \ cmd.ms])
  BY <1>1 DEF SoundExchange, Exchanges
<1>6. SoundExchange([y EXCEPT !.owed = @ \cup (cmd.ms \cap y.sub)])
  BY <1>1 DEF SoundExchange, Exchanges
<1> QED
  BY <1>1, <1>2, <1>3, <1>4, <1>5, <1>6, ReplyKeeps DEF ExchangeDoes

-----------------------------------------------------------------------------
(* What the lock's owner has to send. *)

LEMMA BatchCount ==
  ASSUME NEW ms \in SUBSET Markets, NEW s \in Batches(ms)
  PROVE  \E k \in Nat : /\ s \in [1 .. k -> SUBSET ms]
                        /\ k = 0 <=> ms = {}
<1> DEFINE size == Cardinality(ms)
           k == (size + MaxPerCommand - 1) \div MaxPerCommand
<1>1. size \in Nat /\ MaxPerCommand \in Nat \ {0}
  BY SyncAssumption, FS_Subset, FS_CardinalityType
<1>2. k \in Int /\ s \in [1 .. k -> (SUBSET ms) \ {{}}] /\ ms = UNION {s[i] : i \in 1 .. k}
  BY <1>1 DEF Batches
<1> HIDE DEF size, k
<1>3. CASE k < 1
  <2>1. 1 .. k = 1 .. 0 /\ ms = {}
    BY <1>2, <1>3
  <2> QED
    BY <1>2, <2>1
<1>4. CASE k >= 1
  <2>1. k \in Nat /\ k # 0 /\ 1 \in 1 .. k
    BY <1>2, <1>4
  <2>2. s[1] \in (SUBSET ms) \ {{}}
    BY <1>2, <2>1
  <2>3. s \in [1 .. k -> SUBSET ms]
    <3>1. (SUBSET ms) \ {{}} \subseteq SUBSET ms
      OBVIOUS
    <3> QED
      BY <1>2, <3>1
  <2>4. ms # {}
    <3>1. s[1] \in SUBSET ms /\ s[1] # {}
      BY <2>2
    <3>2. PICK e : e \in s[1]
      BY <3>1
    <3> QED
      BY <3>1, <3>2
  <2> QED
    BY <2>1, <2>3, <2>4
<1> QED
  BY <1>2, <1>3, <1>4

LEMMA SplitShape ==
  ASSUME NEW op \in Ops, NEW ms \in SUBSET Markets, NEW q \in Split(op, ms)
  PROVE  /\ q \in Seq(Changes) /\ (q = << >> <=> ms = {})
         /\ \A i \in 1 .. Len(q) : q[i].op = op
<1>1. PICK s \in Batches(ms) : q = [i \in DOMAIN s |-> Piece(op, s[i])]
  BY DEF Split
<1>2. PICK k \in Nat : s \in [1 .. k -> SUBSET ms] /\ (k = 0 <=> ms = {})
  BY BatchCount
<1>3. \A i \in 1 .. k : Piece(op, s[i]) \in Changes /\ Piece(op, s[i]).op = op
  BY <1>2 DEF Piece, Changes
<1> QED
  BY <1>1, <1>2, <1>3

LEMMA SplitGroupShape ==
  ASSUME NEW ms \in SUBSET Markets, NEW q \in SplitGroup(ms)
  PROVE  /\ q \in Seq(Changes) /\ (q = << >> <=> ms = {})
         /\ \A i \in 1 .. Len(q) : q[i].op # "unsubscribe"
<1>1. PICK s \in Batches(ms) :
        q = [i \in DOMAIN s |-> Piece(IF i = 1 THEN "subscribe" ELSE "add", s[i])]
  BY DEF SplitGroup
<1>2. PICK k \in Nat : s \in [1 .. k -> SUBSET ms] /\ (k = 0 <=> ms = {})
  BY BatchCount
<1>3. ASSUME NEW i \in 1 .. k, NEW op \in {"subscribe", "add"}
      PROVE  Piece(op, s[i]) \in Changes /\ Piece(op, s[i]).op # "unsubscribe"
  BY <1>2 DEF Piece, Changes, Ops
<1>4. /\ q \in [1 .. k -> Changes]
      /\ \A i \in 1 .. k : q[i].op # "unsubscribe"
  BY <1>1, <1>2, <1>3
<1> QED
  BY <1>2, <1>4

(* diff: an unsubscribe comes first and names all that is applied. *)
LEMMA PiecesShape ==
  ASSUME NEW have \in SUBSET Markets, NEW want \in SUBSET Markets, NEW q \in Pieces(have, want)
  PROVE  /\ q \in Seq(Changes)
         /\ \A i \in 1 .. Len(q) : q[i].op = "unsubscribe" => i = 1 /\ q[i].ms = have
         /\ have = {} => (q = << >> <=> want = {})
<1>1. CASE have \cap want = {}
  <2>1. PICK s \in SplitGroup(want) : q = RemoveGroup(have) \o s
    BY <1>1 DEF Pieces
  <2>2. /\ s \in Seq(Changes) /\ (s = << >> <=> want = {})
        /\ \A i \in 1 .. Len(s) : s[i].op # "unsubscribe"
    BY SplitGroupShape
  <2>3. CASE have = {}
    <3>1. q = s
      BY <2>1, <2>2, <2>3 DEF RemoveGroup
    <3> QED
      BY <2>2, <3>1
  <2>4. CASE have # {}
    <3> DEFINE p == Piece("unsubscribe", have)
    <3>1. p \in Changes /\ p.ms = have
      BY DEF Piece, Changes, Ops
    <3>2. q = <<p>> \o s
      BY <2>1, <2>4 DEF RemoveGroup
    <3> HIDE DEF p
    <3>3. /\ q \in Seq(Changes) /\ Len(q) = Len(s) + 1 /\ q[1] = p
          /\ \A i \in 2 .. Len(q) : q[i] = s[i - 1]
      BY <2>2, <3>1, <3>2
    <3> QED
      BY <2>2, <2>4, <3>1, <3>3
  <2> QED
    BY <2>3, <2>4
<1>2. CASE have \cap want # {}
  <2>1. PICK d \in Split("delete", have \ want), s \in Split("add", want \ have) : q = d \o s
    BY <1>2 DEF Pieces
  <2>2. /\ d \in Seq(Changes) /\ \A i \in 1 .. Len(d) : d[i].op = "delete"
        /\ s \in Seq(Changes) /\ \A i \in 1 .. Len(s) : s[i].op = "add"
    BY SplitShape DEF Ops
  <2>3. q \in Seq(Changes) /\ Len(q) = Len(d) + Len(s)
    BY <2>1, <2>2, ConcatProperties
  <2>4. ASSUME NEW i \in 1 .. Len(q)
        PROVE  q[i].op # "unsubscribe"
    <3>1. q[i] = IF i <= Len(d) THEN d[i] ELSE s[i - Len(d)]
      BY <2>1, <2>2, <2>3, ConcatProperties
    <3>2. i <= Len(d) \/ i - Len(d) \in 1 .. Len(s)
      BY <2>2, <2>3
    <3> QED
      BY <2>2, <3>1, <3>2
  <2> QED
    BY <1>2, <2>3, <2>4
<1> QED
  BY <1>1, <1>2

-----------------------------------------------------------------------------
(* Steps of the exchange. *)

LEMMA SubsSame ==
  ASSUME Inv, UNCHANGED <<conn, subs>>, SoundExchange(x'), held' \in Seq(Messages),
         FreshOnly(c', Carried)
  PROVE  Inv'
BY DEF Inv, FlagsInv, OwnerInv, UnsubscribesAll, SoundExchange, FreshOnly, Carried, subs

LEMMA TradeStep ==
  ASSUME Inv, NEW m \in Markets, NEW d \in {-1, 1}, Trade(m, d)
  PROVE  Inv'
<1> DEFINE y == [x EXCEPT !.count[m] = @ + d]
<1>1. SoundExchange(x) /\ x.count[m] + d \in Nat
  BY DEF Inv, Trade
<1>2. SoundExchange(y) /\ y.live = x.live /\ y.sub = x.sub
  BY <1>1 DEF SoundExchange, Exchanges
<1>3. x' = IF conn = "up" /\ m \in x.live THEN Emit(y, "delta", m, d) ELSE y
  BY DEF Trade
<1> HIDE DEF y
<1>4. ASSUME m \in x.live PROVE SoundExchange(Emit(y, "delta", m, d))
  <2>1. m \in y.sub /\ d \in Nat \cup {None}
    BY <1>1, <1>2, <1>4 DEF SoundExchange, None
  <2> QED
    BY <1>2, <2>1, EmitKeeps
<1>5. SoundExchange(x')
  BY <1>2, <1>3, <1>4
<1> QED
  BY <1>5, SubsSame DEF Trade, Inv

LEMMA AnswersStep ==
  ASSUME Inv, ExchangeAnswers
  PROVE  Inv'
<1>1. SoundExchange(x) /\ x.cmds \in Seq(Commands) /\ x.cmds # << >>
  BY DEF Inv, SoundExchange, Exchanges, ExchangeAnswers
<1>2. Head(x.cmds) \in Commands /\ Tail(x.cmds) \in Seq(Commands)
  BY <1>1, HeadTailProperties
<1>3. SoundExchange([x EXCEPT !.cmds = Tail(@)])
  BY <1>1, <1>2 DEF SoundExchange, Exchanges
<1>4. SoundExchange(x')
  BY <1>2, <1>3, DoesKeeps DEF ExchangeAnswers
<1> QED
  BY <1>4, SubsSame DEF ExchangeAnswers, Inv

LEMMA RefusesStep ==
  ASSUME Inv, ExchangeRefuses
  PROVE  Inv'
<1>1. SoundExchange(x) /\ x.cmds \in Seq(Commands) /\ x.cmds # << >>
  BY DEF Inv, SoundExchange, Exchanges, ExchangeRefuses
<1>2. Tail(x.cmds) \in Seq(Commands)
  BY <1>1, HeadTailProperties
<1>3. SoundExchange([x EXCEPT !.cmds = Tail(@)])
  BY <1>1, <1>2 DEF SoundExchange, Exchanges
<1>4. SoundExchange(x')
  BY <1>3, ReplyKeeps DEF ExchangeRefuses
<1> QED
  BY <1>4, SubsSame DEF ExchangeRefuses, Inv

LEMMA SnapshotStep ==
  ASSUME Inv, NEW m \in Markets, SendSnapshot(m) \/ SendCrossed(m)
  PROVE  Inv'
<1>1. SoundExchange(x) /\ m \in x.sub /\ x.count[m] \in Nat
  BY DEF Inv, SoundExchange, Exchanges, SendSnapshot, SendCrossed
<1>2. SoundExchange(Emit(x, "snapshot", m, x.count[m]))
      /\ SoundExchange(Emit(x, "snapshot", m, None))
  BY <1>1, EmitKeeps
<1>3. SoundExchange(x')
  BY <1>2 DEF SendSnapshot, SendCrossed
<1> QED
  BY <1>3, SubsSame DEF SendSnapshot, SendCrossed, Inv

LEMMA LoseStep ==
  ASSUME Inv, LoseMessage
  PROVE  Inv'
<1>1. SoundExchange(x) /\ x.wire \in Seq(Messages)
  BY DEF Inv, SoundExchange, Exchanges
<1>2. PICK i \in 1 .. Len(x.wire) - 1 :
        x' = [x EXCEPT !.wire = SubSeq(@, 1, i - 1) \o SubSeq(@, i + 1, Len(@))]
  BY DEF LoseMessage
<1>3. SubSeq(x.wire, 1, i - 1) \in Seq(Messages) /\ SubSeq(x.wire, i + 1, Len(x.wire)) \in Seq(Messages)
  BY <1>1
<1>4. SubSeq(x.wire, 1, i - 1) \o SubSeq(x.wire, i + 1, Len(x.wire)) \in Seq(Messages)
  BY <1>3, ConcatProperties
<1>5. SoundExchange(x')
  BY <1>1, <1>2, <1>4, WireKeeps
<1> QED
  BY <1>5, SubsSame DEF LoseMessage, Inv

LEMMA ReplayStep ==
  ASSUME Inv, ReplayMessage
  PROVE  Inv'
<1>1. SoundExchange(x) /\ x.wire \in Seq(Messages)
  BY DEF Inv, SoundExchange, Exchanges
<1>2. PICK i \in DOMAIN x.wire : x' = [x EXCEPT !.wire = Append(@, x.wire[i])]
  BY DEF ReplayMessage
<1>3. Append(x.wire, x.wire[i]) \in Seq(Messages)
  BY <1>1, AppendProperties
<1>4. SoundExchange(x')
  BY <1>1, <1>2, <1>3, WireKeeps
<1> QED
  BY <1>4, SubsSame DEF ReplayMessage, Inv

-----------------------------------------------------------------------------
(* Frames. *)

LEMMA NextFrame ==
  ASSUME Inv, x.wire # << >>
  PROVE  /\ Head(x.wire) \in Messages /\ Tail(x.wire) \in Seq(Messages)
         /\ SoundExchange([x EXCEPT !.wire = Tail(@)])
<1>1. SoundExchange(x) /\ x.wire \in Seq(Messages)
  BY DEF Inv, SoundExchange, Exchanges
<1>2. Head(x.wire) \in Messages /\ Tail(x.wire) \in Seq(Messages)
  BY <1>1, HeadTailProperties
<1> QED
  BY <1>1, <1>2, WireKeeps

LEMMA DispatchSendsKeeps ==
  ASSUME Inv, NEW y, SoundExchange(y), NEW s, NEW msg \in Messages
  PROVE  SoundExchange(DispatchSends(y, s, msg))
<1>1. CASE Breaks(s, msg)
  <2>1. {msg.m} \in SUBSET Markets
    BY <1>1 DEF Breaks, Applies, Touchable, Inv, FlagsInv
  <2> QED
    BY <2>1, RequestKeeps DEF DispatchSends
<1>2. CASE ~Breaks(s, msg)
  BY <1>2 DEF DispatchSends
<1> QED
  BY <1>1, <1>2

LEMMA DeliverStep ==
  ASSUME Inv, Deliver
  PROVE  Inv'
<1> DEFINE msg == Head(x.wire)
           s == Checked(c, msg)
           t == IF Faulted(c, msg) THEN Requested(Resynced(s, Again(c, msg)), applied) ELSE s
<1>1. msg \in Messages /\ SoundExchange([x EXCEPT !.wire = Tail(@)])
  BY NextFrame DEF Deliver, Handling
<1>2. FreshOnly(c, Carried) /\ applied \in SUBSET Markets /\ held \in Seq(Messages)
  BY DEF Inv, FlagsInv
<1> HIDE DEF msg
<1>3. FreshOnly(s, Carried)
  BY <1>1, <1>2, CheckedKeeps
<1>4. FreshOnly(t, Carried)
  <2>1. Again(c, msg) \in BOOLEAN
    BY DEF Again
  <2>2. FreshOnly(Resynced(s, Again(c, msg)), Carried)
    BY <1>3, <2>1, ResyncedKeeps
  <2>3. FreshOnly(Requested(Resynced(s, Again(c, msg)), applied), Carried)
    BY <1>2, <2>2, RequestedKeeps
  <2> QED
    BY <1>3, <2>3
<1>5. /\ c' = Dispatched(t, msg)
      /\ x' = DispatchSends([x EXCEPT !.wire = Tail(@)], t, msg)
  BY DEF Deliver, msg
<1> HIDE DEF t
<1>6. FreshOnly(c', Carried) /\ SoundExchange(x')
  BY <1>1, <1>2, <1>4, <1>5, DispatchKeeps, DispatchSendsKeeps
<1> QED
  BY <1>2, <1>6, SubsSame DEF Deliver

LEMMA FaultedStep ==
  ASSUME Inv, DeliverFaulted
  PROVE  Inv'
<1> DEFINE msg == Head(x.wire)
           s == Resynced(Checked(c, msg), Again(c, msg))
<1>1. msg \in Messages /\ SoundExchange([x EXCEPT !.wire = Tail(@)])
  BY NextFrame DEF DeliverFaulted, Handling
<1>2. FreshOnly(c, Carried) /\ applied \in SUBSET Markets
  BY DEF Inv, FlagsInv
<1>3. /\ c' = Requested(s, applied)
      /\ x' = Request([x EXCEPT !.wire = Tail(@)], Wanted(s, applied))
      /\ held' = IF conn = "up" THEN <<msg>> ELSE << >>
  BY DEF DeliverFaulted
<1> HIDE DEF msg
<1>4. FreshOnly(s, Carried)
  <2>1. Again(c, msg) \in BOOLEAN
    BY DEF Again
  <2> QED
    BY <1>1, <1>2, <2>1, CheckedKeeps, ResyncedKeeps
<1>5. FreshOnly(c', Carried)
  BY <1>2, <1>3, <1>4, RequestedKeeps
<1>6. Wanted(s, applied) \in SUBSET Markets
  BY <1>2 DEF Wanted
<1>7. SoundExchange(x')
  BY <1>1, <1>3, <1>6, RequestKeeps
<1>8. held' \in Seq(Messages)
  BY <1>1, <1>3, EmptySeq
<1> QED
  BY <1>5, <1>7, <1>8, SubsSame DEF DeliverFaulted

LEMMA HeldStep ==
  ASSUME Inv, DeliverHeld
  PROVE  Inv'
<1>1. /\ held # << >> /\ held \in Seq(Messages)
      /\ FreshOnly(c, Carried) /\ applied \in SUBSET Markets /\ SoundExchange(x)
  BY DEF Inv, FlagsInv, DeliverHeld
<1>2. Head(held) \in Messages
  BY <1>1, HeadTailProperties
<1>3. c' = Dispatched(c, Head(held)) /\ x' = DispatchSends(x, c, Head(held)) /\ held' = << >>
  BY DEF DeliverHeld
<1>4. FreshOnly(c', Carried) /\ SoundExchange(x') /\ held' \in Seq(Messages)
  BY <1>1, <1>2, <1>3, DispatchKeeps, DispatchSendsKeeps, EmptySeq
<1> QED
  BY <1>4, SubsSame DEF DeliverHeld

-----------------------------------------------------------------------------
(* Subscriptions. *)

LEMMA OwedShape ==
  ASSUME NEW have \in SUBSET Markets, NEW want \in SUBSET Markets, NEW q,
         q \in Pieces(have, want) \/ q = << >>
  PROVE  /\ q \in Seq(Changes)
         /\ \A i \in 1 .. Len(q) : q[i].op = "unsubscribe" => i = 1 /\ q[i].ms = have
<1>1. CASE q \in Pieces(have, want)
  BY <1>1, PiecesShape, ZenonT(60)
<1>2. CASE q = << >>
  <2>1. q \in Seq(Changes) /\ Len(q) = 0
    BY <1>2
  <2> QED
    BY <2>1
<1> QED
  BY <1>1, <1>2

(* Whoever takes up the difference owns the lock exactly while there is one. *)
LEMMA OwnerKeeps ==
  ASSUME Inv, NEW who \in {"group", "frame"}, NEW ready, Reconciled(who, ready),
         UNCHANGED <<conn, applied>>
  PROVE  OwnerInv'
<1>1. applied \in SUBSET Markets /\ desired \in SUBSET Markets
  BY DEF Inv, FlagsInv
<1>2. todo' \in Pieces(applied, desired) \/ todo' = << >>
  BY DEF Reconciled
<1>3. \A i \in 1 .. Len(todo') : todo'[i].op = "unsubscribe" => i = 1 /\ todo'[i].ms = applied
  BY <1>1, <1>2, OwedShape
<1>4. todo' \in Seq(Changes)
  BY <1>1, <1>2, OwedShape
<1>5. /\ lock' = IF todo' = << >> THEN "free" ELSE who
      /\ conn # "up" => todo' = << >>
  BY DEF Reconciled
<1> QED
  BY <1>3, <1>4, <1>5 DEF OwnerInv, UnsubscribesAll

LEMMA SubscribedStep ==
  ASSUME Inv, DeliverSubscribed
  PROVE  Inv'
<1>1. OwnerInv'
  BY OwnerKeeps DEF DeliverSubscribed
<1>2. SoundExchange(x')
  BY NextFrame DEF DeliverSubscribed, Handling
<1>3. FlagsInv'
  BY DEF DeliverSubscribed, Inv, FlagsInv
<1>4. FreshOnly(c', Carried')
  BY DEF DeliverSubscribed, Inv, FreshOnly, Carried
<1> QED
  BY <1>1, <1>2, <1>3, <1>4 DEF Inv, SoundExchange, FreshOnly, DeliverSubscribed

LEMMA SetGroupStep ==
  ASSUME Inv, SetGroup
  PROVE  Inv'
BY DEF SetGroup, Inv, FlagsInv, OwnerInv, UnsubscribesAll, SoundExchange, FreshOnly, Carried

LEMMA ReconcileStep ==
  ASSUME Inv, Reconcile
  PROVE  Inv'
<1>1. OwnerInv'
  BY OwnerKeeps DEF Reconcile
<1>2. FreshOnly(c', Carried')
  BY PrunedKeeps DEF Reconcile, Inv, Carried
<1>3. FlagsInv'
  BY DEF Reconcile, Inv, FlagsInv
<1> QED
  BY <1>1, <1>2, <1>3 DEF Inv, SoundExchange, FreshOnly, Reconcile

LEMMA FirstChange ==
  ASSUME Inv, todo # << >>
  PROVE  /\ Head(todo) \in Changes /\ Head(todo) = todo[1] /\ 1 \in 1 .. Len(todo)
         /\ Tail(todo) \in Seq(Changes)
         /\ \A i \in 1 .. Len(Tail(todo)) : Tail(todo)[i].op # "unsubscribe"
         /\ Head(todo).op = "unsubscribe" => Head(todo).ms = applied
<1>1. todo \in Seq(Changes) /\ UnsubscribesAll(todo)
  BY DEF Inv, OwnerInv
<1>2. /\ Head(todo) \in Changes /\ Head(todo) = todo[1] /\ 1 \in 1 .. Len(todo)
      /\ Tail(todo) \in Seq(Changes) /\ Len(Tail(todo)) = Len(todo) - 1
      /\ \A i \in 1 .. Len(Tail(todo)) : Tail(todo)[i] = todo[i + 1]
  BY <1>1, HeadTailProperties
<1>3. ASSUME NEW i \in 1 .. Len(Tail(todo))
      PROVE  Tail(todo)[i].op # "unsubscribe"
  <2>1. i + 1 \in 1 .. Len(todo) /\ i + 1 # 1
    BY <1>1, <1>2
  <2> QED
    BY <1>1, <1>2, <2>1 DEF UnsubscribesAll
<1> QED
  BY <1>1, <1>2, <1>3 DEF UnsubscribesAll

(* Every book the change does not leave carried is released. *)
LEMMA ChangeKeeps ==
  ASSUME Inv, todo # << >>, RecordChange(Head(todo))
  PROVE  FreshOnly(c', Carried')
<1> DEFINE p == Head(todo)
<1>1. p \in Changes /\ (p.op = "unsubscribe" => p.ms = applied)
  BY FirstChange
<1>2. /\ FreshOnly(c, Carried) /\ sid \in BOOLEAN
  BY DEF Inv, FlagsInv
<1>3. applied' = NowApplied(p) /\ sid' = (sid /\ p.op # "unsubscribe")
  BY DEF RecordChange
<1>4. p.op \in {"subscribe", "add", "delete", "unsubscribe"}
  BY <1>1 DEF Changes, Ops
<1> HIDE DEF p
<1>5. FreshOnly(AfterChange(p), Carried')
  <2>1. CASE p.op \in {"subscribe", "add"}
    <3>1. AfterChange(p) = c /\ Carried \subseteq Carried'
      BY <1>3, <2>1 DEF AfterChange, NowApplied, Carried
    <3> QED
      BY <1>2, <3>1 DEF FreshOnly
  <2>2. CASE p.op = "delete"
    <3>1. AfterChange(p) = Released(c, p.ms) /\ Carried \ p.ms \subseteq Carried'
      BY <1>3, <2>2 DEF AfterChange, NowApplied, Carried
    <3>2. FreshOnly(Released(c, p.ms), Carried \ p.ms)
      BY <1>2, ReleasedKeeps
    <3> HIDE DEF Released
    <3> QED
      BY <3>1, <3>2 DEF FreshOnly
  <2>3. CASE p.op = "unsubscribe"
    <3>1. FreshOnly(Released(c, p.ms), Carried \ p.ms) /\ Carried \ p.ms = {}
      BY <1>1, <1>2, <2>3, ReleasedKeeps DEF Carried
    <3>2. AfterChange(p) = [Released(c, p.ms) EXCEPT !.resyncing = FALSE, !.awaiting = {}]
      BY <2>3 DEF AfterChange
    <3> HIDE DEF Released
    <3> QED
      BY <3>1, <3>2 DEF FreshOnly, Clients, Fresh
  <2> QED
    BY <1>4, <2>1, <2>2, <2>3
<1>6. c' = AfterChange(p) \/ c' = Pruned(AfterChange(p), desired \cup applied')
  BY DEF RecordChange, p
<1> QED
  BY <1>5, <1>6, PrunedKeeps

LEMMA RecordStep ==
  ASSUME Inv, todo # << >>, RecordChange(Head(todo)), SoundExchange(x'),
         UNCHANGED <<conn, desired, waiting, held>>
  PROVE  Inv'
<1> DEFINE p == Head(todo)
<1>1. /\ p \in Changes /\ Tail(todo) \in Seq(Changes)
      /\ \A i \in 1 .. Len(Tail(todo)) : Tail(todo)[i].op # "unsubscribe"
  BY FirstChange
<1>2. FreshOnly(c', Carried')
  BY ChangeKeeps
<1>3. /\ todo' = << >> \/ todo' = Tail(todo)
      /\ lock' = IF todo' = << >> THEN "free" ELSE lock
  BY DEF RecordChange
<1>4. todo' \in Seq(Changes) /\ \A i \in 1 .. Len(todo') : todo'[i].op # "unsubscribe"
  <2>1. CASE todo' = Tail(todo)
    BY <1>1, <2>1
  <2>2. CASE todo' = << >>
    <3>1. todo' \in Seq(Changes) /\ Len(todo') = 0
      BY <2>2
    <3> QED
      BY <3>1
  <2> QED
    BY <1>3, <2>1, <2>2
<1>5. OwnerInv'
  BY <1>3, <1>4, EmptySeq DEF OwnerInv, UnsubscribesAll, Inv
<1>6. FlagsInv'
  <2>1. p.ms \in SUBSET Markets
    BY <1>1 DEF Changes
  <2>2. NowApplied(p) \in SUBSET Markets
    BY <2>1 DEF NowApplied, Inv, FlagsInv
  <2>3. deferred' \in BOOLEAN /\ pending' \in BOOLEAN /\ sid' \in BOOLEAN
    BY DEF RecordChange, Defers, Inv, FlagsInv
  <2> QED
    BY <2>2, <2>3 DEF RecordChange, Inv, FlagsInv
<1> QED
  BY <1>2, <1>5, <1>6 DEF Inv, SoundExchange, FreshOnly

LEMMA SendStep ==
  ASSUME Inv, SendChange
  PROVE  Inv'
<1>1. todo # << >> /\ Head(todo) \in Changes /\ Head(todo) = todo[1] /\ 1 \in 1 .. Len(todo)
  BY FirstChange DEF SendChange
<1>2. SoundExchange(x')
  <2>1. Head(todo).op \in Ops \cup {"get_snapshot"} /\ Head(todo).ms \in SUBSET Markets
    BY <1>1 DEF Changes
  <2> QED
    BY <2>1, SentKeeps DEF SendChange, Inv
<1>3. CASE RecordChange(Head(todo))
  BY <1>1, <1>2, <1>3, RecordStep DEF SendChange
<1>4. CASE todo' = [todo EXCEPT ![1].sent = TRUE]
           /\ UNCHANGED <<applied, pending, sid, deferred, lock, c>>
  <2>1. /\ todo' \in Seq(Changes) /\ Len(todo') = Len(todo)
        /\ \A i \in 1 .. Len(todo) : todo'[i].op = todo[i].op /\ todo'[i].ms = todo[i].ms
    <3>1. todo \in Seq(Changes) /\ [todo[1] EXCEPT !.sent = TRUE] \in Changes
      BY <1>1 DEF Inv, OwnerInv, Changes
    <3>2. todo' = [todo EXCEPT ![1] = [todo[1] EXCEPT !.sent = TRUE]]
      BY <1>4
    <3> QED
      BY <1>1, <3>1, <3>2 DEF Changes
  <2>2. OwnerInv'
    <3>1. conn' = "up" /\ todo' # << >> /\ lock # "free"
      BY <1>1, <2>1, EmptySeq DEF SendChange, Inv, OwnerInv
    <3>2. UnsubscribesAll(todo)'
      BY <1>4, <2>1 DEF Inv, OwnerInv, UnsubscribesAll
    <3> QED
      BY <1>4, <2>1, <3>1, <3>2 DEF Inv, OwnerInv
  <2>3. FlagsInv'
    BY <1>4 DEF SendChange, Inv, FlagsInv
  <2> QED
    BY <1>2, <1>4, <2>2, <2>3 DEF SendChange, Inv, SoundExchange, FreshOnly, Carried
<1> QED
  BY <1>3, <1>4 DEF SendChange

LEMMA SentStep ==
  ASSUME Inv, ChangeSent
  PROVE  Inv'
<1>1. SoundExchange(x')
  BY DEF ChangeSent, Inv
<1> QED
  BY <1>1, RecordStep DEF ChangeSent

-----------------------------------------------------------------------------
(* Connections. *)

LEMMA ConnectStep ==
  ASSUME Inv, Connect
  PROVE  Inv'
<1>1. PICK q \in Pieces({}, desired) : todo' = q
  BY DEF Connect
<1>2. /\ q \in Seq(Changes) /\ (q = << >> <=> desired = {})
      /\ \A i \in 1 .. Len(q) : q[i].op = "unsubscribe" => i = 1 /\ q[i].ms = {}
  BY PiecesShape DEF Inv, FlagsInv
<1>3. \A i \in 1 .. Len(q) : q[i].op # "unsubscribe"
  <2>1. PICK s \in SplitGroup(desired) : q = RemoveGroup({}) \o s
    BY DEF Pieces
  <2>2. s \in Seq(Changes) /\ \A i \in 1 .. Len(s) : s[i].op # "unsubscribe"
    BY SplitGroupShape DEF Inv, FlagsInv
  <2>3. q = s
    BY <2>1, <2>2 DEF RemoveGroup
  <2> QED
    BY <2>2, <2>3
<1>4. OwnerInv'
  BY <1>1, <1>2, <1>3 DEF OwnerInv, UnsubscribesAll, Connect
<1>5. SoundExchange(x')
  <2>1. x.count \in [Markets -> Nat]
    BY DEF Inv, SoundExchange, Exchanges
  <2> QED
    BY <2>1, NoExchangeSound DEF Connect
<1>6. FlagsInv'
  BY DEF Connect, Inv, FlagsInv
<1> QED
  BY <1>4, <1>5, <1>6 DEF Connect, Inv, SoundExchange, FreshOnly, Carried

LEMMA LostStep ==
  ASSUME Inv, ConnectionLost
  PROVE  Inv'
<1>1. << >> \in Seq(Messages) /\ << >> \in Seq(Changes) /\ Len(<< >>) = 0
  BY EmptySeq
<1>2. OwnerInv'
  BY <1>1 DEF ConnectionLost, OwnerInv, UnsubscribesAll
<1>3. SoundExchange(x')
  <2>1. SoundExchange(NoExchange(x.count)) /\ x.wire \in Seq(Messages)
    BY NoExchangeSound DEF Inv, SoundExchange, Exchanges
  <2> QED
    BY <1>1, <2>1, WireKeeps DEF ConnectionLost
<1>4. FreshOnly(c', Carried')
  BY PrunedKeeps DEF ConnectionLost, Inv, Carried
<1>5. FlagsInv'
  BY DEF ConnectionLost, Inv, FlagsInv
<1> QED
  BY <1>1, <1>2, <1>3, <1>4, <1>5 DEF ConnectionLost, Inv, SoundExchange, FreshOnly

(* No book is left fresh. *)
LEMMA EndStep ==
  ASSUME Inv, EndConnection
  PROVE  Inv'
<1>1. todo = << >> /\ Len(<< >>) = 0
  BY EmptySeq DEF Inv, OwnerInv, EndConnection
<1>2. OwnerInv'
  BY <1>1 DEF EndConnection, Inv, OwnerInv, UnsubscribesAll
<1>3. SoundExchange(x')
  BY NoExchangeSound DEF EndConnection, Inv, SoundExchange, Exchanges
<1>4. FreshOnly(c', Carried')
  BY DEF EndConnection, Inv, FreshOnly, Clients, Books, NoClient, Stale, Fresh
<1>5. FlagsInv'
  BY DEF EndConnection, Inv, FlagsInv
<1> QED
  BY <1>2, <1>3, <1>4, <1>5 DEF EndConnection, Inv, SoundExchange, FreshOnly

-----------------------------------------------------------------------------
LEMMA InvInit == Init => Inv
<1> SUFFICES ASSUME Init PROVE Inv
  OBVIOUS
<1>1. /\ << >> \in Seq(Messages) /\ << >> \in Seq(Changes)
      /\ Len(<< >>) = 0
  BY EmptySeq
<1>2. SoundExchange(x)
  BY NoExchangeSound DEF Init
<1>3. FreshOnly(c, Carried)
  BY DEF Init, NoClient, NoBook, FreshOnly, Clients, Books, Fresh
<1>4. FlagsInv
  BY DEF Init, FlagsInv
<1> QED
  BY <1>1, <1>2, <1>3, <1>4 DEF Init, Inv, OwnerInv, UnsubscribesAll

LEMMA InvNext == Inv /\ [Next]_vars => Inv'
<1> SUFFICES ASSUME Inv, [Next]_vars PROVE Inv'
  OBVIOUS
<1>1. CASE Exchange
  BY <1>1, TradeStep, AnswersStep, RefusesStep, SnapshotStep, LoseStep, ReplayStep DEF Exchange
<1>2. CASE Frames
  BY <1>2, DeliverStep, FaultedStep, HeldStep, SubscribedStep DEF Frames
<1>3. CASE Groups
  BY <1>3, SetGroupStep, ReconcileStep, SendStep, SentStep DEF Groups
<1>4. CASE Connect \/ ConnectionLost \/ EndConnection
  BY <1>4, ConnectStep, LostStep, EndStep
<1>5. CASE UNCHANGED vars
  BY <1>5, SubsSame DEF vars, Inv
<1> QED
  BY <1>1, <1>2, <1>3, <1>4, <1>5 DEF Next

LEMMA InvAlways == Spec => []Inv
BY InvInit, InvNext, PTL DEF Spec

(* _release_books, _record_change, _end_connection: for every set of markets, however
   sends, replies, faults and membership changes interleave, a book that is fresh is
   one of a market the connection carries on a live subscription. *)
THEOREM FreshAlwaysCarried == Spec => []FreshMeansCarried
<1>1. Inv => FreshMeansCarried
  BY DEF Inv, FreshOnly, Carried, FreshMeansCarried
<1> QED
  BY <1>1, InvAlways, PTL

(* Book, GapTracker, ConnectionSupervisor: the state stays well formed, no count is
   ever negative, and whoever holds the command lock has a change left to send. *)
THEOREM TypeCorrect == Spec => []TypeOK
<1>1. Inv => TypeOK
  BY DEF Inv, FlagsInv, OwnerInv, SoundExchange, FreshOnly, Clients, Books, TypeOK
<1> QED
  BY <1>1, InvAlways, PTL
-----------------------------------------------------------------------------
(* Membership.  What a list of changes takes away and gives, and what is left of
   a group once all of it is sent. *)

Removal == {"unsubscribe", "delete"}

Taken(q) == UNION {q[i].ms : i \in {j \in 1 .. Len(q) : q[j].op \in Removal}}

Given(q) == UNION {q[i].ms : i \in {j \in 1 .. Len(q) : q[j].op \notin Removal}}

Goal(have, q) == (have \ Taken(q)) \cup Given(q)

(* The lists _reconcile_locked makes up, and what is left of them. *)
Rebuild(q) ==
  /\ q[1].op = "unsubscribe"
  /\ \A i \in 2 .. Len(q) : q[i].op = (IF i = 2 THEN "subscribe" ELSE "add") /\ q[i].ms # {}

Build(q) ==
  \A i \in 1 .. Len(q) : q[i].op = (IF i = 1 THEN "subscribe" ELSE "add") /\ q[i].ms # {}

Adjust(have, q) ==
  /\ \A i \in 1 .. Len(q) : q[i].op \in {"delete", "add"}
  /\ \A i, j \in 1 .. Len(q) : i < j /\ q[i].op = "add" => q[j].op = "add"
  /\ have \ Taken(q) # {}

WorkInv ==
  /\ pending => todo = << >> /\ ~sid /\ applied # {}
  /\ todo = << >> /\ ~pending => (sid <=> applied # {})
  /\ todo # << >> => \/ sid /\ Rebuild(todo)
                     \/ ~sid /\ applied = {} /\ Build(todo)
                     \/ sid /\ Adjust(applied, todo)

(* While no set_group waits, the changes left lead to the desired group. *)
GoalInv ==
  ~waiting =>
    /\ ~pending => Goal(applied, todo) = desired
    /\ pending /\ ~deferred => applied = desired

(* A subscribe is outstanding from its send until its reply is handled. *)
Sending(op) == todo # << >> /\ todo[1].op = op /\ todo[1].sent

Subscribed(q) == \E i \in 1 .. Len(q) : q[i].kind = "subscribed"

Outstanding(q, k) == Subscribed(q) \/ \E i \in 1 .. Len(k) : k[i].op = "subscribe"

(* Nothing renews the subscription behind a subscribe that is outstanding. *)
Renewal == {"subscribe", "unsubscribe"}

Queued(q, k) ==
  /\ \A i, j \in 1 .. Len(k) : i < j /\ k[i].op = "subscribe" => k[j].op \notin Renewal
  /\ Subscribed(q) => \A i \in 1 .. Len(k) : k[i].op \notin Renewal

Numbered(msg) == msg.seq # None

Faithful(msg) == Numbered(msg) <=> msg.kind \in {"snapshot", "delta"}

Replied(q) ==
  /\ \A i \in 1 .. Len(q) : Faithful(q[i])
  /\ \A i, j \in 1 .. Len(q) :
       i < j /\ q[i].kind = "subscribed" => q[j].kind \notin {"subscribed", "unsubscribed"}

CommandsInv ==
  /\ Outstanding(x.wire, x.cmds) => pending \/ Sending("subscribe")
  /\ Queued(x.wire, x.cmds)

DownInv == ~sid /\ ~pending /\ applied = {} /\ c.base = None

MemberInv ==
  /\ Replied(x.wire)
  /\ held # << >> => conn = "up"
  /\ conn = "up" => WorkInv /\ GoalInv /\ CommandsInv
  /\ conn = "down" => DownInv

-----------------------------------------------------------------------------
(* The stream.  The position is that of the latest numbered message taken up: the
   held one or the latest handled. *)

Place(p) == [ord |-> p.ord, truth |-> p.truth, covers |-> p.covers]

Position == IF held # << >> /\ held[1].ord > g.ord THEN Place(held[1]) ELSE Place(g)

New(msg) == Numbered(msg) /\ msg.ord > Position.ord

(* b is the message next to position p. *)
Follows(b, p) ==
  \A m \in b.covers :
    \/ b.kind = "snapshot" /\ b.m = m
    \/ /\ m \in p.covers
       /\ b.truth[m] = p.truth[m] + IF b.kind = "delta" /\ b.m = m THEN b.n ELSE 0

TrueMessage(msg) ==
  /\ Numbered(msg) => msg.m \in msg.covers
  /\ msg.kind = "snapshot" => msg.n \in {None, msg.truth[msg.m]}

Linked(q, p) ==
  /\ \A i \in 1 .. Len(q) : TrueMessage(q[i])
  /\ \A i, j \in 1 .. Len(q) :
       Numbered(q[i]) /\ Numbered(q[j]) /\ q[j].ord = q[i].ord + 1 => Follows(q[j], q[i])
  /\ \A i \in 1 .. Len(q) : Numbered(q[i]) /\ q[i].ord = p.ord + 1 => Follows(q[i], p)

(* The exchange is at or past position p. *)
Reached(y, p) ==
  /\ p.ord <= y.ord
  /\ p.ord = y.ord => \A m \in y.live : m \in p.covers /\ p.truth[m] = y.count[m]

Past(y, p) ==
  /\ Reached(y, p)
  /\ \A i \in 1 .. Len(y.wire) : Numbered(y.wire[i]) => Reached(y, y.wire[i])

(* seq starts again after an unsubscribe, ord does not: within one numbering they
   stay the same distance apart. *)
Lag(z) == z.ord - z.seq

Unbroken(q, i, j) == \A k \in i .. j : q[k].kind # "unsubscribed"

Lags(up, y, i) ==
  {Lag(y.wire[j]) : j \in {k \in i .. Len(y.wire) : Numbered(y.wire[k]) /\ Unbroken(y.wire, i, k)}}
    \cup IF up /\ Unbroken(y.wire, i, Len(y.wire)) THEN {Lag(y)} ELSE {}

Even(up, y) ==
  \A i \in 1 .. Len(y.wire) :
    Numbered(y.wire[i]) => \A l \in Lags(up, y, i) : l = Lag(y.wire[i])

Up == conn = "up"

StreamInv ==
  /\ g.ord \in Nat
  /\ held # << >> => /\ Len(held) = 1 /\ Numbered(held[1]) /\ Faithful(held[1])
                     /\ TrueMessage(held[1])
  /\ Linked(x.wire, Position)
  /\ Up => Past(x, Position)
  /\ Even(Up, x)

(* The sid has ended: nothing numbered comes after an unsubscribed. *)
Ended ==
  /\ Sending("unsubscribe") /\ x.sub = {}
  /\ \A i \in 1 .. Len(x.cmds) : x.cmds[i].op = "get_snapshot"

EndInv ==
  sid =>
    /\ \A i, j \in 1 .. Len(x.wire) :
         i < j /\ x.wire[i].kind = "unsubscribed" => ~Numbered(x.wire[j])
    /\ Up =>
         /\ \A i \in 1 .. Len(x.wire) : x.wire[i].kind = "unsubscribed" => Ended
         /\ \A i \in 1 .. Len(x.cmds) :
              x.cmds[i].op = "unsubscribe" =>
                /\ Sending("unsubscribe")
                /\ \A j \in 1 .. Len(x.cmds) : i < j => x.cmds[j].op = "get_snapshot"

-----------------------------------------------------------------------------
(* The tracker and the books. *)

(* The baseline is never ahead of the position, so that no new message is taken for
   a replay; it is level with it when every hole and every replay will show. *)
NotAhead == c.base # None => \A l \in Lags(Up, x, 1) : l <= Position.ord - c.base

Level == c.base # None /\ \A l \in Lags(Up, x, 1) : l = Position.ord - c.base

Over ==
  /\ \A i \in 1 .. Len(x.wire) : ~Numbered(x.wire[i])
  /\ Up => Ended

Untainted == {m \in Markets : Fresh(c.book[m])} \ g.tainted

BooksInv ==
  /\ NotAhead
  /\ held # << >> => \A m \in Markets : ~Fresh(c.book[m])
  /\ held # << >> /\ held[1].ord > g.ord => Level
  /\ Untainted # {} => Level \/ Over
  /\ \A m \in Untainted : m \in g.covers => c.book[m].n = g.truth[m]

-----------------------------------------------------------------------------
(* What the lists of _reconcile_locked take away and give. *)

LEMMA BatchCover ==
  ASSUME NEW ms \in SUBSET Markets, NEW s \in Batches(ms)
  PROVE  \E k \in Nat : /\ s \in [1 .. k -> SUBSET ms]
                        /\ UNION {s[i] : i \in 1 .. k} = ms
                        /\ \A i \in 1 .. k : s[i] # {}
<1> DEFINE size == Cardinality(ms)
           k == (size + MaxPerCommand - 1) \div MaxPerCommand
<1>1. size \in Nat /\ MaxPerCommand \in Nat \ {0}
  BY SyncAssumption, FS_Subset, FS_CardinalityType
<1>2. k \in Int /\ s \in [1 .. k -> (SUBSET ms) \ {{}}] /\ UNION {s[i] : i \in 1 .. k} = ms
  BY <1>1 DEF Batches
<1> HIDE DEF size, k
<1>3. PICK j \in Nat : 1 .. k = 1 .. j
  <2>1. CASE k < 1
    <3>1. 1 .. k = 1 .. 0
      BY <1>2, <2>1
    <3> QED
      BY <3>1
  <2>2. CASE k >= 1
    <3>1. k \in Nat
      BY <1>2, <2>2
    <3> QED
      BY <3>1
  <2> QED
    BY <1>2, <2>1, <2>2
<1>4. s \in [1 .. j -> (SUBSET ms) \ {{}}] /\ UNION {s[i] : i \in 1 .. j} = ms
  BY <1>2, <1>3
<1>5. s \in [1 .. j -> SUBSET ms]
  <2>1. (SUBSET ms) \ {{}} \subseteq SUBSET ms
    OBVIOUS
  <2> QED
    BY <1>4, <2>1
<1>6. \A i \in 1 .. j : s[i] # {}
  BY <1>4
<1> QED
  BY <1>4, <1>5, <1>6

LEMMA SplitCovers ==
  ASSUME NEW op \in Ops, NEW ms \in SUBSET Markets, NEW q \in Split(op, ms)
  PROVE  /\ op \in Removal => Taken(q) = ms /\ Given(q) = {}
         /\ op \notin Removal => Taken(q) = {} /\ Given(q) = ms
<1>1. PICK s \in Batches(ms) : q = [i \in DOMAIN s |-> Piece(op, s[i])]
  BY DEF Split
<1>2. PICK k \in Nat : s \in [1 .. k -> SUBSET ms] /\ UNION {s[i] : i \in 1 .. k} = ms
  BY BatchCover
<1>3. Len(q) = k /\ \A i \in 1 .. k : q[i].op = op /\ q[i].ms = s[i]
  BY <1>1, <1>2 DEF Piece
<1>4. UNION {q[i].ms : i \in 1 .. k} = ms
  BY <1>2, <1>3
<1>5. CASE op \in Removal
  <2>1. {j \in 1 .. Len(q) : q[j].op \in Removal} = 1 .. k
    BY <1>3, <1>5
  <2>2. {j \in 1 .. Len(q) : q[j].op \notin Removal} = {}
    BY <1>3, <1>5
  <2> QED
    BY <1>4, <1>5, <2>1, <2>2 DEF Taken, Given
<1>6. CASE op \notin Removal
  <2>1. {j \in 1 .. Len(q) : q[j].op \notin Removal} = 1 .. k
    BY <1>3, <1>6
  <2>2. {j \in 1 .. Len(q) : q[j].op \in Removal} = {}
    BY <1>3, <1>6
  <2> QED
    BY <1>4, <1>6, <2>1, <2>2 DEF Taken, Given
<1> QED
  BY <1>5, <1>6

LEMMA SplitGroupCovers ==
  ASSUME NEW ms \in SUBSET Markets, NEW q \in SplitGroup(ms)
  PROVE  /\ Taken(q) = {} /\ Given(q) = ms
         /\ Build(q)
<1>1. PICK s \in Batches(ms) :
        q = [i \in DOMAIN s |-> Piece(IF i = 1 THEN "subscribe" ELSE "add", s[i])]
  BY DEF SplitGroup
<1>2. PICK k \in Nat : /\ s \in [1 .. k -> SUBSET ms] /\ UNION {s[i] : i \in 1 .. k} = ms
                       /\ \A i \in 1 .. k : s[i] # {}
  BY BatchCover
<1>3. /\ Len(q) = k
      /\ \A i \in 1 .. k : q[i].op = (IF i = 1 THEN "subscribe" ELSE "add") /\ q[i].ms = s[i]
  BY <1>1, <1>2 DEF Piece
<1>4. UNION {q[i].ms : i \in 1 .. k} = ms
  BY <1>2, <1>3
<1>5. \A i \in 1 .. k : q[i].op \notin Removal
  BY <1>3 DEF Removal
<1>6. {j \in 1 .. Len(q) : q[j].op \notin Removal} = 1 .. k
  BY <1>3, <1>5
<1>7. {j \in 1 .. Len(q) : q[j].op \in Removal} = {}
  BY <1>3, <1>5
<1>8. Build(q)
  BY <1>2, <1>3 DEF Build
<1> QED
  BY <1>4, <1>6, <1>7, <1>8 DEF Taken, Given

LEMMA SumTaken ==
  ASSUME NEW p \in Seq(Changes), NEW q \in Seq(Changes)
  PROVE  Taken(p \o q) = Taken(p) \cup Taken(q) /\ Given(p \o q) = Given(p) \cup Given(q)
<1>1. /\ Len(p) \in Nat /\ Len(q) \in Nat
      /\ Len(p \o q) = Len(p) + Len(q)
      /\ \A i \in 1 .. Len(p) : (p \o q)[i] = p[i]
      /\ \A i \in 1 .. Len(q) : (p \o q)[Len(p) + i] = q[i]
  BY ConcatProperties
<1> DEFINE r == p \o q
<1> HIDE DEF r
<1>2. ASSUME NEW i \in 1 .. Len(r)
      PROVE  \/ i \in 1 .. Len(p) /\ r[i] = p[i]
             \/ \E j \in 1 .. Len(q) : r[i] = q[j]
  <2>1. CASE i <= Len(p)
    BY <1>1, <2>1 DEF r
  <2>2. CASE i > Len(p)
    <3>1. i - Len(p) \in 1 .. Len(q) /\ Len(p) + (i - Len(p)) = i
      BY <1>1, <2>2 DEF r
    <3>2. r[Len(p) + (i - Len(p))] = q[i - Len(p)]
      BY <1>1, <3>1 DEF r
    <3> QED
      BY <3>1, <3>2
  <2> QED
    BY <1>1, <2>1, <2>2
<1>3. \A i \in 1 .. Len(p) : i \in 1 .. Len(r) /\ r[i] = p[i]
  BY <1>1 DEF r
<1>4. \A i \in 1 .. Len(q) : Len(p) + i \in 1 .. Len(r) /\ r[Len(p) + i] = q[i]
  BY <1>1 DEF r
<1>5. \A e : e \in Taken(r) <=> e \in Taken(p) \/ e \in Taken(q)
  <2>1. ASSUME NEW e \in Taken(r) PROVE e \in Taken(p) \/ e \in Taken(q)
    <3>1. PICK i \in 1 .. Len(r) : r[i].op \in Removal /\ e \in r[i].ms
      BY <2>1 DEF Taken
    <3> QED
      BY <1>2, <3>1 DEF Taken
  <2>2. ASSUME NEW e \in Taken(p) PROVE e \in Taken(r)
    <3>1. PICK i \in 1 .. Len(p) : p[i].op \in Removal /\ e \in p[i].ms
      BY <2>2 DEF Taken
    <3> QED
      BY <1>3, <3>1 DEF Taken
  <2>3. ASSUME NEW e \in Taken(q) PROVE e \in Taken(r)
    <3>1. PICK i \in 1 .. Len(q) : q[i].op \in Removal /\ e \in q[i].ms
      BY <2>3 DEF Taken
    <3>2. Len(p) + i \in 1 .. Len(r) /\ r[Len(p) + i] = q[i]
      BY <1>4
    <3> QED
      BY <3>1, <3>2 DEF Taken
  <2> QED
    BY <2>1, <2>2, <2>3
<1>6. \A e : e \in Given(r) <=> e \in Given(p) \/ e \in Given(q)
  <2>1. ASSUME NEW e \in Given(r) PROVE e \in Given(p) \/ e \in Given(q)
    <3>1. PICK i \in 1 .. Len(r) : r[i].op \notin Removal /\ e \in r[i].ms
      BY <2>1 DEF Given
    <3> QED
      BY <1>2, <3>1 DEF Given
  <2>2. ASSUME NEW e \in Given(p) PROVE e \in Given(r)
    <3>1. PICK i \in 1 .. Len(p) : p[i].op \notin Removal /\ e \in p[i].ms
      BY <2>2 DEF Given
    <3> QED
      BY <1>3, <3>1 DEF Given
  <2>3. ASSUME NEW e \in Given(q) PROVE e \in Given(r)
    <3>1. PICK i \in 1 .. Len(q) : q[i].op \notin Removal /\ e \in q[i].ms
      BY <2>3 DEF Given
    <3>2. Len(p) + i \in 1 .. Len(r) /\ r[Len(p) + i] = q[i]
      BY <1>4
    <3> QED
      BY <3>1, <3>2 DEF Given
  <2> QED
    BY <2>1, <2>2, <2>3
<1>7. Taken(r) = Taken(p) \cup Taken(q)
  BY <1>5
<1>8. Given(r) = Given(p) \cup Given(q)
  BY <1>6
<1> QED
  BY <1>7, <1>8 DEF r

LEMMA NothingTaken == Taken(<< >>) = {} /\ Given(<< >>) = {}
<1>1. Len(<< >>) = 0 /\ 1 .. 0 = {}
  BY EmptySeq
<1> QED
  BY <1>1 DEF Taken, Given

LEMMA JoinedPlaces ==
  ASSUME NEW S, NEW p \in Seq(S), NEW q \in Seq(S)
  PROVE  /\ Len(p) \in Nat /\ Len(q) \in Nat /\ Len(p \o q) = Len(p) + Len(q)
         /\ \A i \in 1 .. Len(p \o q) :
              (p \o q)[i] = IF i <= Len(p) THEN p[i] ELSE q[i - Len(p)]
BY ConcatProperties

(* diff and _must_rebuild lead from the applied group to the desired one, by a list
   that begins with what the connection's sid allows. *)
LEMMA PiecesWork ==
  ASSUME NEW have \in SUBSET Markets, NEW want \in SUBSET Markets, NEW q \in Pieces(have, want)
  PROVE  /\ Goal(have, q) = want
         /\ q # << >> => \/ have # {} /\ Rebuild(q)
                         \/ have = {} /\ Build(q)
                         \/ have # {} /\ Adjust(have, q)
<1>1. CASE have \cap want = {}
  <2>1. PICK s \in SplitGroup(want) : q = RemoveGroup(have) \o s
    BY <1>1 DEF Pieces
  <2>2. /\ s \in Seq(Changes) /\ Taken(s) = {} /\ Given(s) = want
        /\ Build(s)
    BY SplitGroupShape, SplitGroupCovers
  <2>3. CASE have = {}
    <3>1. q = s
      BY <2>1, <2>2, <2>3 DEF RemoveGroup
    <3> QED
      BY <2>2, <2>3, <3>1 DEF Goal
  <2>4. CASE have # {}
    <3> DEFINE p == Piece("unsubscribe", have)
               r == <<p>>
    <3>1. p \in Changes /\ p.ms = have /\ p.op = "unsubscribe"
      BY DEF Piece, Changes, Ops
    <3>2. q = r \o s
      BY <2>1, <2>4 DEF RemoveGroup
    <3>3. r \in Seq(Changes) /\ Len(r) = 1 /\ r[1] = p
      BY <3>1
    <3> HIDE DEF p, r
    <3>4. Taken(r) = have /\ Given(r) = {}
      <4>1. {j \in 1 .. Len(r) : r[j].op \in Removal} = {1}
        BY <3>1, <3>3 DEF Removal
      <4>2. {j \in 1 .. Len(r) : r[j].op \notin Removal} = {}
        BY <3>1, <3>3 DEF Removal
      <4>3. UNION {r[i].ms : i \in {1}} = have
        BY <3>1, <3>3
      <4> QED
        BY <4>1, <4>2, <4>3 DEF Taken, Given
    <3>5. Goal(have, q) = want
      BY <2>2, <3>2, <3>3, <3>4, SumTaken DEF Goal
    <3>6. /\ Len(q) = Len(s) + 1 /\ Len(s) \in Nat /\ q[1] = p
          /\ \A i \in 2 .. Len(q) : q[i] = s[i - 1]
      <4>1. /\ Len(q) = Len(r) + Len(s) /\ Len(s) \in Nat
            /\ \A i \in 1 .. Len(q) : q[i] = IF i <= Len(r) THEN r[i] ELSE s[i - Len(r)]
        BY <2>2, <3>2, <3>3, JoinedPlaces
      <4>2. Len(q) = Len(s) + 1 /\ q[1] = r[1]
        BY <3>3, <4>1
      <4>3. ASSUME NEW i \in 2 .. Len(q) PROVE q[i] = s[i - 1]
        <5>1. i \in 1 .. Len(q) /\ ~(i <= 1)
          BY <4>1, <4>2
        <5> QED
          BY <3>3, <4>1, <5>1
      <4> QED
        BY <3>3, <4>1, <4>2, <4>3
    <3>7. Rebuild(q)
      <4>1. ASSUME NEW i \in 2 .. Len(q)
            PROVE  q[i].op = (IF i = 2 THEN "subscribe" ELSE "add") /\ q[i].ms # {}
        <5>1. i - 1 \in 1 .. Len(s) /\ q[i] = s[i - 1]
          BY <3>6
        <5>3. i - 1 = 1 <=> i = 2
          OBVIOUS
        <5> QED
          BY <2>2, <5>1, <5>3 DEF Build
      <4> QED
        BY <3>1, <3>6, <4>1 DEF Rebuild
    <3> QED
      BY <2>4, <3>5, <3>7
  <2> QED
    BY <2>3, <2>4
<1>2. CASE have \cap want # {}
  <2>1. PICK d \in Split("delete", have \ want), s \in Split("add", want \ have) : q = d \o s
    BY <1>2 DEF Pieces
  <2>2. /\ d \in Seq(Changes) /\ \A i \in 1 .. Len(d) : d[i].op = "delete"
        /\ s \in Seq(Changes) /\ \A i \in 1 .. Len(s) : s[i].op = "add"
    BY SplitShape DEF Ops
  <2>3. /\ Taken(d) = have \ want /\ Given(d) = {}
        /\ Taken(s) = {} /\ Given(s) = want \ have
    BY SplitCovers DEF Ops, Removal
  <2>4. Taken(q) = have \ want /\ Given(q) = want \ have
    BY <2>1, <2>2, <2>3, SumTaken
  <2>5. Goal(have, q) = want
    BY <2>4 DEF Goal
  <2>6. /\ Len(q) = Len(d) + Len(s) /\ Len(d) \in Nat /\ Len(s) \in Nat
        /\ \A i \in 1 .. Len(q) : q[i] = IF i <= Len(d) THEN d[i] ELSE s[i - Len(d)]
    BY <2>1, <2>2, ConcatProperties
  <2>7. \A i \in 1 .. Len(q) : q[i].op = IF i <= Len(d) THEN "delete" ELSE "add"
    <3>1. ASSUME NEW i \in 1 .. Len(q)
          PROVE  q[i].op = IF i <= Len(d) THEN "delete" ELSE "add"
      <4>1. CASE i <= Len(d)
        <5>1. i \in 1 .. Len(d) /\ q[i] = d[i]
          BY <2>6, <4>1
        <5> QED
          BY <2>2, <4>1, <5>1
      <4>2. CASE ~(i <= Len(d))
        <5>1. i - Len(d) \in 1 .. Len(s) /\ q[i] = s[i - Len(d)]
          BY <2>6, <4>2
        <5>2. s[i - Len(d)].op = "add"
          BY <2>2, <5>1
        <5> QED
          BY <4>2, <5>1, <5>2
      <4> QED
        BY <4>1, <4>2
    <3> QED
      BY <3>1
  <2>8. Adjust(have, q)
    <3>1. \A i \in 1 .. Len(q) : q[i].op \in {"delete", "add"}
      BY <2>7
    <3>2. ASSUME NEW i \in 1 .. Len(q), NEW j \in 1 .. Len(q), i < j, q[i].op = "add"
          PROVE  q[j].op = "add"
      BY <2>6, <2>7, <3>2
    <3>3. have \ Taken(q) # {}
      BY <1>2, <2>4
    <3> QED
      BY <3>1, <3>2, <3>3 DEF Adjust
  <2> QED
    BY <1>2, <2>5, <2>8
<1> QED
  BY <1>1, <1>2

(* The first change and the rest. *)
LEMMA FirstAndRest ==
  ASSUME NEW q \in Seq(Changes), q # << >>
  PROVE  /\ Taken(q) = (IF q[1].op \in Removal THEN q[1].ms ELSE {}) \cup Taken(Tail(q))
         /\ Given(q) = (IF q[1].op \in Removal THEN {} ELSE q[1].ms) \cup Given(Tail(q))
<1> DEFINE r == <<q[1]>>
<1>1. /\ q[1] \in Changes /\ Tail(q) \in Seq(Changes) /\ q = r \o Tail(q)
  <2>1. /\ Head(q) = q[1] /\ q[1] \in Changes /\ Tail(q) \in Seq(Changes)
        /\ Len(q) \in Nat /\ Len(q) # 0
        /\ Len(Tail(q)) = Len(q) - 1 /\ \A i \in 1 .. Len(Tail(q)) : Tail(q)[i] = q[i + 1]
    BY HeadTailProperties, EmptySeq
  <2> QED
    BY <2>1
<1>2. r \in Seq(Changes) /\ Len(r) = 1 /\ r[1] = q[1]
  BY <1>1
<1> HIDE DEF r
<1>3. Taken(r) = IF q[1].op \in Removal THEN q[1].ms ELSE {}
  <2>1. {j \in 1 .. Len(r) : r[j].op \in Removal} = IF q[1].op \in Removal THEN {1} ELSE {}
    BY <1>2
  <2>2. UNION {r[i].ms : i \in {1}} = q[1].ms
    BY <1>2
  <2>3. UNION {r[i].ms : i \in {}} = {}
    OBVIOUS
  <2> QED
    BY <2>1, <2>2, <2>3 DEF Taken
<1>4. Given(r) = IF q[1].op \in Removal THEN {} ELSE q[1].ms
  <2>1. {j \in 1 .. Len(r) : r[j].op \notin Removal} = IF q[1].op \in Removal THEN {} ELSE {1}
    BY <1>2
  <2>2. UNION {r[i].ms : i \in {1}} = q[1].ms
    BY <1>2
  <2>3. UNION {r[i].ms : i \in {}} = {}
    OBVIOUS
  <2> QED
    BY <2>1, <2>2, <2>3 DEF Given
<1>5. /\ Taken(q) = Taken(r) \cup Taken(Tail(q))
      /\ Given(q) = Given(r) \cup Given(Tail(q))
  BY <1>1, <1>2, SumTaken
<1> QED
  BY <1>3, <1>4, <1>5

-----------------------------------------------------------------------------
(* The wire as a sequence: frames taken off, dropped or added. *)

(* f says which frames of p are left in q. *)
Picks(f, q, p) ==
  /\ f \in [1 .. Len(q) -> 1 .. Len(p)]
  /\ \A i \in 1 .. Len(q) : q[i] = p[f[i]]
  /\ \A i, j \in 1 .. Len(q) : i < j => f[i] < f[j]

(* No unsubscribed is dropped that comes after a frame that is kept. *)
Thins(q, p) ==
  \E f : /\ Picks(f, q, p)
         /\ \A i \in 1 .. Len(q) : \A k \in f[i] .. Len(p) :
              p[k].kind = "unsubscribed" => \E l \in i .. Len(q) : f[l] = k

(* No unsubscribed is dropped. *)
Keeps(q, p) ==
  \E f : /\ Picks(f, q, p)
         /\ \A k \in 1 .. Len(p) : p[k].kind = "unsubscribed" => \E l \in 1 .. Len(q) : f[l] = k

LEMMA KeepsThins ==
  ASSUME NEW p \in Seq(Messages), NEW q \in Seq(Messages), Keeps(q, p)
  PROVE  Thins(q, p)
<1>1. PICK f :
        /\ Picks(f, q, p)
        /\ \A k \in 1 .. Len(p) : p[k].kind = "unsubscribed" => \E l \in 1 .. Len(q) : f[l] = k
  BY DEF Keeps
<1>2. ASSUME NEW i \in 1 .. Len(q), NEW k \in f[i] .. Len(p), p[k].kind = "unsubscribed"
      PROVE  \E l \in i .. Len(q) : f[l] = k
  <2>1. f[i] \in 1 .. Len(p) /\ k \in 1 .. Len(p) /\ Len(p) \in Nat /\ Len(q) \in Nat
    BY <1>1 DEF Picks
  <2>2. PICK l \in 1 .. Len(q) : f[l] = k
    BY <1>1, <1>2, <2>1
  <2>3. ~(l < i)
    BY <1>1, <2>1, <2>2 DEF Picks
  <2>4. l \in i .. Len(q)
    BY <2>1, <2>3
  <2> QED
    BY <2>2, <2>4
<1> QED
  BY <1>1, <1>2 DEF Thins

LEMMA TailKeeps ==
  ASSUME NEW q \in Seq(Messages), q # << >>, q[1].kind # "unsubscribed"
  PROVE  Keeps(Tail(q), q)
<1> DEFINE t == Tail(q)
           f == [i \in 1 .. Len(t) |-> i + 1]
<1>1. /\ Len(q) \in Nat /\ Len(t) = Len(q) - 1 /\ Len(t) \in Nat
      /\ \A i \in 1 .. Len(t) : t[i] = q[i + 1]
  BY HeadTailProperties, EmptySeq
<1> HIDE DEF t
<1>2. /\ f \in [1 .. Len(t) -> 1 .. Len(q)]
      /\ \A i \in 1 .. Len(t) : t[i] = q[f[i]]
      /\ \A i, j \in 1 .. Len(t) : i < j => f[i] < f[j]
  BY <1>1
<1>3. ASSUME NEW k \in 1 .. Len(q), q[k].kind = "unsubscribed"
      PROVE  \E l \in 1 .. Len(t) : f[l] = k
  <2>1. k # 1
    BY <1>3
  <2>2. k - 1 \in 1 .. Len(t)
    BY <1>1, <2>1
  <2>3. f[k - 1] = k
    BY <2>2
  <2> HIDE DEF f
  <2> QED
    BY <2>2, <2>3
<1> HIDE DEF f
<1> QED
  BY <1>2, <1>3 DEF Keeps, Picks, t

LEMMA TailThins ==
  ASSUME NEW q \in Seq(Messages), q # << >>
  PROVE  Thins(Tail(q), q)
<1> DEFINE t == Tail(q)
           f == [i \in 1 .. Len(t) |-> i + 1]
<1>1. /\ Len(q) \in Nat /\ Len(t) = Len(q) - 1 /\ Len(t) \in Nat
      /\ \A i \in 1 .. Len(t) : t[i] = q[i + 1]
  BY HeadTailProperties, EmptySeq
<1> HIDE DEF t
<1>2. f \in [1 .. Len(t) -> 1 .. Len(q)]
  BY <1>1
<1>3. \A i \in 1 .. Len(t) : t[i] = q[f[i]]
  BY <1>1
<1>4. \A i, j \in 1 .. Len(t) : i < j => f[i] < f[j]
  BY <1>1
<1>5. ASSUME NEW i \in 1 .. Len(t), NEW k \in f[i] .. Len(q)
      PROVE  \E l \in i .. Len(t) : f[l] = k
  <2>1. f[i] = i + 1
    OBVIOUS
  <2>2. k - 1 \in i .. Len(t) /\ k - 1 \in 1 .. Len(t)
    BY <1>1, <2>1
  <2>3. f[k - 1] = k
    BY <2>1, <2>2
  <2> HIDE DEF f
  <2> QED
    BY <2>2, <2>3
<1> HIDE DEF f
<1> QED
  BY <1>2, <1>3, <1>4, <1>5 DEF Thins, Picks, t

LEMMA DropPlaces ==
  ASSUME NEW q \in Seq(Messages), NEW d \in 1 .. Len(q)
  PROVE  LET t == SubSeq(q, 1, d - 1) \o SubSeq(q, d + 1, Len(q))
         IN /\ Len(q) \in Nat /\ Len(t) = Len(q) - 1 /\ Len(t) \in Nat
            /\ \A i \in 1 .. Len(t) : t[i] = IF i < d THEN q[i] ELSE q[i + 1]
<1> DEFINE p == SubSeq(q, 1, d - 1)
           r == SubSeq(q, d + 1, Len(q))
<1>1. Len(q) \in Nat
  OBVIOUS
<1>2. p \in Seq(Messages) /\ Len(p) = d - 1 /\ \A i \in 1 .. d - 1 : p[i] = q[i]
  BY <1>1
<1>3. r \in Seq(Messages) /\ Len(r) = Len(q) - d /\ \A i \in 1 .. Len(q) - d : r[i] = q[d + i]
  BY <1>1
<1> HIDE DEF p, r
<1> DEFINE t == p \o r
<1>4. /\ Len(t) = Len(p) + Len(r)
      /\ \A i \in 1 .. Len(t) : t[i] = IF i <= Len(p) THEN p[i] ELSE r[i - Len(p)]
  BY <1>2, <1>3, JoinedPlaces
<1> HIDE DEF t
<1>5. Len(t) = Len(q) - 1 /\ Len(t) \in Nat
  BY <1>1, <1>2, <1>3, <1>4
<1>6. ASSUME NEW i \in 1 .. Len(t)
      PROVE  t[i] = IF i < d THEN q[i] ELSE q[i + 1]
  <2>1. CASE i < d
    <3>1. i \in 1 .. d - 1
      BY <2>1
    <3> QED
      BY <1>2, <1>4, <2>1, <3>1
  <2>2. CASE ~(i < d)
    <3>1. ~(i <= Len(p)) /\ i - Len(p) \in 1 .. Len(q) - d /\ d + (i - Len(p)) = i + 1
      BY <1>1, <1>2, <1>5, <2>2
    <3>2. r[i - Len(p)] = q[d + (i - Len(p))]
      BY <1>3, <3>1
    <3> QED
      BY <1>4, <2>2, <3>1, <3>2
  <2> QED
    BY <2>1, <2>2
<1> QED
  BY <1>1, <1>5, <1>6 DEF t, p, r

LEMMA DropKeeps ==
  ASSUME NEW q \in Seq(Messages), NEW d \in 1 .. Len(q), q[d].kind # "unsubscribed"
  PROVE  Keeps(SubSeq(q, 1, d - 1) \o SubSeq(q, d + 1, Len(q)), q)
<1> DEFINE t == SubSeq(q, 1, d - 1) \o SubSeq(q, d + 1, Len(q))
           f == [i \in 1 .. Len(t) |-> IF i < d THEN i ELSE i + 1]
<1>1. /\ Len(q) \in Nat /\ Len(t) = Len(q) - 1 /\ Len(t) \in Nat
      /\ \A i \in 1 .. Len(t) : t[i] = IF i < d THEN q[i] ELSE q[i + 1]
  BY DropPlaces
<1> HIDE DEF t
<1>2. f \in [1 .. Len(t) -> 1 .. Len(q)]
  BY <1>1
<1>3. \A i \in 1 .. Len(t) : t[i] = q[f[i]]
  BY <1>1
<1>4. \A i, j \in 1 .. Len(t) : i < j => f[i] < f[j]
  BY <1>1
<1>5. ASSUME NEW k \in 1 .. Len(q), q[k].kind = "unsubscribed"
      PROVE  \E l \in 1 .. Len(t) : f[l] = k
  <2>1. k # d /\ k \in Int /\ d \in Int
    BY <1>5
  <2>2. CASE k < d
    <3>1. k \in 1 .. Len(t)
      BY <1>1, <2>2
    <3>2. f[k] = k
      BY <2>2, <3>1
    <3> HIDE DEF f
    <3> QED
      BY <3>1, <3>2
  <2>3. CASE k > d
    <3>1. k - 1 \in 1 .. Len(t) /\ ~(k - 1 < d)
      BY <1>1, <2>1, <2>3
    <3>2. f[k - 1] = k
      BY <2>1, <3>1
    <3> HIDE DEF f
    <3> QED
      BY <3>1, <3>2
  <2>4. k < d \/ k > d
    BY <2>1
  <2> HIDE DEF f
  <2> QED
    BY <2>2, <2>3, <2>4
<1> HIDE DEF f
<1> QED
  BY <1>2, <1>3, <1>4, <1>5 DEF Keeps, Picks, t

LEMMA NoneThins ==
  ASSUME NEW q \in Seq(Messages)
  PROVE  Thins(<< >>, q)
<1> DEFINE f == [i \in 1 .. 0 |-> 1]
<1>1. Len(<< >>) = 0 /\ f \in [1 .. 0 -> 1 .. Len(q)]
  BY EmptySeq
<1>2. \A i \in 1 .. 0 : FALSE
  OBVIOUS
<1> HIDE DEF f
<1> QED
  BY <1>1, <1>2 DEF Thins, Picks

LEMMA AppendPlaces ==
  ASSUME NEW S, NEW q \in Seq(S), NEW e \in S
  PROVE  /\ Append(q, e) \in Seq(S) /\ Len(q) \in Nat /\ Len(Append(q, e)) = Len(q) + 1
         /\ \A i \in 1 .. Len(q) : i \in 1 .. Len(Append(q, e)) /\ Append(q, e)[i] = q[i]
         /\ Append(q, e)[Len(q) + 1] = e
         /\ \A i \in 1 .. Len(Append(q, e)) : i \in 1 .. Len(q) \/ i = Len(q) + 1
BY AppendProperties

LEMMA RepliedThins ==
  ASSUME NEW p, NEW q, Thins(q, p), Replied(p)
  PROVE  Replied(q) /\ (Subscribed(q) => Subscribed(p))
<1>1. PICK f : Picks(f, q, p)
  BY DEF Thins
<1> QED
  BY <1>1 DEF Picks, Replied, Subscribed

LEMMA RepliedAppend ==
  ASSUME NEW q \in Seq(Messages), NEW e \in Messages, Replied(q), Faithful(e),
         e.kind \in {"subscribed", "unsubscribed"} => ~Subscribed(q)
  PROVE  /\ Replied(Append(q, e))
         /\ Subscribed(Append(q, e)) => Subscribed(q) \/ e.kind = "subscribed"
<1> DEFINE r == Append(q, e)
<1>1. /\ Len(q) \in Nat /\ Len(r) = Len(q) + 1
      /\ \A i \in 1 .. Len(q) : i \in 1 .. Len(r) /\ r[i] = q[i]
      /\ r[Len(q) + 1] = e
      /\ \A i \in 1 .. Len(r) : i \in 1 .. Len(q) \/ i = Len(q) + 1
  BY AppendPlaces
<1> HIDE DEF r
<1>2. ASSUME NEW i \in 1 .. Len(r), NEW j \in 1 .. Len(r), i < j, r[i].kind = "subscribed"
      PROVE  r[j].kind \notin {"subscribed", "unsubscribed"}
  <2>1. i \in 1 .. Len(q)
    BY <1>1, <1>2
  <2>2. CASE j \in 1 .. Len(q)
    BY <1>1, <1>2, <2>1, <2>2 DEF Replied
  <2>3. CASE j = Len(q) + 1
    BY <1>1, <1>2, <2>1, <2>3 DEF Subscribed
  <2> QED
    BY <1>1, <2>2, <2>3
<1>3. Subscribed(r) => Subscribed(q) \/ e.kind = "subscribed"
  BY <1>1 DEF Subscribed
<1>4. \A i \in 1 .. Len(r) : Faithful(r[i])
  BY <1>1 DEF Replied
<1> QED
  BY <1>2, <1>3, <1>4 DEF Replied, r

(* The same of the commands. *)

LEMMA QueuedWire ==
  ASSUME NEW q, NEW r, NEW k, Queued(q, k), Subscribed(r) => Subscribed(q)
  PROVE  Queued(r, k) /\ (Outstanding(r, k) => Outstanding(q, k))
BY DEF Queued, Outstanding

LEMMA QueuedAppend ==
  ASSUME NEW q, NEW k \in Seq(Commands), NEW e \in Commands, Queued(q, k),
         e.op \in Renewal => ~Outstanding(q, k)
  PROVE  /\ Queued(q, Append(k, e))
         /\ Outstanding(q, Append(k, e)) => Outstanding(q, k) \/ e.op = "subscribe"
<1> DEFINE r == Append(k, e)
<1>1. /\ Len(k) \in Nat /\ Len(r) = Len(k) + 1
      /\ \A i \in 1 .. Len(k) : i \in 1 .. Len(r) /\ r[i] = k[i]
      /\ r[Len(k) + 1] = e
      /\ \A i \in 1 .. Len(r) : i \in 1 .. Len(k) \/ i = Len(k) + 1
  BY AppendPlaces
<1> HIDE DEF r
<1>2. ASSUME NEW i \in 1 .. Len(r), NEW j \in 1 .. Len(r), i < j, r[i].op = "subscribe"
      PROVE  r[j].op \notin Renewal
  <2>1. i \in 1 .. Len(k)
    BY <1>1, <1>2
  <2>2. CASE j \in 1 .. Len(k)
    BY <1>1, <1>2, <2>1, <2>2 DEF Queued
  <2>3. CASE j = Len(k) + 1
    BY <1>1, <1>2, <2>1, <2>3 DEF Outstanding
  <2> QED
    BY <1>1, <2>2, <2>3
<1>3. ASSUME Subscribed(q), NEW i \in 1 .. Len(r)
      PROVE  r[i].op \notin Renewal
  BY <1>1, <1>3 DEF Queued, Outstanding
<1>4. Outstanding(q, r) => Outstanding(q, k) \/ e.op = "subscribe"
  BY <1>1 DEF Outstanding
<1> QED
  BY <1>2, <1>3, <1>4 DEF Queued, r

LEMMA QueuedTail ==
  ASSUME NEW q, NEW k \in Seq(Commands), k # << >>, Queued(q, k)
  PROVE  /\ Queued(q, Tail(k))
         /\ Outstanding(q, Tail(k)) => Outstanding(q, k)
         /\ Head(k).op = "subscribe" =>
              /\ ~Subscribed(q)
              /\ \A i \in 1 .. Len(Tail(k)) : Tail(k)[i].op \notin Renewal
         /\ Head(k).op = "unsubscribe" => ~Subscribed(q)
<1> DEFINE t == Tail(k)
<1>1. /\ Len(k) \in Nat /\ Len(t) = Len(k) - 1 /\ Len(t) \in Nat /\ Head(k) = k[1]
      /\ \A i \in 1 .. Len(t) : t[i] = k[i + 1]
      /\ 1 \in 1 .. Len(k)
  BY HeadTailProperties, EmptySeq
<1>2. \A i \in 1 .. Len(t) : i + 1 \in 1 .. Len(k) /\ 1 < i + 1
  BY <1>1
<1> HIDE DEF t
<1>3. \A i, j \in 1 .. Len(t) : i < j /\ t[i].op = "subscribe" => t[j].op \notin Renewal
  <2>1. ASSUME NEW i \in 1 .. Len(t), NEW j \in 1 .. Len(t), i < j, t[i].op = "subscribe"
        PROVE  t[j].op \notin Renewal
    <3>1. i + 1 \in 1 .. Len(k) /\ j + 1 \in 1 .. Len(k) /\ i + 1 < j + 1
      BY <1>1, <2>1
    <3> QED
      BY <1>1, <2>1, <3>1 DEF Queued
  <2> QED
    BY <2>1
<1>4. Subscribed(q) => \A i \in 1 .. Len(t) : t[i].op \notin Renewal
  BY <1>1, <1>2 DEF Queued
<1>5. Outstanding(q, t) => Outstanding(q, k)
  BY <1>1, <1>2 DEF Outstanding
<1>6. ASSUME k[1].op = "subscribe"
      PROVE  ~Subscribed(q) /\ \A i \in 1 .. Len(t) : t[i].op \notin Renewal
  <2>1. ~Subscribed(q)
    BY <1>1, <1>6 DEF Queued, Renewal
  <2>2. ASSUME NEW i \in 1 .. Len(t) PROVE t[i].op \notin Renewal
    BY <1>1, <1>2, <1>6 DEF Queued
  <2> QED
    BY <2>1, <2>2
<1>7. k[1].op = "unsubscribe" => ~Subscribed(q)
  BY <1>1 DEF Queued, Renewal
<1> QED
  BY <1>1, <1>3, <1>4, <1>5, <1>6, <1>7 DEF Queued, t

-----------------------------------------------------------------------------
(* Steps, and the membership. *)

LEMMA Typed ==
  ASSUME Inv
  PROVE  /\ x \in Exchanges /\ x.wire \in Seq(Messages) /\ x.cmds \in Seq(Commands)
         /\ todo \in Seq(Changes) /\ (lock = "free" <=> todo = << >>) /\ (conn # "up" => todo = << >>)
         /\ applied \in SUBSET Markets /\ desired \in SUBSET Markets /\ held \in Seq(Messages)
BY DEF Inv, OwnerInv, FlagsInv, SoundExchange, Exchanges

(* What Emit adds to the wire, and the exchange after it. *)
LEMMA EmitShape ==
  ASSUME NEW y \in Exchanges, NEW kind \in {"snapshot", "delta"}, NEW m \in Markets,
         NEW n \in Nat \cup {None}
  PROVE  LET z == Emit(y, kind, m, n)
         IN /\ z.seq = y.seq + 1 /\ z.ord = y.ord + 1 /\ z.live = y.live \cup {m}
            /\ z.count = y.count /\ z.cmds = y.cmds /\ z.sub = y.sub
            /\ \E msg \in Messages :
                 /\ z.wire = Append(y.wire, msg)
                 /\ msg.kind = kind /\ msg.m = m /\ msg.n = n /\ msg.seq = z.seq
                 /\ msg.ord = z.ord /\ msg.truth = z.count /\ msg.covers = z.live
<1> DEFINE owed == IF kind = "snapshot" THEN y.owed \ {m} ELSE y.owed
           z == [y EXCEPT !.seq = @ + 1, !.ord = @ + 1, !.live = @ \cup {m}, !.owed = owed]
           msg == Message(z, kind, m, n, z.seq, m \notin y.live)
<1>1. /\ z.seq = y.seq + 1 /\ z.ord = y.ord + 1 /\ z.live = y.live \cup {m}
      /\ z.count = y.count /\ z.cmds = y.cmds /\ z.sub = y.sub /\ z.wire = y.wire
      /\ z.seq \in Nat /\ z.ord \in Nat /\ z.live \in SUBSET Markets
  BY DEF Exchanges
<1>2. DOMAIN z = DOMAIN y /\ "wire" \in DOMAIN y
  BY DEF Exchanges
<1>3. Emit(y, kind, m, n) = [z EXCEPT !.wire = Append(z.wire, msg)]
  BY DEF Emit
<1> HIDE DEF z
<1>4. /\ msg \in Messages
      /\ msg.kind = kind /\ msg.m = m /\ msg.n = n /\ msg.seq = z.seq
      /\ msg.ord = z.ord /\ msg.truth = z.count /\ msg.covers = z.live
  BY <1>1 DEF Message, Messages, Exchanges
<1> HIDE DEF msg
<1>5. /\ Emit(y, kind, m, n).wire = Append(y.wire, msg)
      /\ Emit(y, kind, m, n).seq = z.seq /\ Emit(y, kind, m, n).ord = z.ord
      /\ Emit(y, kind, m, n).live = z.live /\ Emit(y, kind, m, n).count = z.count
      /\ Emit(y, kind, m, n).cmds = z.cmds /\ Emit(y, kind, m, n).sub = z.sub
  <2>1. /\ z.wire = y.wire
        /\ [z EXCEPT !.wire = Append(z.wire, msg)].wire = Append(z.wire, msg)
    BY <1>1, <1>2
  <2> QED
    BY <1>3, <2>1
<1> QED
  BY <1>1, <1>4, <1>5

LEMMA ReplyShape ==
  ASSUME NEW y \in Exchanges, NEW kind \in {"subscribed", "unsubscribed", "error"}
  PROVE  LET z == Reply(y, kind)
         IN /\ z.seq = y.seq /\ z.ord = y.ord /\ z.live = y.live /\ z.count = y.count
            /\ z.cmds = y.cmds /\ z.sub = y.sub
            /\ \E msg \in Messages :
                 /\ z.wire = Append(y.wire, msg) /\ msg.kind = kind /\ msg.seq = None
<1> DEFINE msg == Message(y, kind, None, None, None, FALSE)
<1>1. msg \in Messages /\ msg.kind = kind /\ msg.seq = None
  BY DEF Message, Messages, Exchanges
<1>2. Reply(y, kind) = [y EXCEPT !.wire = Append(y.wire, msg)]
  BY DEF Reply
<1> HIDE DEF msg
<1> QED
  BY <1>1, <1>2 DEF Exchanges

LEMMA RequestShape ==
  ASSUME NEW y \in Exchanges, NEW ms \in SUBSET Markets
  PROVE  LET z == Request(y, ms)
         IN /\ z.seq = y.seq /\ z.ord = y.ord /\ z.live = y.live /\ z.count = y.count
            /\ z.sub = y.sub /\ z.owed = y.owed
            /\ conn = "up" => z.wire = y.wire
            /\ conn # "up" => z.wire = << >> /\ z.cmds = y.cmds
            /\ conn = "up" => \E e \in Commands : e.op = "get_snapshot" /\ z.cmds = Append(y.cmds, e)
<1>1. [op |-> "get_snapshot", ms |-> ms] \in Commands
  BY DEF Commands
<1> QED
  BY <1>1 DEF Request, Sent, Exchanges

(* A step that leaves the subscription alone. *)
LEMMA MemberSame ==
  ASSUME MemberInv, UNCHANGED <<conn, subs>>, Replied(x'.wire),
         conn = "down" => UNCHANGED c,
         conn # "up" => held' = held \/ held' = << >>,
         conn = "up" => /\ Queued(x'.wire, x'.cmds)
                        /\ Outstanding(x'.wire, x'.cmds) => Outstanding(x.wire, x.cmds)
  PROVE  MemberInv'
BY DEF MemberInv, WorkInv, GoalInv, CommandsInv, DownInv, Sending, subs

LEMMA QuietWire ==
  ASSUME Inv, MemberInv, UNCHANGED <<conn, subs>>, conn = "down" => UNCHANGED c,
         conn # "up" => held' = held \/ held' = << >>,
         x'.cmds = x.cmds, Replied(x'.wire), Subscribed(x'.wire) => Subscribed(x.wire)
  PROVE  MemberInv'
<1>1. conn = "up" => Queued(x.wire, x.cmds)
  BY DEF MemberInv, CommandsInv
<1>2. conn = "up" => /\ Queued(x'.wire, x'.cmds)
                     /\ Outstanding(x'.wire, x'.cmds) => Outstanding(x.wire, x.cmds)
  BY <1>1, QueuedWire
<1> QED
  BY <1>2, MemberSame

LEMMA AddedWire ==
  ASSUME Inv, MemberInv, UNCHANGED <<conn, subs, c, held>>, x'.cmds = x.cmds,
         NEW msg \in Messages, msg.kind \notin {"subscribed", "unsubscribed"}, Faithful(msg),
         x'.wire = Append(x.wire, msg)
  PROVE  MemberInv'
<1>1. Replied(x'.wire) /\ (Subscribed(x'.wire) => Subscribed(x.wire))
  BY Typed, RepliedAppend DEF MemberInv
<1> QED
  BY <1>1, QuietWire

LEMMA TradeMember ==
  ASSUME Inv, MemberInv, NEW m \in Markets, NEW d \in {-1, 1}, Trade(m, d)
  PROVE  MemberInv'
<1> DEFINE y == [x EXCEPT !.count[m] = @ + d]
<1>1. /\ y \in Exchanges /\ y.wire = x.wire /\ y.cmds = x.cmds
  <2>1. x \in Exchanges /\ x.count[m] + d \in Nat
    BY Typed DEF Trade
  <2> QED
    BY <2>1 DEF Exchanges
<1>2. /\ x' = IF conn = "up" /\ m \in x.live THEN Emit(y, "delta", m, d) ELSE y
      /\ UNCHANGED <<conn, subs, c, held>>
  BY DEF Trade
<1> HIDE DEF y
<1>3. CASE x' = y
  <2>1. Replied(x'.wire)
    BY <1>1, <1>3 DEF MemberInv
  <2> QED
    BY <1>1, <1>2, <1>3, <2>1, QuietWire
<1>4. CASE x' = Emit(y, "delta", m, d)
  <2>1. d \in Nat \cup {None}
    BY DEF None
  <2>2. x'.cmds = y.cmds /\ \E msg \in Messages : x'.wire = Append(y.wire, msg) /\ msg.kind = "delta"
                                               /\ msg.seq = y.seq + 1
    BY <1>1, <1>4, <2>1, EmitShape
  <2>3. y.seq + 1 # None
    BY <1>1 DEF Exchanges, None
  <2> QED
    BY <1>1, <1>2, <2>2, <2>3, AddedWire DEF Faithful, Numbered
<1> QED
  BY <1>2, <1>3, <1>4

LEMMA SnapshotMember ==
  ASSUME Inv, MemberInv, NEW m \in Markets, SendSnapshot(m) \/ SendCrossed(m)
  PROVE  MemberInv'
<1>1. /\ x \in Exchanges /\ UNCHANGED <<conn, subs, c, held>>
      /\ \E n \in Nat \cup {None} : x' = Emit(x, "snapshot", m, n)
  <2>1. x \in Exchanges /\ x.count[m] \in Nat
    BY Typed DEF Exchanges
  <2> QED
    BY <2>1 DEF SendSnapshot, SendCrossed
<1>2. x'.cmds = x.cmds /\ \E msg \in Messages : x'.wire = Append(x.wire, msg) /\ msg.kind = "snapshot"
                                             /\ msg.seq = x.seq + 1
  BY <1>1, EmitShape
<1>3. x.seq + 1 # None
  BY <1>1 DEF Exchanges, None
<1> QED
  BY <1>1, <1>2, <1>3, AddedWire DEF Faithful, Numbered

LEMMA LostMessage ==
  ASSUME Inv, MemberInv, LoseMessage
  PROVE  /\ x'.cmds = x.cmds /\ x'.seq = x.seq /\ x'.ord = x.ord /\ x'.live = x.live
         /\ x'.count = x.count /\ x'.sub = x.sub
         /\ Keeps(x'.wire, x.wire) /\ Thins(x'.wire, x.wire)
<1>1. PICK i \in 1 .. Len(x.wire) - 1 :
        /\ x.wire[i].seq # None
        /\ x' = [x EXCEPT !.wire = SubSeq(@, 1, i - 1) \o SubSeq(@, i + 1, Len(@))]
  BY DEF LoseMessage
<1>2. /\ x'.cmds = x.cmds /\ x'.seq = x.seq /\ x'.ord = x.ord /\ x'.live = x.live
      /\ x'.count = x.count /\ x'.sub = x.sub
      /\ x'.wire = SubSeq(x.wire, 1, i - 1) \o SubSeq(x.wire, i + 1, Len(x.wire))
  BY <1>1, Typed DEF Exchanges
<1>3. i \in 1 .. Len(x.wire)
  BY Typed
<1>4. x.wire[i].kind # "unsubscribed"
  BY <1>1, <1>3 DEF MemberInv, Replied, Faithful, Numbered
<1>5. Keeps(x'.wire, x.wire)
  BY <1>2, <1>3, <1>4, Typed, DropKeeps
<1>6. x'.wire \in Seq(Messages)
  <2>1. /\ SubSeq(x.wire, 1, i - 1) \in Seq(Messages)
        /\ SubSeq(x.wire, i + 1, Len(x.wire)) \in Seq(Messages)
    BY <1>3, Typed
  <2> QED
    BY <1>2, <2>1, ConcatProperties
<1> QED
  BY <1>2, <1>5, <1>6, Typed, KeepsThins

LEMMA LoseMember ==
  ASSUME Inv, MemberInv, LoseMessage
  PROVE  MemberInv'
<1>1. Replied(x'.wire) /\ (Subscribed(x'.wire) => Subscribed(x.wire))
  BY LostMessage, RepliedThins DEF MemberInv
<1> QED
  BY <1>1, LostMessage, QuietWire DEF LoseMessage

LEMMA ReplayMember ==
  ASSUME Inv, MemberInv, ReplayMessage
  PROVE  MemberInv'
<1>1. PICK i \in DOMAIN x.wire :
        x.wire[i].seq # None /\ x' = [x EXCEPT !.wire = Append(@, x.wire[i])]
  BY DEF ReplayMessage
<1>2. i \in 1 .. Len(x.wire) /\ x.wire[i] \in Messages
  BY Typed
<1>3. x'.cmds = x.cmds /\ x'.wire = Append(x.wire, x.wire[i])
  BY <1>1, Typed DEF Exchanges
<1>4. Faithful(x.wire[i]) /\ x.wire[i].kind \notin {"subscribed", "unsubscribed"}
  BY <1>1, <1>2 DEF MemberInv, Replied, Faithful, Numbered
<1> QED
  BY <1>2, <1>3, <1>4, AddedWire DEF ReplayMessage

LEMMA AnswersMember ==
  ASSUME Inv, MemberInv, ExchangeAnswers \/ ExchangeRefuses
  PROVE  MemberInv'
<1> DEFINE e == Head(x.cmds)
           y == [x EXCEPT !.cmds = Tail(@)]
<1>1. /\ e \in Commands /\ y \in Exchanges /\ y.wire = x.wire /\ y.cmds = Tail(x.cmds)
      /\ x.cmds # << >> /\ x.cmds \in Seq(Commands) /\ conn = "up"
      /\ UNCHANGED <<conn, subs, c, held>>
  <2>1. x.cmds # << >> /\ x \in Exchanges /\ x.cmds \in Seq(Commands)
    BY Typed DEF ExchangeAnswers, ExchangeRefuses
  <2>2. e \in Commands /\ Tail(x.cmds) \in Seq(Commands)
    BY <2>1, HeadTailProperties
  <2> QED
    BY <2>1, <2>2 DEF Exchanges, ExchangeAnswers, ExchangeRefuses
<1>2. x' = ExchangeDoes(y, e) \/ x' = Reply(y, "error")
  BY DEF ExchangeAnswers, ExchangeRefuses
<1> HIDE DEF e, y
<1>3. /\ Replied(y.wire) /\ Queued(y.wire, y.cmds)
      /\ Outstanding(y.wire, y.cmds) => Outstanding(x.wire, x.cmds)
      /\ e.op = "subscribe" => /\ ~Subscribed(y.wire)
                               /\ \A i \in 1 .. Len(y.cmds) : y.cmds[i].op \notin Renewal
      /\ e.op = "unsubscribe" => ~Subscribed(y.wire)
  BY <1>1, QueuedTail DEF MemberInv, CommandsInv, e
<1>4. e.op = "subscribe" => Outstanding(x.wire, x.cmds)
  <2>1. x.cmds[1] = e /\ 1 \in 1 .. Len(x.cmds)
    BY <1>1, HeadTailProperties, EmptySeq DEF e
  <2> QED
    BY <2>1 DEF Outstanding
<1>5. ASSUME NEW z \in Exchanges, NEW kind \in {"subscribed", "unsubscribed", "error"},
             z.wire = y.wire, z.cmds = y.cmds, x' = Reply(z, kind),
             kind = "subscribed" => e.op = "subscribe",
             kind = "unsubscribed" => e.op = "unsubscribe"
      PROVE  MemberInv'
  <2>1. PICK msg \in Messages : /\ x'.wire = Append(y.wire, msg) /\ msg.kind = kind
                                /\ msg.seq = None /\ x'.cmds = y.cmds
    BY <1>5, ReplyShape
  <2>2. /\ Faithful(msg)
        /\ msg.kind \in {"subscribed", "unsubscribed"} => ~Subscribed(y.wire)
    BY <1>3, <1>5, <2>1 DEF Faithful, Numbered
  <2>3. /\ Replied(x'.wire)
        /\ Subscribed(x'.wire) => Subscribed(y.wire) \/ kind = "subscribed"
    BY <1>1, <1>3, <2>1, <2>2, Typed, RepliedAppend
  <2>4. Queued(x'.wire, x'.cmds)
    BY <1>3, <1>5, <2>1, <2>3 DEF Queued
  <2>5. Outstanding(x'.wire, x'.cmds) => Outstanding(x.wire, x.cmds)
    BY <1>3, <1>4, <1>5, <2>1, <2>3 DEF Outstanding
  <2> QED
    BY <1>1, <2>3, <2>4, <2>5, MemberSame
<1>6. ASSUME x'.wire = y.wire, x'.cmds = y.cmds
      PROVE  MemberInv'
  BY <1>1, <1>3, <1>6, MemberSame
<1>7. CASE x' = Reply(y, "error")
  BY <1>1, <1>5, <1>7
<1>8. CASE x' = ExchangeDoes(y, e)
  <2>1. /\ e.ms \in SUBSET Markets
        /\ e.op \in {"subscribe", "add", "delete", "unsubscribe", "get_snapshot"}
    BY <1>1 DEF Commands, Ops
  <2>2. CASE e.op = "subscribe"
    <3> DEFINE z == [y EXCEPT !.sub = e.ms, !.owed = e.ms, !.live = {}]
    <3>1. z \in Exchanges /\ z.wire = y.wire /\ z.cmds = y.cmds
      BY <1>1, <2>1 DEF Exchanges
    <3>2. x' = Reply(z, "subscribed")
      BY <1>8, <2>2 DEF ExchangeDoes
    <3> HIDE DEF z
    <3> QED
      BY <1>5, <2>2, <3>1, <3>2
  <2>3. CASE e.op = "unsubscribe"
    <3> DEFINE z == [y EXCEPT !.sub = {}, !.owed = {}, !.live = {}, !.seq = 0]
    <3>1. z \in Exchanges /\ z.wire = y.wire /\ z.cmds = y.cmds
      BY <1>1, <2>1 DEF Exchanges
    <3>2. x' = Reply(z, "unsubscribed")
      BY <1>8, <2>3 DEF ExchangeDoes
    <3> HIDE DEF z
    <3> QED
      BY <1>5, <2>3, <3>1, <3>2
  <2>4. CASE e.op \in {"add", "delete", "get_snapshot"}
    <3>1. x'.wire = y.wire /\ x'.cmds = y.cmds
      BY <1>1, <1>8, <2>4 DEF ExchangeDoes, Exchanges
    <3> QED
      BY <1>6, <3>1
  <2> QED
    BY <2>1, <2>2, <2>3, <2>4
<1> QED
  BY <1>2, <1>7, <1>8

(* Frames: one is taken off the wire, and a snapshot may be asked for. *)

LEMMA AskedMember ==
  ASSUME Inv, MemberInv, UNCHANGED <<conn, subs>>, conn # "down",
         conn # "up" => held' = held \/ held' = << >>,
         NEW y \in Exchanges, y.cmds = x.cmds, Thins(y.wire, x.wire),
         x' = y \/ \E ms \in SUBSET Markets : x' = Request(y, ms)
  PROVE  MemberInv'
<1>1. Replied(y.wire) /\ (Subscribed(y.wire) => Subscribed(x.wire))
  BY RepliedThins DEF MemberInv
<1>2. CASE x' = y
  BY <1>1, <1>2, QuietWire
<1>3. CASE \E ms \in SUBSET Markets : x' = Request(y, ms)
  <2>1. PICK ms \in SUBSET Markets : x' = Request(y, ms)
    BY <1>3
  <2>2. CASE conn = "up"
    <3>1. PICK e \in Commands : e.op = "get_snapshot" /\ x'.cmds = Append(y.cmds, e)
      BY <2>1, <2>2, RequestShape
    <3>2. x'.wire = y.wire
      BY <2>1, <2>2, RequestShape
    <3>3. Queued(y.wire, y.cmds) /\ (Outstanding(y.wire, y.cmds) => Outstanding(x.wire, x.cmds))
      BY <1>1, <2>2, QueuedWire DEF MemberInv, CommandsInv
    <3>4. e.op \notin Renewal
      BY <3>1 DEF Renewal
    <3>5. /\ Queued(y.wire, x'.cmds)
          /\ Outstanding(y.wire, x'.cmds) => Outstanding(y.wire, y.cmds) \/ e.op = "subscribe"
      BY <3>1, <3>3, <3>4, Typed, QueuedAppend
    <3>6. Outstanding(x'.wire, x'.cmds) => Outstanding(x.wire, x.cmds)
      BY <3>1, <3>2, <3>3, <3>5
    <3> QED
      BY <1>1, <2>2, <3>2, <3>5, <3>6, MemberSame
  <2>3. CASE conn # "up"
    <3>1. x'.wire = << >>
      BY <2>1, <2>3, RequestShape
    <3>2. Replied(x'.wire)
      <4>1. Len(x'.wire) = 0
        BY <3>1, EmptySeq
      <4> QED
        BY <4>1 DEF Replied
    <3> QED
      BY <2>3, <3>2, MemberSame
  <2> QED
    BY <2>2, <2>3
<1> QED
  BY <1>2, <1>3

LEMMA TakenOff ==
  ASSUME Inv, x.wire # << >>
  PROVE  LET y == [x EXCEPT !.wire = Tail(@)]
         IN /\ y \in Exchanges /\ y.wire = Tail(x.wire) /\ y.cmds = x.cmds
            /\ y.count = x.count /\ y.seq = x.seq /\ y.ord = x.ord /\ y.live = x.live
            /\ y.sub = x.sub /\ y.owed = x.owed
            /\ Thins(y.wire, x.wire)
            /\ Head(x.wire) \in Messages /\ Head(x.wire) = x.wire[1] /\ 1 \in 1 .. Len(x.wire)
<1>1. /\ Tail(x.wire) \in Seq(Messages) /\ Head(x.wire) \in Messages /\ Head(x.wire) = x.wire[1]
      /\ 1 \in 1 .. Len(x.wire)
  BY Typed, HeadTailProperties, EmptySeq
<1>2. Thins(Tail(x.wire), x.wire)
  BY Typed, TailThins
<1> QED
  BY <1>1, <1>2, Typed DEF Exchanges

LEMMA AsksFor ==
  ASSUME NEW y, NEW s, NEW msg \in Messages, applied \in SUBSET Markets
  PROVE  \/ DispatchSends(y, s, msg) = y
         \/ \E ms \in SUBSET Markets : DispatchSends(y, s, msg) = Request(y, ms)
<1>1. CASE Breaks(s, msg) /\ Wanted(s, {msg.m}) # {}
  <2>1. {msg.m} \in SUBSET Markets
    BY <1>1 DEF Breaks, Applies, Touchable
  <2> QED
    BY <1>1, <2>1 DEF DispatchSends
<1>2. CASE ~(Breaks(s, msg) /\ Wanted(s, {msg.m}) # {})
  BY <1>2 DEF DispatchSends
<1> QED
  BY <1>1, <1>2

LEMMA FrameMember ==
  ASSUME Inv, MemberInv, Deliver \/ DeliverFaulted
  PROVE  MemberInv'
<1> DEFINE msg == Head(x.wire)
           y == [x EXCEPT !.wire = Tail(@)]
<1>1. /\ x.wire # << >> /\ conn # "down" /\ UNCHANGED <<conn, subs>>
      /\ conn # "up" => held' = held \/ held' = << >>
  BY DEF Deliver, DeliverFaulted, Handling
<1>2. y \in Exchanges /\ y.cmds = x.cmds /\ Thins(y.wire, x.wire) /\ msg \in Messages
  BY <1>1, TakenOff
<1>3. applied \in SUBSET Markets
  BY Typed
<1>4. CASE Deliver
  <2>1. \E t : x' = DispatchSends(y, t, msg)
    BY <1>4 DEF Deliver
  <2> HIDE DEF y, msg
  <2>2. x' = y \/ \E ms \in SUBSET Markets : x' = Request(y, ms)
    BY <1>2, <1>3, <2>1, AsksFor
  <2> QED
    BY <1>1, <1>2, <2>2, AskedMember
<1>5. CASE DeliverFaulted
  <2>1. \E s : x' = Request(y, Wanted(s, applied))
    BY <1>5 DEF DeliverFaulted
  <2>2. \A s : Wanted(s, applied) \in SUBSET Markets
    BY <1>3 DEF Wanted
  <2> HIDE DEF y, msg
  <2> QED
    BY <1>1, <1>2, <2>1, <2>2, AskedMember
<1> QED
  BY <1>4, <1>5

LEMMA Held ==
  ASSUME Inv, held # << >>
  PROVE  Head(held) \in Messages /\ Head(held) = held[1]
<1>1. held \in Seq(Messages)
  BY Typed
<1> QED
  BY <1>1, HeadTailProperties

LEMMA SameThins ==
  ASSUME NEW q \in Seq(Messages)
  PROVE  Thins(q, q) /\ Keeps(q, q)
<1> DEFINE f == [i \in 1 .. Len(q) |-> i]
<1>1. f \in [1 .. Len(q) -> 1 .. Len(q)] /\ \A i \in 1 .. Len(q) : f[i] = i
  OBVIOUS
<1> HIDE DEF f
<1>2. \A i \in 1 .. Len(q) : \A k \in f[i] .. Len(q) : k \in i .. Len(q) /\ f[k] = k
  BY <1>1
<1>3. Keeps(q, q)
  BY <1>1 DEF Keeps, Picks
<1> QED
  BY <1>1, <1>2, <1>3 DEF Thins, Picks

LEMMA HeldMember ==
  ASSUME Inv, MemberInv, DeliverHeld
  PROVE  MemberInv'
<1>1. /\ Head(held) \in Messages /\ conn # "down" /\ UNCHANGED <<conn, subs>>
      /\ x' = DispatchSends(x, c, Head(held)) /\ held' = << >>
  BY Held DEF DeliverHeld, MemberInv, DownInv, FlagsInv, Inv
<1>2. x' = x \/ \E ms \in SUBSET Markets : x' = Request(x, ms)
  BY <1>1, Typed, AsksFor
<1> QED
  BY <1>1, <1>2, Typed, SameThins, AskedMember

(* The lock's owner takes up the difference: work that leads to the desired group. *)
LEMMA ReconciledWork ==
  ASSUME Inv, NEW who, NEW ready, conn = "up", Reconciled(who, ready), todo = << >>,
         UNCHANGED <<applied, desired>>,
         ~pending' => (sid' <=> applied # {}) /\ (ready \/ (~waiting' => applied = desired)),
         pending' => ~ready /\ ~sid' /\ applied # {} /\ (~waiting' /\ ~deferred' => applied = desired)
  PROVE  WorkInv' /\ GoalInv'
<1>1. CASE todo' = << >>
  <2>1. ready => applied = desired
    <3>1. ASSUME ready PROVE applied = desired
      <4>1. << >> \in Pieces(applied, desired)
        BY <1>1, <3>1 DEF Reconciled
      <4>2. Goal(applied, << >>) = desired
        BY <4>1, Typed, PiecesWork
      <4> QED
        BY <4>2, NothingTaken DEF Goal
    <3> QED
      BY <3>1
  <2>2. Goal(applied, todo') = applied
    BY <1>1, NothingTaken DEF Goal
  <2>3. WorkInv'
    BY <1>1 DEF WorkInv
  <2>4. GoalInv'
    BY <2>1, <2>2 DEF GoalInv, Goal
  <2> QED
    BY <2>3, <2>4
<1>2. CASE todo' # << >>
  <2>1. ready /\ todo' \in Pieces(applied, desired)
    BY <1>2 DEF Reconciled
  <2>2. /\ Goal(applied, todo') = desired
        /\ \/ applied # {} /\ Rebuild(todo')
           \/ applied = {} /\ Build(todo')
           \/ applied # {} /\ Adjust(applied, todo')
    BY <1>2, <2>1, Typed, PiecesWork
  <2>3. WorkInv'
    BY <1>2, <2>1, <2>2 DEF WorkInv, Rebuild, Build, Adjust, Taken
  <2>4. GoalInv'
    BY <2>1, <2>2 DEF GoalInv, Goal, Taken, Given
  <2> QED
    BY <2>3, <2>4
<1> QED
  BY <1>1, <1>2

LEMMA SubscribedMember ==
  ASSUME Inv, MemberInv, DeliverSubscribed
  PROVE  MemberInv'
<1>1. /\ x.wire # << >> /\ conn # "down" /\ lock = "free" /\ x'.wire = Tail(x.wire) /\ x'.cmds = x.cmds
      /\ Head(x.wire).kind = "subscribed" /\ Reconciled("frame", deferred)
      /\ sid' /\ ~pending' /\ UNCHANGED <<conn, applied, desired, waiting, held>>
  BY Typed DEF DeliverSubscribed, Handling, Exchanges
<1>2. Thins(x'.wire, x.wire) /\ x.wire[1] = Head(x.wire) /\ 1 \in 1 .. Len(x.wire)
  BY <1>1, TakenOff
<1>3. Replied(x'.wire)
  BY <1>2, RepliedThins DEF MemberInv
<1>4. ~Subscribed(x'.wire)
  <2>1. /\ Len(Tail(x.wire)) = Len(x.wire) - 1 /\ Len(x.wire) \in Nat
        /\ \A i \in 1 .. Len(Tail(x.wire)) : Tail(x.wire)[i] = x.wire[i + 1]
    BY <1>1, Typed, HeadTailProperties, EmptySeq
  <2>2. ASSUME NEW i \in 1 .. Len(x'.wire) PROVE x'.wire[i].kind # "subscribed"
    <3>1. i + 1 \in 1 .. Len(x.wire) /\ 1 < i + 1 /\ x'.wire[i] = x.wire[i + 1]
      BY <1>1, <2>1
    <3> QED
      BY <1>1, <1>2, <3>1 DEF MemberInv, Replied
  <2> QED
    BY <2>2 DEF Subscribed
<1>5. ASSUME conn = "up"
      PROVE  WorkInv' /\ GoalInv' /\ CommandsInv'
  <2>1. WorkInv /\ GoalInv /\ CommandsInv /\ todo = << >>
    BY <1>1, <1>5, Typed DEF MemberInv
  <2>2. Subscribed(x.wire)
    BY <1>1, <1>2 DEF Subscribed
  <2>3. pending
    BY <2>1, <2>2 DEF CommandsInv, Outstanding, Sending
  <2>4. applied # {} /\ (~waiting /\ ~deferred => applied = desired)
    BY <2>1, <2>3 DEF WorkInv, GoalInv
  <2>5. WorkInv' /\ GoalInv'
    BY <1>1, <1>5, <2>1, <2>4, ReconciledWork
  <2>6. Queued(x'.wire, x'.cmds)
    BY <1>1, <1>4, <2>1, QueuedWire DEF CommandsInv
  <2>7. ~Outstanding(x'.wire, x'.cmds)
    <3>1. \A i \in 1 .. Len(x.cmds) : x.cmds[i].op # "subscribe"
      BY <2>1, <2>2 DEF CommandsInv, Queued, Renewal
    <3> QED
      BY <1>1, <1>4, <3>1 DEF Outstanding
  <2> QED
    BY <2>5, <2>6, <2>7 DEF CommandsInv
<1> QED
  BY <1>1, <1>3, <1>5 DEF MemberInv

(* Groups. *)

LEMMA SetGroupMember ==
  ASSUME Inv, MemberInv, SetGroup
  PROVE  MemberInv'
BY DEF SetGroup, MemberInv, WorkInv, GoalInv, CommandsInv, DownInv, Sending

LEMMA ReconcileMember ==
  ASSUME Inv, MemberInv, Reconcile
  PROVE  MemberInv'
<1>1. /\ lock = "free" /\ todo = << >> /\ Reconciled("group", ~pending)
      /\ UNCHANGED <<x, conn, sid, pending, desired, applied, held>>
      /\ deferred' = (deferred \/ (conn = "up" /\ pending))
      /\ c' = IF lock' = "free" THEN Pruned(c, desired \cup applied) ELSE c
  BY Typed DEF Reconcile
<1>2. c'.base = c.base
  BY <1>1 DEF Pruned, Inv, FreshOnly, Clients
<1>3. ASSUME conn = "up"
      PROVE  WorkInv' /\ GoalInv' /\ CommandsInv'
  <2>1. WorkInv /\ GoalInv /\ CommandsInv
    BY <1>3 DEF MemberInv
  <2>2. WorkInv' /\ GoalInv'
    BY <1>1, <1>3, <2>1, ReconciledWork DEF WorkInv
  <2>3. Outstanding(x.wire, x.cmds) => pending
    BY <1>1, <2>1 DEF CommandsInv, Sending
  <2> QED
    BY <1>1, <2>1, <2>2, <2>3 DEF CommandsInv
<1> QED
  BY <1>1, <1>2, <1>3 DEF MemberInv, DownInv

(* One change is done: the rest of the list is the work that is left. *)

LEMMA RestOf ==
  ASSUME Inv, todo # << >>
  PROVE  /\ Head(todo) = todo[1] /\ todo[1] \in Changes /\ 1 \in 1 .. Len(todo)
         /\ Tail(todo) \in Seq(Changes) /\ Len(todo) \in Nat
         /\ Len(Tail(todo)) = Len(todo) - 1
         /\ \A i \in 1 .. Len(Tail(todo)) :
              /\ Tail(todo)[i] = todo[i + 1] /\ i + 1 \in 1 .. Len(todo) /\ 1 < i + 1
              /\ i + 1 \in 2 .. Len(todo)
         /\ todo[1].op = "unsubscribe" => todo[1].ms = applied
<1>1. todo \in Seq(Changes) /\ UnsubscribesAll(todo)
  BY DEF Inv, OwnerInv
<1>2. /\ Head(todo) = todo[1] /\ todo[1] \in Changes /\ 1 \in 1 .. Len(todo)
      /\ Tail(todo) \in Seq(Changes) /\ Len(todo) \in Nat
      /\ Len(Tail(todo)) = Len(todo) - 1
      /\ \A i \in 1 .. Len(Tail(todo)) : Tail(todo)[i] = todo[i + 1]
  BY <1>1, HeadTailProperties, EmptySeq
<1>3. \A i \in 1 .. Len(Tail(todo)) : i + 1 \in 1 .. Len(todo) /\ 1 < i + 1 /\ i + 1 \in 2 .. Len(todo)
  BY <1>2
<1> QED
  BY <1>1, <1>2, <1>3 DEF UnsubscribesAll

LEMMA NoRemoval ==
  ASSUME NEW q, \A i \in 1 .. Len(q) : q[i].op \notin Removal
  PROVE  Taken(q) = {}
BY DEF Taken

LEMMA AdjustRest ==
  ASSUME Inv, todo # << >>, sid, Adjust(applied, todo), RecordChange(Head(todo))
  PROVE  /\ sid' /\ ~pending' /\ todo' = Tail(todo)
         /\ applied' # {} /\ Adjust(applied', todo') /\ Goal(applied', todo') = Goal(applied, todo)
<1> DEFINE p == todo[1]
           t == Tail(todo)
<1>1. /\ p.op \in {"delete", "add"} /\ p.ms \in SUBSET Markets /\ t \in Seq(Changes)
      /\ \A i \in 1 .. Len(t) : t[i].op \in {"delete", "add"}
  BY RestOf DEF Adjust, Changes
<1>2. \A i, j \in 1 .. Len(t) : i < j /\ t[i].op = "add" => t[j].op = "add"
  <2>1. ASSUME NEW i \in 1 .. Len(t), NEW j \in 1 .. Len(t), i < j, t[i].op = "add"
        PROVE  t[j].op = "add"
    <3>1. i + 1 \in 1 .. Len(todo) /\ j + 1 \in 1 .. Len(todo) /\ i + 1 < j + 1
      BY <2>1, RestOf
    <3>2. t[i] = todo[i + 1] /\ t[j] = todo[j + 1]
      BY RestOf
    <3> QED
      BY <2>1, <3>1, <3>2 DEF Adjust
  <2> QED
    BY <2>1
<1>3. /\ sid' /\ ~pending' /\ todo' = t
      /\ applied' = IF p.op = "add" THEN applied \cup p.ms ELSE applied \ p.ms
  BY <1>1, RestOf DEF RecordChange, NowApplied
<1>4. /\ Taken(todo) = (IF p.op \in Removal THEN p.ms ELSE {}) \cup Taken(t)
      /\ Given(todo) = (IF p.op \in Removal THEN {} ELSE p.ms) \cup Given(t)
  BY Typed, FirstAndRest
<1>5. p.op = "add" => Taken(t) = {}
  <2>1. ASSUME p.op = "add", NEW i \in 1 .. Len(t) PROVE t[i].op \notin Removal
    <3>1. t[i] = todo[i + 1] /\ i + 1 \in 1 .. Len(todo) /\ 1 < i + 1 /\ 1 \in 1 .. Len(todo)
      BY RestOf
    <3> QED
      BY <2>1, <3>1 DEF Adjust, Removal
  <2> QED
    BY <2>1, NoRemoval
<1>6. applied \ Taken(todo) # {}
  BY DEF Adjust
<1> HIDE DEF p, t
<1>7. CASE p.op = "add"
  <2>1. Taken(todo) = {} /\ Given(todo) = p.ms \cup Given(t)
    BY <1>4, <1>5, <1>7 DEF Removal
  <2>2. Goal(applied', t) = Goal(applied, todo)
    BY <1>3, <1>5, <1>7, <2>1 DEF Goal
  <2>3. applied' # {} /\ applied' \ Taken(t) # {}
    BY <1>3, <1>5, <1>6, <1>7
  <2>4. Adjust(applied', t)
    BY <1>1, <1>2, <2>3 DEF Adjust
  <2> QED
    BY <1>3, <2>2, <2>3, <2>4 DEF t
<1>8. CASE p.op = "delete"
  <2>1. Taken(todo) = p.ms \cup Taken(t) /\ Given(todo) = Given(t)
    BY <1>4, <1>8 DEF Removal
  <2>2. applied' = applied \ p.ms
    BY <1>3, <1>8
  <2>3. Goal(applied', t) = Goal(applied, todo)
    BY <2>1, <2>2 DEF Goal
  <2>4. applied' # {} /\ applied' \ Taken(t) # {}
    BY <1>6, <2>1, <2>2
  <2>5. Adjust(applied', t)
    BY <1>1, <1>2, <2>4 DEF Adjust
  <2> QED
    BY <1>3, <2>3, <2>4, <2>5 DEF t
<1> QED
  BY <1>1, <1>7, <1>8

LEMMA RebuildRest ==
  ASSUME Inv, todo # << >>, Rebuild(todo), RecordChange(Head(todo))
  PROVE  /\ ~sid' /\ ~pending' /\ todo' = Tail(todo)
         /\ applied' = {} /\ Build(todo') /\ Goal(applied', todo') = Goal(applied, todo)
<1> DEFINE p == todo[1]
           t == Tail(todo)
<1>1. p.op = "unsubscribe" /\ p.ms = applied
  BY RestOf DEF Rebuild
<1>2. \A i \in 1 .. Len(t) : t[i].op = (IF i = 1 THEN "subscribe" ELSE "add") /\ t[i].ms # {}
  <2>1. ASSUME NEW i \in 1 .. Len(t)
        PROVE  t[i].op = (IF i = 1 THEN "subscribe" ELSE "add") /\ t[i].ms # {}
    <3>1. t[i] = todo[i + 1] /\ i + 1 \in 2 .. Len(todo) /\ (i + 1 = 2 <=> i = 1)
      BY RestOf
    <3> QED
      BY <3>1 DEF Rebuild
  <2> QED
    BY <2>1
<1>3. Taken(t) = {}
  BY <1>2, NoRemoval DEF Removal
<1>4. /\ Taken(todo) = (IF p.op \in Removal THEN p.ms ELSE {}) \cup Taken(t)
      /\ Given(todo) = (IF p.op \in Removal THEN {} ELSE p.ms) \cup Given(t)
  BY Typed, FirstAndRest
<1>5. ~sid' /\ ~pending' /\ todo' = t /\ applied' = applied \ p.ms
  BY <1>1, RestOf DEF RecordChange, NowApplied
<1> HIDE DEF p, t
<1>6. Goal(applied', t) = Goal(applied, todo)
  BY <1>1, <1>3, <1>4, <1>5 DEF Goal, Removal
<1> QED
  BY <1>1, <1>2, <1>5, <1>6 DEF Build, t

LEMMA BuildRest ==
  ASSUME Inv, todo # << >>, ~sid, applied = {}, Build(todo), RecordChange(Head(todo))
  PROVE  /\ ~sid' /\ pending' /\ todo' = << >> /\ applied' # {}
         /\ ~deferred' => applied' = Goal(applied, todo)
<1> DEFINE p == todo[1]
           t == Tail(todo)
<1>1. p.op = "subscribe" /\ p.ms # {}
  BY RestOf DEF Build
<1>2. /\ ~sid' /\ pending' /\ todo' = << >> /\ applied' = applied \cup p.ms
      /\ deferred' = (deferred \/ Defers(p))
  BY <1>1, RestOf DEF RecordChange, NowApplied
<1>3. ASSUME ~deferred' PROVE applied' = Goal(applied, todo)
  <2>1. Len(todo) = 1 /\ t = << >>
    <3>1. ~(Len(todo) > 1)
      BY <1>1, <1>2, <1>3 DEF Defers
    <3>2. Len(todo) = 1 /\ Len(t) = 0
      BY <3>1, RestOf
    <3> QED
      BY <3>2, RestOf, EmptySeq
  <2>2. /\ Taken(todo) = (IF p.op \in Removal THEN p.ms ELSE {}) \cup Taken(t)
        /\ Given(todo) = (IF p.op \in Removal THEN {} ELSE p.ms) \cup Given(t)
    BY Typed, FirstAndRest
  <2> HIDE DEF p, t
  <2>3. Taken(todo) = {} /\ Given(todo) = p.ms
    BY <1>1, <2>1, <2>2, NothingTaken DEF Removal
  <2> QED
    BY <1>2, <2>3 DEF Goal
<1> QED
  BY <1>1, <1>2, <1>3

LEMMA RecordWork ==
  ASSUME Inv, WorkInv, GoalInv, todo # << >>, RecordChange(Head(todo)),
         UNCHANGED <<desired, waiting>>
  PROVE  /\ WorkInv' /\ GoalInv' /\ (pending' <=> todo[1].op = "subscribe")
         /\ sid' => sid /\ todo[1].op # "unsubscribe"
<1>1. ~pending
  BY DEF WorkInv
<1>2. (pending' <=> todo[1].op = "subscribe") /\ (sid' => sid /\ todo[1].op # "unsubscribe")
  BY RestOf DEF RecordChange
<1>3. CASE sid /\ Rebuild(todo)
  <2>1. WorkInv'
    BY <1>3, RebuildRest DEF WorkInv
  <2>2. GoalInv'
    BY <1>1, <1>3, RebuildRest DEF GoalInv
  <2> QED
    BY <1>2, <2>1, <2>2
<1>4. CASE ~sid /\ applied = {} /\ Build(todo)
  <2>1. WorkInv'
    BY <1>4, BuildRest DEF WorkInv
  <2>2. GoalInv'
    BY <1>1, <1>4, BuildRest DEF GoalInv
  <2> QED
    BY <1>2, <2>1, <2>2
<1>5. CASE sid /\ Adjust(applied, todo)
  <2>1. WorkInv'
    BY <1>5, AdjustRest DEF WorkInv
  <2>2. GoalInv'
    BY <1>1, <1>5, AdjustRest DEF GoalInv
  <2> QED
    BY <1>2, <2>1, <2>2
<1> QED
  BY <1>3, <1>4, <1>5 DEF WorkInv

LEMMA SentShape ==
  ASSUME NEW y \in Exchanges, NEW op \in Ops \cup {"get_snapshot"}, NEW ms \in SUBSET Markets
  PROVE  LET z == Sent(y, op, ms)
         IN /\ z.seq = y.seq /\ z.ord = y.ord /\ z.live = y.live /\ z.count = y.count
            /\ z.sub = y.sub /\ z.owed = y.owed /\ z.wire = y.wire
            /\ \E e \in Commands : e.op = op /\ z.cmds = Append(y.cmds, e)
<1>1. [op |-> op, ms |-> ms] \in Commands
  BY DEF Commands
<1> QED
  BY <1>1 DEF Sent, Exchanges

LEMMA SendMember ==
  ASSUME Inv, MemberInv, SendChange
  PROVE  MemberInv'
<1>1. /\ conn = "up" /\ todo # << >> /\ ~todo[1].sent /\ Head(todo) = todo[1]
      /\ todo[1].op \in Ops /\ todo[1].ms \in SUBSET Markets
      /\ UNCHANGED <<conn, desired, waiting, held, g, used>>
  BY RestOf DEF SendChange, Changes
<1>2. /\ WorkInv /\ GoalInv /\ CommandsInv /\ ~pending
  BY <1>1 DEF MemberInv, WorkInv
<1>3. x'.wire = x.wire /\ \E e \in Commands : e.op = todo[1].op /\ x'.cmds = Append(x.cmds, e)
  <2>1. x' = Sent(x, todo[1].op, todo[1].ms) /\ todo[1].op \in Ops \cup {"get_snapshot"}
    BY <1>1 DEF SendChange
  <2> QED
    BY <1>1, <2>1, Typed, SentShape, ZenonT(60)
<1>4. ~Outstanding(x.wire, x.cmds)
  BY <1>1, <1>2 DEF CommandsInv, Sending
<1>5. /\ Queued(x'.wire, x'.cmds)
      /\ Outstanding(x'.wire, x'.cmds) => todo[1].op = "subscribe"
  BY <1>2, <1>3, <1>4, Typed, QueuedAppend DEF CommandsInv
<1>6. CASE RecordChange(Head(todo))
  <2>1. WorkInv' /\ GoalInv' /\ (pending' <=> todo[1].op = "subscribe")
    BY <1>1, <1>2, <1>6, RecordWork
  <2> QED
    BY <1>1, <1>3, <1>5, <2>1 DEF MemberInv, CommandsInv
<1>7. CASE todo' = [todo EXCEPT ![1].sent = TRUE] /\ UNCHANGED <<applied, pending, sid, deferred, lock, c>>
  <2>1. /\ todo' # << >> /\ Len(todo') = Len(todo) /\ todo'[1].sent
        /\ \A i \in 1 .. Len(todo) : todo'[i].op = todo[i].op /\ todo'[i].ms = todo[i].ms
    <3>1. todo \in Seq(Changes) /\ [todo[1] EXCEPT !.sent = TRUE] \in Changes /\ 1 \in 1 .. Len(todo)
      BY RestOf, <1>1, Typed DEF Changes
    <3>2. todo' = [todo EXCEPT ![1] = [todo[1] EXCEPT !.sent = TRUE]]
      BY <1>7
    <3>3. /\ Len(todo') = Len(todo) /\ todo' \in Seq(Changes)
          /\ \A i \in 1 .. Len(todo) : todo'[i].op = todo[i].op /\ todo'[i].ms = todo[i].ms
      <4> DEFINE p == [todo[1] EXCEPT !.sent = TRUE]
      <4>1. p \in Changes /\ p.op = todo[1].op /\ p.ms = todo[1].ms
        BY <3>1 DEF Changes
      <4> HIDE DEF p
      <4>2. todo' = [todo EXCEPT ![1] = p]
        BY <3>2 DEF p
      <4>3. Len(todo') = Len(todo) /\ todo' \in Seq(Changes)
        BY <3>1, <4>1, <4>2
      <4>4. \A i \in 1 .. Len(todo) : todo'[i] = IF i = 1 THEN p ELSE todo[i]
        BY <3>1, <4>2
      <4> QED
        BY <4>1, <4>3, <4>4
    <3>4. todo'[1].sent
      BY <3>1, <3>2 DEF Changes
    <3>5. todo' # << >>
      BY <3>1, <3>3, EmptySeq
    <3> QED
      BY <3>3, <3>4, <3>5
  <2>2. 1 \in 1 .. Len(todo)
    BY <1>1, RestOf
  <2>3. Taken(todo') = Taken(todo) /\ Given(todo') = Given(todo)
    BY <2>1 DEF Taken, Given
  <2>4. WorkInv'
    <3>1. Rebuild(todo) => Rebuild(todo')
      BY <2>1, <2>2 DEF Rebuild
    <3>2. Build(todo) => Build(todo')
      BY <2>1 DEF Build
    <3>3. Adjust(applied, todo) => Adjust(applied, todo')
      BY <2>1, <2>3 DEF Adjust
    <3> QED
      BY <1>1, <1>2, <1>7, <2>1, <3>1, <3>2, <3>3 DEF WorkInv
  <2>5. GoalInv'
    BY <1>1, <1>2, <1>7, <2>3 DEF GoalInv, Goal
  <2>6. CommandsInv'
    BY <1>5, <2>1, <2>2 DEF CommandsInv, Sending
  <2> QED
    BY <1>1, <1>3, <2>4, <2>5, <2>6 DEF MemberInv
<1> QED
  BY <1>6, <1>7 DEF SendChange

LEMMA SentMember ==
  ASSUME Inv, MemberInv, ChangeSent
  PROVE  MemberInv'
<1>1. /\ conn = "up" /\ todo # << >> /\ RecordChange(Head(todo))
      /\ UNCHANGED <<x, conn, desired, waiting, held>>
  BY DEF ChangeSent
<1>2. WorkInv /\ GoalInv /\ CommandsInv /\ ~pending
  BY <1>1 DEF MemberInv, WorkInv
<1>3. WorkInv' /\ GoalInv' /\ (pending' <=> todo[1].op = "subscribe")
  BY <1>1, <1>2, RecordWork
<1>4. CommandsInv'
  BY <1>1, <1>2, <1>3 DEF CommandsInv, Sending
<1> QED
  BY <1>1, <1>3, <1>4 DEF MemberInv

(* Connections. *)

LEMMA NothingReplied == Replied(<< >>) /\ ~Subscribed(<< >>)
<1>1. Len(<< >>) = 0
  BY EmptySeq
<1> QED
  BY <1>1 DEF Replied, Subscribed

LEMMA ConnectMember ==
  ASSUME Inv, MemberInv, Connect
  PROVE  MemberInv'
<1>1. /\ ~sid' /\ ~pending' /\ applied' = {} /\ conn' = "up" /\ held' = held
      /\ todo' \in Pieces({}, desired) /\ desired' = desired
      /\ x'.wire = << >> /\ x'.cmds = << >> /\ desired \in SUBSET Markets
  BY Typed DEF Connect, MemberInv, DownInv, NoExchange
<1>2. Goal({}, todo') = desired /\ (todo' # << >> => Build(todo'))
  <2>1. \A q : ~Adjust({}, q)
    BY DEF Adjust
  <2>2. {} \in SUBSET Markets
    OBVIOUS
  <2> QED
    BY <1>1, <2>1, <2>2, PiecesWork
<1>3. WorkInv'
  BY <1>1, <1>2 DEF WorkInv
<1>4. GoalInv'
  BY <1>1, <1>2 DEF GoalInv
<1>5. CommandsInv'
  <2>1. Len(x'.cmds) = 0 /\ ~Subscribed(x'.wire)
    BY <1>1, NothingReplied, EmptySeq
  <2> QED
    BY <2>1 DEF CommandsInv, Queued, Outstanding
<1> QED
  BY <1>1, <1>3, <1>4, <1>5, NothingReplied DEF MemberInv

LEMMA LostMember ==
  ASSUME Inv, MemberInv, ConnectionLost
  PROVE  MemberInv'
<1>1. conn' = "lost" /\ held' = << >> /\ (x'.wire = x.wire \/ x'.wire = << >>)
  BY DEF ConnectionLost, NoExchange
<1>2. Replied(x'.wire)
  BY <1>1, NothingReplied DEF MemberInv
<1> QED
  BY <1>1, <1>2 DEF MemberInv

LEMMA EndMember ==
  ASSUME Inv, MemberInv, EndConnection
  PROVE  MemberInv'
<1>1. x'.wire = << >> /\ c'.base = None /\ held' = held /\ conn = "lost" /\ conn' = "down"
  BY DEF EndConnection, NoExchange, NoClient
<1>2. held = << >>
  BY DEF EndConnection, MemberInv
<1> QED
  BY <1>1, <1>2, NothingReplied DEF EndConnection, MemberInv, DownInv

LEMMA MemberInit == Init => MemberInv
<1> SUFFICES ASSUME Init PROVE MemberInv
  OBVIOUS
<1>1. x.wire = << >> /\ c.base = None
  BY DEF Init, NoExchange, NoClient
<1> QED
  BY <1>1, NothingReplied DEF Init, MemberInv, DownInv

LEMMA MemberNext == Inv /\ MemberInv /\ [Next]_vars => MemberInv'
<1> SUFFICES ASSUME Inv, MemberInv, [Next]_vars PROVE MemberInv'
  OBVIOUS
<1>1. CASE Exchange
  BY <1>1, TradeMember, SnapshotMember, AnswersMember, LoseMember, ReplayMember DEF Exchange
<1>2. CASE Frames
  BY <1>2, FrameMember, HeldMember, SubscribedMember DEF Frames
<1>3. CASE Groups
  BY <1>3, SetGroupMember, ReconcileMember, SendMember, SentMember DEF Groups
<1>4. CASE Connect \/ ConnectionLost \/ EndConnection
  BY <1>4, ConnectMember, LostMember, EndMember
<1>5. CASE UNCHANGED vars
  BY <1>5 DEF vars, subs, MemberInv, WorkInv, GoalInv, CommandsInv, DownInv, Sending
<1> QED
  BY <1>1, <1>2, <1>3, <1>4, <1>5 DEF Next

LEMMA MemberAlways == Spec => []MemberInv
BY InvInit, InvNext, MemberInit, MemberNext, PTL DEF Spec

(* _reconcile_locked, _record_change, _resume_reconcile, planner.to_commands: for
   every set of markets and command size, and however set_group calls, sends that
   suspend, replies and lost connections interleave, a connection that is idle has
   applied the group last desired, and what it sends next is a subscribe exactly
   when it holds no sid. *)
THEOREM IdleAlwaysApplied == Spec => []IdleMeansApplied
<1>1. Inv /\ MemberInv => IdleMeansApplied
  <2> SUFFICES ASSUME Inv, MemberInv, conn = "up"
               PROVE  /\ ~pending /\ lock = "free" /\ ~waiting => applied = desired
                      /\ todo # << >> => (Head(todo).op = "subscribe" <=> ~sid)
    BY DEF IdleMeansApplied
  <2>1. WorkInv /\ GoalInv
    BY DEF MemberInv
  <2>2. ASSUME ~pending, lock = "free", ~waiting PROVE applied = desired
    <3>1. todo = << >> /\ Goal(applied, todo) = desired
      BY <2>1, <2>2, Typed DEF GoalInv
    <3> QED
      BY <3>1, NothingTaken DEF Goal
  <2>3. ASSUME todo # << >> PROVE Head(todo).op = "subscribe" <=> ~sid
    <3>1. Head(todo) = todo[1] /\ 1 \in 1 .. Len(todo)
      BY <2>3, RestOf
    <3>2. Rebuild(todo) => todo[1].op # "subscribe"
      BY DEF Rebuild
    <3>3. Build(todo) => todo[1].op = "subscribe"
      BY <3>1 DEF Build
    <3>4. Adjust(applied, todo) => todo[1].op # "subscribe"
      BY <3>1 DEF Adjust
    <3> QED
      BY <2>1, <2>3, <3>1, <3>2, <3>3, <3>4 DEF WorkInv
  <2> QED
    BY <2>2, <2>3
<1> QED
  BY <1>1, InvAlways, MemberAlways, PTL

-----------------------------------------------------------------------------
(* The stream.  What taking, dropping and adding frames does to its links and to
   the lags it may show. *)

LEMMA LinkedThins ==
  ASSUME NEW p, NEW q, NEW r, Thins(r, q), Linked(q, p)
  PROVE  Linked(r, p)
<1>1. PICK f : Picks(f, r, q)
  BY DEF Thins
<1>2. \A i \in 1 .. Len(r) : f[i] \in 1 .. Len(q) /\ r[i] = q[f[i]]
  BY <1>1 DEF Picks
<1> QED
  BY <1>2 DEF Linked

(* Taking up one of the frames moves the position to it. *)
LEMMA LinkedMove ==
  ASSUME NEW p, NEW q, NEW r, Thins(r, q), Linked(q, p),
         NEW k \in 1 .. Len(q), Numbered(q[k])
  PROVE  Linked(r, Place(q[k]))
<1>1. PICK f : Picks(f, r, q)
  BY DEF Thins
<1>2. \A i \in 1 .. Len(r) : f[i] \in 1 .. Len(q) /\ r[i] = q[f[i]]
  BY <1>1 DEF Picks
<1>3. Linked(r, p)
  BY LinkedThins
<1>4. ASSUME NEW i \in 1 .. Len(r), Numbered(r[i]), r[i].ord = Place(q[k]).ord + 1
      PROVE  Follows(r[i], Place(q[k]))
  <2>1. r[i].ord = q[k].ord + 1
    BY <1>4 DEF Place
  <2>2. Follows(r[i], q[k])
    BY <1>2, <1>4, <2>1 DEF Linked
  <2> QED
    BY <2>2 DEF Follows, Place
<1> QED
  BY <1>3, <1>4 DEF Linked

LEMMA LinkedAppend ==
  ASSUME NEW p, NEW q \in Seq(Messages), NEW e \in Messages, Linked(q, p), TrueMessage(e),
         Numbered(e) =>
           /\ e.ord = p.ord + 1 => Follows(e, p)
           /\ \A i \in 1 .. Len(q) : Numbered(q[i]) =>
                /\ e.ord = q[i].ord + 1 => Follows(e, q[i])
                /\ q[i].ord = e.ord + 1 => Follows(q[i], e)
  PROVE  Linked(Append(q, e), p)
<1> DEFINE r == Append(q, e)
<1>1. /\ \A i \in 1 .. Len(q) : i \in 1 .. Len(r) /\ r[i] = q[i]
      /\ \A i \in 1 .. Len(r) : (i \in 1 .. Len(q) /\ r[i] = q[i]) \/ r[i] = e
  BY AppendPlaces
<1> HIDE DEF r
<1>2. e.ord # e.ord + 1
  BY DEF Messages
<1>3. \A i \in 1 .. Len(r) : TrueMessage(r[i])
  BY <1>1 DEF Linked
<1>4. ASSUME NEW i \in 1 .. Len(r), NEW j \in 1 .. Len(r), Numbered(r[i]), Numbered(r[j]),
             r[j].ord = r[i].ord + 1
      PROVE  Follows(r[j], r[i])
  <2>1. CASE r[i] = e
    BY <1>1, <1>2, <1>4, <2>1
  <2>2. CASE i \in 1 .. Len(q) /\ r[i] = q[i] /\ r[j] = e
    BY <1>4, <2>2
  <2>3. CASE i \in 1 .. Len(q) /\ r[i] = q[i] /\ j \in 1 .. Len(q) /\ r[j] = q[j]
    BY <1>4, <2>3 DEF Linked
  <2> QED
    BY <1>1, <2>1, <2>2, <2>3
<1>5. ASSUME NEW i \in 1 .. Len(r), Numbered(r[i]), r[i].ord = p.ord + 1
      PROVE  Follows(r[i], p)
  BY <1>1, <1>5 DEF Linked
<1> QED
  BY <1>3, <1>4, <1>5 DEF Linked, r

LEMMA NothingLinked ==
  ASSUME NEW p
  PROVE  Linked(<< >>, p)
<1>1. Len(<< >>) = 0
  BY EmptySeq
<1> QED
  BY <1>1 DEF Linked

(* Lags. *)

LEMMA PickedLags ==
  ASSUME NEW up \in BOOLEAN, NEW to \in BOOLEAN, NEW y, NEW z, y.wire \in Seq(Messages), z.wire \in Seq(Messages),
         to => up /\ Lag(z) = Lag(y), Thins(z.wire, y.wire), Even(up, y)
  PROVE  Even(to, z)
<1> DEFINE q == y.wire
           r == z.wire
<1>1. PICK f : /\ Picks(f, r, q)
               /\ \A i \in 1 .. Len(r) : \A k \in f[i] .. Len(q) :
                    q[k].kind = "unsubscribed" => \E l \in i .. Len(r) : f[l] = k
  BY DEF Thins
<1>2. \A i \in 1 .. Len(r) : f[i] \in 1 .. Len(q) /\ r[i] = q[f[i]]
  BY <1>1 DEF Picks
<1>3. Len(q) \in Nat /\ Len(r) \in Nat
  OBVIOUS
<1>4. ASSUME NEW i \in 1 .. Len(r), NEW j \in i .. Len(r), Unbroken(r, i, j)
      PROVE  Unbroken(q, f[i], f[j]) /\ f[j] \in f[i] .. Len(q)
  <2>1. j \in 1 .. Len(r)
    BY <1>3, <1>4
  <2>2. ASSUME NEW k \in f[i] .. f[j], q[k].kind = "unsubscribed"
        PROVE  FALSE
    <3>1. f[i] \in 1 .. Len(q) /\ f[j] \in 1 .. Len(q) /\ k \in f[i] .. Len(q)
      BY <1>2, <1>3, <2>1
    <3>2. PICK l \in i .. Len(r) : f[l] = k
      BY <1>1, <2>2, <3>1
    <3>3. l \in 1 .. Len(r) /\ f[l] <= f[j]
      BY <1>3, <2>2, <3>1, <3>2
    <3>4. ~(j < l)
      BY <1>1, <1>2, <2>1, <3>3 DEF Picks
    <3>5. l \in i .. j
      BY <1>3, <2>1, <3>3, <3>4
    <3>6. r[l].kind = "unsubscribed"
      BY <1>2, <2>2, <3>2, <3>3
    <3> QED
      BY <1>4, <3>5, <3>6 DEF Unbroken
  <2>3. f[j] \in f[i] .. Len(q)
    <3>1. f[i] \in 1 .. Len(q) /\ f[j] \in 1 .. Len(q)
      BY <1>2, <2>1
    <3>2. i = j \/ i < j
      BY <1>3
    <3>3. f[i] <= f[j]
      BY <1>1, <2>1, <3>1, <3>2 DEF Picks
    <3> QED
      BY <1>3, <3>1, <3>3
  <2> QED
    BY <2>2, <2>3 DEF Unbroken
<1>5. ASSUME NEW i \in 1 .. Len(r), Unbroken(r, i, Len(r))
      PROVE  Unbroken(q, f[i], Len(q))
  <2>1. ASSUME NEW k \in f[i] .. Len(q), q[k].kind = "unsubscribed" PROVE FALSE
    <3>1. PICK l \in i .. Len(r) : f[l] = k
      BY <1>1, <2>1
    <3>2. l \in 1 .. Len(r)
      BY <1>3
    <3> QED
      BY <1>2, <1>5, <2>1, <3>1, <3>2 DEF Unbroken
  <2> QED
    BY <2>1 DEF Unbroken
<1>6. ASSUME NEW i \in 1 .. Len(r), NEW l \in Lags(to, z, i)
      PROVE  l \in Lags(up, y, f[i])
  <2>1. CASE to /\ Unbroken(r, i, Len(r)) /\ l = Lag(z)
    BY <1>5, <2>1 DEF Lags
  <2>2. CASE \E j \in i .. Len(r) : Numbered(r[j]) /\ Unbroken(r, i, j) /\ l = Lag(r[j])
    <3>1. PICK j \in i .. Len(r) : Numbered(r[j]) /\ Unbroken(r, i, j) /\ l = Lag(r[j])
      BY <2>2
    <3>2. j \in 1 .. Len(r)
      BY <1>3
    <3>3. f[j] \in f[i] .. Len(q) /\ Unbroken(q, f[i], f[j]) /\ r[j] = q[f[j]]
      BY <1>2, <1>4, <3>1, <3>2
    <3> QED
      BY <3>1, <3>3 DEF Lags
  <2> QED
    BY <2>1, <2>2 DEF Lags
<1>7. ASSUME NEW i \in 1 .. Len(r), Numbered(r[i]), NEW l \in Lags(to, z, i)
      PROVE  l = Lag(r[i])
  <2>1. l \in Lags(up, y, f[i]) /\ Numbered(q[f[i]]) /\ f[i] \in 1 .. Len(q) /\ r[i] = q[f[i]]
    BY <1>2, <1>6, <1>7
  <2> QED
    BY <2>1 DEF Even
<1> QED
  BY <1>7 DEF Even

(* The lags met from the first frame on are no more when no unsubscribed is gone. *)
LEMMA KeptLags ==
  ASSUME NEW up \in BOOLEAN, NEW to \in BOOLEAN, NEW y, NEW z, y.wire \in Seq(Messages), z.wire \in Seq(Messages),
         to => up /\ Lag(z) = Lag(y), Keeps(z.wire, y.wire)
  PROVE  Lags(to, z, 1) \subseteq Lags(up, y, 1)
<1> DEFINE q == y.wire
           r == z.wire
<1>1. PICK f : /\ Picks(f, r, q)
               /\ \A k \in 1 .. Len(q) : q[k].kind = "unsubscribed" => \E l \in 1 .. Len(r) : f[l] = k
  BY DEF Keeps
<1>2. \A i \in 1 .. Len(r) : f[i] \in 1 .. Len(q) /\ r[i] = q[f[i]]
  BY <1>1 DEF Picks
<1>3. Len(q) \in Nat /\ Len(r) \in Nat
  OBVIOUS
<1>4. ASSUME NEW j \in 1 .. Len(r), Unbroken(r, 1, j)
      PROVE  Unbroken(q, 1, f[j])
  <2>1. ASSUME NEW k \in 1 .. f[j], q[k].kind = "unsubscribed" PROVE FALSE
    <3>1. f[j] \in 1 .. Len(q) /\ k \in 1 .. Len(q)
      BY <1>2, <1>3
    <3>2. PICK l \in 1 .. Len(r) : f[l] = k
      BY <1>1, <2>1, <3>1
    <3>3. ~(j < l)
      BY <1>1, <1>2, <3>2, <3>1 DEF Picks
    <3>4. l \in 1 .. j
      BY <1>3, <3>3
    <3> QED
      BY <1>2, <1>4, <2>1, <3>2, <3>4 DEF Unbroken
  <2> QED
    BY <2>1 DEF Unbroken
<1>5. ASSUME Unbroken(r, 1, Len(r))
      PROVE  Unbroken(q, 1, Len(q))
  <2>1. ASSUME NEW k \in 1 .. Len(q), q[k].kind = "unsubscribed" PROVE FALSE
    <3>1. PICK l \in 1 .. Len(r) : f[l] = k
      BY <1>1, <2>1
    <3> QED
      BY <1>2, <1>5, <2>1, <3>1 DEF Unbroken
  <2> QED
    BY <2>1 DEF Unbroken
<1>6. ASSUME NEW l \in Lags(to, z, 1)
      PROVE  l \in Lags(up, y, 1)
  <2>1. CASE to /\ Unbroken(r, 1, Len(r)) /\ l = Lag(z)
    BY <1>5, <2>1 DEF Lags
  <2>2. CASE \E j \in 1 .. Len(r) : Numbered(r[j]) /\ Unbroken(r, 1, j) /\ l = Lag(r[j])
    <3>1. PICK j \in 1 .. Len(r) : Numbered(r[j]) /\ Unbroken(r, 1, j) /\ l = Lag(r[j])
      BY <2>2
    <3>2. f[j] \in 1 .. Len(q) /\ Unbroken(q, 1, f[j]) /\ r[j] = q[f[j]]
      BY <1>2, <1>4, <3>1
    <3> QED
      BY <3>1, <3>2 DEF Lags
  <2> QED
    BY <2>1, <2>2 DEF Lags
<1> QED
  BY <1>6

(* A message that goes out shows the lag the exchange has, or ends the numbering. *)
LEMMA AddedLags ==
  ASSUME NEW up \in BOOLEAN, NEW y, NEW z, NEW e \in Messages, y.wire \in Seq(Messages),
         z.wire = Append(y.wire, e), Even(up, y), Faithful(e),
         e.kind # "unsubscribed" => Lag(z) = Lag(y),
         Numbered(e) => up /\ Lag(e) = Lag(y)
  PROVE  Even(up, z) /\ Lags(up, z, 1) \subseteq Lags(up, y, 1)
<1> DEFINE q == y.wire
           r == z.wire
<1>1. /\ Len(q) \in Nat /\ Len(r) = Len(q) + 1 /\ r[Len(q) + 1] = e
      /\ \A i \in 1 .. Len(q) : r[i] = q[i]
  BY AppendPlaces
<1>2. ASSUME NEW i \in 1 .. Len(q) + 1, NEW j \in i .. Len(q), Unbroken(r, i, j)
      PROVE  Unbroken(q, i, j)
  <2>1. \A k \in i .. j : k \in 1 .. Len(q)
    BY <1>1
  <2> QED
    BY <1>1, <1>2, <2>1 DEF Unbroken
<1>3. ASSUME NEW i \in 1 .. Len(q) + 1, Unbroken(r, i, Len(q) + 1)
      PROVE  Unbroken(q, i, Len(q)) /\ e.kind # "unsubscribed"
  <2>1. \A k \in i .. Len(q) : k \in 1 .. Len(q) /\ k \in i .. Len(q) + 1
    BY <1>1
  <2>2. Len(q) + 1 \in i .. Len(q) + 1
    BY <1>1
  <2> QED
    BY <1>1, <1>3, <2>1, <2>2 DEF Unbroken
<1>4. ASSUME NEW i \in 1 .. Len(q) + 1, NEW l \in Lags(up, z, i)
      PROVE  l \in Lags(up, y, i)
  <2>1. CASE up /\ Unbroken(r, i, Len(r)) /\ l = Lag(z)
    BY <1>1, <1>3, <2>1 DEF Lags
  <2>2. CASE \E j \in i .. Len(r) : Numbered(r[j]) /\ Unbroken(r, i, j) /\ l = Lag(r[j])
    <3>1. PICK j \in i .. Len(r) : Numbered(r[j]) /\ Unbroken(r, i, j) /\ l = Lag(r[j])
      BY <2>2
    <3>2. CASE j = Len(q) + 1
      <4>1. Numbered(e) /\ l = Lag(e) /\ Unbroken(q, i, Len(q))
        BY <1>1, <1>3, <3>1, <3>2
      <4> QED
        BY <4>1 DEF Lags
    <3>3. CASE j # Len(q) + 1
      <4>1. j \in i .. Len(q) /\ j \in 1 .. Len(q)
        BY <1>1, <3>3
      <4>2. Numbered(q[j]) /\ Unbroken(q, i, j) /\ l = Lag(q[j])
        BY <1>1, <1>2, <3>1, <4>1
      <4> QED
        BY <4>1, <4>2 DEF Lags
    <3> QED
      BY <3>2, <3>3
  <2> QED
    BY <2>1, <2>2 DEF Lags
<1>5. ASSUME NEW i \in 1 .. Len(r), Numbered(r[i]), NEW l \in Lags(up, z, i)
      PROVE  l = Lag(r[i])
  <2>1. i \in 1 .. Len(q) + 1 /\ l \in Lags(up, y, i)
    BY <1>1, <1>4, <1>5
  <2>2. CASE i \in 1 .. Len(q)
    BY <1>1, <1>5, <2>1, <2>2 DEF Even
  <2>3. CASE i = Len(q) + 1
    <3>1. r[i] = e /\ Lag(e) = Lag(y) /\ up
      BY <1>1, <1>5, <2>3
    <3>2. i .. Len(q) = {}
      BY <1>1, <2>3
    <3>3. l = Lag(y)
      BY <2>1, <3>2 DEF Lags
    <3> QED
      BY <3>1, <3>3
  <2> QED
    BY <1>1, <2>1, <2>2, <2>3
<1>6. 1 \in 1 .. Len(q) + 1
  BY <1>1
<1> QED
  BY <1>4, <1>5, <1>6 DEF Even

-----------------------------------------------------------------------------
(* Steps, and the stream. *)

LEMMA SamePosition ==
  ASSUME UNCHANGED <<held, g>>
  PROVE  Position' = Position
BY DEF Position, Place

LEMMA PositionTyped ==
  ASSUME Inv, StreamInv
  PROVE  Position.ord \in Nat
<1>1. held # << >> => held[1] \in Messages
  BY Held
<1> QED
  BY <1>1 DEF Position, Place, StreamInv, Messages

LEMMA WireTyped ==
  ASSUME Inv, NEW i \in 1 .. Len(x.wire)
  PROVE  /\ x.wire[i] \in Messages /\ x.wire[i].ord \in Nat /\ x.wire[i].covers \in SUBSET Markets
         /\ x.wire[i].truth \in [Markets -> Nat]
<1>1. x.wire[i] \in Messages
  BY Typed
<1> QED
  BY <1>1 DEF Messages

LEMMA BothNext == ASSUME NEW a \in Nat, NEW b \in Nat PROVE (a + 1) - (b + 1) = a - b
OBVIOUS

(* The exchange changes the live markets' counts by what it sends only. *)
LEMMA StreamKept ==
  ASSUME Inv, Inv', StreamInv, UNCHANGED <<conn, held, g>>, Thins(x'.wire, x.wire),
         Up => /\ x'.ord = x.ord /\ x'.seq = x.seq /\ x'.live \subseteq x.live
               /\ \A m \in x.live : x'.count[m] = x.count[m]
  PROVE  StreamInv'
<1>1. Position' = Position /\ Up' = Up /\ x.wire \in Seq(Messages) /\ x'.wire \in Seq(Messages)
  BY SamePosition, Typed DEF Up, Inv, SoundExchange, Exchanges
<1>2. Linked(x'.wire, Position)
  BY LinkedThins DEF StreamInv
<1>3. \A p : Up /\ Reached(x, p) => Reached(x', p)
  BY DEF Reached
<1>4. ASSUME Up PROVE Past(x', Position)
  <2>1. PICK f : Picks(f, x'.wire, x.wire)
    BY DEF Thins
  <2>2. \A i \in 1 .. Len(x'.wire) : f[i] \in 1 .. Len(x.wire) /\ x'.wire[i] = x.wire[f[i]]
    BY <2>1 DEF Picks
  <2>3. Past(x, Position)
    BY <1>4 DEF StreamInv
  <2> QED
    BY <1>3, <1>4, <2>2, <2>3 DEF Past
<1>5. Even(Up, x')
  BY <1>1, PickedLags DEF StreamInv, Lag, Up
<1> QED
  BY <1>1, <1>2, <1>4, <1>5 DEF StreamInv

LEMMA StreamAdded ==
  ASSUME Inv, StreamInv, UNCHANGED <<conn, held, g>>, Up,
         NEW e \in Messages, x'.wire = Append(x.wire, e), Faithful(e), TrueMessage(e),
         Numbered(e) =>
           /\ e.ord = Position.ord + 1 => Follows(e, Position)
           /\ \A i \in 1 .. Len(x.wire) : Numbered(x.wire[i]) =>
                /\ e.ord = x.wire[i].ord + 1 => Follows(e, x.wire[i])
                /\ x.wire[i].ord = e.ord + 1 => Follows(x.wire[i], e),
         e.kind # "unsubscribed" => Lag(x') = Lag(x),
         Numbered(e) => Lag(e) = Lag(x) /\ Reached(x', e),
         \A p : p.ord \in Nat /\ Reached(x, p) => Reached(x', p)
  PROVE  StreamInv' /\ Lags(Up, x', 1) \subseteq Lags(Up, x, 1)
<1>1. Position' = Position /\ Up' = Up /\ x.wire \in Seq(Messages)
  BY SamePosition, Typed DEF Up
<1>2. Linked(x'.wire, Position)
  BY <1>1, LinkedAppend DEF StreamInv
<1>3. Past(x', Position)
  <2>1. \A i \in 1 .. Len(x'.wire) : (i \in 1 .. Len(x.wire) /\ x'.wire[i] = x.wire[i]) \/ x'.wire[i] = e
    BY <1>1, AppendPlaces
  <2>2. Past(x, Position)
    BY DEF StreamInv
  <2>3. Position.ord \in Nat /\ \A i \in 1 .. Len(x.wire) : x.wire[i].ord \in Nat
    BY PositionTyped, WireTyped
  <2> QED
    BY <2>1, <2>2, <2>3 DEF Past
<1>4. Even(Up, x') /\ Lags(Up, x', 1) \subseteq Lags(Up, x, 1)
  BY <1>1, AddedLags DEF StreamInv, Up
<1> QED
  BY <1>1, <1>2, <1>3, <1>4 DEF StreamInv

(* A message is next to whatever place the exchange is at. *)
LEMMA NextMessage ==
  ASSUME NEW y \in Exchanges, NEW e \in Messages, NEW p, Reached(y, p), p.ord \in Nat,
         e.ord = y.ord + 1, e.covers = y.live \cup {e.m}, e.m \in Markets,
         e.kind = "snapshot" \/ (e.kind = "delta" /\ e.m \in y.live),
         \A m \in Markets :
           e.truth[m] = y.count[m] + IF e.kind = "delta" /\ e.m = m THEN e.n ELSE 0
  PROVE  /\ e.ord = p.ord + 1 => Follows(e, p)
         /\ p.ord # e.ord + 1
<1>1. y.ord \in Nat /\ y.live \in SUBSET Markets
  BY DEF Exchanges
<1>2. p.ord # e.ord + 1
  BY <1>1 DEF Reached
<1>3. ASSUME e.ord = p.ord + 1 PROVE Follows(e, p)
  <2>1. p.ord = y.ord
    BY <1>1, <1>3
  <2>2. ASSUME NEW m \in e.covers, ~(e.kind = "snapshot" /\ e.m = m)
        PROVE  m \in p.covers /\ e.truth[m] = p.truth[m] + IF e.kind = "delta" /\ e.m = m THEN e.n ELSE 0
    <3>1. m \in y.live /\ m \in Markets
      BY <1>1, <2>2
    <3>2. m \in p.covers /\ p.truth[m] = y.count[m]
      BY <2>1, <3>1 DEF Reached
    <3> QED
      BY <3>1, <3>2
  <2> QED
    BY <2>2 DEF Follows
<1> QED
  BY <1>2, <1>3

LEMMA EmitStream ==
  ASSUME Inv, StreamInv, UNCHANGED <<conn, held, g>>, Up,
         NEW e \in Messages, x'.wire = Append(x.wire, e), e.kind \in {"snapshot", "delta"},
         e.m \in Markets, e.seq = x.seq + 1, e.ord = x.ord + 1, e.covers = x.live \cup {e.m},
         x'.seq = e.seq, x'.ord = e.ord, x'.live = e.covers, x'.count = e.truth,
         e.kind = "delta" => e.m \in x.live,
         e.kind = "snapshot" => e.n \in {None, e.truth[e.m]},
         \A m \in Markets :
           e.truth[m] = x.count[m] + IF e.kind = "delta" /\ e.m = m THEN e.n ELSE 0
  PROVE  StreamInv' /\ Lags(Up, x', 1) \subseteq Lags(Up, x, 1)
<1>1. x \in Exchanges /\ x.seq \in Nat /\ x.ord \in Nat /\ x.wire \in Seq(Messages)
  BY Typed DEF Exchanges
<1>2. Numbered(e) /\ Faithful(e) /\ TrueMessage(e)
  BY <1>1 DEF Numbered, Faithful, TrueMessage, None
<1>3. Position.ord \in Nat
  BY PositionTyped
<1>4. Past(x, Position)
  BY DEF StreamInv
<1>5. e.ord = Position.ord + 1 => Follows(e, Position)
  BY <1>1, <1>3, <1>4, NextMessage DEF Past
<1>6. ASSUME NEW i \in 1 .. Len(x.wire), Numbered(x.wire[i])
      PROVE  /\ e.ord = x.wire[i].ord + 1 => Follows(e, x.wire[i])
             /\ x.wire[i].ord = e.ord + 1 => Follows(x.wire[i], e)
  <2>1. Reached(x, x.wire[i]) /\ x.wire[i].ord \in Nat
    <3>1. x.wire[i] \in Messages
      BY <1>1
    <3> QED
      BY <1>4, <1>6, <3>1 DEF Past, Messages
  <2> QED
    BY <1>1, <2>1, NextMessage, SMTT(60)
<1>7. Lag(x') = Lag(x) /\ Lag(e) = Lag(x)
  <2>1. x'.seq = x.seq + 1 /\ x'.ord = x.ord + 1 /\ e.seq = x.seq + 1 /\ e.ord = x.ord + 1
    OBVIOUS
  <2>2. (x.ord + 1) - (x.seq + 1) = x.ord - x.seq
    BY <1>1, BothNext
  <2> QED
    BY <2>1, <2>2 DEF Lag
<1>8. Reached(x', e)
  BY <1>1 DEF Reached
<1>9. ASSUME NEW p, p.ord \in Nat, Reached(x, p) PROVE Reached(x', p)
  BY <1>1, <1>9 DEF Reached
<1> QED
  BY <1>2, <1>5, <1>6, <1>7, <1>8, <1>9, StreamAdded

(* The sid that has ended. *)

LEMMA EndThinned ==
  ASSUME Inv, EndInv, UNCHANGED <<conn, sid, todo>>, Thins(x'.wire, x.wire), Up => x'.sub = x.sub,
         Up => x'.cmds = x.cmds \/ \E e \in Commands : e.op = "get_snapshot" /\ x'.cmds = Append(x.cmds, e)
  PROVE  EndInv' /\ (Over => Over')
<1>1. PICK f : Picks(f, x'.wire, x.wire)
  BY DEF Thins
<1>2. /\ \A i \in 1 .. Len(x'.wire) : f[i] \in 1 .. Len(x.wire) /\ x'.wire[i] = x.wire[f[i]]
      /\ \A i, j \in 1 .. Len(x'.wire) : i < j => f[i] < f[j]
  BY <1>1 DEF Picks
<1>3. ASSUME Up, NEW i \in 1 .. Len(x'.cmds)
      PROVE  (i \in 1 .. Len(x.cmds) /\ x'.cmds[i] = x.cmds[i]) \/ x'.cmds[i].op = "get_snapshot"
  <2>1. CASE x'.cmds = x.cmds
    BY <2>1, <1>3
  <2>2. CASE \E e \in Commands : e.op = "get_snapshot" /\ x'.cmds = Append(x.cmds, e)
    BY <2>2, <1>3, Typed, AppendPlaces
  <2> QED
    BY <1>3, <2>1, <2>2
<1>4. Up' = Up /\ (Sending("unsubscribe")' <=> Sending("unsubscribe"))
  BY DEF Up, Sending
<1>5. Up /\ Ended => Ended'
  BY <1>3, <1>4 DEF Ended
<1>6. Over => Over'
  BY <1>2, <1>4, <1>5 DEF Over
<1>7. ASSUME sid, NEW i \in 1 .. Len(x'.wire), NEW j \in 1 .. Len(x'.wire), i < j,
             x'.wire[i].kind = "unsubscribed"
      PROVE  ~Numbered(x'.wire[j])
  BY <1>2, <1>7 DEF EndInv
<1>8. ASSUME sid, Up, NEW i \in 1 .. Len(x'.wire), x'.wire[i].kind = "unsubscribed"
      PROVE  Ended'
  BY <1>2, <1>5, <1>8 DEF EndInv
<1>9. ASSUME sid, Up, NEW i \in 1 .. Len(x'.cmds), x'.cmds[i].op = "unsubscribe"
      PROVE  Sending("unsubscribe") /\ \A j \in 1 .. Len(x'.cmds) : i < j => x'.cmds[j].op = "get_snapshot"
  <2>1. i \in 1 .. Len(x.cmds) /\ x.cmds[i].op = "unsubscribe"
    BY <1>3, <1>9
  <2>2. Sending("unsubscribe") /\ \A j \in 1 .. Len(x.cmds) : i < j => x.cmds[j].op = "get_snapshot"
    BY <1>9, <2>1 DEF EndInv
  <2> QED
    BY <1>3, <1>9, <2>2
<1> QED
  BY <1>4, <1>6, <1>7, <1>8, <1>9 DEF EndInv

(* A numbered message goes out while the sid goes on. *)
LEMMA EndEmitted ==
  ASSUME Inv, EndInv, UNCHANGED <<conn, sid, todo>>, Up, x'.cmds = x.cmds, x'.sub = x.sub, ~Over,
         NEW e \in Messages, Numbered(e), Faithful(e), x'.wire = Append(x.wire, e),
         sid => \A i \in 1 .. Len(x.wire) : x.wire[i].kind # "unsubscribed"
  PROVE  EndInv' /\ (Over => Over')
<1>1. \A i \in 1 .. Len(x'.wire) : (i \in 1 .. Len(x.wire) /\ x'.wire[i] = x.wire[i]) \/ x'.wire[i] = e
  BY Typed, AppendPlaces
<1>2. e.kind # "unsubscribed"
  BY DEF Faithful
<1>3. Up' = Up /\ (Sending("unsubscribe")' <=> Sending("unsubscribe"))
  BY DEF Up, Sending
<1>4. ASSUME sid PROVE \A i \in 1 .. Len(x'.wire) : x'.wire[i].kind # "unsubscribed"
  BY <1>1, <1>2, <1>4
<1> QED
  BY <1>3, <1>4 DEF EndInv

(* The exchange takes a command up. *)
LEMMA EndAnswered ==
  ASSUME Inv, EndInv, UNCHANGED <<conn, sid, todo>>, Up, x.cmds # << >>, x'.cmds = Tail(x.cmds),
         Head(x.cmds).op = "get_snapshot" => x'.sub = x.sub,
         Head(x.cmds).op = "unsubscribe" => x'.sub = {},
         \/ x'.wire = x.wire
         \/ \E e \in Messages : /\ x'.wire = Append(x.wire, e) /\ ~Numbered(e)
                                /\ e.kind = "unsubscribed" => Head(x.cmds).op = "unsubscribe"
  PROVE  EndInv' /\ (Over => Over')
<1> DEFINE k == x.cmds
           t == Tail(k)
<1>1. /\ Len(k) \in Nat /\ Len(t) = Len(k) - 1 /\ Len(t) \in Nat /\ Head(k) = k[1]
      /\ 1 \in 1 .. Len(k) /\ \A i \in 1 .. Len(t) : t[i] = k[i + 1]
  BY Typed, HeadTailProperties, EmptySeq
<1>2. \A i \in 1 .. Len(t) : i + 1 \in 1 .. Len(k) /\ 1 < i + 1
  BY <1>1
<1>3. Up' = Up /\ (Sending("unsubscribe")' <=> Sending("unsubscribe"))
  BY DEF Up, Sending
<1> DEFINE Was(i) == i \in 1 .. Len(x.wire) /\ x'.wire[i] = x.wire[i]
           Answer(i) == /\ ~Numbered(x'.wire[i]) /\ \A j \in 1 .. Len(x'.wire) : ~(i < j)
                        /\ x'.wire[i].kind = "unsubscribed" => k[1].op = "unsubscribe"
<1>4. \A i \in 1 .. Len(x'.wire) : Was(i) \/ Answer(i)
  <2>1. CASE x'.wire = x.wire
    BY <2>1, Typed
  <2>2. ASSUME NEW e \in Messages, x'.wire = Append(x.wire, e), ~Numbered(e),
               e.kind = "unsubscribed" => Head(x.cmds).op = "unsubscribe"
        PROVE  \A i \in 1 .. Len(x'.wire) : Was(i) \/ Answer(i)
    <3>1. /\ Len(x.wire) \in Nat /\ Len(x'.wire) = Len(x.wire) + 1
          /\ \A i \in 1 .. Len(x.wire) : x'.wire[i] = x.wire[i]
          /\ x'.wire[Len(x.wire) + 1] = e
      BY <2>2, Typed, AppendPlaces
    <3>2. ASSUME NEW i \in 1 .. Len(x'.wire), i \notin 1 .. Len(x.wire)
          PROVE  i = Len(x.wire) + 1 /\ \A j \in 1 .. Len(x'.wire) : ~(i < j)
      BY <3>1, <3>2
    <3> QED
      BY <1>1, <2>2, <3>1, <3>2
  <2> QED
    BY <2>1, <2>2
<1> HIDE DEF t, k
<1>5. Ended => k[1].op = "get_snapshot" /\ Ended'
  <2>1. ASSUME Ended PROVE k[1].op = "get_snapshot" /\ \A i \in 1 .. Len(t) : t[i].op = "get_snapshot"
    BY <1>1, <1>2, <2>1 DEF Ended, k
  <2> QED
    BY <1>1, <1>3, <2>1 DEF Ended, t, k
<1>6. ASSUME sid, k[1].op = "unsubscribe" PROVE Ended'
  <2>1. Sending("unsubscribe") /\ \A j \in 1 .. Len(k) : 1 < j => k[j].op = "get_snapshot"
    BY <1>1, <1>6 DEF EndInv, k
  <2>2. \A i \in 1 .. Len(t) : t[i].op = "get_snapshot"
    BY <1>1, <1>2, <2>1
  <2>3. x'.sub = {} /\ x'.cmds = t
    BY <1>1, <1>6 DEF k, t
  <2> QED
    BY <1>3, <2>1, <2>2, <2>3 DEF Ended
<1>7. Over => Over'
  <2>1. ASSUME Over, NEW i \in 1 .. Len(x'.wire) PROVE ~Numbered(x'.wire[i])
    BY <1>4, <2>1 DEF Over
  <2> QED
    BY <1>3, <1>5, <2>1 DEF Over
<1>8. ASSUME sid, NEW i \in 1 .. Len(x'.wire), NEW j \in 1 .. Len(x'.wire), i < j,
             x'.wire[i].kind = "unsubscribed"
      PROVE  ~Numbered(x'.wire[j])
  <2>1. i \in 1 .. Len(x.wire) /\ x'.wire[i] = x.wire[i]
    BY <1>4, <1>8
  <2>2. CASE j \in 1 .. Len(x.wire) /\ x'.wire[j] = x.wire[j]
    BY <1>8, <2>1, <2>2 DEF EndInv
  <2> QED
    BY <1>4, <1>8, <2>2
<1>9. ASSUME sid, NEW i \in 1 .. Len(x'.wire), x'.wire[i].kind = "unsubscribed"
      PROVE  Ended'
  <2>1. CASE i \in 1 .. Len(x.wire) /\ x'.wire[i] = x.wire[i]
    BY <1>5, <1>9, <2>1 DEF EndInv
  <2>2. CASE k[1].op = "unsubscribe"
    BY <1>6, <1>9, <2>2
  <2> QED
    BY <1>4, <1>9, <2>1, <2>2
<1>10. ASSUME sid, NEW i \in 1 .. Len(t), t[i].op = "unsubscribe"
       PROVE  Sending("unsubscribe") /\ \A j \in 1 .. Len(t) : i < j => t[j].op = "get_snapshot"
  <2>1. i + 1 \in 1 .. Len(k) /\ k[i + 1].op = "unsubscribe"
    BY <1>1, <1>2, <1>10
  <2>2. Sending("unsubscribe") /\ \A j \in 1 .. Len(k) : i + 1 < j => k[j].op = "get_snapshot"
    BY <1>10, <2>1 DEF EndInv, k
  <2>3. ASSUME NEW j \in 1 .. Len(t), i < j PROVE t[j].op = "get_snapshot"
    <3>1. j + 1 \in 1 .. Len(k) /\ i + 1 < j + 1 /\ t[j] = k[j + 1]
      BY <1>1, <1>2, <2>3
    <3> QED
      BY <2>2, <3>1
  <2> QED
    BY <2>2, <2>3
<1>11. x'.cmds = t
  BY DEF t, k
<1> QED
  BY <1>3, <1>7, <1>8, <1>9, <1>10, <1>11 DEF EndInv

(* While the books and the tracker stay as they are. *)
LEMMA BooksSame ==
  ASSUME BooksInv, UNCHANGED <<conn, c, held, g>>, Lags(Up, x', 1) \subseteq Lags(Up, x, 1),
         Over => Over'
  PROVE  BooksInv'
<1>1. Position' = Position /\ Up' = Up /\ Untainted' = Untainted
  BY SamePosition DEF Up, Untainted
<1>2. NotAhead'
  BY <1>1 DEF BooksInv, NotAhead
<1>3. Level => Level'
  BY <1>1 DEF Level
<1> QED
  BY <1>1, <1>2, <1>3 DEF BooksInv

(* What the exchange does leaves the books true. *)

TrueInv == StreamInv /\ EndInv /\ BooksInv

(* A numbered message that goes out while the subscription holds members. *)
LEMMA EmitTrue ==
  ASSUME Inv, TrueInv, UNCHANGED <<conn, sid, todo, c, held, g>>, Up,
         NEW e \in Messages, x'.wire = Append(x.wire, e), e.kind \in {"snapshot", "delta"},
         e.m \in Markets, e.seq = x.seq + 1, e.ord = x.ord + 1, e.covers = x.live \cup {e.m},
         x'.seq = e.seq, x'.ord = e.ord, x'.live = e.covers, x'.count = e.truth,
         e.kind = "delta" => e.m \in x.live,
         e.kind = "snapshot" => e.n \in {None, e.truth[e.m]},
         \A m \in Markets :
           e.truth[m] = x.count[m] + IF e.kind = "delta" /\ e.m = m THEN e.n ELSE 0,
         x'.cmds = x.cmds, x'.sub = x.sub, x.sub # {}
  PROVE  TrueInv'
<1>1. StreamInv' /\ Lags(Up, x', 1) \subseteq Lags(Up, x, 1)
  BY EmitStream DEF TrueInv
<1>2. ~Over
  BY DEF Over, Ended
<1>3. sid => \A i \in 1 .. Len(x.wire) : x.wire[i].kind # "unsubscribed"
  BY DEF TrueInv, EndInv, Ended
<1>4. Numbered(e) /\ Faithful(e)
  <2>1. x.seq + 1 # None
    BY Typed DEF Exchanges, None
  <2> QED
    BY <2>1 DEF Numbered, Faithful
<1>5. EndInv' /\ (Over => Over')
  BY <1>2, <1>3, <1>4, EndEmitted DEF TrueInv
<1> QED
  BY <1>1, <1>5, BooksSame DEF TrueInv

LEMMA TradeTrue ==
  ASSUME Inv, Inv', TrueInv, NEW m \in Markets, NEW d \in {-1, 1}, Trade(m, d)
  PROVE  TrueInv'
<1> DEFINE y == [x EXCEPT !.count[m] = @ + d]
<1>1. /\ y \in Exchanges /\ y.wire = x.wire /\ y.cmds = x.cmds /\ y.sub = x.sub
      /\ y.seq = x.seq /\ y.ord = x.ord /\ y.live = x.live
      /\ \A k \in Markets : y.count[k] = x.count[k] + IF k = m THEN d ELSE 0
  <2>1. x \in Exchanges /\ x.count[m] + d \in Nat
    BY Typed DEF Trade
  <2>2. \A k \in Markets : y.count[k] = IF k = m THEN x.count[k] + d ELSE x.count[k]
    BY <2>1 DEF Exchanges
  <2>3. \A k \in Markets : x.count[k] \in Nat
    BY <2>1 DEF Exchanges
  <2>4. ASSUME NEW k \in Markets PROVE y.count[k] = x.count[k] + IF k = m THEN d ELSE 0
    <3>1. CASE k = m
      BY <2>2, <3>1
    <3>2. CASE k # m
      BY <2>2, <2>3, <3>2
    <3> QED
      BY <3>1, <3>2
  <2>5. /\ y \in Exchanges /\ y.wire = x.wire /\ y.cmds = x.cmds /\ y.sub = x.sub
        /\ y.seq = x.seq /\ y.ord = x.ord /\ y.live = x.live
    BY <2>1 DEF Exchanges
  <2> QED
    BY <2>4, <2>5
<1>2. /\ x' = IF conn = "up" /\ m \in x.live THEN Emit(y, "delta", m, d) ELSE y
      /\ UNCHANGED <<conn, sid, todo, c, held, g>>
  BY DEF Trade, subs
<1> HIDE DEF y
<1>3. CASE ~(Up /\ m \in x.live)
  <2>1. x' = y
    BY <1>2, <1>3 DEF Up
  <2>2. Thins(x'.wire, x.wire) /\ Keeps(x'.wire, x.wire)
    BY <1>1, <2>1, Typed, SameThins
  <2>3. ASSUME Up, NEW k \in x.live PROVE x'.count[k] = x.count[k]
    <3>1. k \in Markets /\ k # m /\ x.count[k] \in Nat
      BY <1>3, <2>3, Typed DEF Exchanges
    <3> QED
      BY <1>1, <2>1, <3>1
  <2>4. StreamInv'
    BY <1>1, <1>2, <2>1, <2>2, <2>3, StreamKept DEF TrueInv
  <2>5. EndInv' /\ (Over => Over')
    BY <1>1, <1>2, <2>1, <2>2, EndThinned DEF TrueInv
  <2>6. Lags(Up, x', 1) \subseteq Lags(Up, x, 1)
    BY <1>1, <2>1, <2>2, Typed, KeptLags DEF Lag, Up
  <2> QED
    BY <1>2, <2>4, <2>5, <2>6, BooksSame DEF TrueInv
<1>4. CASE Up /\ m \in x.live
  <2>1. d \in Nat \cup {None} /\ x' = Emit(y, "delta", m, d) /\ y \in Exchanges
    BY <1>1, <1>2, <1>4 DEF None, Up
  <2>2. /\ x'.seq = y.seq + 1 /\ x'.ord = y.ord + 1 /\ x'.live = y.live \cup {m}
        /\ x'.count = y.count /\ x'.cmds = y.cmds /\ x'.sub = y.sub
        /\ \E e \in Messages :
             /\ x'.wire = Append(y.wire, e)
             /\ e.kind = "delta" /\ e.m = m /\ e.n = d /\ e.seq = x'.seq
             /\ e.ord = x'.ord /\ e.truth = x'.count /\ e.covers = x'.live
    BY <2>1, EmitShape
  <2>3. PICK e \in Messages :
             /\ x'.wire = Append(y.wire, e)
             /\ e.kind = "delta" /\ e.m = m /\ e.n = d /\ e.seq = x'.seq
             /\ e.ord = x'.ord /\ e.truth = x'.count /\ e.covers = x'.live
    BY <2>2
  <2>4. x.sub # {}
    BY <1>4 DEF Inv, SoundExchange
  <2>5. \A k \in Markets : e.truth[k] = x.count[k] + IF e.kind = "delta" /\ e.m = k THEN e.n ELSE 0
    BY <1>1, <2>2, <2>3
  <2> QED
    BY <1>1, <1>2, <1>4, <2>2, <2>3, <2>4, <2>5, EmitTrue
<1> QED
  BY <1>3, <1>4

LEMMA SnapshotTrue ==
  ASSUME Inv, TrueInv, NEW m \in Markets, SendSnapshot(m) \/ SendCrossed(m)
  PROVE  TrueInv'
<1>1. /\ x \in Exchanges /\ UNCHANGED <<conn, sid, todo, c, held, g>> /\ Up /\ m \in x.owed
      /\ \E n \in {None, x.count[m]} : x' = Emit(x, "snapshot", m, n)
  BY Typed DEF SendSnapshot, SendCrossed, subs, Up
<1>2. PICK n \in {None, x.count[m]} : x' = Emit(x, "snapshot", m, n)
  BY <1>1
<1>3. n \in Nat \cup {None}
  BY <1>1 DEF Exchanges
<1>4. /\ x'.seq = x.seq + 1 /\ x'.ord = x.ord + 1 /\ x'.live = x.live \cup {m}
      /\ x'.count = x.count /\ x'.cmds = x.cmds /\ x'.sub = x.sub
      /\ \E e \in Messages :
           /\ x'.wire = Append(x.wire, e)
           /\ e.kind = "snapshot" /\ e.m = m /\ e.n = n /\ e.seq = x'.seq
           /\ e.ord = x'.ord /\ e.truth = x'.count /\ e.covers = x'.live
  BY <1>1, <1>2, <1>3, EmitShape
<1>5. PICK e \in Messages :
           /\ x'.wire = Append(x.wire, e)
           /\ e.kind = "snapshot" /\ e.m = m /\ e.n = n /\ e.seq = x'.seq
           /\ e.ord = x'.ord /\ e.truth = x'.count /\ e.covers = x'.live
  BY <1>4
<1>6. x.sub # {}
  BY <1>1 DEF Inv, SoundExchange
<1>7. \A k \in Markets : e.truth[k] = x.count[k] + IF e.kind = "delta" /\ e.m = k THEN e.n ELSE 0
  BY <1>1, <1>4, <1>5 DEF Exchanges
<1> QED
  BY <1>1, <1>4, <1>5, <1>6, <1>7, EmitTrue

LEMMA LoseTrue ==
  ASSUME Inv, Inv', MemberInv, TrueInv, LoseMessage
  PROVE  TrueInv'
<1>1. /\ x'.cmds = x.cmds /\ x'.seq = x.seq /\ x'.ord = x.ord /\ x'.live = x.live
      /\ x'.count = x.count /\ x'.sub = x.sub
      /\ Keeps(x'.wire, x.wire) /\ Thins(x'.wire, x.wire)
      /\ UNCHANGED <<conn, sid, todo, c, held, g>>
  BY LostMessage DEF LoseMessage, subs
<1>2. StreamInv'
  BY <1>1, StreamKept DEF TrueInv
<1>3. EndInv' /\ (Over => Over')
  BY <1>1, EndThinned DEF TrueInv
<1>4. x.wire \in Seq(Messages) /\ x'.wire \in Seq(Messages)
  BY Typed DEF Inv, SoundExchange, Exchanges
<1>5. Lags(Up, x', 1) \subseteq Lags(Up, x, 1)
  BY <1>1, <1>4, KeptLags DEF Lag, Up
<1> QED
  BY <1>1, <1>2, <1>3, <1>5, BooksSame DEF TrueInv

LEMMA ReplayTrue ==
  ASSUME Inv, MemberInv, TrueInv, ReplayMessage
  PROVE  TrueInv'
<1>1. PICK i \in DOMAIN x.wire :
        /\ x.wire[i].seq # None /\ x' = [x EXCEPT !.wire = Append(@, x.wire[i])]
        /\ \A j \in i .. Len(x.wire) : x.wire[j].kind # "unsubscribed"
  BY DEF ReplayMessage
<1> DEFINE e == x.wire[i]
<1>2. /\ i \in 1 .. Len(x.wire) /\ e \in Messages /\ e.ord \in Nat
      /\ Up /\ UNCHANGED <<conn, sid, todo, c, held, g>>
  BY Typed, WireTyped DEF ReplayMessage, subs, Up
<1>3. /\ x'.wire = Append(x.wire, e) /\ x'.cmds = x.cmds /\ x'.sub = x.sub /\ x'.seq = x.seq
      /\ x'.ord = x.ord /\ x'.live = x.live /\ x'.count = x.count
  BY <1>1, Typed DEF Exchanges
<1>4. Numbered(e) /\ Faithful(e) /\ TrueMessage(e)
  BY <1>1, <1>2 DEF Numbered, MemberInv, Replied, TrueInv, StreamInv, Linked
<1>5. e.ord = Position.ord + 1 => Follows(e, Position)
  BY <1>2, <1>4 DEF TrueInv, StreamInv, Linked
<1>6. \A k \in 1 .. Len(x.wire) : Numbered(x.wire[k]) =>
        /\ e.ord = x.wire[k].ord + 1 => Follows(e, x.wire[k])
        /\ x.wire[k].ord = e.ord + 1 => Follows(x.wire[k], e)
  BY <1>2, <1>4 DEF TrueInv, StreamInv, Linked
<1>7. Lag(x') = Lag(x) /\ Lag(e) = Lag(x)
  <2>1. Unbroken(x.wire, i, Len(x.wire))
    BY <1>1 DEF Unbroken
  <2>2. Lag(x) \in Lags(Up, x, i)
    BY <1>2, <2>1 DEF Lags
  <2> QED
    BY <1>2, <1>3, <1>4, <2>2 DEF TrueInv, StreamInv, Even, Lag
<1>8. /\ \A p : Reached(x, p) => Reached(x', p)
      /\ Reached(x', e)
  <2>1. \A p : Reached(x, p) => Reached(x', p)
    BY <1>3 DEF Reached
  <2>2. Reached(x, e)
    BY <1>2, <1>4 DEF TrueInv, StreamInv, Past
  <2> QED
    BY <2>1, <2>2
<1>9. ~Over
  BY <1>2, <1>4 DEF Over
<1>10. ASSUME sid, NEW j \in 1 .. Len(x.wire), x.wire[j].kind = "unsubscribed" PROVE FALSE
  <2>1. j < i
    BY <1>1, <1>2, <1>10
  <2> QED
    BY <1>2, <1>4, <1>10, <2>1 DEF TrueInv, EndInv
<1> HIDE DEF e
<1>11. StreamInv' /\ Lags(Up, x', 1) \subseteq Lags(Up, x, 1)
  BY <1>2, <1>3, <1>4, <1>5, <1>6, <1>7, <1>8, StreamAdded DEF TrueInv
<1>12. EndInv' /\ (Over => Over')
  BY <1>2, <1>3, <1>4, <1>9, <1>10, EndEmitted DEF TrueInv
<1> QED
  BY <1>2, <1>11, <1>12, BooksSame DEF TrueInv

(* An answer is not numbered. *)
LEMMA AnswersTrue ==
  ASSUME Inv, Inv', TrueInv, ExchangeAnswers \/ ExchangeRefuses
  PROVE  TrueInv'
<1> DEFINE e == Head(x.cmds)
           y == [x EXCEPT !.cmds = Tail(@)]
<1>1. /\ e \in Commands /\ y \in Exchanges /\ y.cmds = Tail(x.cmds)
      /\ y.wire = x.wire /\ y.sub = x.sub /\ y.seq = x.seq /\ y.ord = x.ord /\ y.live = x.live
      /\ y.count = x.count
      /\ x.cmds # << >> /\ Up /\ UNCHANGED <<conn, sid, todo, c, held, g>>
  <2>1. x.cmds # << >> /\ x \in Exchanges /\ x.cmds \in Seq(Commands)
    BY Typed DEF ExchangeAnswers, ExchangeRefuses
  <2>2. e \in Commands /\ Tail(x.cmds) \in Seq(Commands)
    BY <2>1, HeadTailProperties
  <2> QED
    BY <2>1, <2>2 DEF Exchanges, ExchangeAnswers, ExchangeRefuses, subs, Up
<1>2. \/ x' = ExchangeDoes(y, e)
      \/ x' = Reply(y, "error") /\ e.op = "get_snapshot"
  BY DEF ExchangeAnswers, ExchangeRefuses
<1> HIDE DEF e, y
<1>3. ASSUME NEW z \in Exchanges, NEW kind \in {"subscribed", "unsubscribed", "error"},
             z.wire = y.wire, z.cmds = y.cmds, z.ord = y.ord, z.count = y.count,
             z.live \subseteq y.live, kind # "unsubscribed" => z.seq = y.seq,
             x' = Reply(z, kind),
             kind = "unsubscribed" => e.op = "unsubscribe",
             e.op = "get_snapshot" => z.sub = y.sub,
             e.op = "unsubscribe" => z.sub = {}
      PROVE  TrueInv'
  <2>1. /\ x'.seq = z.seq /\ x'.ord = z.ord /\ x'.live = z.live /\ x'.count = z.count
        /\ x'.cmds = z.cmds /\ x'.sub = z.sub
        /\ \E msg \in Messages : x'.wire = Append(z.wire, msg) /\ msg.kind = kind /\ msg.seq = None
    BY <1>3, ReplyShape
  <2>2. PICK msg \in Messages : x'.wire = Append(z.wire, msg) /\ msg.kind = kind /\ msg.seq = None
    BY <2>1
  <2>3. ~Numbered(msg) /\ Faithful(msg) /\ TrueMessage(msg)
    BY <1>3, <2>2 DEF Faithful, Numbered, TrueMessage
  <2>4. msg.kind # "unsubscribed" => Lag(x') = Lag(x)
    BY <1>1, <1>3, <2>1, <2>2 DEF Lag
  <2>5. \A p : Reached(x, p) => Reached(x', p)
    BY <1>1, <1>3, <2>1 DEF Reached
  <2>6. StreamInv' /\ Lags(Up, x', 1) \subseteq Lags(Up, x, 1)
    BY <1>1, <1>3, <2>2, <2>3, <2>4, <2>5, StreamAdded DEF TrueInv
  <2>7. EndInv' /\ (Over => Over')
    BY <1>1, <1>3, <2>1, <2>2, <2>3, EndAnswered DEF TrueInv, e
  <2> QED
    BY <1>1, <2>6, <2>7, BooksSame DEF TrueInv
<1>4. ASSUME x'.wire = y.wire, x'.cmds = y.cmds, x'.ord = y.ord, x'.count = y.count, x'.seq = y.seq,
             x'.live \subseteq y.live, e.op # "unsubscribe", e.op = "get_snapshot" => x'.sub = y.sub
      PROVE  TrueInv'
  <2>1. Thins(x'.wire, x.wire) /\ Keeps(x'.wire, x.wire)
    BY <1>1, <1>4, Typed, SameThins
  <2>2. StreamInv'
    BY <1>1, <1>4, <2>1, StreamKept DEF TrueInv
  <2>3. EndInv' /\ (Over => Over')
    BY <1>1, <1>4, EndAnswered DEF TrueInv, e
  <2>4. Lags(Up, x', 1) \subseteq Lags(Up, x, 1)
    BY <1>1, <1>4, <2>1, Typed, KeptLags, ZenonT(60) DEF Lag, Up
  <2> QED
    BY <1>1, <2>2, <2>3, <2>4, BooksSame DEF TrueInv
<1>5. CASE x' = Reply(y, "error") /\ e.op = "get_snapshot"
  BY <1>1, <1>3, <1>5
<1>6. CASE x' = ExchangeDoes(y, e)
  <2>1. /\ e.ms \in SUBSET Markets
        /\ e.op \in {"subscribe", "add", "delete", "unsubscribe", "get_snapshot"}
    BY <1>1 DEF Commands, Ops
  <2>2. CASE e.op = "subscribe"
    <3> DEFINE z == [y EXCEPT !.sub = e.ms, !.owed = e.ms, !.live = {}]
    <3>1. /\ z \in Exchanges /\ z.wire = y.wire /\ z.cmds = y.cmds /\ z.ord = y.ord
          /\ z.count = y.count /\ z.seq = y.seq /\ z.live \subseteq y.live
      BY <1>1, <2>1 DEF Exchanges
    <3>2. x' = Reply(z, "subscribed")
      BY <1>6, <2>2 DEF ExchangeDoes
    <3> HIDE DEF z
    <3> QED
      BY <1>3, <2>2, <3>1, <3>2
  <2>3. CASE e.op = "unsubscribe"
    <3> DEFINE z == [y EXCEPT !.sub = {}, !.owed = {}, !.live = {}, !.seq = 0]
    <3>1. /\ z \in Exchanges /\ z.wire = y.wire /\ z.cmds = y.cmds /\ z.ord = y.ord
          /\ z.count = y.count /\ z.live \subseteq y.live /\ z.sub = {}
      BY <1>1, <2>1 DEF Exchanges
    <3>2. x' = Reply(z, "unsubscribed")
      BY <1>6, <2>3 DEF ExchangeDoes
    <3> HIDE DEF z
    <3> QED
      BY <1>3, <2>3, <3>1, <3>2
  <2>4. CASE e.op \in {"add", "delete", "get_snapshot"}
    <3>1. /\ x'.wire = y.wire /\ x'.cmds = y.cmds /\ x'.ord = y.ord /\ x'.count = y.count
          /\ x'.seq = y.seq /\ x'.live \subseteq y.live /\ (e.op = "get_snapshot" => x'.sub = y.sub)
      BY <1>1, <1>6, <2>4 DEF ExchangeDoes, Exchanges
    <3> QED
      BY <1>4, <2>4, <3>1
  <2> QED
    BY <2>1, <2>2, <2>3, <2>4
<1> QED
  BY <1>2, <1>5, <1>6

-----------------------------------------------------------------------------
(* Frames, and the stream. *)

(* Frames are taken off or lost, and the position may move to the first of them. *)
LEMMA StreamTaken ==
  ASSUME Inv, Inv', StreamInv, UNCHANGED conn, x.wire # << >>, Thins(x'.wire, x.wire),
         Up => x'.ord = x.ord /\ x'.seq = x.seq /\ x'.live = x.live /\ x'.count = x.count,
         Position' = Position \/ (Numbered(x.wire[1]) /\ Position' = Place(x.wire[1])),
         g'.ord \in Nat,
         held' # << >> => /\ Len(held') = 1 /\ Numbered(held'[1]) /\ Faithful(held'[1])
                          /\ TrueMessage(held'[1])
  PROVE  StreamInv'
<1>1. /\ Up' = Up /\ x.wire \in Seq(Messages) /\ x'.wire \in Seq(Messages) /\ 1 \in 1 .. Len(x.wire)
  BY Typed, TakenOff DEF Up, Inv, SoundExchange, Exchanges
<1>2. Linked(x'.wire, Position')
  BY <1>1, LinkedThins, LinkedMove DEF StreamInv
<1>3. \A p : Up /\ Reached(x, p) => Reached(x', p)
  BY DEF Reached
<1>4. ASSUME Up PROVE Past(x', Position')
  <2>1. PICK f : Picks(f, x'.wire, x.wire)
    BY DEF Thins
  <2>2. \A i \in 1 .. Len(x'.wire) : f[i] \in 1 .. Len(x.wire) /\ x'.wire[i] = x.wire[f[i]]
    BY <2>1 DEF Picks
  <2>3. Past(x, Position)
    BY <1>4 DEF StreamInv
  <2>4. Reached(x, Position')
    BY <1>1, <2>3 DEF Past, Reached, Place
  <2> QED
    BY <1>3, <1>4, <2>2, <2>3, <2>4 DEF Past
<1>5. Even(Up, x')
  BY <1>1, PickedLags DEF StreamInv, Lag, Up
<1> QED
  BY <1>1, <1>2, <1>4, <1>5 DEF StreamInv

(* What the first frame tells of the lags of those behind it. *)
LEMMA NextLags ==
  ASSUME Inv, Inv', StreamInv, UNCHANGED conn, x.wire # << >>, x.wire[1].kind # "unsubscribed",
         x'.wire = Tail(x.wire) \/ (~Up /\ x'.wire = << >>), Up => Lag(x') = Lag(x)
  PROVE  /\ Lags(Up, x', 1) \subseteq Lags(Up, x, 1)
         /\ Numbered(x.wire[1]) =>
              /\ Lag(x.wire[1]) \in Lags(Up, x, 1)
              /\ \A l \in Lags(Up, x', 1) : l = Lag(x.wire[1])
<1>1. /\ x.wire \in Seq(Messages) /\ x'.wire \in Seq(Messages) /\ 1 \in 1 .. Len(x.wire)
  BY Typed, TakenOff DEF Inv, SoundExchange, Exchanges
<1>2. Lags(Up, x', 1) \subseteq Lags(Up, x, 1)
  <2>1. CASE x'.wire = Tail(x.wire)
    BY <1>1, <2>1, TailKeeps, KeptLags DEF Up
  <2>2. CASE ~Up /\ x'.wire = << >>
    <3>1. Len(x'.wire) = 0
      BY <2>2, EmptySeq
    <3> QED
      BY <2>2, <3>1 DEF Lags
  <2> QED
    BY <2>1, <2>2
<1>3. ASSUME Numbered(x.wire[1])
      PROVE  /\ Lag(x.wire[1]) \in Lags(Up, x, 1)
             /\ \A l \in Lags(Up, x', 1) : l = Lag(x.wire[1])
  <2>1. Unbroken(x.wire, 1, 1)
    <3>1. \A k \in 1 .. 1 : k = 1
      OBVIOUS
    <3> QED
      BY <3>1 DEF Unbroken
  <2>2. Lag(x.wire[1]) \in Lags(Up, x, 1)
    BY <1>1, <1>3, <2>1 DEF Lags
  <2>3. \A l \in Lags(Up, x, 1) : l = Lag(x.wire[1])
    BY <1>1, <1>3 DEF StreamInv, Even
  <2> QED
    BY <1>2, <2>2, <2>3
<1> QED
  BY <1>2, <1>3

-----------------------------------------------------------------------------
(* The baseline. *)

LEMMA DuplicateOrTaken ==
  ASSUME NEW b \in Nat \cup {None}, NEW s \in Nat
  PROVE  /\ Observed(b, s) = IF b # None /\ s <= b THEN b ELSE s
         /\ Verdict(b, s) = "gap" <=> b # None /\ s > b + 1
         /\ Verdict(b, s) = "duplicate" <=> b # None /\ s <= b
<1>1. s # None
  BY DEF None
<1>2. CASE b = None
  <2>1. Verdict(b, s) = "first"
    BY <1>1, <1>2 DEF Verdict
  <2> QED
    BY <1>1, <1>2, <2>1 DEF Observed
<1>3. CASE b # None /\ s = b + 1
  <2>1. Verdict(b, s) = "ok" /\ ~(s <= b) /\ ~(s > b + 1)
    BY <1>1, <1>3 DEF Verdict
  <2> QED
    BY <1>1, <1>3, <2>1 DEF Observed
<1>4. CASE b # None /\ s > b + 1
  <2>1. s # b + 1 /\ ~(s <= b)
    BY <1>4
  <2>2. Verdict(b, s) = "gap"
    BY <1>1, <1>4, <2>1 DEF Verdict
  <2> QED
    BY <1>1, <1>4, <2>1, <2>2 DEF Observed
<1>5. CASE b # None /\ s <= b
  <2>1. s # b + 1 /\ ~(s > b + 1)
    BY <1>5
  <2>2. Verdict(b, s) = "duplicate"
    BY <1>1, <1>5, <2>1 DEF Verdict
  <2> QED
    BY <1>1, <1>5, <2>1, <2>2 DEF Observed
<1>6. b = None \/ s = b + 1 \/ s > b + 1 \/ s <= b
  OBVIOUS
<1> QED
  BY <1>2, <1>3, <1>4, <1>5, <1>6

(* A new message moves the baseline to its own number; a replay never moves it
   ahead of the position. *)
LEMMA BaseMoves ==
  ASSUME NEW a \in Nat \cup {None}, NEW msg \in Messages, Numbered(msg), NEW p \in Nat,
         a # None => Lag(msg) <= p - a
  PROVE  /\ Observed(a, msg.seq) \in Nat
         /\ msg.ord > p => Observed(a, msg.seq) = msg.seq
         /\ Lag(msg) <= (IF msg.ord > p THEN msg.ord ELSE p) - Observed(a, msg.seq)
<1>1. msg.seq \in Nat /\ msg.ord \in Nat /\ Lag(msg) = msg.ord - msg.seq
  BY DEF Messages, Numbered, Lag
<1> DEFINE o == msg.ord
           s == msg.seq
           b == Observed(a, s)
<1>2. b = IF a # None /\ s <= a THEN a ELSE s
  BY <1>1, DuplicateOrTaken
<1>3. Lag(msg) = o - s
  BY <1>1
<1>4. a # None => o - s <= p - a
  BY <1>3
<1> HIDE DEF o, s, b
<1>5. o \in Nat /\ s \in Nat
  BY <1>1 DEF o, s
<1>6. /\ b \in Nat
      /\ o > p => b = s
      /\ o - s <= (IF o > p THEN o ELSE p) - b
  BY <1>2, <1>4, <1>5 DEF None
<1> QED
  BY <1>3, <1>6 DEF o, s, b

(* A tracker that is level tells a new message's hole by a gap, and a replay by a
   duplicate. *)
LEMMA LevelTells ==
  ASSUME NEW a \in Nat, NEW msg \in Messages, Numbered(msg), NEW p \in Nat, Lag(msg) = p - a
  PROVE  /\ msg.ord > p + 1 => Verdict(a, msg.seq) = "gap"
         /\ msg.ord <= p => Verdict(a, msg.seq) = "duplicate"
<1>1. msg.seq \in Nat /\ msg.ord \in Nat /\ Lag(msg) = msg.ord - msg.seq
  BY DEF Messages, Numbered, Lag
<1> DEFINE o == msg.ord
           s == msg.seq
<1>2. o - s = p - a
  BY <1>1
<1>3. o \in Nat /\ s \in Nat /\ a \in Nat /\ a # None
  BY <1>1 DEF None
<1>4. Verdict(a, s) = "gap" <=> a # None /\ s > a + 1
  BY <1>3, DuplicateOrTaken
<1>5. Verdict(a, s) = "duplicate" <=> a # None /\ s <= a
  BY <1>3, DuplicateOrTaken
<1> HIDE DEF o, s
<1>6. (o > p + 1 => s > a + 1) /\ (o <= p => s <= a)
  BY <1>2, <1>3
<1> QED
  BY <1>3, <1>4, <1>5, <1>6 DEF o, s

-----------------------------------------------------------------------------
(* The books. *)

(* A book that is fresh after a message was interpreted: rebuilt from its snapshot,
   or carried on from a fresh one by its delta. *)
LEMMA DispatchBooks ==
  ASSUME NEW t, NEW msg \in Messages, FreshOnly(t, Carried), applied \in SUBSET Markets,
         NEW m \in Markets, Fresh(Dispatched(t, msg).book[m])
  PROVE  \/ /\ msg.kind = "snapshot" /\ msg.m = m /\ msg.n # None
            /\ Dispatched(t, msg).book[m].n = msg.n
         \/ /\ Fresh(t.book[m]) /\ ~(msg.kind = "snapshot" /\ msg.m = m)
            /\ Dispatched(t, msg).book[m].n =
                 t.book[m].n + IF msg.kind = "delta" /\ msg.m = m THEN msg.n ELSE 0
<1> DEFINE d == Dispatched(t, msg)
<1>1. /\ t \in Clients /\ t.book \in [Markets -> Books] /\ t.book[m].n \in Nat
      /\ Fresh(t.book[m]) => sid /\ m \in applied
  BY DEF FreshOnly, Clients, Books, Carried
<1>2. ASSUME d.book[m] = t.book[m], Fresh(t.book[m]), ~(msg.kind = "snapshot" /\ msg.m = m),
             ~(msg.kind = "delta" /\ msg.m = m)
      PROVE  /\ Fresh(t.book[m]) /\ ~(msg.kind = "snapshot" /\ msg.m = m)
             /\ d.book[m].n = t.book[m].n + IF msg.kind = "delta" /\ msg.m = m THEN msg.n ELSE 0
  BY <1>1, <1>2
<1>3. CASE msg.kind = "snapshot"
  <2>1. d = OnSnapshot(t, msg)
    BY <1>3 DEF Dispatched
  <2> DEFINE u == FinishResync(t, msg.m)
  <2>2. u \in Clients /\ u.book = t.book
    BY <1>1 DEF FinishResync, Clients
  <2> HIDE DEF u
  <2>3. CASE ~Touchable(msg.m)
    <3>1. d = u
      BY <2>1, <2>3 DEF OnSnapshot, u
    <3>2. Fresh(t.book[m]) /\ msg.m # m
      BY <1>1, <2>2, <2>3, <3>1 DEF Touchable
    <3> QED
      BY <1>2, <1>3, <2>2, <3>1, <3>2
  <2>4. CASE Touchable(msg.m)
    <3>1. msg.m \in Markets
      BY <2>4 DEF Touchable
    <3> DEFINE w == IF msg.n = None THEN [held |-> TRUE, stale |-> TRUE, n |-> u.book[msg.m].n]
                                    ELSE [held |-> TRUE, stale |-> FALSE, n |-> msg.n]
    <3>2. d = [u EXCEPT !.book[msg.m] = w]
      BY <2>1, <2>4 DEF OnSnapshot, u
    <3>3. d.book[m] = IF m = msg.m THEN w ELSE t.book[m]
      <4> HIDE DEF w
      <4> QED
        BY <2>2, <3>1, <3>2 DEF Clients
    <3>4. CASE m = msg.m
      <4>1. Fresh(w)
        BY <3>3, <3>4
      <4>2. msg.n # None /\ w.n = msg.n
        BY <4>1 DEF Fresh
      <4> HIDE DEF w
      <4> QED
        BY <1>3, <3>3, <3>4, <4>2
    <3>5. CASE m # msg.m
      BY <1>2, <1>3, <3>3, <3>5
    <3> QED
      BY <3>4, <3>5
  <2> QED
    BY <2>3, <2>4
<1>4. CASE msg.kind = "delta"
  <2>1. d = OnDelta(t, msg)
    BY <1>4 DEF Dispatched
  <2>2. CASE ~Applies(t, msg)
    <3>1. d = t
      BY <2>1, <2>2 DEF OnDelta
    <3>2. msg.m # m
      BY <1>1, <1>4, <2>2, <3>1 DEF Applies, Touchable
    <3> QED
      BY <1>2, <1>4, <3>1, <3>2
  <2>3. CASE Applies(t, msg) /\ Breaks(t, msg)
    <3>1. msg.m \in Markets
      BY <2>3 DEF Applies, Touchable
    <3>2. d.book = [t.book EXCEPT ![msg.m] = [@ EXCEPT !.stale = TRUE]]
      BY <1>1, <2>1, <2>3 DEF OnDelta, Requested, Clients
    <3>3. msg.m # m
      BY <1>1, <3>1, <3>2 DEF Books, Fresh
    <3>4. d.book[m] = t.book[m]
      BY <1>1, <3>1, <3>2, <3>3
    <3> QED
      BY <1>2, <1>4, <3>3, <3>4
  <2>4. CASE Applies(t, msg) /\ ~Breaks(t, msg)
    <3>1. msg.m \in Markets
      BY <2>4 DEF Applies, Touchable
    <3> DEFINE n == t.book[msg.m].n + msg.n
    <3>2. d = [t EXCEPT !.book[msg.m].n = n]
      BY <2>1, <2>4 DEF OnDelta
    <3>3. CASE msg.m = m
      <4>1. d.book[m].n = n /\ Fresh(t.book[m])
        <5>1. Fresh(t.book[m])
          BY <2>4, <3>3 DEF Applies
        <5> HIDE DEF n
        <5> QED
          BY <1>1, <3>1, <3>2, <3>3, <5>1 DEF Clients, Books
      <4> QED
        BY <1>4, <3>3, <4>1
    <3>4. CASE msg.m # m
      <4>1. d.book[m] = t.book[m]
        BY <1>1, <3>1, <3>2, <3>4 DEF Clients
      <4> QED
        BY <1>2, <1>4, <3>4, <4>1
    <3> QED
      BY <3>3, <3>4
  <2> QED
    BY <2>2, <2>3, <2>4
<1>5. CASE msg.kind \notin {"snapshot", "delta"}
  <2>1. d.book = t.book
    BY <1>1, <1>5 DEF Dispatched, Clients
  <2> QED
    BY <1>2, <1>5, <2>1
<1> QED
  BY <1>3, <1>4, <1>5

LEMMA DispatchBase ==
  ASSUME NEW t \in Clients, NEW msg \in Messages
  PROVE  /\ Dispatched(t, msg).base = IF msg.kind = "unsubscribed" THEN None ELSE t.base
         /\ msg.kind \notin {"snapshot", "delta"} => Dispatched(t, msg).book = t.book
<1>1. CASE msg.kind = "snapshot"
  BY <1>1 DEF Dispatched, OnSnapshot, FinishResync, Clients
<1>2. CASE msg.kind = "delta"
  BY <1>2 DEF Dispatched, OnDelta, Requested, Clients
<1>3. CASE msg.kind \notin {"snapshot", "delta"}
  BY <1>3 DEF Dispatched, Clients
<1> QED
  BY <1>1, <1>2, <1>3

-----------------------------------------------------------------------------
(* Frames, and the books. *)

(* After a frame was taken off, and perhaps a snapshot asked for. *)
LEMMA AskedShape ==
  ASSUME Inv, Inv', x.wire # << >>, UNCHANGED conn, NEW y \in Exchanges, y = [x EXCEPT !.wire = Tail(@)],
         x' = y \/ \E ms \in SUBSET Markets : x' = Request(y, ms)
  PROVE  /\ x'.seq = x.seq /\ x'.ord = x.ord /\ x'.live = x.live /\ x'.count = x.count
         /\ x'.sub = x.sub /\ Thins(x'.wire, x.wire)
         /\ x'.wire = Tail(x.wire) \/ (~Up /\ x'.wire = << >>)
         /\ Up => x'.cmds = x.cmds \/ \E e \in Commands : e.op = "get_snapshot" /\ x'.cmds = Append(x.cmds, e)
<1>1. /\ y.wire = Tail(x.wire) /\ y.cmds = x.cmds /\ y.count = x.count /\ y.seq = x.seq
      /\ y.ord = x.ord /\ y.live = x.live /\ y.sub = x.sub /\ Thins(y.wire, x.wire)
  BY TakenOff
<1>2. CASE x' = y
  BY <1>1, <1>2
<1>3. CASE \E ms \in SUBSET Markets : x' = Request(y, ms)
  <2>1. PICK ms \in SUBSET Markets : x' = Request(y, ms)
    BY <1>3
  <2>2. /\ x'.seq = y.seq /\ x'.ord = y.ord /\ x'.live = y.live /\ x'.count = y.count /\ x'.sub = y.sub
        /\ conn = "up" => x'.wire = y.wire
        /\ conn # "up" => x'.wire = << >> /\ x'.cmds = y.cmds
        /\ conn = "up" => \E e \in Commands : e.op = "get_snapshot" /\ x'.cmds = Append(y.cmds, e)
    BY <2>1, RequestShape
  <2>3. Thins(<< >>, x.wire)
    BY Typed, NoneThins
  <2> QED
    BY <1>1, <2>2, <2>3 DEF Up
<1> QED
  BY <1>2, <1>3

LEMMA CheckedBase ==
  ASSUME NEW s \in Clients, NEW msg \in Messages
  PROVE  /\ Checked(s, msg) \in Clients /\ Checked(s, msg).book = s.book
         /\ Checked(s, msg).base = Observed(Baseline(s, msg), msg.seq)
         /\ Baseline(s, msg) \in Nat \cup {None}
<1>1. Baseline(s, msg) \in Nat \cup {None}
  BY DEF Baseline, Clients, None
<1>2. Observed(Baseline(s, msg), msg.seq) \in Nat \cup {None}
  BY <1>1 DEF Observed, Messages
<1> QED
  BY <1>1, <1>2 DEF Checked, Clients

(* After a resync every book on the sid is stale. *)
LEMMA NoneFresh ==
  ASSUME NEW s, NEW again \in BOOLEAN, FreshOnly(s, Carried), applied \in SUBSET Markets
  PROVE  LET t == Requested(Resynced(s, again), applied)
         IN t.base = s.base /\ t \in Clients /\ \A m \in Markets : ~Fresh(t.book[m])
<1> DEFINE b == [m \in Markets |-> IF m \in applied THEN Stale(s.book[m]) ELSE s.book[m]]
           r == Resynced(s, again)
           t == Requested(r, applied)
<1>1. s \in Clients /\ s.book \in [Markets -> Books]
  BY DEF FreshOnly, Clients
<1>2. b \in [Markets -> Books]
  BY <1>1 DEF Books, Stale
<1>3. r = [s EXCEPT !.book = b, !.resyncing = s.resyncing /\ ~again,
                    !.awaiting = IF again THEN {} ELSE s.awaiting]
  BY DEF Resynced
<1>4. ASSUME NEW m \in Markets PROVE ~Fresh(b[m])
  BY <1>1 DEF FreshOnly, Carried, Fresh, Stale, Books
<1> HIDE DEF b, r
<1>5. r \in Clients /\ r.book = b /\ r.base = s.base
  BY <1>1, <1>2, <1>3 DEF Clients
<1>6. t \in Clients /\ t.book = b /\ t.base = s.base
  BY <1>5 DEF Requested, Clients
<1> QED
  BY <1>4, <1>6 DEF t, r

(* The history of the latest message handled. *)
LEMMA GhostMoves ==
  ASSUME NEW resets, NEW d, NEW msg \in Messages, g.ord \in Nat
  PROVE  LET h == Ghost(resets, d, msg)
         IN /\ ~(Numbered(msg) /\ msg.ord > g.ord) =>
                 h.ord = g.ord /\ h.truth = g.truth /\ h.covers = g.covers
            /\ Numbered(msg) /\ msg.ord > g.ord =>
                 h.ord = msg.ord /\ h.truth = msg.truth /\ h.covers = msg.covers
<1>1. Numbered(msg) /\ msg.ord > g.ord <=> ~(msg.seq = None \/ Replay(msg))
  BY DEF Numbered, Replay, Messages
<1> QED
  BY <1>1 DEF Ghost

(* A fresh book that is not tainted was not before, or its snapshot came; no hole
   was hidden from it and no replayed snapshot made it up. *)
LEMMA GhostTaints ==
  ASSUME NEW resets, NEW d, NEW msg \in Messages, g.ord \in Nat, NEW m \in Markets,
         Fresh(d.book[m]), m \notin Ghost(resets, d, msg).tainted
  PROVE  /\ m \in g.tainted => msg.kind = "snapshot" /\ msg.m = m
         /\ msg.kind = "snapshot" /\ Numbered(msg) /\ (resets \/ msg.m = m) => msg.ord > g.ord
         /\ resets /\ Numbered(msg) /\ ~(msg.kind = "snapshot" /\ msg.m = m) => ~(msg.ord > g.ord + 1)
<1> DEFINE freshNow == {k \in Markets : Fresh(d.book[k])}
           hidden == resets /\ Hole(msg)
           healed == IF msg.kind = "snapshot" /\ ~Replay(msg) THEN {msg.m} ELSE {}
           revived == IF msg.kind # "snapshot" \/ ~Replay(msg) THEN {}
                      ELSE IF resets THEN freshNow ELSE {msg.m}
           outrun == IF hidden THEN freshNow \ healed ELSE {}
<1>1. m \notin (((g.tainted \ healed) \cup revived) \cap freshNow) \cup outrun
  BY DEF Ghost
<1>2. m \in freshNow
  OBVIOUS
<1>3. m \notin revived /\ m \notin outrun /\ (m \in g.tainted => m \in healed)
  BY <1>1, <1>2
<1>4. m \in g.tainted => msg.kind = "snapshot" /\ msg.m = m
  BY <1>3
<1>5. msg.kind = "snapshot" /\ (resets \/ msg.m = m) => ~Replay(msg)
  BY <1>2, <1>3
<1>6. resets /\ ~(msg.kind = "snapshot" /\ msg.m = m) => ~Hole(msg)
  BY <1>2, <1>3
<1>7. msg.ord \in Nat
  BY DEF Messages
<1> QED
  BY <1>4, <1>5, <1>6, <1>7 DEF Replay, Hole, Numbered

(* What a frame that is handled at once does to the client and the history. *)
LEMMA DeliverShape ==
  ASSUME Inv, Inv', Deliver
  PROVE  /\ x.wire # << >> /\ x.wire[1] \in Messages /\ held = << >> /\ held' = << >>
         /\ UNCHANGED <<conn, sid, todo, applied>>
         /\ x'.seq = x.seq /\ x'.ord = x.ord /\ x'.live = x.live /\ x'.count = x.count
         /\ x'.sub = x.sub /\ Thins(x'.wire, x.wire)
         /\ x'.wire = Tail(x.wire) \/ (~Up /\ x'.wire = << >>)
         /\ Up => x'.cmds = x.cmds \/ \E e \in Commands : e.op = "get_snapshot" /\ x'.cmds = Append(x.cmds, e)
         /\ g' = Ghost(Resets(c, x.wire[1]), c', x.wire[1])
         /\ \E t \in Clients :
              /\ c' = Dispatched(t, x.wire[1])
              /\ FreshOnly(t, Carried)
              /\ t.base = Observed(Baseline(c, x.wire[1]), x.wire[1].seq)
              /\ IF Faulted(c, x.wire[1]) THEN \A m \in Markets : ~Fresh(t.book[m])
                 ELSE t.book = c.book
<1> DEFINE msg == x.wire[1]
           y == [x EXCEPT !.wire = Tail(@)]
           s == Checked(c, msg)
           t == IF Faulted(c, msg) THEN Requested(Resynced(s, Again(c, msg)), applied) ELSE s
<1>1. x.wire # << >> /\ held = << >> /\ held' = held /\ UNCHANGED <<conn, sid, todo, applied>>
  BY DEF Deliver, Handling, subs
<1>2. Head(x.wire) = msg /\ msg \in Messages /\ y \in Exchanges
  BY <1>1, TakenOff
<1>3. /\ c' = Dispatched(t, msg) /\ x' = DispatchSends(y, t, msg)
      /\ g' = Ghost(Resets(c, msg), c', msg)
  BY <1>2 DEF Deliver
<1>4. applied \in SUBSET Markets /\ FreshOnly(c, Carried) /\ c \in Clients
  BY Typed DEF Inv, FreshOnly
<1>5. Again(c, msg) \in BOOLEAN
  BY DEF Again
<1>6. FreshOnly(s, Carried) /\ s \in Clients /\ s.book = c.book
      /\ s.base = Observed(Baseline(c, msg), msg.seq)
  BY <1>2, <1>4, CheckedKeeps, CheckedBase
<1> HIDE DEF s
<1>7. /\ t \in Clients /\ FreshOnly(t, Carried) /\ t.base = s.base
      /\ IF Faulted(c, msg) THEN \A m \in Markets : ~Fresh(t.book[m]) ELSE t.book = c.book
  <2>1. CASE Faulted(c, msg)
    <3> DEFINE u == Requested(Resynced(s, Again(c, msg)), applied)
    <3>1. u.base = s.base /\ u \in Clients /\ \A m \in Markets : ~Fresh(u.book[m])
      BY <1>4, <1>5, <1>6, NoneFresh
    <3>2. t = u
      BY <2>1
    <3> HIDE DEF t, u
    <3> QED
      BY <2>1, <3>1, <3>2 DEF FreshOnly
  <2>2. CASE ~Faulted(c, msg)
    <3>1. t = s
      BY <2>2
    <3> HIDE DEF t
    <3> QED
      BY <1>6, <2>2, <3>1
  <2> QED
    BY <2>1, <2>2
<1> HIDE DEF t
<1>8. x' = y \/ \E ms \in SUBSET Markets : x' = Request(y, ms)
  BY <1>2, <1>3, <1>4, AsksFor
<1>9. /\ x'.seq = x.seq /\ x'.ord = x.ord /\ x'.live = x.live /\ x'.count = x.count
      /\ x'.sub = x.sub /\ Thins(x'.wire, x.wire)
      /\ x'.wire = Tail(x.wire) \/ (~Up /\ x'.wire = << >>)
      /\ Up => x'.cmds = x.cmds \/ \E e \in Commands : e.op = "get_snapshot" /\ x'.cmds = Append(x.cmds, e)
  BY <1>1, <1>2, <1>8, AskedShape
<1>10. \E u \in Clients :
              /\ c' = Dispatched(u, msg)
              /\ FreshOnly(u, Carried)
              /\ u.base = Observed(Baseline(c, msg), msg.seq)
              /\ IF Faulted(c, msg) THEN \A m \in Markets : ~Fresh(u.book[m]) ELSE u.book = c.book
  BY <1>3, <1>6, <1>7
<1> QED
  BY <1>1, <1>2, <1>3, <1>9, <1>10

LEMMA DeliverPosition ==
  ASSUME Inv, Inv', StreamInv, Deliver
  PROVE  /\ Position = Place(g) /\ Position.ord = g.ord /\ g.ord \in Nat /\ g'.ord \in Nat
         /\ IF Numbered(x.wire[1]) /\ x.wire[1].ord > g.ord
            THEN Position' = Place(x.wire[1]) /\ Position'.ord = x.wire[1].ord
                 /\ g'.truth = x.wire[1].truth /\ g'.covers = x.wire[1].covers
            ELSE Position' = Position
<1>1. /\ held = << >> /\ held' = << >> /\ x.wire[1] \in Messages
      /\ g' = Ghost(Resets(c, x.wire[1]), c', x.wire[1])
  BY DeliverShape
<1>2. Position = Place(g) /\ Position' = Place(g')
  BY <1>1 DEF Position, Place
<1>3. g.ord \in Nat /\ x.wire[1].ord \in Nat
  BY <1>1 DEF StreamInv, Messages
<1>4. /\ ~(Numbered(x.wire[1]) /\ x.wire[1].ord > g.ord) =>
           g'.ord = g.ord /\ g'.truth = g.truth /\ g'.covers = g.covers
      /\ Numbered(x.wire[1]) /\ x.wire[1].ord > g.ord =>
           /\ g'.ord = x.wire[1].ord /\ g'.truth = x.wire[1].truth /\ g'.covers = x.wire[1].covers
  BY <1>1, <1>3, GhostMoves
<1> QED
  BY <1>2, <1>3, <1>4 DEF Place

LEMMA DeliverStream ==
  ASSUME Inv, Inv', TrueInv, Deliver
  PROVE  StreamInv' /\ EndInv' /\ (Over => Over')
<1>1. StreamInv'
  BY DeliverShape, DeliverPosition, StreamTaken DEF TrueInv
<1>2. EndInv' /\ (Over => Over')
  BY DeliverShape, EndThinned DEF TrueInv
<1> QED
  BY <1>1, <1>2

(* The baseline after a numbered frame. *)
LEMMA BaseAfter ==
  ASSUME Inv, Inv', TrueInv, UNCHANGED conn, x.wire # << >>, Faithful(x.wire[1]), Numbered(x.wire[1]),
         x'.wire = Tail(x.wire) \/ (~Up /\ x'.wire = << >>), Up => Lag(x') = Lag(x),
         c'.base = Observed(Baseline(c, x.wire[1]), x.wire[1].seq),
         \/ Position'.ord = IF x.wire[1].ord > Position.ord THEN x.wire[1].ord ELSE Position.ord
         \/ x'.wire = << >> /\ ~Up
  PROVE  NotAhead' /\ (x.wire[1].ord > Position.ord /\ Position'.ord = x.wire[1].ord => Level')
<1> DEFINE msg == x.wire[1]
           a == Baseline(c, msg)
<1>1. /\ msg \in Messages /\ msg.kind # "unsubscribed" /\ Position.ord \in Nat /\ Up' = Up
      /\ a \in Nat \cup {None} /\ msg.ord \in Nat /\ msg.seq \in Nat
  <2>1. msg \in Messages /\ Position.ord \in Nat /\ Up' = Up
    BY TakenOff, PositionTyped DEF TrueInv, Up
  <2>2. msg.kind # "unsubscribed"
    BY DEF Faithful
  <2>3. c \in Clients
    BY DEF Inv, FreshOnly
  <2> QED
    BY <2>1, <2>2, <2>3, CheckedBase DEF Messages, Numbered
<1>2. /\ Lags(Up, x', 1) \subseteq Lags(Up, x, 1)
      /\ Lag(msg) \in Lags(Up, x, 1)
      /\ \A l \in Lags(Up, x', 1) : l = Lag(msg)
  BY <1>1, NextLags DEF TrueInv
<1>3. a # None => Lag(msg) <= Position.ord - a
  <2>1. a # None => a = c.base
    BY DEF Baseline
  <2> QED
    BY <1>2, <2>1 DEF TrueInv, BooksInv, NotAhead
<1>4. /\ c'.base \in Nat
      /\ msg.ord > Position.ord => c'.base = msg.seq
      /\ Lag(msg) <= (IF msg.ord > Position.ord THEN msg.ord ELSE Position.ord) - c'.base
  BY <1>1, <1>3, BaseMoves
<1>5. c'.base # None
  BY <1>4 DEF None
<1>6. NotAhead'
  <2>1. CASE Position'.ord = IF msg.ord > Position.ord THEN msg.ord ELSE Position.ord
    BY <1>1, <1>2, <1>4, <2>1 DEF NotAhead
  <2>2. CASE x'.wire = << >> /\ ~Up
    <3>1. Len(x'.wire) = 0
      BY <2>2, EmptySeq
    <3>2. Lags(Up', x', 1) = {}
      BY <1>1, <2>2, <3>1 DEF Lags
    <3> QED
      BY <3>2 DEF NotAhead
  <2> QED
    BY <2>1, <2>2
<1>7. ASSUME msg.ord > Position.ord, Position'.ord = msg.ord
      PROVE  Level'
  <2>1. c'.base = msg.seq /\ Lag(msg) = Position'.ord - c'.base
    BY <1>1, <1>4, <1>7 DEF Lag
  <2> QED
    BY <1>1, <1>2, <1>5, <2>1 DEF Level
<1> QED
  BY <1>6, <1>7

(* A fresh book that a numbered frame leaves untainted shows what the exchange had:
   the frame was new, and rebuilt the book or came next to the one before. *)
LEMMA DeliverUntainted ==
  ASSUME Inv, Inv', MemberInv, TrueInv, Deliver, Numbered(x.wire[1]),
         NEW m \in Markets, Fresh(c'.book[m]), m \notin g'.tainted
  PROVE  /\ x.wire[1].ord > g.ord
         /\ m \in g'.covers => c'.book[m].n = g'.truth[m]
<1> DEFINE msg == x.wire[1]
<1>1. /\ x.wire # << >> /\ msg \in Messages /\ held = << >> /\ 1 \in 1 .. Len(x.wire)
      /\ x'.wire = Tail(x.wire) \/ (~Up /\ x'.wire = << >>)
      /\ x'.seq = x.seq /\ x'.ord = x.ord /\ UNCHANGED conn
      /\ g' = Ghost(Resets(c, msg), c', msg)
  BY DeliverShape, TakenOff
<1>2. PICK t \in Clients :
              /\ c' = Dispatched(t, msg)
              /\ FreshOnly(t, Carried)
              /\ t.base = Observed(Baseline(c, msg), msg.seq)
              /\ IF Faulted(c, msg) THEN \A k \in Markets : ~Fresh(t.book[k])
                 ELSE t.book = c.book
  BY DeliverShape
<1>3. /\ g.ord \in Nat /\ Position = Place(g) /\ Position.ord = g.ord /\ applied \in SUBSET Markets
      /\ msg.ord > g.ord => g'.truth = msg.truth /\ g'.covers = msg.covers
  BY DeliverPosition, Typed DEF TrueInv
<1>4. /\ m \in g.tainted => msg.kind = "snapshot" /\ msg.m = m
      /\ msg.kind = "snapshot" /\ (Resets(c, msg) \/ msg.m = m) => msg.ord > g.ord
      /\ Resets(c, msg) /\ ~(msg.kind = "snapshot" /\ msg.m = m) => ~(msg.ord > g.ord + 1)
  BY <1>1, <1>3, GhostTaints
<1>5. Faithful(msg) /\ TrueMessage(msg)
  BY <1>1 DEF MemberInv, Replied, TrueInv, StreamInv, Linked
<1>6. CASE msg.kind = "snapshot" /\ msg.m = m /\ msg.n # None /\ c'.book[m].n = msg.n
  <2>1. msg.ord > g.ord
    BY <1>4, <1>6
  <2>2. msg.n = msg.truth[m]
    BY <1>5, <1>6 DEF TrueMessage
  <2> QED
    BY <1>3, <1>6, <2>1, <2>2
<1>7. CASE /\ Fresh(t.book[m]) /\ ~(msg.kind = "snapshot" /\ msg.m = m)
           /\ c'.book[m].n = t.book[m].n + IF msg.kind = "delta" /\ msg.m = m THEN msg.n ELSE 0
  <2>1. ~Faulted(c, msg) /\ Fresh(c.book[m]) /\ t.book = c.book
    BY <1>2, <1>7
  <2>2. m \in Untainted /\ sid /\ m \in applied
    BY <1>4, <1>7, <2>1 DEF Untainted, Inv, FreshOnly, Carried
  <2>3. Level
    <3>1. ~Over
      BY <1>1 DEF Over
    <3> QED
      BY <2>2, <3>1 DEF TrueInv, BooksInv
  <2>4. Lag(msg) \in Lags(Up, x, 1)
    <3>1. msg.kind # "unsubscribed"
      BY <1>5 DEF Faithful
    <3> QED
      BY <1>1, <3>1, NextLags DEF TrueInv, Lag
  <2>5. c.base \in Nat /\ Lag(msg) = g.ord - c.base
    <3>1. c \in Clients
      BY DEF Inv, FreshOnly
    <3> QED
      BY <1>3, <2>3, <2>4, <3>1 DEF Level, Clients
  <2>6. /\ msg.ord > g.ord + 1 => Verdict(c.base, msg.seq) = "gap"
        /\ msg.ord <= g.ord => Verdict(c.base, msg.seq) = "duplicate"
    BY <1>1, <1>3, <2>5, LevelTells
  <2>7. ~Resets(c, msg) => Verdict(c.base, msg.seq) \notin {"gap", "duplicate"}
    BY <2>1, <2>2 DEF Faulted, VerdictOn, Baseline
  <2>8. msg.ord \in Nat
    BY <1>1 DEF Messages
  <2>9. ~(msg.ord > g.ord + 1)
    BY <1>4, <1>7, <2>6, <2>7
  <2>10. ~(msg.ord <= g.ord)
    <3>1. CASE Resets(c, msg)
      <4>1. msg.kind = "snapshot"
        BY <3>1 DEF Resets
      <4> QED
        BY <1>3, <1>4, <2>8, <3>1, <4>1
    <3>2. CASE ~Resets(c, msg)
      BY <2>6, <2>7, <3>2
    <3> QED
      BY <3>1, <3>2
  <2>11. msg.ord = g.ord + 1
    BY <1>3, <2>8, <2>9, <2>10
  <2>12. Follows(msg, Position)
    BY <1>1, <1>3, <2>11 DEF TrueInv, StreamInv, Linked
  <2>13. ASSUME m \in msg.covers
         PROVE  m \in g.covers /\ msg.truth[m] = g.truth[m] + IF msg.kind = "delta" /\ msg.m = m THEN msg.n ELSE 0
    <3>1. m \in Position.covers
          /\ msg.truth[m] = Position.truth[m] + IF msg.kind = "delta" /\ msg.m = m THEN msg.n ELSE 0
      BY <1>7, <2>12, <2>13 DEF Follows
    <3> QED
      BY <1>3, <3>1 DEF Place
  <2>14. m \in g.covers => c.book[m].n = g.truth[m]
    BY <2>2 DEF TrueInv, BooksInv
  <2>15. msg.ord > g.ord
    BY <1>3, <2>11
  <2>16. ASSUME m \in g'.covers PROVE c'.book[m].n = g'.truth[m]
    <3>1. m \in msg.covers /\ g'.truth = msg.truth
      BY <1>3, <2>15, <2>16
    <3>2. c'.book[m].n = c.book[m].n + IF msg.kind = "delta" /\ msg.m = m THEN msg.n ELSE 0
      BY <1>7, <2>1
    <3>3. c.book[m].n = g.truth[m]
      BY <2>13, <2>14, <3>1
    <3> HIDE DEF msg
    <3> QED
      BY <2>13, <3>1, <3>2, <3>3
  <2> QED
    BY <2>15, <2>16
<1>8. \/ /\ msg.kind = "snapshot" /\ msg.m = m /\ msg.n # None /\ c'.book[m].n = msg.n
      \/ /\ Fresh(t.book[m]) /\ ~(msg.kind = "snapshot" /\ msg.m = m)
         /\ c'.book[m].n = t.book[m].n + IF msg.kind = "delta" /\ msg.m = m THEN msg.n ELSE 0
  BY <1>1, <1>2, <1>3, DispatchBooks
<1> QED
  BY <1>6, <1>7, <1>8

LEMMA DeliverTrue ==
  ASSUME Inv, Inv', MemberInv, TrueInv, Deliver
  PROVE  TrueInv'
<1> DEFINE msg == x.wire[1]
<1>1. /\ x.wire # << >> /\ msg \in Messages /\ held = << >> /\ held' = << >>
      /\ 1 \in 1 .. Len(x.wire) /\ UNCHANGED <<conn, sid, todo>>
      /\ x'.wire = Tail(x.wire) \/ (~Up /\ x'.wire = << >>)
      /\ x'.seq = x.seq /\ x'.ord = x.ord
      /\ g' = Ghost(Resets(c, msg), c', msg)
  BY DeliverShape, TakenOff
<1>2. StreamInv' /\ EndInv' /\ (Over => Over')
  BY DeliverStream
<1>3. PICK t \in Clients :
              /\ c' = Dispatched(t, msg)
              /\ FreshOnly(t, Carried)
              /\ t.base = Observed(Baseline(c, msg), msg.seq)
              /\ IF Faulted(c, msg) THEN \A k \in Markets : ~Fresh(t.book[k])
                 ELSE t.book = c.book
  BY DeliverShape
<1>4. /\ g.ord \in Nat /\ Position.ord = g.ord
      /\ IF Numbered(msg) /\ msg.ord > g.ord
         THEN Position'.ord = msg.ord
         ELSE Position' = Position
  BY DeliverPosition DEF TrueInv
<1>5. Faithful(msg)
  BY <1>1 DEF MemberInv, Replied
<1>6. Up => Lag(x') = Lag(x)
  BY <1>1 DEF Lag
<1>7. CASE Numbered(msg)
  <2>1. c'.base = Observed(Baseline(c, msg), msg.seq)
    <3>1. msg.kind # "unsubscribed"
      BY <1>5, <1>7 DEF Faithful
    <3> QED
      BY <1>1, <1>3, <3>1, DispatchBase
  <2>2. NotAhead' /\ (msg.ord > g.ord => Level')
    BY <1>1, <1>4, <1>5, <1>6, <1>7, <2>1, BaseAfter
  <2>3. ASSUME NEW m \in Markets, Fresh(c'.book[m]), m \notin g'.tainted
        PROVE  Level' /\ (m \in g'.covers => c'.book[m].n = g'.truth[m])
    BY <1>7, <2>2, <2>3, DeliverUntainted
  <2>4. BooksInv'
    BY <1>1, <2>2, <2>3 DEF BooksInv, Untainted
  <2> QED
    BY <1>2, <2>4 DEF TrueInv
<1>8. CASE ~Numbered(msg)
  <2>1. /\ msg.seq = None /\ msg.kind \notin {"snapshot", "delta"}
        /\ Baseline(c, msg) = c.base /\ Observed(Baseline(c, msg), msg.seq) = c.base
        /\ ~Faulted(c, msg)
    BY <1>5, <1>8 DEF Faithful, Numbered, Baseline, Resets, Observed, Faulted, VerdictOn, Verdict
  <2>2. /\ c'.book = c.book
        /\ c'.base = IF msg.kind = "unsubscribed" THEN None ELSE c.base
    BY <1>1, <1>3, <2>1, DispatchBase
  <2>3. g'.truth = g.truth /\ g'.covers = g.covers
    BY <1>1, <1>4, <1>8, GhostMoves
  <2>4. ASSUME NEW m \in Markets, Fresh(c'.book[m]), m \notin g'.tainted
        PROVE  m \in Untainted
    <3>1. m \notin g.tainted
      BY <1>1, <1>4, <2>1, <2>4, GhostTaints
    <3> QED
      BY <2>2, <2>4, <3>1 DEF Untainted
  <2>5. Untainted' \subseteq Untainted
    BY <2>4 DEF Untainted
  <2>6. \A m \in Untainted' : m \in g'.covers => c'.book[m].n = g'.truth[m]
    BY <2>2, <2>3, <2>5 DEF TrueInv, BooksInv
  <2>7. CASE msg.kind # "unsubscribed"
    <3>1. Lags(Up, x', 1) \subseteq Lags(Up, x, 1) /\ Up' = Up
      BY <1>1, <1>6, <2>7, NextLags DEF TrueInv, Up
    <3>2. c'.base = c.base /\ Position' = Position
      BY <1>4, <1>8, <2>2, <2>7
    <3>3. NotAhead' /\ (Level => Level')
      BY <3>1, <3>2 DEF TrueInv, BooksInv, NotAhead, Level
    <3>4. BooksInv'
      BY <1>1, <1>2, <2>5, <2>6, <3>3 DEF TrueInv, BooksInv
    <3> QED
      BY <1>2, <3>4 DEF TrueInv
  <2>8. CASE msg.kind = "unsubscribed"
    <3>1. NotAhead'
      BY <2>2, <2>8 DEF NotAhead
    <3>2. ASSUME Untainted # {} PROVE Over'
      <4>1. sid
        BY <3>2 DEF Untainted, Inv, FreshOnly, Carried
      <4>2. /\ \A j \in 1 .. Len(x.wire) : 1 < j => ~Numbered(x.wire[j])
            /\ Up => Ended
        BY <1>1, <2>8, <4>1 DEF TrueInv, EndInv
      <4>3. \A i \in 1 .. Len(x.wire) : ~Numbered(x.wire[i])
        BY <1>1, <1>8, <4>2
      <4>4. Over
        BY <4>2, <4>3 DEF Over
      <4> QED
        BY <1>2, <4>4
    <3>3. BooksInv'
      BY <1>1, <2>5, <2>6, <3>1, <3>2 DEF BooksInv
    <3> QED
      BY <1>2, <3>3 DEF TrueInv
  <2> QED
    BY <2>7, <2>8
<1> QED
  BY <1>7, <1>8

(* A frame that is held while the resync is asked for: no book is fresh meanwhile. *)
LEMMA FaultedTrue ==
  ASSUME Inv, Inv', MemberInv, TrueInv, DeliverFaulted
  PROVE  TrueInv'
<1> DEFINE msg == x.wire[1]
           y == [x EXCEPT !.wire = Tail(@)]
           s == Checked(c, msg)
           r == Resynced(s, Again(c, msg))
<1>1. x.wire # << >> /\ held = << >> /\ UNCHANGED <<conn, sid, todo, applied, g>>
  BY DEF DeliverFaulted, Handling, subs
<1>2. Head(x.wire) = msg /\ msg \in Messages /\ y \in Exchanges /\ 1 \in 1 .. Len(x.wire)
  BY <1>1, TakenOff
<1>3. /\ FaultSends(msg) /\ c' = Requested(r, applied) /\ x' = Request(y, Wanted(r, applied))
      /\ held' = IF conn = "up" THEN <<msg>> ELSE << >>
  BY <1>2 DEF DeliverFaulted
<1>4. Faithful(msg) /\ TrueMessage(msg)
  BY <1>2 DEF MemberInv, Replied, TrueInv, StreamInv, Linked
<1>5. Numbered(msg)
  BY <1>3 DEF FaultSends, Faulted, VerdictOn, Verdict, Numbered
<1>6. applied \in SUBSET Markets /\ FreshOnly(c, Carried) /\ c \in Clients /\ Again(c, msg) \in BOOLEAN
  BY Typed DEF Inv, FreshOnly, Again
<1>7. FreshOnly(s, Carried) /\ s.base = Observed(Baseline(c, msg), msg.seq)
  BY <1>2, <1>6, CheckedKeeps, CheckedBase
<1>8. Wanted(r, applied) \in SUBSET Markets
  BY <1>6 DEF Wanted
<1> HIDE DEF s
<1>9. c'.base = Observed(Baseline(c, msg), msg.seq) /\ \A m \in Markets : ~Fresh(c'.book[m])
  BY <1>3, <1>6, <1>7, NoneFresh
<1> HIDE DEF r
<1>10. /\ x'.seq = x.seq /\ x'.ord = x.ord /\ x'.live = x.live /\ x'.count = x.count
       /\ x'.sub = x.sub /\ Thins(x'.wire, x.wire)
       /\ x'.wire = Tail(x.wire) \/ (~Up /\ x'.wire = << >>)
       /\ Up => x'.cmds = x.cmds \/ \E e \in Commands : e.op = "get_snapshot" /\ x'.cmds = Append(x.cmds, e)
  BY <1>1, <1>2, <1>3, <1>8, AskedShape
<1>11. held' # << >> => Up /\ Len(held') = 1 /\ held'[1] = msg
  BY <1>3 DEF Up
<1>12. Up => held' = <<msg>>
  BY <1>3 DEF Up
<1>13. /\ Position = Place(g) /\ Position.ord = g.ord /\ g.ord \in Nat /\ msg.ord \in Nat
       /\ IF Up /\ msg.ord > g.ord THEN Position' = Place(msg) /\ Position'.ord = msg.ord
                                   ELSE Position' = Position
  <2>1. Position = Place(g) /\ Position.ord = g.ord /\ g.ord \in Nat /\ msg.ord \in Nat
    BY <1>1, <1>2 DEF Position, Place, TrueInv, StreamInv, Messages
  <2>2. Up => held' # << >> /\ held'[1] = msg
    BY <1>11, <1>12, EmptySeq
  <2>3. Position' = IF held' # << >> /\ held'[1].ord > g.ord THEN Place(held'[1]) ELSE Place(g)
    BY <1>1 DEF Position, Place
  <2> QED
    BY <1>11, <2>1, <2>2, <2>3 DEF Place
<1>14. StreamInv'
  BY <1>1, <1>4, <1>5, <1>10, <1>11, <1>13, StreamTaken DEF TrueInv
<1>15. EndInv'
  BY <1>1, <1>10, EndThinned DEF TrueInv
<1>16. NotAhead' /\ (msg.ord > Position.ord /\ Position'.ord = msg.ord => Level')
  <2>1. \/ Position'.ord = IF msg.ord > Position.ord THEN msg.ord ELSE Position.ord
        \/ x'.wire = << >> /\ ~Up
    <3>1. CASE Up
      BY <1>13, <3>1
    <3>2. CASE ~Up
      <4>1. x'.wire = << >>
        BY <1>2, <1>3, <1>8, <3>2, RequestShape DEF Up
      <4> QED
        BY <3>2, <4>1
    <3> QED
      BY <3>1, <3>2
  <2> QED
    BY <1>1, <1>4, <1>5, <1>9, <1>10, <2>1, BaseAfter DEF Lag
<1>17. Untainted' = {}
  BY <1>9 DEF Untainted
<1>18. ASSUME held' # << >>, held'[1].ord > g'.ord PROVE Level'
  BY <1>1, <1>11, <1>13, <1>16, <1>18
<1>19. BooksInv'
  BY <1>9, <1>16, <1>17, <1>18 DEF BooksInv
<1> QED
  BY <1>14, <1>15, <1>19 DEF TrueInv

(* The held frame is interpreted: at most its own snapshot makes a book fresh. *)
LEMMA HeldTrue ==
  ASSUME Inv, Inv', MemberInv, TrueInv, DeliverHeld
  PROVE  TrueInv'
<1> DEFINE msg == held[1]
<1>1. /\ held # << >> /\ held' = << >> /\ msg \in Messages /\ UNCHANGED <<conn, sid, todo, applied>>
      /\ c' = Dispatched(c, msg) /\ x' = DispatchSends(x, c, msg)
      /\ g' = Ghost(FALSE, c', msg)
  BY Held DEF DeliverHeld, subs
<1>2. Numbered(msg) /\ Faithful(msg) /\ TrueMessage(msg) /\ g.ord \in Nat
  BY <1>1 DEF TrueInv, StreamInv
<1>3. /\ \A m \in Markets : ~Fresh(c.book[m])
      /\ msg.ord > g.ord => Level
      /\ NotAhead
  BY <1>1 DEF TrueInv, BooksInv
<1>4. x' = x
  <2>1. ~Breaks(c, msg)
    <3>1. applied \in SUBSET Markets
      BY Typed
    <3> QED
      BY <1>3, <3>1 DEF Breaks, Applies, Touchable
  <2> QED
    BY <1>1, <2>1 DEF DispatchSends
<1>5. c'.base = c.base
  <2>1. c \in Clients /\ msg.kind # "unsubscribed"
    BY <1>2 DEF Inv, FreshOnly, Faithful
  <2> QED
    BY <1>1, <2>1, DispatchBase
<1>6. /\ ~(Numbered(msg) /\ msg.ord > g.ord) =>
           g'.ord = g.ord /\ g'.truth = g.truth /\ g'.covers = g.covers
      /\ Numbered(msg) /\ msg.ord > g.ord =>
           g'.ord = msg.ord /\ g'.truth = msg.truth /\ g'.covers = msg.covers
  BY <1>1, <1>2, GhostMoves, ZenonT(60)
<1>7. Position' = Position /\ Up' = Up
  <2>1. Position' = Place(g')
    BY <1>1 DEF Position, Place
  <2> QED
    BY <1>1, <1>2, <1>6, <2>1 DEF Position, Place, Up
<1>8. g'.ord \in Nat
  BY <1>1, <1>2, <1>6 DEF Messages
<1>9. StreamInv'
  BY <1>1, <1>4, <1>7, <1>8 DEF TrueInv, StreamInv
<1>10. EndInv'
  BY <1>1, <1>4 DEF TrueInv, EndInv, Ended, Up, Sending
<1>11. NotAhead' /\ (Level => Level')
  BY <1>3, <1>4, <1>5, <1>7 DEF NotAhead, Level
<1>12. ASSUME NEW m \in Markets, Fresh(c'.book[m]), m \notin g'.tainted
       PROVE  msg.ord > g.ord /\ c'.book[m].n = g'.truth[m]
  <2>1. FreshOnly(c, Carried) /\ applied \in SUBSET Markets
    BY Typed DEF Inv
  <2>2. msg.kind = "snapshot" /\ msg.m = m /\ msg.n # None /\ c'.book[m].n = msg.n
    BY <1>1, <1>3, <1>12, <2>1, DispatchBooks
  <2>3. msg.ord > g.ord
    BY <1>1, <1>2, <1>12, <2>2, GhostTaints
  <2> QED
    BY <1>2, <1>6, <2>2, <2>3 DEF TrueMessage
<1>13. BooksInv'
  BY <1>1, <1>3, <1>11, <1>12 DEF BooksInv, Untainted
<1> QED
  BY <1>9, <1>10, <1>13 DEF TrueInv

LEMMA SubscribedTrue ==
  ASSUME Inv, Inv', MemberInv, TrueInv, DeliverSubscribed
  PROVE  TrueInv'
<1>1. /\ x.wire # << >> /\ lock = "free" /\ x'.wire = Tail(x.wire) /\ x'.cmds = x.cmds
      /\ x'.seq = x.seq /\ x'.ord = x.ord /\ x'.live = x.live /\ x'.count = x.count /\ x'.sub = x.sub
      /\ Head(x.wire).kind = "subscribed" /\ UNCHANGED <<conn, c, held, g>>
  BY Typed DEF DeliverSubscribed, Handling, Exchanges
<1>2. Thins(x'.wire, x.wire) /\ x.wire[1] = Head(x.wire) /\ 1 \in 1 .. Len(x.wire)
  BY <1>1, TakenOff
<1>3. Position' = Position /\ Up' = Up
  BY <1>1, SamePosition DEF Up
<1>4. StreamInv'
  BY <1>1, <1>2, StreamKept DEF TrueInv
<1>5. /\ Len(x.wire) \in Nat /\ Len(x'.wire) = Len(x.wire) - 1
      /\ \A i \in 1 .. Len(x'.wire) : x'.wire[i] = x.wire[i + 1]
  BY <1>1, Typed, HeadTailProperties, EmptySeq
<1>6. ASSUME NEW i \in 1 .. Len(x'.wire)
      PROVE  i + 1 \in 1 .. Len(x.wire) /\ x'.wire[i].kind # "unsubscribed"
  <2>1. i + 1 \in 1 .. Len(x.wire) /\ 1 < i + 1 /\ x'.wire[i] = x.wire[i + 1]
    BY <1>5
  <2> QED
    BY <1>1, <1>2, <2>1 DEF MemberInv, Replied
<1>7. Up => \A i \in 1 .. Len(x.cmds) : x.cmds[i].op # "unsubscribe"
  BY <1>1, <1>2 DEF MemberInv, CommandsInv, Queued, Subscribed, Renewal, Up
<1>8. EndInv'
  BY <1>1, <1>3, <1>6, <1>7 DEF EndInv
<1>9. Over => Over'
  <2>1. ASSUME Over PROVE ~Up
    <3>1. todo = << >>
      BY <1>1, Typed
    <3> QED
      BY <2>1, <3>1 DEF Over, Ended, Sending
  <2> QED
    BY <1>3, <1>5, <1>6, <2>1 DEF Over
<1>10. Lags(Up, x', 1) \subseteq Lags(Up, x, 1)
  BY <1>1, <1>2, NextLags DEF TrueInv, Lag
<1> QED
  BY <1>1, <1>4, <1>8, <1>9, <1>10, BooksSame DEF TrueInv

-----------------------------------------------------------------------------
(* Groups.  Membership changes only take books away. *)

Fewer(d, s) ==
  /\ d.base = s.base
  /\ \A m \in Markets : Fresh(d.book[m]) => Fresh(s.book[m]) /\ d.book[m].n = s.book[m].n

LEMMA PrunedFewer ==
  ASSUME NEW s \in Clients, NEW keep
  PROVE  Fewer(Pruned(s, keep), s)
<1> DEFINE b == [m \in Markets |-> IF m \in keep THEN s.book[m] ELSE NoBook]
<1>1. Pruned(s, keep) = [s EXCEPT !.book = b]
  BY DEF Pruned
<1>2. \A m \in Markets : Fresh(b[m]) => Fresh(s.book[m]) /\ b[m].n = s.book[m].n
  BY DEF Fresh, NoBook
<1> HIDE DEF b
<1> QED
  BY <1>1, <1>2 DEF Fewer, Clients

LEMMA ReleasedFewer ==
  ASSUME NEW s \in Clients, NEW ms
  PROVE  Fewer(Released(s, ms), s) /\ DOMAIN Released(s, ms) = DOMAIN s
<1> DEFINE b == [m \in Markets |-> CASE m \notin ms           -> s.book[m]
                                     [] m \in ms \cap desired -> Stale(s.book[m])
                                     [] OTHER                 -> NoBook]
<1>1. Released(s, ms) = [s EXCEPT !.book = b]
  BY DEF Released
<1>2. ASSUME NEW m \in Markets, Fresh(b[m]) PROVE Fresh(s.book[m]) /\ b[m].n = s.book[m].n
  <2>1. ~Fresh(NoBook)
    BY DEF NoBook, Fresh
  <2>2. ~Fresh(Stale(s.book[m]))
    BY DEF Stale, Fresh, Clients, Books
  <2>3. CASE m \notin ms
    BY <1>2, <2>3
  <2>4. CASE m \in ms
    BY <1>2, <2>1, <2>2, <2>4
  <2> QED
    BY <2>3, <2>4
<1> HIDE DEF b
<1> QED
  BY <1>1, <1>2 DEF Fewer, Clients

LEMMA RecordFewer ==
  ASSUME Inv, NEW p \in Changes, RecordChange(p)
  PROVE  Fewer(c', c)
<1>1. c \in Clients
  BY DEF Inv, FreshOnly
<1> DEFINE d == AfterChange(p)
<1>2. Fewer(d, c) /\ d \in Clients
  <2>1. Released(c, p.ms) \in Clients
    <3>1. FreshOnly(c, Carried)
      BY DEF Inv
    <3>2. FreshOnly(Released(c, p.ms), Carried \ p.ms)
      BY <3>1, ReleasedKeeps
    <3> QED
      BY <3>2 DEF FreshOnly
  <2>2. CASE p.op \in {"subscribe", "add"}
    BY <1>1, <2>2 DEF AfterChange, Fewer
  <2>3. CASE p.op = "delete"
    BY <1>1, <2>1, <2>3, ReleasedFewer DEF AfterChange
  <2>4. CASE p.op = "unsubscribe"
    <3> DEFINE r == Released(c, p.ms)
    <3>1. d = [r EXCEPT !.resyncing = FALSE, !.awaiting = {}]
      BY <2>4 DEF AfterChange
    <3>2. Fewer(r, c) /\ r \in Clients
      BY <1>1, <2>1, ReleasedFewer
    <3> HIDE DEF r, d
    <3>3. d.base = r.base /\ d.book = r.book /\ d \in Clients
      BY <3>1, <3>2 DEF Clients
    <3> QED
      BY <3>2, <3>3 DEF Fewer
  <2> QED
    BY <2>2, <2>3, <2>4 DEF Changes, Ops
<1> HIDE DEF d
<1>3. c' = d \/ \E keep : c' = Pruned(d, keep)
  BY DEF RecordChange, d
<1>4. \A keep : Fewer(Pruned(d, keep), d)
  BY <1>2, PrunedFewer
<1> QED
  BY <1>2, <1>3, <1>4 DEF Fewer

LEMMA BooksFewer ==
  ASSUME BooksInv, UNCHANGED <<held, g>>, Lags(Up', x', 1) \subseteq Lags(Up, x, 1), Fewer(c', c),
         Untainted' # {} /\ Over => Over'
  PROVE  BooksInv'
<1>1. Position' = Position
  BY SamePosition
<1>2. Untainted' \subseteq Untainted
  BY DEF Untainted, Fewer
<1>3. NotAhead' /\ (Level => Level')
  BY <1>1 DEF BooksInv, NotAhead, Level, Fewer
<1>4. \A m \in Untainted' : m \in g'.covers => c'.book[m].n = g'.truth[m]
  BY <1>2 DEF BooksInv, Untainted, Fewer
<1>5. held' # << >> => \A m \in Markets : ~Fresh(c'.book[m])
  BY DEF BooksInv, Fewer
<1> QED
  BY <1>2, <1>3, <1>4, <1>5 DEF BooksInv

(* While the exchange and the wire stay as they are. *)
LEMMA StreamSame ==
  ASSUME StreamInv, UNCHANGED <<conn, held, g>>, x'.wire = x.wire,
         x'.seq = x.seq /\ x'.ord = x.ord /\ x'.live = x.live /\ x'.count = x.count
  PROVE  StreamInv' /\ Lags(Up', x', 1) \subseteq Lags(Up, x, 1)
<1>1. Position' = Position /\ Up' = Up
  BY SamePosition DEF Up
<1>2. Past(x, Position) => Past(x', Position)
  BY DEF Past, Reached
<1>3. \A i : Lags(Up, x', i) = Lags(Up, x, i)
  BY DEF Lags, Lag
<1>4. Even(Up, x')
  BY <1>3 DEF StreamInv, Even
<1> QED
  BY <1>1, <1>2, <1>3, <1>4 DEF StreamInv

(* No unsubscribe is outstanding while none is being sent. *)
LEMMA NotSending ==
  ASSUME EndInv, Up, ~Sending("unsubscribe")
  PROVE  /\ ~Over
         /\ sid => /\ \A i \in 1 .. Len(x.wire) : x.wire[i].kind # "unsubscribed"
                   /\ \A i \in 1 .. Len(x.cmds) : x.cmds[i].op # "unsubscribe"
BY DEF EndInv, Ended, Over

LEMMA SetGroupTrue ==
  ASSUME TrueInv, SetGroup
  PROVE  TrueInv'
BY DEF SetGroup, TrueInv, StreamInv, EndInv, BooksInv, Ended, Up, Sending, Position, Place, NotAhead,
       Level, Over, Untainted

LEMMA ReconcileTrue ==
  ASSUME Inv, TrueInv, Reconcile
  PROVE  TrueInv'
<1>1. /\ todo = << >> /\ UNCHANGED <<x, conn, sid, held, g>>
      /\ c' = c \/ \E keep : c' = Pruned(c, keep)
  BY Typed DEF Reconcile
<1>2. Fewer(c', c)
  <2>1. c \in Clients
    BY DEF Inv, FreshOnly
  <2>2. Fewer(c, c)
    BY DEF Fewer
  <2> QED
    BY <1>1, <2>1, <2>2, PrunedFewer
<1>3. Up' = Up /\ ~Sending("unsubscribe")
  BY <1>1 DEF Up, Sending
<1>4. StreamInv' /\ Lags(Up', x', 1) \subseteq Lags(Up, x, 1)
  BY <1>1, StreamSame DEF TrueInv
<1>5. Up => ~Over /\ (sid => /\ \A i \in 1 .. Len(x.wire) : x.wire[i].kind # "unsubscribed"
                             /\ \A i \in 1 .. Len(x.cmds) : x.cmds[i].op # "unsubscribe")
  BY <1>3, NotSending DEF TrueInv
<1>6. EndInv'
  BY <1>1, <1>3, <1>5 DEF TrueInv, EndInv
<1>7. Over => Over'
  BY <1>1, <1>3, <1>5 DEF Over
<1>8. BooksInv'
  BY <1>1, <1>2, <1>4, <1>7, BooksFewer DEF TrueInv
<1> QED
  BY <1>4, <1>6, <1>8 DEF TrueInv

LEMMA SendTrue ==
  ASSUME Inv, MemberInv, TrueInv, SendChange
  PROVE  TrueInv'
<1>1. /\ conn = "up" /\ todo # << >> /\ ~todo[1].sent /\ Head(todo) = todo[1]
      /\ todo[1] \in Changes /\ todo[1].op \in Ops /\ todo[1].ms \in SUBSET Markets
      /\ UNCHANGED <<conn, desired, waiting, held, g>>
  BY RestOf DEF SendChange, Changes
<1>2. /\ x'.seq = x.seq /\ x'.ord = x.ord /\ x'.live = x.live /\ x'.count = x.count
      /\ x'.wire = x.wire /\ \E e \in Commands : e.op = todo[1].op /\ x'.cmds = Append(x.cmds, e)
  <2>1. x' = Sent(x, todo[1].op, todo[1].ms) /\ todo[1].op \in Ops \cup {"get_snapshot"}
    BY <1>1 DEF SendChange
  <2> QED
    BY <1>1, <2>1, Typed, SentShape
<1>3. Up /\ Up' = Up /\ ~Sending("unsubscribe")
  BY <1>1 DEF Up, Sending
<1>4. StreamInv' /\ Lags(Up', x', 1) \subseteq Lags(Up, x, 1)
  BY <1>1, <1>2, StreamSame DEF TrueInv
<1>5. ~Over /\ (sid => /\ \A i \in 1 .. Len(x.wire) : x.wire[i].kind # "unsubscribed"
                       /\ \A i \in 1 .. Len(x.cmds) : x.cmds[i].op # "unsubscribe")
  BY <1>3, NotSending DEF TrueInv
<1>6. PICK e \in Commands : e.op = todo[1].op /\ x'.cmds = Append(x.cmds, e)
  BY <1>2
<1>7. /\ Len(x.cmds) \in Nat /\ Len(x'.cmds) = Len(x.cmds) + 1
      /\ \A i \in 1 .. Len(x.cmds) : x'.cmds[i] = x.cmds[i]
      /\ x'.cmds[Len(x.cmds) + 1] = e
      /\ \A i \in 1 .. Len(x'.cmds) : i \in 1 .. Len(x.cmds) \/ i = Len(x.cmds) + 1
  BY <1>6, Typed, AppendPlaces
<1>8. CASE RecordChange(Head(todo))
  <2>1. sid' => sid /\ todo[1].op # "unsubscribe"
    BY <1>1, <1>8 DEF RecordChange
  <2>2. Fewer(c', c)
    BY <1>1, <1>8, RecordFewer
  <2>3. EndInv'
    BY <1>2, <1>5, <1>6, <1>7, <2>1 DEF EndInv
  <2>4. BooksInv'
    BY <1>1, <1>4, <1>5, <2>2, BooksFewer DEF TrueInv
  <2> QED
    BY <1>4, <2>3, <2>4 DEF TrueInv
<1>9. CASE todo' = [todo EXCEPT ![1].sent = TRUE] /\ UNCHANGED <<applied, pending, sid, deferred, lock, c>>
  <2>1. todo' # << >> /\ todo'[1].op = todo[1].op /\ todo'[1].sent
    <3>1. todo \in Seq(Changes) /\ 1 \in 1 .. Len(todo)
      BY <1>1, RestOf, Typed
    <3> DEFINE p == [todo[1] EXCEPT !.sent = TRUE]
    <3>2. p \in Changes /\ p.op = todo[1].op /\ p.sent
      BY <1>1 DEF Changes
    <3>3. todo' = [todo EXCEPT ![1] = p]
      BY <1>9
    <3> HIDE DEF p
    <3>4. Len(todo') = Len(todo) /\ todo'[1] = p
      BY <3>1, <3>2, <3>3
    <3>5. todo' # << >>
      BY <3>1, <3>4, EmptySeq
    <3> QED
      BY <3>2, <3>4, <3>5
  <2>2. ASSUME sid, NEW i \in 1 .. Len(x'.cmds), x'.cmds[i].op = "unsubscribe"
        PROVE  Sending("unsubscribe")' /\ \A j \in 1 .. Len(x'.cmds) : ~(i < j)
    <3>1. i = Len(x.cmds) + 1
      BY <1>5, <1>7, <2>2
    <3>2. todo[1].op = "unsubscribe"
      BY <1>6, <1>7, <2>2, <3>1
    <3>3. \A j \in 1 .. Len(x'.cmds) : ~(i < j)
      BY <1>7, <3>1
    <3> QED
      BY <2>1, <3>2, <3>3 DEF Sending
  <2>3. EndInv'
    BY <1>2, <1>5, <1>9, <2>2 DEF EndInv
  <2>4. Fewer(c', c)
    BY <1>9 DEF Fewer
  <2>5. BooksInv'
    BY <1>1, <1>4, <1>5, <2>4, BooksFewer DEF TrueInv
  <2> QED
    BY <1>4, <2>3, <2>5 DEF TrueInv
<1> QED
  BY <1>8, <1>9 DEF SendChange

(* An unsubscribe that was sent takes every book with it. *)
LEMMA SentTrue ==
  ASSUME Inv, Inv', MemberInv, TrueInv, ChangeSent
  PROVE  TrueInv'
<1>1. /\ conn = "up" /\ todo # << >> /\ RecordChange(Head(todo)) /\ Head(todo) = todo[1]
      /\ todo[1] \in Changes /\ UNCHANGED <<x, conn, held, g>>
  BY RestOf DEF ChangeSent
<1>2. sid' => sid /\ todo[1].op # "unsubscribe"
  BY <1>1 DEF RecordChange
<1>3. Fewer(c', c)
  BY <1>1, RecordFewer
<1>4. StreamInv' /\ Lags(Up', x', 1) \subseteq Lags(Up, x, 1)
  BY <1>1, StreamSame DEF TrueInv
<1>5. sid' => ~Sending("unsubscribe") /\ Up
  BY <1>1, <1>2 DEF Sending, Up
<1>6. sid' => ~Over /\ /\ \A i \in 1 .. Len(x.wire) : x.wire[i].kind # "unsubscribed"
                       /\ \A i \in 1 .. Len(x.cmds) : x.cmds[i].op # "unsubscribe"
  BY <1>2, <1>5, NotSending DEF TrueInv
<1>7. EndInv'
  BY <1>1, <1>6 DEF EndInv
<1>8. Untainted' # {} => ~Over
  <2>1. Untainted' # {} => sid'
    BY DEF Untainted, Inv, FreshOnly, Carried
  <2> QED
    BY <1>6, <2>1
<1>9. BooksInv'
  BY <1>1, <1>3, <1>4, <1>8, BooksFewer DEF TrueInv
<1> QED
  BY <1>4, <1>7, <1>9 DEF TrueInv

-----------------------------------------------------------------------------
(* Connections. *)

LEMMA NothingOnTheWire ==
  ASSUME NEW y, y.wire = << >>, NEW up
  PROVE  Even(up, y) /\ (~up => Lags(up, y, 1) = {})
<1>1. Len(y.wire) = 0
  BY EmptySeq
<1> QED
  BY <1>1 DEF Even, Lags

LEMMA ConnectTrue ==
  ASSUME Inv, MemberInv, TrueInv, Connect
  PROVE  TrueInv'
<1>1. /\ conn = "down" /\ held = << >> /\ held' = << >> /\ ~sid /\ ~sid' /\ c.base = None /\ c' = c
  BY DEF Connect, MemberInv, DownInv
<1>2. /\ x'.wire = << >> /\ x'.ord = 0 /\ x'.live = {} /\ g'.ord = 0
  BY DEF Connect, NoExchange, NoGhost
<1>3. Position'.ord = 0
  BY <1>1, <1>2 DEF Position, Place
<1>4. Len(x'.wire) = 0
  BY <1>2, EmptySeq
<1>5. Past(x', Position')
  BY <1>2, <1>3, <1>4 DEF Past, Reached
<1>6. StreamInv'
  BY <1>1, <1>2, <1>5, NothingLinked, NothingOnTheWire DEF StreamInv
<1>7. EndInv'
  BY <1>1 DEF EndInv
<1>8. \A m \in Markets : ~Fresh(c'.book[m])
  BY <1>1 DEF Inv, FreshOnly, Carried
<1>9. BooksInv'
  BY <1>1, <1>8 DEF BooksInv, NotAhead, Untainted
<1> QED
  BY <1>6, <1>7, <1>9 DEF TrueInv

(* A frame that is held is lost with all that wait behind it. *)
LEMMA LostTrue ==
  ASSUME Inv, Inv', MemberInv, TrueInv, ConnectionLost
  PROVE  TrueInv'
<1>1. /\ Up /\ ~Up' /\ held' = << >> /\ UNCHANGED <<sid, g>>
      /\ x'.wire = x.wire \/ x'.wire = << >>
      /\ held # << >> => x'.wire = << >>
      /\ c' = c \/ \E keep : c' = Pruned(c, keep)
  BY DEF ConnectionLost, Up, NoExchange
<1>2. Fewer(c', c)
  <2>1. c \in Clients
    BY DEF Inv, FreshOnly
  <2>2. Fewer(c, c)
    BY DEF Fewer
  <2> QED
    BY <1>1, <2>1, <2>2, PrunedFewer
<1>3. held = << >> => Position' = Position
  BY <1>1, SamePosition
<1>4. x.wire \in Seq(Messages) /\ x'.wire \in Seq(Messages) /\ Len(<< >>) = 0
  BY Typed, EmptySeq DEF Inv, SoundExchange, Exchanges
<1>5. CASE held # << >>
  <2>1. x'.wire = << >> /\ Len(x'.wire) = 0
    BY <1>1, <1>4, <1>5
  <2>2. StreamInv'
    BY <1>1, <2>1, NothingLinked, NothingOnTheWire DEF TrueInv, StreamInv
  <2>3. EndInv'
    BY <1>1, <2>1 DEF EndInv
  <2>4. \A m \in Markets : ~Fresh(c'.book[m])
    BY <1>2, <1>5 DEF TrueInv, BooksInv, Fewer
  <2>5. NotAhead'
    BY <1>1, <2>1, NothingOnTheWire DEF NotAhead
  <2>6. BooksInv'
    BY <1>1, <2>4, <2>5 DEF BooksInv, Untainted
  <2> QED
    BY <2>2, <2>3, <2>6 DEF TrueInv
<1>6. CASE held = << >> /\ x'.wire = << >>
  <2>1. Len(x'.wire) = 0 /\ Lags(Up', x', 1) = {}
    BY <1>1, <1>4, <1>6, NothingOnTheWire
  <2>2. StreamInv'
    BY <1>1, <1>6, NothingLinked, NothingOnTheWire DEF TrueInv, StreamInv
  <2>3. EndInv'
    BY <1>1, <2>1 DEF EndInv
  <2>4. Over'
    BY <1>1, <2>1 DEF Over
  <2>5. BooksInv'
    BY <1>1, <1>2, <1>6, <2>1, <2>4, BooksFewer DEF TrueInv
  <2> QED
    BY <2>2, <2>3, <2>5 DEF TrueInv
<1>7. CASE held = << >> /\ x'.wire = x.wire
  <2>1. Thins(x'.wire, x.wire) /\ Keeps(x'.wire, x.wire)
    BY <1>4, <1>7, SameThins
  <2>2. Even(Up', x') /\ Lags(Up', x', 1) \subseteq Lags(Up, x, 1)
    BY <1>1, <1>4, <2>1, PickedLags, KeptLags DEF TrueInv, StreamInv, Up
  <2>3. StreamInv'
    BY <1>1, <1>3, <1>7, <2>2 DEF TrueInv, StreamInv
  <2>4. EndInv'
    BY <1>1, <1>7 DEF TrueInv, EndInv
  <2>5. Over => Over'
    BY <1>1, <1>7 DEF Over
  <2>6. BooksInv'
    BY <1>1, <1>2, <1>7, <2>2, <2>5, BooksFewer DEF TrueInv
  <2> QED
    BY <2>3, <2>4, <2>6 DEF TrueInv
<1> QED
  BY <1>1, <1>5, <1>6, <1>7

LEMMA EndTrue ==
  ASSUME Inv, Inv', MemberInv, TrueInv, EndConnection
  PROVE  TrueInv'
<1>1. /\ ~Up' /\ held = << >> /\ held' = << >> /\ ~sid' /\ c'.base = None /\ g' = g
      /\ x'.wire = << >>
  BY DEF EndConnection, MemberInv, Up, NoClient, NoExchange
<1>2. StreamInv'
  BY <1>1, NothingLinked, NothingOnTheWire DEF TrueInv, StreamInv
<1>3. EndInv'
  BY <1>1 DEF EndInv
<1>4. \A m \in Markets : ~Fresh(c'.book[m])
  BY <1>1 DEF Inv, FreshOnly, Carried
<1>5. BooksInv'
  BY <1>1, <1>4 DEF BooksInv, NotAhead, Untainted
<1> QED
  BY <1>2, <1>3, <1>5 DEF TrueInv

LEMMA TrueInit == Init => TrueInv
<1> SUFFICES ASSUME Init PROVE TrueInv
  OBVIOUS
<1>1. x.wire = << >> /\ c.base = None /\ held = << >> /\ g.ord = 0 /\ ~sid /\ ~Up
  BY DEF Init, NoExchange, NoClient, NoGhost, Up
<1>2. StreamInv
  BY <1>1, NothingLinked, NothingOnTheWire DEF StreamInv
<1>3. \A m \in Markets : ~Fresh(c.book[m])
  BY DEF Init, NoClient, NoBook, Fresh
<1>4. BooksInv
  BY <1>1, <1>3 DEF BooksInv, NotAhead, Untainted
<1> QED
  BY <1>1, <1>2, <1>4 DEF TrueInv, EndInv

LEMMA TrueNext == Inv /\ Inv' /\ MemberInv /\ TrueInv /\ [Next]_vars => TrueInv'
<1> SUFFICES ASSUME Inv, Inv', MemberInv, TrueInv, [Next]_vars PROVE TrueInv'
  OBVIOUS
<1>1. CASE Exchange
  BY <1>1, TradeTrue, SnapshotTrue, AnswersTrue, LoseTrue, ReplayTrue DEF Exchange
<1>2. CASE Frames
  BY <1>2, DeliverTrue, FaultedTrue, HeldTrue, SubscribedTrue DEF Frames
<1>3. CASE Groups
  BY <1>3, SetGroupTrue, ReconcileTrue, SendTrue, SentTrue DEF Groups
<1>4. CASE Connect \/ ConnectionLost \/ EndConnection
  BY <1>4, ConnectTrue, LostTrue, EndTrue
<1>5. CASE UNCHANGED vars
  BY <1>5 DEF vars, subs, TrueInv, StreamInv, EndInv, BooksInv, Ended, Up, Sending, Position, Place,
              NotAhead, Level, Over, Untainted
<1> QED
  BY <1>1, <1>2, <1>3, <1>4, <1>5 DEF Next

(* _on_frame, _on_gap, _on_duplicate, _on_snapshot and _on_delta: for every set of
   markets and schedule of lost, replayed and crossed messages, refusals, membership
   changes, suspended sends and lost connections, a fresh book of a live market shows
   what the exchange had when it sent the latest numbered message handled, but for
   the books a baseline reset or a replayed snapshot tainted. *)
THEOREM FreshBooksAlwaysTrue == Spec => []FreshBooksTrue
<1>1. Inv /\ TrueInv => FreshBooksTrue
  <2> SUFFICES ASSUME Inv, TrueInv,
                      NEW m \in (applied \cap g.covers) \ g.tainted, Fresh(c.book[m])
               PROVE  c.book[m].n = g.truth[m]
    BY DEF FreshBooksTrue
  <2>1. m \in Markets
    BY Typed
  <2> QED
    BY <2>1 DEF TrueInv, BooksInv, Untainted
<1> QED
  BY <1>1, InvAlways, MemberAlways, InvInit, InvNext, TrueInit, TrueNext, PTL DEF Spec
=============================================================================
