-------------------------------- MODULE Hub ---------------------------------
(***************************************************************************)
(* The live API on the consumer's side of the bus: LiveHub (src/tape/api/  *)
(* hub.py) turns what a bus message did to the copies into messages for    *)
(* the sessions that follow a market, and ClientSession (session.py) queues*)
(* them, resynchronizes a client that lags, and closes one that lags too   *)
(* often or breaks the limits.  LiveBus supplies the recorder, the bus and *)
(* the copies.                                                             *)
(***************************************************************************)
EXTENDS LiveBus, SequencesExt

CONSTANTS
  Clients,     \* connections of viewers, one after the other under one name
  MaxClients,  \* serve.max_clients
  MaxTickers,  \* serve.max_tickers_per_client
  QueueMax,    \* serve.client_queue_max
  LagLimit,    \* lags within LAG_WINDOW_S that close a connection
  MaxAsks      \* bound: messages of the clients and connections, in all

ASSUME HubAssumption ==
  /\ IsFiniteSet(Clients)
  /\ MaxClients \in Nat \ {0} /\ MaxTickers \in Nat \ {0} /\ QueueMax \in Nat \ {0}
  /\ LagLimit \in Nat \ {0} /\ MaxAsks \in Nat
  /\ 2 * Cardinality(Markets) + 2 <= MaxTries  \* what HubInit has published

VARIABLES
  listed,     \* MarketDirectory._entries
  sessions,   \* the sessions, attached or not
  followers,  \* LiveHub._followers
  asks        \* counts against MaxAsks

hubVars == <<listed, sessions, followers, asks>>
allVars == <<vars, hubVars>>

-----------------------------------------------------------------------------
(* Messages to a client.  kind and the fields it uses: "subscribed": on, new;
   "snapshot": m, copy; "delta": m, d; "stale" and "fresh" (a book message) and "resync":
   m; "other" (hello, error, trade, ticker): none.  reply: an offer's own, which a lag
   keeps.  new is history: the markets of a reply that the session did not follow
   before. *)
Nobody == CHOOSE m \in Markets : TRUE

Line(kind, m) ==
  [kind |-> kind, m |-> m, copy |-> NoCopy, d |-> NoDelta, on |-> {}, new |-> {},
   reply |-> FALSE]

Subscribed(on, new) ==
  [Line("subscribed", Nobody) EXCEPT !.on = on, !.new = new, !.reply = TRUE]
Hello == Line("other", Nobody)
ErrorLine == [Line("other", Nobody) EXCEPT !.reply = TRUE]

(* snapshot: nothing while no copy is held. *)
Image(m, copies) ==
  IF copies[m].st = "unknown" THEN << >>
  ELSE <<[Line("snapshot", m) EXCEPT !.copy = copies[m]]>>

-----------------------------------------------------------------------------
(* ClientSession.  at: "out" before admit and after detach, "open", and "over" between
   the end of run and detach.  code: none, or the code it closes with.  reading: _read
   has not returned.  view is history: the books of a client that starts a market afresh
   when a reply newly follows it; it and lags are kept while the connection is open. *)
NoCode == 0
PolicyViolation == 1008
GoingAway == 1001
TooSlow == 4000

NoView == [m \in Markets |-> NoCopy]

OutSession ==
  [at |-> "out", subs |-> {}, queue |-> << >>, lags |-> 0, code |-> NoCode, gone |-> FALSE,
   reading |-> FALSE, view |-> NoView]

OpenSession == [OutSession EXCEPT !.at = "open", !.queue = <<Hello>>, !.reading = TRUE]

(* Nothing is offered any more. *)
Shut(s) == [s EXCEPT !.lags = 0, !.view = NoView]

(* close *)
Closed(s, code) ==
  IF s.code # NoCode THEN s ELSE [Shut(s) EXCEPT !.code = code, !.queue = << >>]

(* The end of run, and the cancelled reader: nothing is offered, and detach reads subs. *)
Over(s) == [OutSession EXCEPT !.at = "over", !.subs = s.subs, !.gone = TRUE]

Resync(m, copies) == <<Line("resync", m)>> \o Image(m, copies)

(* _lag *)
Lagged(s, replies, copies) ==
  IF s.lags + 1 >= LagLimit THEN Closed(s, TooSlow)
  ELSE [s EXCEPT !.lags = @ + 1,
                 !.queue = FoldLeft(LAMBDA q, m : q \o Resync(m, copies), replies,
                                    SetToSeq(s.subs))]

(* The parts of an offer that a lag keeps. *)
Replies(lines) ==
  FoldLeft(LAMBDA q, line : IF line.reply THEN Append(q, line) ELSE q, << >>, lines)

(* offer *)
Offered(s, lines, copies) ==
  IF s.code # NoCode \/ s.gone \/ lines = << >> THEN s
  ELSE IF Len(s.queue) + Len(lines) <= QueueMax THEN [s EXCEPT !.queue = @ \o lines]
  ELSE Lagged(s, Replies(lines), copies)

(* What a client makes of a message, by the rules of the feed. *)
Viewed(view, line) ==
  CASE line.kind = "subscribed" ->
         [m \in Markets |-> IF m \in line.on \ line.new THEN view[m] ELSE NoCopy]
    [] line.kind = "snapshot" -> [view EXCEPT ![line.m] = line.copy]
    [] line.kind = "resync" -> [view EXCEPT ![line.m] = NoCopy]
    [] line.kind \in {"stale", "fresh"} /\ view[line.m].st # "unknown" ->
         [view EXCEPT ![line.m].st = line.kind]
    [] line.kind = "delta" /\ view[line.m].st = "fresh" ->
         [view EXCEPT ![line.m].lv = Added(view[line.m].lv, line.d)]
    [] OTHER -> view

-----------------------------------------------------------------------------
(* LiveHub._fan_out.  A message first resets the copies when it does not follow the last
   one, then concerns the copy of one market. *)

LostBy(msg) ==
  IF Follows(msg) THEN {} ELSE {m \in Markets : con.copy[m].st # "unknown"}

Kept(msg) == IF Follows(msg) THEN con.copy[msg.m] ELSE NoCopy

(* Mutant: a book that turns fresh again is announced without its levels. *)
ChangeLinesNoImage(msg, now) ==
  LET was == Kept(msg) IN
  CASE was.st = now[msg.m].st -> << >>
    [] was.st # now[msg.m].st /\ now[msg.m].st = "unknown" -> <<Line("resync", msg.m)>>
    [] was.st = "unknown" /\ now[msg.m].st # "unknown" -> Image(msg.m, now)
    [] OTHER -> <<Line(now[msg.m].st, msg.m)>>

ChangeLines(msg, now) ==
  LET was == Kept(msg) IN
  CASE was.st = now[msg.m].st -> << >>
    [] was.st # now[msg.m].st /\ now[msg.m].st = "unknown" -> <<Line("resync", msg.m)>>
    [] was.st # now[msg.m].st /\ (was.st = "unknown" \/ now[msg.m].st = "fresh") ->
         Image(msg.m, now)
    [] OTHER -> <<Line("stale", msg.m)>>

(* _event_message: a trade or a ticker is one of the other events; a snapshot that made
   its book fresh went out with the change. *)
EventLines(msg, now, trade) ==
  LET was == Kept(msg)
      applied == was.st # "unknown" /\ now[msg.m].st = "fresh"
  IN CASE msg.kind = "snapshot" /\ applied /\ was.st = "fresh" -> Image(msg.m, now)
       [] msg.kind = "delta" /\ applied -> <<[Line("delta", msg.m) EXCEPT !.d = msg.d]>>
       [] msg.kind = "other" /\ trade -> <<Line("other", msg.m)>>
       [] OTHER -> << >>

(* The batch of one session. *)
Outbox(c, msg, now, trade) ==
  LET gone == FoldLeft(LAMBDA q, m : Append(q, Line("resync", m)), << >>,
                       SetToSeq({m \in LostBy(msg) : c \in followers[m]}))
  IN IF c \in followers[msg.m] THEN gone \o ChangeLines(msg, now) \o EventLines(msg, now, trade)
     ELSE gone

(* LiveHub.receive of a message that decodes; a catalog replaces the entries. *)
HubReceive ==
  /\ Receive
  /\ IF Head(bus).kind = "catalog" THEN listed' \in SUBSET Markets ELSE listed' = listed
  /\ \E trade \in BOOLEAN :
       sessions' = [c \in Clients |->
         Offered(sessions[c], Outbox(c, Head(bus), con'.copy, trade), con'.copy)]
  /\ UNCHANGED <<followers, asks>>

-----------------------------------------------------------------------------
(* LiveHub's side of a session. *)

Attached == {c \in Clients : sessions[c].at # "out"}

(* admit; a connection beyond max_clients changes nothing. *)
Admit(c) ==
  /\ asks < MaxAsks /\ asks' = asks + 1
  /\ sessions[c].at = "out" /\ Cardinality(Attached) < MaxClients
  /\ sessions' = [sessions EXCEPT ![c] = OpenSession]
  /\ UNCHANGED <<vars, listed, followers>>

(* The reply to a subscribe, then the books of the newly followed markets. *)
Reply(s, on) ==
  FoldLeft(LAMBDA q, m : q \o Image(m, con.copy), <<Subscribed(on, on \ s.subs)>>,
           SetToSeq(on \ s.subs))

(* subscribe: of the markets asked for, those listed, and of these the first
   max_tickers. *)
Subscribe(c, asked) ==
  /\ sessions[c].reading /\ asks < MaxAsks /\ asks' = asks + 1
  /\ \E on \in SUBSET (asked \cap listed) :
       /\ on = asked \cap listed \/ Cardinality(on) = MaxTickers
       /\ Cardinality(on) <= MaxTickers
       /\ followers' = [m \in Markets |->
            IF m \in on THEN followers[m] \cup {c} ELSE followers[m] \ {c}]
       /\ sessions' = [sessions EXCEPT
            ![c] = Offered([sessions[c] EXCEPT !.subs = on], Reply(sessions[c], on), con.copy)]
  /\ UNCHANGED <<vars, listed>>

(* _error: the message is no subscribe. *)
Unacceptable(c) ==
  /\ sessions[c].reading /\ asks < MaxAsks /\ asks' = asks + 1
  /\ sessions' = [sessions EXCEPT ![c] = Offered(sessions[c], <<ErrorLine>>, con.copy)]
  /\ UNCHANGED <<vars, listed, followers>>

(* _within_limits: a message too many or too large. *)
BreakLimits(c) ==
  /\ sessions[c].reading
  /\ sessions' = [sessions EXCEPT
       ![c] = [Closed(sessions[c], PolicyViolation) EXCEPT !.reading = FALSE]]
  /\ UNCHANGED <<vars, listed, followers, asks>>

(* _read: the client has disconnected; what is queued is still counted, and for nobody. *)
Disconnect(c) ==
  /\ sessions[c].reading
  /\ sessions' = [sessions EXCEPT
       ![c] = [Shut(sessions[c]) EXCEPT !.gone = TRUE, !.reading = FALSE,
                                        !.queue = [i \in DOMAIN @ |-> Hello]]]
  /\ UNCHANGED <<vars, listed, followers, asks>>

(* close_sessions, at shutdown. *)
CloseSessions ==
  /\ \E c \in Clients : sessions[c].at = "open" /\ sessions[c].code = NoCode
  /\ sessions' = [c \in Clients |->
       IF sessions[c].at = "open" THEN Closed(sessions[c], GoingAway) ELSE sessions[c]]
  /\ UNCHANGED <<vars, listed, followers, asks>>

(* _write: the first message is sent, or the client is gone or stopped reading. *)
Send(c) ==
  LET s == sessions[c]
      sent == [s EXCEPT !.queue = Tail(@),
                       !.view = IF s.gone THEN NoView ELSE Viewed(@, Head(s.queue))]
  IN /\ s.at = "open" /\ s.queue # << >>
     /\ sessions' \in {[sessions EXCEPT ![c] = sent], [sessions EXCEPT ![c] = Over(s)]}
     /\ UNCHANGED <<vars, listed, followers, asks>>

(* _write ends, with a close frame when a code is set, and run cancels the reader. *)
EndSession(c) ==
  /\ sessions[c].at = "open" /\ sessions[c].queue = << >>
  /\ sessions[c].gone \/ sessions[c].code # NoCode
  /\ sessions' = [sessions EXCEPT ![c] = Over(@)]
  /\ UNCHANGED <<vars, listed, followers, asks>>

(* detach *)
Detach(c) ==
  /\ sessions[c].at = "over"
  /\ followers' = [m \in Markets |->
       IF m \in sessions[c].subs THEN followers[m] \ {c} ELSE followers[m]]
  /\ sessions' = [sessions EXCEPT ![c] = OutSession]
  /\ UNCHANGED <<vars, listed, asks>>

(* The oldest lag leaves the window. *)
LagForgotten(c) ==
  /\ sessions[c].lags > 0
  /\ sessions' = [sessions EXCEPT ![c].lags = @ - 1]
  /\ UNCHANGED <<vars, listed, followers, asks>>

(* The API starts again: its connections are cut. *)
RestartHub ==
  /\ RestartConsumer
  /\ listed' = {} /\ sessions' = [c \in Clients |-> OutSession]
  /\ followers' = [m \in Markets |-> {}]
  /\ UNCHANGED asks

-----------------------------------------------------------------------------
(* Where Init leads by a snapshot of each book, a first refresh cycle and the catalog of
   a second, none of it lost: the first client finds every book known. *)
InSecondCycle ==
  LET n == 2 * Cardinality(Markets) + 2 IN
  /\ \E lvs \in [Markets -> {lv \in Levels : ~Crossed(lv)}] :
       books = [m \in Markets |-> [NewBook EXCEPT !.stale = FALSE, !.lv = lvs[m], !.begun = 2]]
  /\ pub = [NewPublisher(1, n) EXCEPT !.seq = n, !.due = Markets]
  /\ con = [NewConsumer EXCEPT !.epoch = 1, !.seq = n, !.seen = books, !.cats = 2,
                               !.copy = [m \in Markets |-> Copy(FALSE, books[m].lv)]]
  /\ bus = << >>

(* No client yet, or all of them follow every market and have taken what it brought. *)
Unconnected ==
  /\ sessions = [c \in Clients |-> OutSession]
  /\ followers = [m \in Markets |-> {}] /\ asks = 0

Following ==
  /\ Cardinality(Clients) <= MaxClients /\ Cardinality(Markets) <= MaxTickers
  /\ sessions = [c \in Clients |->
       [OpenSession EXCEPT !.subs = Markets, !.queue = << >>, !.view = con.copy]]
  /\ followers = [m \in Markets |-> Clients] /\ asks = 1

HubInit == InSecondCycle /\ listed = Markets /\ (Unconnected \/ Following)

(* What the recorder and the transport do. *)
BusStep ==
  /\ \/ \E m \in Markets :
          \/ \E lv \in Levels : SnapshotArrives(m, lv)
          \/ \E d \in Deltas : DeltaArrives(m, d)
          \/ MarketLeaves(m)
          \/ PublishRefresh(m)
     \/ OtherEvent \/ BooksGoStale \/ CycleBegins \/ ClosePublisher \/ RestartRecorder
     \/ Undecodable
  /\ UNCHANGED hubVars

SessionStep(c) ==
  \/ Admit(c) \/ Unacceptable(c) \/ BreakLimits(c) \/ Disconnect(c)
  \/ \E asked \in SUBSET Markets : Subscribe(c, asked)
  \/ Send(c) \/ EndSession(c) \/ Detach(c) \/ LagForgotten(c)

HubNext ==
  \/ BusStep \/ HubReceive \/ RestartHub \/ CloseSessions
  \/ \E c \in Clients : SessionStep(c)

HubSpec == HubInit /\ [][HubNext]_allVars

-----------------------------------------------------------------------------
(* LiveHub._fan_out, ClientSession.offer: what a connected client holds, once it has
   taken what is queued for it, is what the hub holds of each market it follows: known,
   stale or fresh alike, and with the same levels when fresh.  For a connection that is
   closing nothing is queued, and one that has ended follows nothing. *)
ClientsFollow ==
  \A c \in Clients :
    LET s == sessions[c]
        end == FoldLeft(Viewed, s.view, s.queue)
    IN /\ s.at = "open" /\ s.code = NoCode /\ ~s.gone =>
            \A m \in s.subs :
              /\ c \in followers[m]
              /\ end[m].st = con.copy[m].st
              /\ end[m].st = "fresh" => end[m].lv = con.copy[m].lv
       /\ s.code # NoCode => s.queue = << >>
       /\ \A m \in Markets : c \in followers[m] => m \in s.subs
=============================================================================
