------------------------------ MODULE Universe ------------------------------
(***************************************************************************)
(* Which markets are recorded, and on which connection: the universe loop  *)
(* of the recorder (src/tape/recorder/recorder.py), the selection it       *)
(* applies (universe.py), its listings (listing.py), its plan (planner.py), *)
(* and the market list the API shows (src/tape/api/directory.py), while    *)
(* markets open, close and move their close times at the exchange and the  *)
(* lifecycle events that tell of it are under way.                         *)
(***************************************************************************)
EXTENDS Integers, Sequences, FiniteSets, FiniteSetsExt, SequencesExt, Functions

CONSTANTS
  Market,       \* by ticker, a number: its series, event, 24-hour volume, close time and price
  Category,     \* by series: its category
  Groups,       \* the universe groups in policy order
  Floor,        \* min_volume_24h
  Horizon,      \* max_seconds_to_close, or None
  MaxL2,        \* max_l2_markets
  BookConns,    \* book_connections
  GroupSize,    \* group_size
  Refresh,      \* universe_refresh_s
  Retry,        \* UNIVERSE_RETRY_INITIAL_S
  CloseDelay,   \* CLOSE_TICK_DELAY_S
  Debounce,     \* RELIST_DEBOUNCE_S
  MinInterval,  \* RELIST_MIN_INTERVAL_S
  MaxFollowUps, \* NEAR_PRICE_FOLLOW_UPS
  OpenAtStart,  \* the markets open when the recorder starts
  Closes,       \* the close times an event may move a market to
  MaxNow,       \* bound: the clock
  MaxChanges,   \* bound: changes at the exchange
  MaxFaults     \* bound: failed requests, pages cut and connections lost

Tickers == DOMAIN Market
None == -1

\* The configurations the constructors accept.
GoodGroup(group) ==
  /\ (group.series = << >>) # (group.category = "none")
  /\ group.series \in Seq(Nat) /\ IsInjective(group.series)
  /\ {group.events, group.perEvent} \subseteq Nat \ {0}
  /\ {group.max, group.horizon} \subseteq (Nat \ {0}) \cup {None}
GoodMarket(market) ==
  /\ {market.series, market.event, market.volume} \subseteq Nat
  /\ {market.close, market.mid} \subseteq Nat \cup {None}
BookCapacity == BookConns * GroupSize >= MaxL2

ASSUME UniverseAssumption ==
  /\ Tickers \subseteq Nat \ {0} /\ IsFiniteSet(Tickers) /\ OpenAtStart \subseteq Tickers
  /\ (\A m \in Tickers : GoodMarket(Market[m])) /\ Closes \subseteq Nat
  /\ Groups # << >> /\ Groups \in Seq(Range(Groups))
  /\ (\A g \in DOMAIN Groups : GoodGroup(Groups[g])) /\ BookCapacity
  /\ {Floor, MaxL2, CloseDelay, Debounce, MaxFollowUps, MaxNow, MaxChanges, MaxFaults} \subseteq Nat
  /\ {BookConns, GroupSize, Refresh, Retry, MinInterval} \subseteq Nat \ {0}

VARIABLES
  now,
  exchange,  \* by market: status, close time and distance from the price, if quoted
  notes,     \* lifecycle events on their way over the control connection
  live,      \* the control connection is up
  loop,      \* where the universe loop is: its phase, wake and the end of its pause
  work,      \* the step under way
  refreshDue, failures,
  known,     \* SeriesCategories: a fetch has succeeded
  universe,  \* the decision the plan follows
  plan,      \* the plan, by connection
  carried,   \* the groups last handed to the supervisors
  ended, moved, relists, allowed, followUps,
  site,      \* MarketDirectory
  told,      \* history: what events said of markets while they were planned
  owed,      \* history: by group, the openings no listing has covered
  spent      \* how much of the bounds is used

clockVars == <<ended, moved, relists, followUps>>
vars == <<now, exchange, notes, live, loop, work, refreshDue, failures, known, universe, plan,
          carried, clockVars, allowed, site, told, owed, spent>>
-----------------------------------------------------------------------------
\* A dict updated with another: f where f is defined, g elsewhere.
Over(f, g) == [x \in DOMAIN f \cup DOMAIN g |-> IF x \in DOMAIN f THEN f[x] ELSE g[x]]

(* universe.py. A listed market is its close time and the distance of its price. *)

Closed(close, t) == close # None /\ close <= t
AmongFirst(n, s) == IF n = None THEN s ELSE SubSeq(s, 1, Min({n, Len(s)}))

\* sorted(): S in the order of its ranks, by member, which tell its members apart.
Lower(r, s) == \E i \in DOMAIN r : r[i] < s[i] /\ \A j \in 1 .. i - 1 : r[j] = s[j]
Before(S, ranks, x) == {y \in S : Lower(ranks[y], ranks[x])}
Ranked(S, ranks) ==
  [i \in 1 .. Cardinality(S) |-> CHOOSE x \in S : Cardinality(Before(S, ranks, x)) = i - 1]

\* The members of S by ticker, those of s that are in S, and sequences one after another.
ByTicker(S) == Ranked(S, [m \in S |-> <<m>>])
Kept(s, S) == FoldLeft(LAMBDA kept, m : IF m \in S THEN Append(kept, m) ELSE kept, << >>, s)
Joined(seqs) == FoldLeft(LAMBDA s, t : s \o t, << >>, seqs)

CloseOrder(close) == IF close = None THEN <<1, 0>> ELSE <<0, close>>
EventOf(m) == <<Market[m].series, Market[m].event>>
Events(S) == {{m \in S : EventOf(m) = e} : e \in {EventOf(m) : m \in S}}
EarliestClose(event, listed) ==
  LET closes == {listed[m].close : m \in event} \ {None}
  IN IF closes = {} THEN None ELSE Min(closes)
EventVolume(event) == FoldLeft(LAMBDA sum, m : sum + Market[m].volume, 0, ByTicker(event))

\* _market_ranking
MarketRank(group, listed, m) ==
  (IF ~group.near THEN <<0, 0>> ELSE IF listed[m].mid = None THEN <<1, 0>> ELSE <<0, listed[m].mid>>)
    \o <<-Market[m].volume>> \o CloseOrder(listed[m].close) \o <<m>>

WithinHorizon(group, event, listed, t) ==
  group.horizon # None => LET close == EarliestClose(event, listed)
                          IN close # None /\ close <= t + group.horizon

ChosenEvents(group, S, listed, t) ==
  LET events == {event \in Events(S) : WithinHorizon(group, event, listed, t)}
      Id(event) == CHOOSE e \in {EventOf(m) : m \in event} : TRUE
      NearestFirst == [event \in events |->
                         CloseOrder(EarliestClose(event, listed)) \o <<Id(event)[2]>>]
      BusiestFirst == [event \in events |->
                         <<-EventVolume(event)>> \o NearestFirst[event] \o <<Id(event)[1]>>]
  IN IF group.series = << >>
     THEN AmongFirst(group.events, Ranked({event \in events : EventVolume(event) >= Floor}, BusiestFirst))
     ELSE Joined([i \in DOMAIN group.series |->
            AmongFirst(group.events,
                       Ranked({event \in events : Id(event)[1] = group.series[i]}, NearestFirst))])

\* _choose
Chosen(group, S, listed, t) ==
  LET events == ChosenEvents(group, S, listed, t)
      ranks == [m \in S |-> MarketRank(group, listed, m)]
  IN AmongFirst(group.max, Joined([i \in DOMAIN events |->
                                     AmongFirst(group.perEvent, Ranked(events[i], ranks))]))

Selects(group, m, categories) ==
  IF group.series # << >> THEN Market[m].series \in Range(group.series)
                          ELSE categories /\ Category[Market[m].series] = group.category

\* _rejection: an unknown close time passes both filters.
Rejected(close, t) == Closed(close, t) \/ (close # None /\ Horizon # None /\ close - t > Horizon)
Eligible(listed, t) == {m \in DOMAIN listed : ~Rejected(listed[m].close, t)}

\* select: the groups in order, those of pinned held to what the previous decision admitted.
Admit(call, acc, g) ==
  LET group == Groups[g]
      chosen == IF g \in call.pinned
                THEN Kept(call.previous.admitted[g], acc.unchosen)
                ELSE Chosen(group, {m \in acc.unchosen : Selects(group, m, call.categories)},
                            call.listed, call.t)
      admitted == AmongFirst(MaxL2 - acc.spent, chosen)
  IN [unchosen |-> acc.unchosen \ Range(chosen),
      spent |-> acc.spent + Len(admitted),
      admitted |-> Append(acc.admitted, admitted)]

Select(listed, t, categories, pinned, previous) ==
  LET call == [listed |-> listed, t |-> t, categories |-> categories, pinned |-> pinned,
               previous |-> previous]
      start == [unchosen |-> Eligible(listed, t), spent |-> 0, admitted |-> << >>]
      end == FoldLeft(LAMBDA acc, g : Admit(call, acc, g), start, [g \in DOMAIN Groups |-> g])
  IN [admitted |-> end.admitted,
      markets |-> Restrict(listed, UNION {Range(end.admitted[g]) : g \in DOMAIN Groups})]

NoDecision == [admitted |-> << >>, markets |-> << >>]
Wanted(decision) == DOMAIN decision.markets
AdmittedEvents(decision) ==
  UNION {{<<g, EventOf(m)>> : m \in Range(decision.admitted[g])} : g \in DOMAIN decision.admitted}
-----------------------------------------------------------------------------
(* planner.py *)

Conns == 1 .. BookConns
NoPlan == [c \in Conns |-> {}]

CarryOver(previous, wanted) ==
  [c \in Conns |-> Range(AmongFirst(GroupSize, ByTicker(previous[c] \cap wanted)))]

Fill(members, ticker) ==
  LET Load(c) == <<Cardinality(members[c]), c>>
      room == {c \in Conns : Cardinality(members[c]) < GroupSize}
      least == CHOOSE c \in room : \A d \in room \ {c} : Lower(Load(c), Load(d))
  IN IF room = {} THEN members ELSE [members EXCEPT ![least] = @ \cup {ticker}]

FreshPlan(wanted, previous) == FoldLeft(Fill, NoPlan, ByTicker(wanted))
Plan(wanted, previous) ==
  LET kept == CarryOver(previous, wanted)
  IN FoldLeft(Fill, kept, ByTicker(wanted \ UNION Range(kept)))
-----------------------------------------------------------------------------
(* recorder.py: what the loop knows between listings. *)

GroupIds == DOMAIN Groups
SeriesGroups == {g \in GroupIds : Groups[g].series # << >>}
Listing == loop.phase = "listing"
Pausing == loop.phase = "pausing"
Planned == UNION Range(plan)

AsLastReported(listed) ==
  [m \in DOMAIN listed \ ended |->
     IF moved[m] = None THEN listed[m] ELSE [close |-> moved[m], mid |-> listed[m].mid]]

NoRelist == [due |-> None, requested |-> None]
Request(pending, due) ==
  [due |-> IF pending.due = None THEN due ELSE Min({pending.due, due}), requested |-> now]

ForgetAll(g, names, started) == IF g \in names THEN NoRelist ELSE relists[g]
\* _forget_relists
Forget(g, names, started) ==
  IF g \in names /\ relists[g].requested <= started THEN NoRelist ELSE relists[g]

ForgetEnded(listing) == {}
StillReported(listing) == ended \cap DOMAIN listing

NoFollowUp == [attempts |-> 0, gaveUp |-> FALSE]
FollowUpAlways(held, unpriced) ==
  IF ~unpriced THEN NoFollowUp ELSE [attempts |-> held.attempts + 1, gaveUp |-> FALSE]
\* _follow_up_event
FollowUp(held, unpriced) ==
  IF ~unpriced THEN NoFollowUp
  ELSE IF held.gaveUp THEN held
  ELSE IF held.attempts >= MaxFollowUps THEN [held EXCEPT !.gaveUp = TRUE]
  ELSE [attempts |-> held.attempts + 1, gaveUp |-> FALSE]

\* _universe_delay_ns, as the time the pause ends.
Deadline ==
  LET closes == {s.close : s \in Range(AsLastReported(universe.markets))} \ {None}
      dues == {relists[g].due : g \in GroupIds} \ {None}
  IN IF universe = NoDecision THEN Max({now, refreshDue})
     ELSE IF ended \cap Planned # {} THEN now
     ELSE Max({now, Min({refreshDue}
                        \cup (IF closes = {} THEN {} ELSE {Min(closes) + CloseDelay})
                        \cup (IF dues = {} THEN {} ELSE {Max({Min(dues), allowed})}))})
-----------------------------------------------------------------------------
(* The exchange, and the control connection. *)

Spend(kind) == spent' = [spent EXCEPT ![kind] = @ + 1]
CanChange == spent.changes < MaxChanges
CanFault == spent.faults < MaxFaults

Tell(m, kind, close) ==
  notes' = IF live THEN Append(notes, [market |-> m, kind |-> kind, close |-> close]) ELSE notes
Changes(m, kind, summary) ==
  /\ CanChange /\ Spend("changes")
  /\ exchange' = [exchange EXCEPT ![m] = summary]
  /\ UNCHANGED <<now, live, loop, work, refreshDue, failures, known, universe, plan, carried,
                 clockVars, allowed, site, told, owed>>

Open(m) == /\ exchange[m].status = "created"
           /\ Changes(m, "open", [exchange[m] EXCEPT !.status = "open"]) /\ Tell(m, "open", None)
Determine(m) == /\ exchange[m].status = "open"
                /\ Changes(m, "end", [exchange[m] EXCEPT !.status = "ended"]) /\ Tell(m, "end", None)
MoveClose(m, close) ==
  /\ exchange[m].status = "open" /\ exchange[m].close # close
  /\ Changes(m, "move", [exchange[m] EXCEPT !.close = close]) /\ Tell(m, "move", close)
Quote(m) == /\ exchange[m].status # "ended" /\ exchange[m].mid = None
            /\ Changes(m, "quote", [exchange[m] EXCEPT !.mid = Market[m].mid]) /\ UNCHANGED notes

Tick == /\ now < MaxNow /\ now' = now + 1
        /\ UNCHANGED <<exchange, notes, live, loop, work, refreshDue, failures, known, universe, plan,
                       carried, clockVars, allowed, site, told, owed, spent>>

\* The startup refresh comes before the connections.
ControlUp == /\ ~live /\ refreshDue > 0 /\ live' = TRUE
             /\ UNCHANGED <<now, exchange, notes, loop, work, refreshDue, failures, known, universe,
                            plan, carried, clockVars, allowed, site, told, owed, spent>>
ControlLost == /\ live /\ CanFault /\ Spend("faults")
               /\ live' = FALSE /\ notes' = << >>
               /\ UNCHANGED <<now, exchange, loop, work, refreshDue, failures, known, universe, plan,
                              carried, clockVars, allowed, site, told, owed>>

\* _note_lifecycle: what an event means for the loop.
Noted(note) ==
  LET m == note.market
      planned == m \in Planned
      groups == {g \in SeriesGroups : Market[m].series \in Range(Groups[g].series)}
      asks == note.kind = "open" /\ groups # {}
  IN /\ ended' = IF note.kind = "end" /\ planned THEN ended \cup {m} ELSE ended
     /\ moved' = IF note.kind = "move" /\ planned THEN [moved EXCEPT ![m] = note.close] ELSE moved
     /\ relists' = [g \in GroupIds |-> IF asks /\ g \in groups
                                       THEN Request(relists[g], now + Debounce) ELSE relists[g]]
     /\ loop' = IF asks \/ (note.kind # "open" /\ planned) THEN [loop EXCEPT !.wake = TRUE] ELSE loop
     /\ told' = [told EXCEPT ![m] = [ended |-> @.ended \/ (note.kind = "end" /\ planned),
                                     close |-> IF note.kind = "move" /\ planned
                                               THEN note.close ELSE @.close]]
     /\ owed' = [g \in GroupIds |-> IF asks /\ g \in groups THEN owed[g] \cup {now} ELSE owed[g]]

\* MarketDirectory.apply_lifecycle
Shown(note) ==
  LET m == note.market
      entered == m \in DOMAIN site.entries
  IN site' = [site EXCEPT
                !.ended = IF entered /\ note.kind = "end" THEN @ \cup {m} ELSE @,
                !.moved = IF entered /\ note.kind = "move" THEN Over([k \in {m} |-> note.close], @) ELSE @]

\* The consumer runs, then the event is published: the API follows the bus in order.
Hear == /\ notes # << >> /\ notes' = Tail(notes)
        /\ Noted(Head(notes)) /\ Shown(Head(notes))
        /\ UNCHANGED <<now, exchange, live, work, refreshDue, failures, known, universe, plan,
                       carried, followUps, allowed, spent>>

\* _catalog: the decision, as lifecycle events have changed it since.
Catalog == [m \in DOMAIN universe.markets \ ended |->
              IF moved[m] = None THEN universe.markets[m].close ELSE moved[m]]

\* MarketDirectory.apply_catalog
ApplyCatalog(entries) == site' = [entries |-> entries, ended |-> {}, moved |-> << >>]

\* Each cycle of the bus refresh opens with it.
PublishCatalog ==
  /\ universe # NoDecision /\ ApplyCatalog(Catalog)
  /\ UNCHANGED <<now, exchange, notes, live, loop, work, refreshDue, failures, known, universe, plan,
                 carried, clockVars, allowed, told, owed, spent>>

IsOpen(m) == m \in DOMAIN site.entries /\ m \notin site.ended
ShownClose(m) == IF m \in DOMAIN site.moved THEN site.moved[m] ELSE site.entries[m]
-----------------------------------------------------------------------------
(* The universe loop. Connection TickerConn carries every market of the plan. *)

TickerConn == BookConns + 1
NoWork == [kind |-> "none", started |-> 0, names |-> {}, todo |-> {}, read |-> << >>,
           decision |-> NoDecision, desired |-> NoPlan, hand |-> 0]
SeriesOf(names) == UNION {Range(Groups[g].series) : g \in names}
worldVars == <<now, exchange, notes, live, site, told, owed>>

Pause == loop' = [phase |-> "pausing", wake |-> FALSE, until |-> Deadline']

BeginListing(kind, names, todo) ==
  /\ work' = [NoWork EXCEPT !.kind = kind, !.started = now, !.names = names, !.todo = todo]
  /\ loop' = [loop EXCEPT !.phase = "listing"]

\* _apply_universe up to its first await: the first connection has its group.
BeginApply(step, decision) ==
  LET desired == Plan(Wanted(decision), plan)
  IN /\ work' = [step EXCEPT !.decision = decision, !.desired = desired, !.hand = 2]
     /\ carried' = [carried EXCEPT ![1] = desired[1]]
     /\ loop' = [loop EXCEPT !.phase = "applying"]

\* The end of _universe_step: a targeted re-listing when one is due and allowed.
RelistOrPause ==
  LET due == {g \in SeriesGroups : relists'[g].due # None /\ relists'[g].due <= now}
  IN IF due # {} /\ now >= allowed
     THEN /\ allowed' = now + MinInterval
          /\ BeginListing("relist", due, {m \in Tickers : Market[m].series \in SeriesOf(due)})
     ELSE work' = NoWork /\ UNCHANGED allowed /\ Pause

Awake == Pausing /\ (loop.wake \/ now >= loop.until)

StartRefresh ==
  /\ Awake /\ now >= refreshDue
  /\ BeginListing("full", GroupIds, Tickers)
  /\ UNCHANGED <<worldVars, refreshDue, failures, known, universe, plan, carried, clockVars, allowed, spent>>

ClosedNow ==
  Wanted(universe) \ {m \in Wanted(universe) \ ended :
                        ~Closed(AsLastReported(universe.markets)[m].close, now)}

\* _remove_closed_markets
RemoveClosed ==
  /\ Awake /\ now < refreshDue /\ ClosedNow # {}
  /\ relists' = [g \in GroupIds |->
                   IF g \in SeriesGroups /\ Range(universe.admitted[g]) \cap ClosedNow # {}
                   THEN Request(relists[g], now) ELSE relists[g]]
  /\ BeginApply([NoWork EXCEPT !.kind = "close", !.started = now],
                Select(AsLastReported(universe.markets), now, FALSE, GroupIds, universe))
  /\ UNCHANGED <<worldVars, refreshDue, failures, known, universe, plan, ended, moved, followUps,
                 allowed, spent>>

LookAgain ==
  /\ Awake /\ now < refreshDue /\ ClosedNow = {}
  /\ UNCHANGED <<worldVars, refreshDue, failures, known, universe, plan, carried, clockVars, spent>>
  /\ IF universe = NoDecision THEN work' = NoWork /\ UNCHANGED allowed /\ Pause ELSE RelistOrPause

\* A page is read after the listing started; PageCut is what the page cap leaves
\* out, or a market that does not convert.
Summary(m) == [close |-> exchange[m].close, mid |-> exchange[m].mid]
PageRead(S) ==
  /\ Listing /\ now > work.started /\ S # {}
  /\ work' = [work EXCEPT !.todo = @ \ S,
                !.read = Over([m \in {m \in S : exchange[m].status = "open"} |-> Summary(m)], @)]
  /\ UNCHANGED <<worldVars, loop, refreshDue, failures, known, universe, plan, carried, clockVars,
                 allowed, spent>>
PageCut(S) ==
  /\ Listing /\ S # {} /\ CanFault /\ Spend("faults")
  /\ work' = [work EXCEPT !.todo = @ \ S]
  /\ UNCHANGED <<worldVars, loop, refreshDue, failures, known, universe, plan, carried, clockVars,
                 allowed>>

\* A full refresh reads the categories last; a failed fetch keeps the last known.
FinishRefresh ==
  /\ Listing /\ work.kind = "full" /\ work.todo = {}
  /\ \/ known' = TRUE /\ UNCHANGED spent
     \/ ~known /\ CanFault /\ Spend("faults") /\ known' = FALSE
  /\ BeginApply(work, Select(AsLastReported(work.read), now, known', {}, NoDecision))
  /\ UNCHANGED <<worldVars, refreshDue, failures, universe, plan, clockVars, allowed>>

\* _relist: the series listed again, and what was known of every other.
FinishRelist ==
  /\ Listing /\ work.kind = "relist" /\ work.todo = {}
  /\ LET unlisted == {m \in Wanted(universe) : Market[m].series \notin SeriesOf(work.names)}
         listed == Over(work.read, Restrict(universe.markets, unlisted))
     IN BeginApply(work, Select(AsLastReported(listed), now, FALSE, GroupIds \ work.names, universe))
  /\ UNCHANGED <<worldVars, refreshDue, failures, known, universe, plan, clockVars, allowed, spent>>

\* A request fails: the plan and the requests stay.
RetryDelay ==
  LET nominal == Min({Refresh, Retry * 2 ^ failures}) IN (nominal + 1) \div 2 .. nominal
FailRefresh(delay) ==
  /\ Listing /\ work.kind = "full" /\ CanFault /\ Spend("faults")
  /\ failures' = failures + 1 /\ refreshDue' = now + delay /\ work' = NoWork
  /\ UNCHANGED <<worldVars, known, universe, plan, carried, clockVars, allowed>>
  /\ Pause
FailRelist ==
  /\ Listing /\ work.kind = "relist" /\ CanFault /\ Spend("faults")
  /\ work' = NoWork
  /\ UNCHANGED <<worldVars, refreshDue, failures, known, universe, plan, carried, clockVars, allowed>>
  /\ Pause

HandGroup ==
  /\ loop.phase = "applying" /\ work.hand <= TickerConn
  /\ carried' = [carried EXCEPT ![work.hand] = IF work.hand = TickerConn
                                               THEN UNION Range(work.desired)
                                               ELSE work.desired[work.hand]]
  /\ work' = [work EXCEPT !.hand = @ + 1]
  /\ UNCHANGED <<worldVars, loop, refreshDue, failures, known, universe, plan, clockVars, allowed, spent>>

\* _follow_up_unpriced: the events of the groups listed with an admitted market unpriced.
Followed(key) == key[1] \in work.names \cap SeriesGroups /\ Groups[key[1]].near
Unpriced(key) == \E m \in Range(work.decision.admitted[key[1]]) :
                   EventOf(m) = key[2] /\ work.decision.markets[m].mid = None
FollowedUp(key) == IF key \notin AdmittedEvents(work.decision) THEN NoFollowUp
                   ELSE IF Followed(key) THEN FollowUp(followUps[key], Unpriced(key))
                   ELSE followUps[key]
Asks(key) == /\ key \in AdmittedEvents(work.decision) /\ Followed(key) /\ Unpriced(key)
             /\ FollowedUp(key).attempts > followUps[key].attempts

\* Every connection has its group: the plan is adopted, and what the listing covered forgotten.
Adopt ==
  /\ loop.phase = "applying" /\ work.hand > TickerConn
  /\ plan' = work.desired /\ universe' = work.decision
  /\ moved' = [m \in Tickers |-> IF m \in UNION Range(work.desired) THEN moved[m] ELSE None]
  /\ ended' = IF work.kind = "full" THEN StillReported(work.read) ELSE ended
  /\ followUps' = [key \in DOMAIN followUps |-> FollowedUp(key)]
  /\ relists' = [g \in GroupIds |->
                   LET kept == IF work.kind = "close" THEN relists[g]
                               ELSE Forget(g, work.names, work.started)
                   IN IF \E key \in DOMAIN followUps : key[1] = g /\ Asks(key)
                      THEN Request(kept, work.started + MinInterval) ELSE kept]
  /\ told' = [m \in Tickers |-> IF m \in UNION Range(work.desired) THEN told[m]
                                ELSE [told[m] EXCEPT !.close = None]]
  /\ owed' = [g \in GroupIds |-> IF g \in work.names THEN {t \in owed[g] : t > work.started} ELSE owed[g]]
  /\ UNCHANGED <<now, exchange, notes, live, site, known, carried, spent>>
  /\ IF work.kind = "full" THEN failures' = 0 /\ refreshDue' = now + Refresh
                           ELSE UNCHANGED <<failures, refreshDue>>
  /\ IF work.kind = "close" THEN RelistOrPause ELSE work' = NoWork /\ UNCHANGED allowed /\ Pause
-----------------------------------------------------------------------------
Init ==
  /\ now = 0 /\ notes = << >> /\ live = FALSE
  /\ exchange = [m \in Tickers |-> [status |-> IF m \in OpenAtStart THEN "open" ELSE "created",
                                    close |-> Market[m].close,
                                    mid |-> IF m \in OpenAtStart THEN Market[m].mid ELSE None]]
  /\ loop = [phase |-> "listing", wake |-> FALSE, until |-> 0]
  /\ work = [NoWork EXCEPT !.kind = "full", !.names = GroupIds, !.todo = Tickers]
  /\ refreshDue = 0 /\ failures = 0 /\ known = FALSE
  /\ universe = NoDecision /\ plan = NoPlan
  /\ carried = [c \in 1 .. TickerConn |-> {}]
  /\ ended = {} /\ moved = [m \in Tickers |-> None]
  /\ relists = [g \in GroupIds |-> NoRelist] /\ allowed = 0
  /\ followUps = [key \in GroupIds \X {EventOf(m) : m \in Tickers} |-> NoFollowUp]
  /\ site = [entries |-> << >>, ended |-> {}, moved |-> << >>]
  /\ told = [m \in Tickers |-> [ended |-> FALSE, close |-> None]]
  /\ owed = [g \in GroupIds |-> {}]
  /\ spent = [changes |-> 0, faults |-> 0]

Next ==
  \/ \E m \in Tickers : Open(m) \/ Determine(m) \/ Quote(m)
  \/ \E m \in Tickers, close \in Closes : MoveClose(m, close)
  \/ Tick \/ ControlUp \/ ControlLost \/ Hear \/ PublishCatalog
  \/ StartRefresh \/ RemoveClosed \/ LookAgain
  \/ \E S \in SUBSET work.todo : PageRead(S) \/ PageCut(S)
  \/ FinishRefresh \/ FinishRelist \/ FailRelist
  \/ \E delay \in RetryDelay : FailRefresh(delay)
  \/ HandGroup \/ Adopt

Spec == Init /\ [][Next]_vars
-----------------------------------------------------------------------------
\* Types; and an event is followed up at most NEAR_PRICE_FOLLOW_UPS times
\* (recorder.py:1626), however often it stays unpriced.
TypeOK ==
  /\ now \in 0 .. MaxNow /\ loop.phase \in {"pausing", "listing", "applying"}
  /\ ended \subseteq Tickers /\ plan \in [Conns -> SUBSET Tickers]
  /\ carried \in [1 .. TickerConn -> SUBSET Tickers]
  /\ \A c \in Conns : Cardinality(plan[c]) <= GroupSize
  /\ Cardinality(Wanted(universe)) <= MaxL2
  /\ \A key \in DOMAIN followUps : followUps[key].attempts <= MaxFollowUps

\* A pause nothing has disturbed ends no later than the next thing to do
\* (recorder.py:1247): the full refresh, the removal of a planned market at the close
\* time it was last told, or at once when it was reported ended, and, for each opening
\* of which no listing started since has told, a re-listing within the debounce or
\* when the minimum interval allows one.
NothingOverslept ==
  Pausing /\ ~loop.wake =>
    /\ loop.until <= Max({now, refreshDue})
    /\ \A m \in Wanted(universe) :
         LET close == IF told[m].close = None THEN universe.markets[m].close ELSE told[m].close
         IN /\ told[m].ended => loop.until <= now
            /\ close # None => loop.until <= Max({now, close + CloseDelay})
    /\ \A g \in GroupIds : owed[g] # {} =>
         /\ relists[g].due # None /\ relists[g].due <= Min(owed[g]) + Debounce
         /\ universe # NoDecision => loop.until <= Max({now, relists[g].due, allowed})

\* No market is ever on two book connections, not even while a new plan is handed out
\* one connection at a time (recorder.py:1493); and between steps the connections carry
\* exactly the plan, and the plan exactly the decision.
CarriedOnce ==
  /\ \A c, d \in Conns : c # d => carried[c] \cap carried[d] = {}
  /\ Pausing => /\ \A c \in Conns : carried[c] = plan[c]
                /\ carried[TickerConn] = Wanted(universe) /\ Planned = Wanted(universe)

\* The market list never shows open a market that was reported ended while it was
\* planned, nor another close time than the one reported last (recorder.py:1871,
\* directory.py:126), whatever listing or catalog was under way.
SiteTrue ==
  \A m \in DOMAIN site.entries :
    /\ IsOpen(m) => ~told[m].ended
    /\ told[m].close # None => ShownClose(m) = told[m].close
=============================================================================
