----------------------------- MODULE Generators -----------------------------
(***************************************************************************)
(* Everything that searches for an accumulator: the custom endpoint        *)
(* (CustomTicket), the 1k, 5k and weekly generators (services/), which     *)
(* search the predictions of all markets, and the endpoints of those three *)
(* (routes/one_k.py, five_k.py, weekly_safe.py), which fail before they    *)
(* reach them.  The generators are therefore also started by themselves.   *)
(***************************************************************************)
EXTENDS CustomTicket

CONSTANTS
    MarketOrder,    \* the members of Market but ALL, in their order
    Slates,         \* pages for the generators by themselves
    Floor,          \* min_probability of the 5k generator
    PoolSize,       \* its candidate_pool_size
    Attempts,       \* its attempts
    Wishes,         \* the arguments of the weekly generator
    WeeklyTarget    \* the logarithm of its TARGET_ODDS

ASSUME GeneratorsAssumption ==
    /\ MarketOrder \in Seq(Markets) /\ ToSet(MarketOrder) = Markets
    /\ WeeklyTarget \in Nat \ {0}
    /\ PoolSize \in Nat \ {0} /\ Attempts \in Nat \ {0}
    /\ \A w \in Wishes : w.days \in Nat /\ w.perDay \in Nat \ {0}

Outcomes == UNION {ToSet(page) : page \in Feed \cup Slates}

\* An event is played on one day; the enum names all markets of the lists.
ASSUME OutcomesAssumption ==
    /\ \A page \in Feed \cup Slates : page \in Seq(Outcomes)
    /\ \A o \in Outcomes : /\ o.log \in Int /\ o.quality \in Int
                           /\ o.probability \in Int /\ o.day \in Int
    /\ \A page \in Slates : \A o, q \in ToSet(page) :
          o.market \in Markets /\ (o.event = q.event => o.day = q.day)

\* Of two outcomes the one at the higher odds has the higher score in the sort
\* of the optimizer: ln(odds) + 0.15 * (probability + 0.01 * probability * odds)
\* grows with any odds above 1, where the probability is 1 / odds and where
\* _implied_probability bounds it, by 0.01 (odds above 100) or 0.99.
ASSUME OddsAssumption ==
    \A o, q \in Outcomes : 0 < o.log /\ o.log < q.log =>
        20 * o.log + 3 * o.quality < 20 * q.log + 3 * q.quality

VARIABLES
    strategy,       \* which generator or endpoint is running
    pool,           \* 5k: the candidates every attempt shuffles
    attempt,        \* 5k: how many attempts have been started
    best,           \* 5k: the best ticket of the attempts
    wish, shortlist, tried, states, chosen     \* those of WeeklySafe

fiveK == <<pool, attempt, best>>
weekly == <<wish, shortlist, tried, states, chosen>>
allVars == <<vars, strategy, fiveK, weekly>>

Weekly == INSTANCE WeeklySafe WITH Target <- WeeklyTarget, candidates <- shortlist

Routes == {"route", "weekly_route"}
Strategies == {"custom", "1k", "5k", "weekly"} \cup Routes

GeneratorsInit ==
    /\ Init
    /\ strategy \in Strategies
    /\ strategy # "custom" => wanted = Unfiltered
    /\ pool = <<>> /\ attempt = 0 /\ best = <<>>
    /\ wish = CHOOSE w \in Wishes : TRUE
    /\ shortlist = <<>> /\ tried = 0 /\ states = <<>> /\ chosen = <<>>

-----------------------------------------------------------------------------
(* Helpers.                                                                *)

\* for market in Market: predictions.extend(service.generate(events, market))
LoopPredictions(page) ==
    FlattenSeq([n \in DOMAIN MarketOrder |-> Predictions(page, MarketOrder[n])])

Reply(status) == reply' = status /\ UNCHANGED <<search, wanted, pages>>

Answer(found) == Reply(IF found = <<>> THEN "422" ELSE "200")

\* The run has not got its predictions yet.
Fresh(s) == strategy = s /\ reply = "none" /\ pages = <<>>

\* The run has them, and no search is going on.
Idle(s) == strategy = s /\ reply = "none" /\ pages # <<>> /\ beam = <<>>

Custom ==
    /\ strategy = "custom"
    /\ Next
    /\ UNCHANGED <<strategy, fiveK, weekly>>

-----------------------------------------------------------------------------
(* OneKGenerator                                                           *)

OneK ==
    /\ Fresh("1k")
    /\ \E page \in Slates : pages' = <<page>> /\ Optimize(LoopPredictions(page))
    /\ UNCHANGED <<wanted, reply, strategy, fiveK, weekly>>

OneKEnds ==
    /\ Idle("1k")
    /\ Answer(ticket)
    /\ UNCHANGED <<strategy, fiveK, weekly>>

\* A round of the search of either generator.
StrategyRound ==
    /\ strategy \in {"1k", "5k"}
    /\ OptimizerRound
    /\ UNCHANGED <<strategy, fiveK, weekly>>

-----------------------------------------------------------------------------
(* FiveKGenerator                                                          *)

\* _qualified_pool: the most probable outcome of each event, the best of them.
Pool(predictions) ==
    LET likely == Kept(predictions, {n \in DOMAIN predictions :
                          predictions[n].probability >= Floor /\ predictions[n].log > 0})
        MoreLikely(p, q) == p.probability > q.probability
        ordered == StableSort(BestOfKey(likely, LAMBDA p : p.event, MoreLikely), MoreLikely)
    IN  SubSeq(ordered, 1, IF PoolSize < Len(ordered) THEN PoolSize ELSE Len(ordered))

FiveK ==
    /\ Fresh("5k")
    /\ \E page \in Slates : pages' = <<page>> /\ pool' = Pool(LoopPredictions(page))
    /\ UNCHANGED <<search, wanted, reply, strategy, attempt, best, weekly>>

Probability(picks) == SumFunction([n \in DOMAIN picks |-> picks[n].probability])

\* _ticket_score, the average probability, decides between two tickets.
Better5k(a, b) ==
    a # <<>> /\ (b = <<>> \/ Probability(a) * Len(b) > Probability(b) * Len(a))

BestSoFar == IF Better5k(ticket, best) THEN ticket ELSE best

\* An attempt keeps the better ticket and the next one shuffles the pool.
FiveKAttempt ==
    /\ Idle("5k")
    /\ pool # <<>> /\ attempt < Attempts
    /\ best' = BestSoFar
    /\ attempt' = attempt + 1
    /\ \E shuffled \in SetToSeqs(ToSet(pool)) : Optimize(shuffled)
    /\ UNCHANGED <<wanted, pages, reply, strategy, pool, weekly>>

FiveKEnds ==
    /\ Idle("5k")
    /\ pool = <<>> \/ attempt = Attempts
    /\ best' = BestSoFar
    /\ Answer(best')
    /\ UNCHANGED <<strategy, pool, attempt, weekly>>

-----------------------------------------------------------------------------
(* WeeklySafeGenerator                                                     *)

WeeklyStart ==
    /\ Fresh("weekly")
    /\ \E page \in Slates, w \in Wishes :
          pages' = <<page>> /\ Weekly!Generate(LoopPredictions(page), w)
    /\ UNCHANGED <<search, wanted, reply, strategy, fiveK>>

WeeklyStep ==
    /\ Weekly!TryCandidate \/ Weekly!Conclude
    /\ UNCHANGED <<vars, strategy, fiveK>>

WeeklyEnds ==
    /\ Idle("weekly") /\ states = <<>>
    /\ Answer(chosen)
    /\ UNCHANGED <<strategy, fiveK, weekly>>

-----------------------------------------------------------------------------
(* The endpoints of the three strategies.                                  *)

\* The weekly endpoint asks for Over/Under and for GG/NG.
Fetches == IF strategy = "weekly_route" THEN 2 ELSE 1

EventMarketOf(o) == <<o.event, o.market>>

\* Mutant: markets are told apart by their name only.
MergedByName(first, second) ==
    first \o Kept(second, {n \in DOMAIN second :
                             second[n].market \notin {q.market : q \in ToSet(first)}})

\* Event by event, the markets of the first fetch and those only the second has.
Merged(first, second) ==
    LET known == {EventMarketOf(o) : o \in ToSet(first)}
        both == first \o Kept(second, {n \in DOMAIN second :
                                         EventMarketOf(second[n]) \notin known})
        events == FirstOfKey(both, LAMBDA o : o.event)
    IN  FlattenSeq([n \in DOMAIN events |->
            Kept(both, {m \in DOMAIN both : both[m].event = events[n].event})])

Fetched == IF Len(pages) = 2 THEN Merged(pages[1], pages[2]) ELSE pages[1]

RouteFetches ==
    /\ strategy \in Routes /\ reply = "none" /\ Len(pages) < Fetches
    /\ \E page \in Feed \cup {<<>>} : pages' = Append(pages, page)
    /\ UNCHANGED <<search, wanted, reply, strategy, fiveK, weekly>>

\* As the Outage of CustomTicket.
RouteOutage ==
    /\ strategy \in Routes /\ reply = "none" /\ Len(pages) < Fetches
    /\ Reply("502")
    /\ UNCHANGED <<strategy, fiveK, weekly>>

\* The loop over Market raises KeyError for Market.ALL, which has no aliases,
\* at the first active market, whatever its outcomes; without one the generators
\* get no prediction and return None.
RouteEnds ==
    /\ strategy \in Routes /\ reply = "none" /\ Len(pages) = Fetches
    /\ Reply(IF \E o \in ToSet(Fetched) : o.marketActive THEN "500" ELSE "422")
    /\ UNCHANGED <<strategy, fiveK, weekly>>

GeneratorAnswered ==
    /\ strategy # "custom" /\ reply # "none"
    /\ UNCHANGED allVars

-----------------------------------------------------------------------------

GeneratorsNext ==
    \/ Custom
    \/ OneK \/ OneKEnds \/ StrategyRound
    \/ FiveK \/ FiveKAttempt \/ FiveKEnds
    \/ WeeklyStart \/ WeeklyStep \/ WeeklyEnds
    \/ RouteFetches \/ RouteOutage \/ RouteEnds
    \/ GeneratorAnswered

GeneratorsSpec == GeneratorsInit /\ [][GeneratorsNext]_allVars

-----------------------------------------------------------------------------
(* Properties.                                                             *)

\* The type of the state; no round keeps more states than the beam is wide,
\* and all of them have the same number of selections.
TypeOK ==
    /\ wanted \in Markets \cup {Unfiltered, Unknown}
    /\ reply \in {"none", "200", "422", "500", "502"}
    /\ Len(pages) <= (IF strategy \in Routes THEN Fetches ELSE MaxPages)
    /\ ToSet(pages) \subseteq Feed \cup Slates \cup {<<>>}
    /\ Len(beam) <= BeamWidth /\ Len(states) <= BeamWidth
    /\ \A a, b \in ToSet(beam) : Len(a) = Len(b)
    /\ \A picks \in ToSet(beam) \cup {ticket} : ToSet(picks) \subseteq ToSet(candidates)
    /\ \A picks \in ToSet(states) \cup {chosen} : ToSet(picks) \subseteq ToSet(shortlist)

Optimizing == strategy \in {"custom", "1k", "5k"}

Result == IF strategy = "5k" THEN best ELSE ticket

\* The outcomes a search may use: the 5k generator only those of its pool.
Offers(page) ==
    {o \in ToSet(Live(page, wanted)) :
        strategy = "5k" => o.probability >= Floor /\ o.event \in Events(pool)}

\* What an event adds if the lowest of its odds is taken, or for the 1k
\* generator, which takes the markets apart, the highest of the lowest odds of
\* its markets.
FavouriteLog(offers) == Min({o.log : o \in offers})

Apart == strategy = "1k"

EventLog(offers, apart, event) ==
    LET of(markets) == {o \in offers : o.event = event /\ o.market \in markets}
        played == {o.market : o \in offers}
        groups == IF apart THEN {{m} : m \in played} ELSE {played}
    IN  Max({FavouriteLog(of(g)) : g \in {g \in groups : of(g) # {}}})

EventsLog(offers, apart, events) ==
    SumFunction([e \in events |-> EventLog(offers, apart, e)])

Offering(page) == {o.event : o \in Offers(page)}

\* An answered ticket reaches the target with live outcomes of the last page,
\* one for each event, and without its last selection it does not exceed the
\* target: nothing is added to a ticket that is long enough.  (It may equal the
\* target, which rounding can take for too little, see OddsOptimizer.)
TicketIsSound ==
    Optimizing /\ reply = "200" =>
        /\ {p.id : p \in ToSet(Result)} \subseteq
              {<<o.event, o.market, o.outcome>> : o \in Offers(pages[Len(pages)])}
        /\ Cardinality(Events(Result)) = Len(Result)
        /\ Log(Result) >= Target
        /\ Log(Front(Result)) <= Target

\* However narrow the beam, no set of fewer events of the page exceeds the
\* target even at the lowest of their odds.  (At other odds a shorter ticket may
\* exist: the search considers one outcome of an event and market.)
FewestLegs ==
    Optimizing /\ reply = "200" =>
        LET page == pages[Len(pages)]
        IN  \A events \in SUBSET Offering(page) :
                Cardinality(events) < Len(Result) =>
                    EventsLog(Offers(page), Apart, events) <= Target

\* However narrow the beam, a request only moves past a page, and only answers
\* that there is no ticket, when all events of the page together, each at the
\* lowest of its odds, do not exceed the target.  (They may equal it, and other
\* outcomes may exceed it.)
NothingMissed ==
    Optimizing =>
        \A n \in DOMAIN pages :
            (n < Len(pages) \/ reply \in {"422", "502"}) =>
                EventsLog(Offers(pages[n]), Apart, Offering(pages[n])) <= Target

\* The weekly generator finds a ticket exactly when its candidates, all
\* together, reach the target and cover the days, however many states _prune
\* drops on the way; no limit per day takes a day from them; and the ticket is
\* one selection each of confident events, as few as its own order allows.
WeeklyIsExact ==
    LET confident == Weekly!Eligible(LoopPredictions(pages[1]), wish)
    IN  strategy = "weekly" /\ reply # "none" =>
            /\ reply = "200" <=> Weekly!Qualifies(shortlist)
            /\ Weekly!Days(shortlist) = Weekly!Days(confident)
            /\ reply = "200" =>
                  /\ Weekly!Qualifies(chosen)
                  /\ ~Weekly!Qualifies(Front(chosen))
                  /\ ToSet(chosen) \subseteq ToSet(confident)
                  /\ Cardinality(Events(chosen)) = Len(chosen)

\* The weekly endpoint asks twice while the feed changes: the merged list has
\* every market of an event that either answer had, and each market as one
\* answer had it, never outcomes of both.
MergeKeepsMarkets ==
    strategy = "weekly_route" /\ Len(pages) = 2 =>
        LET of(list, key) == Kept(list, {n \in DOMAIN list : EventMarketOf(list[n]) = key})
            keys(list) == {EventMarketOf(o) : o \in ToSet(list)}
        IN  /\ keys(Fetched) = keys(pages[1]) \cup keys(pages[2])
            /\ \A key \in keys(Fetched) : \E n \in {1, 2} : of(Fetched, key) = of(pages[n], key)

=============================================================================
