---------------------------- MODULE CustomTicket ----------------------------
(***************************************************************************)
(* POST /api/v1/generators/custom/generate (routes/generators.py): page    *)
(* after page of the provider's feed is turned into predictions            *)
(* (PredictionService) and searched for a ticket, each page by itself.     *)
(***************************************************************************)
EXTENDS OddsOptimizer, FiniteSets

CONSTANTS
    Feed,       \* the pages with events: sequences of outcomes
    Markets,    \* the markets a request can name
    MaxPages    \* how many pages one request asks for

Unfiltered == "all"       \* no market named, or several: all of them
Unknown == "unknown"      \* a market_filter that names no market

ASSUME CustomTicketAssumption ==
    /\ MaxPages \in Nat \ {0}
    /\ <<>> \notin Feed
    /\ {Unfiltered, Unknown} \cap Markets = {}

VARIABLES
    wanted,     \* the market of the request
    pages,      \* the pages fetched so far
    reply       \* the status of the answer

vars == <<candidates, beam, ticket, wanted, pages, reply>>

Init ==
    /\ candidates = <<>> /\ beam = <<>> /\ ticket = <<>>
    /\ wanted \in Markets \cup {Unfiltered, Unknown}
    /\ pages = <<>>
    /\ reply = "none"

-----------------------------------------------------------------------------
(* PredictionService.                                                      *)

\* Mutant: outcomes of two events are taken for one.
OutcomeOnly(p) == p.outcome

\* Two markets of an event may number their outcomes alike; without a filter
\* only the first outcome of a number is kept.
EventOutcome(p) == <<p.event, p.outcome>>

\* The active outcomes of an active market, at odds above 1.
Live(page, market) ==
    Kept(page, {n \in DOMAIN page : /\ page[n].marketActive
                                   /\ page[n].active /\ page[n].log > 0
                                   /\ market \in {Unfiltered, page[n].market}})

Predict(o, market) ==
    [id |-> <<o.event, o.market, o.outcome>>, event |-> o.event, day |-> o.day,
     market |-> market, outcome |-> o.outcome, log |-> o.log,
     probability |-> o.probability, quality |-> o.quality]

Predictions(page, market) ==
    LET live == Live(page, market)
    IN  FirstOfKey([n \in DOMAIN live |-> Predict(live[n], market)], EventOutcome)

-----------------------------------------------------------------------------
(* generate_custom.                                                        *)

Refuse ==
    /\ wanted = Unknown /\ reply = "none"
    /\ reply' = "422"
    /\ UNCHANGED <<candidates, beam, ticket, wanted, pages>>

\* The request waits for a page: none is being searched, no ticket was found.
Asking ==
    /\ reply = "none" /\ wanted # Unknown
    /\ beam = <<>> /\ ticket = <<>>
    /\ Len(pages) < MaxPages

Search ==
    /\ Asking
    /\ \E page \in Feed :
          /\ pages' = Append(pages, page)
          /\ Optimize(Predictions(page, wanted))
    /\ UNCHANGED <<wanted, reply>>

\* A page without events is the last one.
NoEvents ==
    /\ Asking
    /\ reply' = "422"
    /\ UNCHANGED <<candidates, beam, ticket, wanted, pages>>

\* Both providers failed with nothing in the cache; 502 stands for 503 too,
\* which ProviderClient tells apart.
Outage ==
    /\ Asking
    /\ reply' = "502"
    /\ UNCHANGED <<candidates, beam, ticket, wanted, pages>>

OptimizerRound ==
    /\ Round
    /\ UNCHANGED <<wanted, pages, reply>>

Found ==
    /\ ticket # <<>> /\ reply = "none"
    /\ reply' = "200"
    /\ UNCHANGED <<candidates, beam, ticket, wanted, pages>>

GiveUp ==
    /\ beam = <<>> /\ ticket = <<>> /\ reply = "none"
    /\ Len(pages) = MaxPages
    /\ reply' = "422"
    /\ UNCHANGED <<candidates, beam, ticket, wanted, pages>>

\* The request has its answer.
Answered == reply # "none" /\ UNCHANGED vars

Next == \/ Refuse \/ Search \/ NoEvents \/ Outage \/ OptimizerRound
        \/ Found \/ GiveUp \/ Answered

Spec == Init /\ [][Next]_vars

=============================================================================
