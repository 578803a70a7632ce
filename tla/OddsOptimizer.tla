--------------------------- MODULE OddsOptimizer ---------------------------
(***************************************************************************)
(* OddsOptimizer (services/odds_optimizer.py): a beam search for an        *)
(* accumulator at or above the target odds.  Odds are kept as the code     *)
(* compares them, by their logarithms, here as integers; the code's are    *)
(* floating point, so a product equal to the target may be taken for       *)
(* smaller than it.                                                        *)
(***************************************************************************)
EXTENDS Integers, PythonLists

CONSTANTS
    Target,      \* the logarithm of the target odds
    BeamWidth    \* the states kept from one round to the next

ASSUME OddsOptimizerAssumption ==
    Target \in Nat \ {0} /\ BeamWidth \in Nat \ {0}

VARIABLES
    candidates,  \* the predictions to choose from, best quality first
    beam,        \* the states of the round, each its selections; empty: ended
    ticket       \* the selections returned, empty for None

search == <<candidates, beam, ticket>>

-----------------------------------------------------------------------------
(* Helpers.                                                                *)

Log(picks) == SumFunction([n \in DOMAIN picks |-> picks[n].log])

Quality(picks) == SumFunction([n \in DOMAIN picks |-> picks[n].quality])

Events(picks) == {p.event : p \in ToSet(picks)}

-----------------------------------------------------------------------------
(* The candidates: one for each market of an event, the one of the best    *)
(* quality (the first of several), at the place of the market's first.     *)

EventMarket(p) == <<p.event, p.market>>

Likelier(p, q) == p.quality > q.quality

\* Those at odds above 1.
Rising(predictions) == Kept(predictions, {n \in DOMAIN predictions : predictions[n].log > 0})

Prepare(predictions) ==
    StableSort(BestOfKey(Rising(predictions), EventMarket, Likelier), Likelier)

-----------------------------------------------------------------------------
(* The search.                                                             *)

\* Mutant: several selections of one event.
ExpansionsRepeating ==
    FlattenSeq([n \in DOMAIN beam |->
        [m \in DOMAIN candidates |-> Append(beam[n], candidates[m])]])

\* The candidates of an event a state has not got.
Open(picks) ==
    Kept(candidates, {m \in DOMAIN candidates : candidates[m].event \notin Events(picks)})

\* Every state of the beam with every candidate open to it.
Expansions ==
    FlattenSeq([n \in DOMAIN beam |->
        LET open == Open(beam[n])
        IN  [m \in DOMAIN open |-> Append(beam[n], open[m])]])

\* The logarithm plus 0.15 times the quality, in twentieths.
Score(picks) == 20 * Log(picks) + 3 * Quality(picks)

\* Mutant: the sort without reverse=True.
BetterAscending(a, b) ==
    \/ Score(a) < Score(b)
    \/ Score(a) = Score(b) /\ Quality(a) < Quality(b)

Better(a, b) ==
    \/ Score(a) > Score(b)
    \/ Score(a) = Score(b) /\ Quality(a) > Quality(b)

Ids(picks) == [n \in DOMAIN picks |-> picks[n].id]

\* Mutant: the beam is never cut.
TrimmedNever(states) == FirstOfKey(states, Ids)

\* Two orders of the same selections have different ids, and both are kept.
Trimmed(states) ==
    LET distinct == FirstOfKey(states, Ids)
    IN  SubSeq(distinct, 1, IF Len(distinct) < BeamWidth THEN Len(distinct) ELSE BeamWidth)

Optimize(predictions) ==
    /\ candidates' = Prepare(predictions)
    /\ beam' = IF candidates' = <<>> THEN <<>> ELSE << <<>> >>
    /\ ticket' = <<>>

\* Among the expansions that equal the target, rounding makes any reach it.
Reaching(exact) ==
    SelectInSeq(Expansions, LAMBDA picks : \/ Log(picks) > Target
                                           \/ picks \in exact)

Return(exact) ==
    /\ Reaching(exact) # 0
    /\ ticket' = Expansions[Reaching(exact)]
    /\ beam' = <<>>

\* With no expansion left the beam is empty: None.
KeepBest(exact) ==
    /\ Reaching(exact) = 0
    /\ beam' = Trimmed(StableSort(Expansions, Better))
    /\ UNCHANGED ticket

\* One round of the while loop.
Round ==
    /\ beam # <<>>
    /\ \E exact \in SUBSET {picks \in ToSet(Expansions) : Log(picks) = Target} :
          Return(exact) \/ KeepBest(exact)
    /\ UNCHANGED candidates

=============================================================================
