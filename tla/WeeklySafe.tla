----------------------------- MODULE WeeklySafe -----------------------------
(***************************************************************************)
(* WeeklySafeGenerator (services/weekly_safe_generator.py): an accumulator *)
(* of confident predictions that covers several days.  The candidates are  *)
(* tried one after the other, each appended to every state kept so far.    *)
(* Odds are exact decimals in the code and logarithms here; probabilities  *)
(* are in thousandths.                                                     *)
(***************************************************************************)
EXTENDS Integers, PythonLists

CONSTANTS
    Target,      \* the logarithm of TARGET_ODDS
    BeamWidth    \* the states kept from one candidate to the next

VARIABLES
    wish,        \* the keyword arguments of generate
    candidates,  \* what _prepare made of the predictions
    tried,       \* how many of them the loop has gone through
    states,      \* the selections of each state, best first
    chosen       \* the ticket returned, empty for none

weekly == <<wish, candidates, tried, states, chosen>>

-----------------------------------------------------------------------------
(* Helpers.                                                                *)

Log(picks) == SumFunction([n \in DOMAIN picks |-> picks[n].log])

Probability(picks) == SumFunction([n \in DOMAIN picks |-> picks[n].probability])

EventsOf(picks) == {p.event : p \in ToSet(picks)}

Days(picks) == {p.day : p \in ToSet(picks)}

\* Low, medium, high and very high confidence.
Confidence(probability) == Cardinality({t \in {550, 650, 750} : probability >= t})

\* Sixty times the score, exact for up to six selections.
Score(picks) ==
    IF picks = <<>> THEN 0
    ELSE (60 \div Len(picks)) * Probability(picks) + 600 * Cardinality(Days(picks))

Qualifies(picks) ==
    Log(picks) >= Target /\ Cardinality(Days(picks)) >= wish.days

-----------------------------------------------------------------------------
(* _prepare: day by day the best prediction of each event, and the best of *)
(* those up to the limit.                                                  *)

Eligible(predictions, w) ==
    Kept(predictions, {n \in DOMAIN predictions :
                          LET p == predictions[n]
                          IN  /\ p.probability >= w.probability
                              /\ Confidence(p.probability) >= w.confidence
                              /\ p.log > 0})

MoreConfident(p, q) == p.quality > q.quality

Prepared(predictions, w) ==
    LET all == Eligible(predictions, w)
        days == Ascending(Days(all))
        Best(day) ==
            LET played == Kept(all, {n \in DOMAIN all : all[n].day = day})
                best == StableSort(BestOfKey(played, LAMBDA p : p.event, MoreConfident),
                                   MoreConfident)
            IN  SubSeq(best, 1, IF w.perDay < Len(best) THEN w.perDay ELSE Len(best))
    IN  FlattenSeq([n \in DOMAIN days |-> Best(days[n])])

-----------------------------------------------------------------------------
(* generate                                                                *)

Generate(predictions, w) ==
    /\ wish' = w
    /\ candidates' = Prepared(predictions, w)
    /\ tried' = 0
    /\ states' = << <<>> >>
    /\ chosen' = <<>>

\* Mutant: the most probable states are kept, however few days they cover.
PrefersProbable(a, b) == Score(a) > Score(b)

\* The rank by which _prune sorts.
Prefers(a, b) ==
    LET da == Cardinality(Days(a))
        db == Cardinality(Days(b))
    IN  \/ da > db
        \/ da = db /\ Log(a) > Log(b)
        \/ da = db /\ Log(a) = Log(b) /\ Score(a) > Score(b)

Prune(kept) ==
    LET distinct == BestOfKey(kept, LAMBDA a : <<EventsOf(a), Days(a)>>,
                              LAMBDA a, b : Score(a) > Score(b))
        ranked == StableSort(distinct, Prefers)
    IN  SubSeq(ranked, 1, IF BeamWidth < Len(ranked) THEN BeamWidth ELSE Len(ranked))

Extended(c) ==
    LET open == Kept(states, {n \in DOMAIN states : c.event \notin EventsOf(states[n])})
    IN  [n \in DOMAIN open |-> Append(open[n], c)]

Searching == states # <<>>

\* One candidate: the first state that qualifies with it is returned.
TryCandidate ==
    /\ Searching /\ tried < Len(candidates)
    /\ LET extended == Extended(candidates[tried + 1])
           first == SelectInSeq(extended, Qualifies)
       IN  IF first # 0
           THEN chosen' = extended[first] /\ states' = <<>>
           ELSE states' = Prune(states \o extended) /\ UNCHANGED chosen
    /\ tried' = tried + 1
    /\ UNCHANGED <<wish, candidates>>

\* After the loop: the best state that qualifies, if any.
Conclude ==
    /\ Searching /\ tried = Len(candidates)
    /\ LET kept == Kept(states, {n \in DOMAIN states : Qualifies(states[n])})
           qualified == StableSort(kept, LAMBDA a, b : Score(a) > Score(b))
       IN  chosen' = IF qualified = <<>> THEN <<>> ELSE qualified[1]
    /\ states' = <<>>
    /\ UNCHANGED <<wish, candidates, tried>>

=============================================================================
