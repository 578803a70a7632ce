-------------------------- MODULE MCSelectionStore --------------------------
(* SelectionStore on small sets of sessions and predictions.               *)
EXTENDS SelectionStore, TLC

Pick(id, event, specifier) ==
    [id |-> id, event |-> event, specifier |-> specifier]

\* Over 1.5 and over 2.5 goals of an event, which have one market, one outcome
\* and one id, and a third prediction of the event that excludes both.
Rivals == {Pick("p1", "e1", "1.5"), Pick("p1", "e1", "2.5"), Pick("p2", "e1", "none")}

Symmetry == Permutations(Requests)

=============================================================================
