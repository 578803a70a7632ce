---------------------------- MODULE PythonLists ----------------------------
(***************************************************************************)
(* Python's comprehensions, sorted and dict on sequences.  They are        *)
(* defined by the order of the positions, not by recursion, so that they   *)
(* can be reasoned about.                                                  *)
(***************************************************************************)
EXTENDS SequencesExt

\* The elements of a finite set in the order R, a set of pairs <<earlier, later>>.
InOrder(S, R) ==
    [n \in 1..Cardinality(S) |->
        CHOOSE x \in S : Cardinality({y \in S : <<y, x>> \in R}) = n - 1]

Ascending(S) == InOrder(S, {p \in S \X S : p[1] < p[2]})

\* [x for x in s if ...]: the elements of s at the positions in K.
Kept(s, K) ==
    LET at == Ascending(K)
    IN  [n \in DOMAIN at |-> s[at[n]]]

\* sorted: elements of the same rank keep their order.
StableSort(s, Precedes(_, _)) ==
    LET order == InOrder(DOMAIN s,
                         {p \in (DOMAIN s) \X (DOMAIN s) :
                             \/ Precedes(s[p[1]], s[p[2]])
                             \/ ~Precedes(s[p[2]], s[p[1]]) /\ p[1] < p[2]})
    IN  [i \in DOMAIN s |-> s[order[i]]]

\* The elements of s without those whose key an earlier one has.
FirstOfKey(s, Key(_)) ==
    Kept(s, {i \in DOMAIN s : \A j \in 1..(i - 1) : Key(s[j]) # Key(s[i])})

\* A dict that keeps the best element of each key: the first of several, at the
\* place of the key's first.
BestOfKey(s, Key(_), Precedes(_, _)) ==
    LET best(key) ==
            CHOOSE b \in DOMAIN s :
                /\ Key(s[b]) = key
                /\ \A i \in DOMAIN s : Key(s[i]) = key =>
                      /\ ~Precedes(s[i], s[b])
                      /\ i < b => Precedes(s[b], s[i])
        keys == FirstOfKey(s, Key)
    IN  [n \in DOMAIN keys |-> s[best(Key(keys[n]))]]

=============================================================================
