---------------------------- MODULE MCGenerators ----------------------------
(* Generators on small feeds; logarithms and probabilities in thousandths.  *)
EXTENDS Generators

\* ln(odds) and 1 / odds.
Price(odds) == CASE odds = "1.25" -> <<223, 800>>
                 [] odds = "1.5"  -> <<405, 667>>
                 [] odds = "2"    -> <<693, 500>>
                 [] odds = "3"    -> <<1099, 333>>
                 [] odds = "4"    -> <<1386, 250>>
                 [] odds = "5"    -> <<1609, 200>>
                 [] odds = "150"  -> <<5011, 10>>

\* Events e1 and e2 are played on day 1, e3 on day 2, e4 and e5 on day 3.
Day(event) == CASE event \in {"e1", "e2"} -> 1
                [] event = "e3"           -> 2
                [] event \in {"e4", "e5"} -> 3

\* Quality: the probability and 0.01 times its product with the odds, which is 1
\* for odds of up to 100.
Outcome(event, market, outcome, odds) ==
    [event |-> event, day |-> Day(event), market |-> market, outcome |-> outcome,
     marketActive |-> TRUE, active |-> TRUE,
     log |-> Price(odds)[1], probability |-> Price(odds)[2],
     quality |-> Price(odds)[2] + (IF odds = "150" THEN 15 ELSE 10)]

Over(event, odds) == Outcome(event, "over", "12", odds)
Under(event, odds) == Outcome(event, "under", "13", odds)

\* ln(12): three and four, or twice two and three, equal it; ln(3).
LogTwelve == 2485
LogThree == 1099

Suspended(o) == [o EXCEPT !.marketActive = FALSE]

Withdrawn(o) == [o EXCEPT !.active = FALSE]

Pages == {
    << Suspended(Over("e1", "2")) >>,
    << Withdrawn(Over("e1", "2")), Suspended(Under("e2", "4")) >>,
    << Over("e1", "150"), Withdrawn(Over("e1", "4")), Under("e1", "1.25"), Over("e2", "3") >>,
    << Over("e1", "2"), Over("e2", "4"), Over("e3", "3") >>,
    << Over("e1", "1.5"), Over("e2", "2"), Over("e3", "4"), Over("e4", "4") >>,
    << Over("e1", "2"), Over("e2", "2"), Over("e3", "2"), Over("e4", "2") >>,
    << Over("e1", "4"), Under("e1", "1.5"), Over("e2", "4") >>,
    << Over("e1", "3"), Outcome("e1", "under", "12", "2"), Under("e2", "4") >> }

OverUnder == <<"over", "under">>

\* Every price of four events, and a second market of the last; a withdrawn one.
Lists ==
    {<< Over("e1", a), Over("e2", b), Over("e3", c), Over("e4", d), Under("e4", e) >> :
        a \in {"1.25", "1.5", "2", "4"}, b \in {"1.25", "1.5", "3", "4"}, c \in {"1.25", "2", "5"},
        d \in {"2", "5"}, e \in {"1.5", "5"}}
    \cup {<< Withdrawn(Over("e1", "2")), Suspended(Over("e2", "4")) >>}

Wish(probability, confidence, days, perDay) ==
    [probability |-> probability, confidence |-> confidence,
     days |-> days, perDay |-> perDay]

SomeWishes ==
    {Wish(600, 2, 3, 2), Wish(400, 0, 3, 1), Wish(400, 0, 2, 2), Wish(300, 1, 1, 2)}

=============================================================================
