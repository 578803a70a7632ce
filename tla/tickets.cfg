\* One build and its client with one retry, a session that changes under it, two
\* predictions and two prices.
CONSTANTS
    s1 = s1
    b1 = b1
    o1 = o1
    o2 = o2
    Sessions = {s1}
    Builders = {b1}
    Predictions <- TwoEvents
    Odds = {o1, o2}
    Gone = Gone
    MaxRetries = 1
SPECIFICATION FairSpec
INVARIANTS
    TypeOK
    NoOrphans
    RefusedLeavesNothing
    HistoryIsTicket
    FreshOdds
PROPERTIES
    BuildSpec
    BuildsEnd
