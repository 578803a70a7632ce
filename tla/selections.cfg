\* Three concurrent requests for one session.
CONSTANTS
    s1 = s1
    r1 = r1
    r2 = r2
    r3 = r3
    Sessions = {s1}
    Requests = {r1, r2, r3}
    Predictions <- Rivals
SPECIFICATION Spec
SYMMETRY Symmetry
INVARIANTS
    TypeOK
    OneSelectionPerEvent
    NoOrphans
PROPERTY AdditionStored
