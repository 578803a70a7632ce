\* One request at a time for one session.
CONSTANTS
    s1 = s1
    r1 = r1
    Sessions = {s1}
    Requests = {r1}
    Predictions <- Rivals
SPECIFICATION Spec
PROPERTY ExactStored
