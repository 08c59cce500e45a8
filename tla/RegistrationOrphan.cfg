\* A payment page opened twice, requests one at a time.
SPECIFICATION Spec
CONSTANTS
    RegId = {r1}
    User = {u1}
    Event = {e1}
    Intent = {i1, i2}
    Price = {100}
    Day = {1, 2}
    None = None
    Request = {q1}
    RawBody = TRUE
    Faults = FALSE
SYMMETRY Symmetry
INVARIANTS
    PaidIntentIsStored
