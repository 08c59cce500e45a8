\* A sign-up at a price that the column rounds to nothing.
SPECIFICATION Spec
CONSTANTS
    RegId = {r1}
    User = {u1}
    Event = {e1}
    Intent = {}
    Price = {4}
    Day = {1, 2}
    None = None
    Request = {q1}
    RawBody = TRUE
    Faults = FALSE
SYMMETRY Symmetry
INVARIANTS
    FreeNeverWaits
