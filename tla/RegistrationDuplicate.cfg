\* Two sign-ups of the same person at once.
SPECIFICATION Spec
CONSTANTS
    RegId = {r1, r2}
    User = {u1}
    Event = {e1}
    Intent = {}
    Price = {0}
    Day = {1, 2}
    None = None
    Request = {q1, q2}
    RawBody = TRUE
    Faults = FALSE
SYMMETRY Symmetry
INVARIANTS
    OneRowPerAttendee
