\* Once every key is used and every event deleted nothing can happen.
CHECK_DEADLOCK FALSE
SPECIFICATION PartSpec
CONSTANTS
    RegId = {r1}
    User = {u1}
    Event = {e1}
    Intent = {i1}
    Price = {100}
    Day = {1, 2}
    None = None
    Request = {q1}
    RawBody = TRUE
    Faults = TRUE
    Scanner = {s1}
    CheckInId = {c1, c2}
    Session = {}
    ScanFaults = TRUE
    Organizer = {o1, o2}
SYMMETRY Symmetry
INVARIANTS
    CheckedInHasRecord
    ConfirmedIsSettled
    RegistrationKeepsEvent
