\* Free and paid registrations side by side, one request at a time.
SPECIFICATION Spec
CONSTANTS
    RegId = {r1, r2}
    User = {u1, u2}
    Event = {e1}
    Intent = {i1, i2}
    Price = {0, 4, 100}
    Day = {1, 2}
    None = None
    Request = {q1}
    RawBody = TRUE
    Faults = TRUE
SYMMETRY Symmetry
INVARIANTS
    TypeOK
    IntentOwnership
    FreeNeverCharged
PROPERTIES
    KeepsPromise
