\* The service as main.ts boots it, without the raw body.
SPECIFICATION FairSpec
CONSTANTS
    RegId = {r1}
    User = {u1}
    Event = {e1}
    Intent = {i1}
    Price = {100}
    Day = {1, 2}
    None = None
    Request = {q1}
    RawBody = FALSE
    Faults = FALSE
PROPERTIES
    PaymentConfirms
