\* Two requests at once on one registration that has to be paid for, on a
\* service that is given the raw body and runs its handlers to their end.
SPECIFICATION FairSpec
CONSTANTS
    RegId = {r1}
    User = {u1}
    Event = {e1}
    Intent = {i1}
    Price = {100}
    Day = {1, 2}
    None = None
    Request = {q1, q2}
    RawBody = TRUE
    Faults = FALSE
INVARIANTS
    ConfirmedIsSettled
    ReceiptOnlyIfPaid
PROPERTIES
    OfferedIsStored
    PaymentConfirms
