------------------------------- MODULE Tables -------------------------------
(***************************************************************************)
(* The two tables of the shared database that more than one service reads  *)
(* or writes through repositories of its own: registrations                *)
(* (registration-service, checkin-service) and events (event-service,      *)
(* registration-service).                                                  *)
(*                                                                         *)
(* A row keeps the columns that some handler tests, or writes after the    *)
(* insert.  The timestamps confirmedAt and cancelledAt are TRUE once set.  *)
(* Of a registration, formData, the QR code and the pricing tier are       *)
(* written once, at the insert, and decide nothing; of an event, the       *)
(* descriptive columns.                                                    *)
(***************************************************************************)
EXTENDS Integers, TypeOrm

CONSTANTS
    RegId,      \* primary keys of registrations
    User,       \* primary keys of users
    Event,      \* primary keys of events
    Intent,     \* Stripe PaymentIntent ids
    Price,      \* the final prices the rules engine can compute, in tenths of
                \* a cent
    Day         \* the dates an event can start or end

VARIABLES
    regs,       \* [RegId -> row or None]: the registrations table
    events      \* [Event -> row or None]: the events table

RegistrationStatus == {"pending", "confirmed", "cancelled", "waitlisted",
                       "checked_in"}

EventStatus == {"draft", "published", "ongoing", "completed", "cancelled"}

\* What a decimal(10,2) column keeps of a price: whole cents, halves rounded
\* away from zero.
Cents(p) == IF p >= 0 THEN (p + 5) \div 10 ELSE -((5 - p) \div 10)

Amount == {Cents(p) : p \in Price}

RegistrationRow ==
    [event: Event, user: User, amountPaid: Amount, status: RegistrationStatus,
     intent: Intent \cup {None}, confirmedAt: BOOLEAN, cancelledAt: BOOLEAN]

RegistrationColumn == {"event", "user", "amountPaid", "status", "intent",
                       "confirmedAt", "cancelledAt"}

EventRow == [status: EventStatus, startDate: Day, endDate: Day]

EventColumn == {"status", "startDate", "endDate"}

ASSUME TablesAssumption ==
    /\ Price \subseteq Int
    /\ Day \subseteq Int
    /\ None \notin RegistrationRow
    /\ None \notin EventRow
    /\ None \notin Amount
    /\ None \notin RegId
    /\ None \notin Intent
    /\ None \notin Event

TablesTypeOK ==
    /\ regs \in [RegId -> RegistrationRow \cup {None}]
    /\ events \in [Event -> EventRow \cup {None}]

\* The keys of the rows the registrations table holds.
Registered == {r \in RegId : regs[r] # None}

\* The rows of one user at one event.  Nothing in the schema makes this set
\* a singleton: registrations has no unique (eventId, userId) index.
RowsOf(e, u) == {r \in Registered : regs[r].event = e /\ regs[r].user = u}

\* The events organisers have before anything else happens: drafts and
\* published ones, which end after they start.  No handler and no script
\* makes an event ongoing or completed.
EventAtStart ==
    {row \in EventRow : /\ row.status \in {"draft", "published"}
                        /\ row.startDate < row.endDate}

=============================================================================
