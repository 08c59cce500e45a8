---------------------------- MODULE Registration ----------------------------
(***************************************************************************)
(* registration-service: sign-up, organiser confirmation and cancellation, *)
(* Stripe payment intents and the Stripe webhook, with every await at      *)
(* which another request can run as a step of its own.                     *)
(*                                                                         *)
(* A request runs in a slot q of Request; h[q].pc names the next database  *)
(* or network call of its handler.  A request that the service rejects     *)
(* before it writes anything leaves the state alone, so its guard is a     *)
(* conjunct of the action and the rejection is a stuttering step.          *)
(***************************************************************************)
EXTENDS Tables, FiniteSets

CONSTANTS
    Request,    \* slots for requests in progress: bounds the concurrency
    RawBody,    \* TRUE: the webhook controller gets the raw request body
    Faults      \* TRUE: a handler may be cut short at any await

ASSUME RegistrationAssumption == RawBody \in BOOLEAN /\ Faults \in BOOLEAN

VARIABLES
    h,          \* [Request -> handler]: the handlers in progress
    stripe,     \* [Intent -> record]: the PaymentIntents as Stripe sees them
    answered,   \* the payments whose webhook has been answered with a 2xx
    mail,       \* [RegId -> set of kinds]: emails that reached email-service
    approved    \* history: registrations an organiser asked to confirm

vars == <<regs, events, h, stripe, answered, mail, approved>>

MailKind == {"registration", "payment", "confirmation"}

Handler ==
    [pc: {"idle", "existing", "insert", "stripe", "reload", "write", "mail",
          "confirm"},
     op: {"none", "create", "confirm", "cancel", "intent", "webhook"},
     reg: RegId \cup {None},
     event: Intent \cup {None},             \* the payment a webhook reports
     entity: RegistrationRow \cup {None},   \* the entity held in memory
     cols: SUBSET RegistrationColumn]       \* the columns save found changed

PaymentIntent ==
    [reg: RegId \cup {None},
     state: {"unused", "created", "offered", "succeeded"}]

TypeOK ==
    /\ TablesTypeOK
    /\ h \in [Request -> Handler]
    /\ stripe \in [Intent -> PaymentIntent]
    /\ answered \subseteq Intent
    /\ mail \in [RegId -> SUBSET MailKind]
    /\ approved \subseteq RegId

-----------------------------------------------------------------------------
Idle == [pc |-> "idle", op |-> "none", reg |-> None, event |-> None,
         entity |-> None, cols |-> {}]

\* A handler about to save the entity of row r.
Saving(op, r, entity) ==
    [Idle EXCEPT !.pc = "reload", !.op = op, !.reg = r, !.entity = entity]

\* The row a sign-up inserts.  The status is decided on the price as it was
\* computed, the column keeps it in cents.
NewRow(e, u, p) ==
    [event |-> e, user |-> u, amountPaid |-> Cents(p),
     status |-> IF p > 0 THEN "pending" ELSE "confirmed",
     intent |-> None, confirmedAt |-> FALSE, cancelledAt |-> FALSE]

\* Mutant of NeedsPayment: lets a free registration ask for an intent.
NeedsPaymentOrFree(row) == row.amountPaid >= 0

NeedsPayment(row) == row.amountPaid > 0

Confirmed(row) == [row EXCEPT !.status = "confirmed", !.confirmedAt = TRUE]

\* Mutant of Cancelled: a status the enum does not have.
CancelledMisspelt(row) == [row EXCEPT !.status = "canceled", !.cancelledAt = TRUE]

Cancelled(row) == [row EXCEPT !.status = "cancelled", !.cancelledAt = TRUE]

Init ==
    /\ regs = [r \in RegId |-> None]
    /\ events \in [Event -> EventAtStart]
    /\ h = [q \in Request |-> Idle]
    /\ stripe = [i \in Intent |-> [reg |-> None, state |-> "unused"]]
    /\ answered = {}
    /\ mail = [r \in RegId |-> {}]
    /\ approved = {}

-----------------------------------------------------------------------------
(* POST /registrations and POST /registrations/public                      *)

\* Bound: a sign-up starts only while the finite RegId has a key for it.
RoomToInsert ==
    Cardinality(Registered)
        + Cardinality({q \in Request : h[q].pc \in {"existing", "insert"}})
        < Cardinality(RegId)

\* Only the public route insists on a live event; both need it to exist.
Create(q, e, u, p, public) ==
    /\ h[q] = Idle
    /\ RoomToInsert
    /\ events[e] # None
    /\ public => events[e].status \in {"published", "ongoing"}
    /\ h' = [h EXCEPT ![q] = [Idle EXCEPT !.pc = "existing", !.op = "create",
                                          !.entity = NewRow(e, u, p)]]
    /\ UNCHANGED <<regs, events, stripe, answered, mail, approved>>

\* Any earlier row of the user at the event, a cancelled one too, rejects
\* the sign-up; so may the form rules, which run before the insert.
CheckExisting(q) ==
    /\ h[q].pc = "existing"
    /\ \/ /\ RowsOf(h[q].entity.event, h[q].entity.user) = {}
          /\ h' = [h EXCEPT ![q].pc = "insert"]
       \/ h' = [h EXCEPT ![q] = Idle]
    /\ UNCHANGED <<regs, events, stripe, answered, mail, approved>>

\* The INSERT: the database picks a fresh key.  The foreign key rejects a
\* row whose event has been deleted since it was looked up.
Insert(q) ==
    /\ h[q].pc = "insert"
    /\ IF events[h[q].entity.event] = None
       THEN h' = [h EXCEPT ![q] = Idle] /\ UNCHANGED regs
       ELSE \E r \in RegId \ Registered :
                /\ regs' = [regs EXCEPT ![r] = h[q].entity]
                /\ h' = [h EXCEPT ![q].pc = "mail", ![q].reg = r]
    /\ UNCHANGED <<events, stripe, answered, mail, approved>>

-----------------------------------------------------------------------------
(* PATCH /registrations/:id/confirm and /cancel: load, change, save        *)

\* An organiser confirms; the code asks nothing of the row's status.
Confirm(q, r) ==
    /\ h[q] = Idle
    /\ r \in Registered
    /\ h' = [h EXCEPT ![q] = Saving("confirm", r, Confirmed(regs[r]))]
    /\ approved' = approved \cup {r}
    /\ UNCHANGED <<regs, events, stripe, answered, mail>>

Cancel(q, r) ==
    /\ h[q] = Idle
    /\ r \in Registered
    /\ regs[r].status # "checked_in"
    /\ h' = [h EXCEPT ![q] = Saving("cancel", r, Cancelled(regs[r]))]
    /\ UNCHANGED <<regs, events, stripe, answered, mail, approved>>

-----------------------------------------------------------------------------
(* POST /registrations/:id/payment-intent                                  *)

CreatePaymentIntent(q, r) ==
    /\ h[q] = Idle
    /\ r \in Registered
    /\ NeedsPayment(regs[r])
    /\ h' = [h EXCEPT ![q] = [Idle EXCEPT !.pc = "stripe", !.op = "intent",
                                          !.reg = r, !.entity = regs[r]]]
    /\ UNCHANGED <<regs, events, stripe, answered, mail, approved>>

\* Mutant of Fresh: intents are reused until they are paid.
FreshUntilPaid(i) == stripe[i].state # "succeeded"

Fresh(i) == stripe[i].state = "unused"

\* Mutant of NewIntent: the browser gets the secret before the row is saved.
NewIntentOffered(r) == [reg |-> r, state |-> "offered"]

NewIntent(r) == [reg |-> r, state |-> "created"]

\* Stripe answers with a new intent, which the entity in memory takes.
StripeCreates(q) ==
    /\ h[q].pc = "stripe"
    /\ \E i \in Intent :
          /\ Fresh(i)
          /\ stripe' = [stripe EXCEPT ![i] = NewIntent(h[q].reg)]
          /\ h' = [h EXCEPT ![q].pc = "reload", ![q].entity.intent = i]
    /\ UNCHANGED <<regs, events, answered, mail, approved>>

\* Stripe answers with an error and the handler throws.
StripeRejects(q) ==
    /\ h[q].pc = "stripe"
    /\ h' = [h EXCEPT ![q] = Idle]
    /\ UNCHANGED <<regs, events, stripe, answered, mail, approved>>

-----------------------------------------------------------------------------
(* Repository.save of a loaded registration, in its two round trips        *)

Reload(q) ==
    /\ h[q].pc = "reload"
    /\ h' = [h EXCEPT ![q].pc = "write",
                      ![q].cols = Changed(regs[h[q].reg], h[q].entity)]
    /\ UNCHANGED <<regs, events, stripe, answered, mail, approved>>

\* After the write a confirmation mails the ticket, a payment intent hands
\* the client secret to the browser, and a cancellation is done.
Write(q) ==
    /\ h[q].pc = "write"
    /\ regs' = [regs EXCEPT ![h[q].reg] = Patch(@, h[q].entity, h[q].cols)]
    /\ h' = [h EXCEPT ![q] = IF h[q].op = "confirm"
                             THEN [@ EXCEPT !.pc = "mail", !.cols = {}]
                             ELSE Idle]
    /\ stripe' = IF h[q].op = "intent"
                 THEN [stripe EXCEPT ![h[q].entity.intent].state = "offered"]
                 ELSE stripe
    /\ UNCHANGED <<events, answered, mail, approved>>

-----------------------------------------------------------------------------
(* Stripe, and POST /registrations/webhook/stripe                          *)

\* The attendee pays with the client secret; Stripe records the success.
Pay(i) ==
    /\ stripe[i].state = "offered"
    /\ stripe' = [stripe EXCEPT ![i].state = "succeeded"]
    /\ UNCHANGED <<regs, events, h, answered, mail, approved>>

\* Mutant of Notifies: the handler forgets to filter on the event's type.
NotifiesOfAnything(i) == stripe[i].state \in {"offered", "succeeded"}

\* Of the events Stripe sends only payment_intent.succeeded passes the filter.
Notifies(i) == stripe[i].state = "succeeded"

\* payment_intent.succeeded arrives, any number of times and at any time
\* after the payment, and finds the row that stores the intent.  Without the
\* raw body the signature check throws.
Webhook(q, i) ==
    /\ h[q] = Idle
    /\ RawBody
    /\ Notifies(i)
    /\ \E r \in Registered :
          /\ regs[r].intent = i
          /\ h' = [h EXCEPT ![q] = [Idle EXCEPT !.pc = "mail", !.reg = r,
                                                !.op = "webhook", !.event = i]]
    /\ UNCHANGED <<regs, events, stripe, answered, mail, approved>>

\* The event arrives and no row stores the intent: the handler returns, the
\* answer is a 2xx like any other, and Stripe takes the event as delivered.
WebhookFindsNone(q, i) ==
    /\ h[q] = Idle
    /\ RawBody
    /\ Notifies(i)
    /\ \A r \in Registered : regs[r].intent # i
    /\ answered' = answered \cup {i}
    /\ UNCHANGED <<regs, events, h, stripe, mail, approved>>

\* The receipt is out; the webhook now runs confirm, which loads the row.
ConfirmPaid(q) ==
    /\ h[q].pc = "confirm"
    /\ h' = [h EXCEPT ![q] = [Saving("confirm", @.reg, Confirmed(regs[@.reg]))
                                 EXCEPT !.event = h[q].event]]
    /\ UNCHANGED <<regs, events, stripe, answered, mail, approved>>

-----------------------------------------------------------------------------
(* Emails, and requests that do not get to their end                       *)

\* Mutant of KindFor: every sign-up is answered with a ticket.
KindForAlwaysTicket(handler) ==
    IF handler.op = "webhook" THEN "payment" ELSE "confirmation"

\* Which of the three emails a handler sends next.
KindFor(handler) ==
    CASE handler.op = "webhook" -> "payment"
      [] handler.op = "confirm" -> "confirmation"
      [] OTHER -> IF handler.entity.status = "confirmed"
                  THEN "confirmation" ELSE "registration"

\* Mutant of AfterMail: the webhook stops once the receipt is out.
AfterMailDone(handler) == Idle

AfterMail(handler) ==
    IF handler.op = "webhook" THEN [handler EXCEPT !.pc = "confirm"] ELSE Idle

\* Best effort: the post may fail, and the handler goes on either way.  A
\* handler that ends here has answered the event that started it, if any.
SendMail(q) ==
    /\ h[q].pc = "mail"
    /\ \/ mail' = [mail EXCEPT ![h[q].reg] = @ \cup {KindFor(h[q])}]
       \/ mail' = mail
    /\ h' = [h EXCEPT ![q] = AfterMail(@)]
    /\ answered' = IF AfterMail(h[q]) = Idle
                   THEN answered \cup ({h[q].event} \ {None})
                   ELSE answered
    /\ UNCHANGED <<regs, events, stripe, approved>>

\* A database error, a lost connection or a crash between two awaits: what
\* was written stays written, there is no transaction around a handler.  A
\* webhook cut short is not answered with a 2xx.
Fail(q) ==
    /\ Faults
    /\ h[q] # Idle
    /\ h' = [h EXCEPT ![q] = Idle]
    /\ UNCHANGED <<regs, events, stripe, answered, mail, approved>>

-----------------------------------------------------------------------------
\* The requests that start a handler.
Receive(q) ==
    \/ \E e \in Event, u \in User, p \in Price, public \in BOOLEAN :
          Create(q, e, u, p, public)
    \/ \E r \in RegId : Confirm(q, r) \/ Cancel(q, r) \/ CreatePaymentIntent(q, r)
    \/ \E i \in Intent : Webhook(q, i) \/ WebhookFindsNone(q, i)

\* The steps of a handler in progress.
Continue(q) ==
    \/ CheckExisting(q)
    \/ Insert(q)
    \/ StripeCreates(q)
    \/ StripeRejects(q)
    \/ Reload(q)
    \/ Write(q)
    \/ ConfirmPaid(q)
    \/ SendMail(q)

Next ==
    \/ \E q \in Request : Receive(q) \/ Continue(q) \/ Fail(q)
    \/ \E i \in Intent : Pay(i)

Spec == Init /\ [][Next]_vars

\* Stripe delivers the success of payment i once more, which it does only
\* while no delivery of it has been answered with a 2xx.
Deliver(i) ==
    /\ i \notin answered
    /\ \E q \in Request : Webhook(q, i) \/ WebhookFindsNone(q, i)

\* The event loop runs every handler to its end, and Stripe repeats an event
\* until one delivery is answered.  Strong fairness, because a delivery meets
\* a free slot only now and then.
Fairness ==
    /\ \A q \in Request : WF_vars(Continue(q))
    /\ \A i \in Intent : SF_vars(Deliver(i))

FairSpec == Spec /\ Fairness

-----------------------------------------------------------------------------
(* Properties                                                              *)

\* The registrations Stripe took money for.
Paid == {r \in RegId : \E i \in Intent :
            stripe[i] = [reg |-> r, state |-> "succeeded"]}

\* A PaymentIntent stored in a row was created for that row: no stale save of
\* one registration ever carries the intent of another, so the lookup by
\* intent id in handleStripeWebhook confirms the registration that was paid.
IntentOwnership ==
    \A r \in Registered :
        regs[r].intent # None => stripe[regs[r].intent].reg = r

\* A registration with a price is confirmed only when Stripe took its money
\* or an organiser asked for it, however the saves of sign-ups, payment
\* intents, cancellations and webhooks interleave.
ConfirmedIsSettled ==
    \A r \in Registered :
        regs[r].status = "confirmed" /\ regs[r].amountPaid > 0
            => r \in Paid \cup approved

\* A payment receipt goes only to a registration whose own intent succeeded.
ReceiptOnlyIfPaid ==
    \A r \in RegId : "payment" \in mail[r] => r \in Paid

\* A registration with nothing to pay is never charged: Stripe makes no
\* intent for it, and only an organiser ever puts a confirmation on it after
\* the sign-up.
FreeNeverCharged ==
    \A r \in Registered :
        regs[r].amountPaid <= 0 =>
            /\ regs[r].intent = None
            /\ \A i \in Intent : stripe[i].reg # r
            /\ regs[r].confirmedAt => r \in approved

\* What the service's header says: a free registration is confirmed on
\* creation and only a paid one stays pending.
FreeNeverWaits ==
    \A r \in Registered :
        regs[r].amountPaid <= 0 => regs[r].status # "pending"

\* The browser gets the secret of an intent only in the step that stores the
\* intent in its row: nobody can pay before the webhook can find the row.
OfferedIsStored ==
    [][\A i \in Intent :
          stripe[i].state # "offered" /\ stripe'[i].state = "offered"
              => /\ stripe[i].reg \in Registered
                 /\ regs'[stripe[i].reg].intent = i]_vars

\* What create says when it turns somebody away: a person registers for an
\* event at most once.
OneRowPerAttendee ==
    \A r, s \in Registered :
        regs[r].event = regs[s].event /\ regs[r].user = regs[s].user => r = s

\* What the entity's comment says: the stored intent reconciles webhooks back
\* to the registration, so a paid intent is found in the row it was made for.
PaidIntentIsStored ==
    \A i \in Intent :
        stripe[i].state = "succeeded" => regs[stripe[i].reg].intent = i

\* Row r exists and reconciles webhooks of intent i.
Stores(r, i) == r \in Registered /\ regs[r].intent = i

\* Stripe took the money for intent i, and the news is still to come: no
\* delivery of it has been answered, or is being handled.
Unreported(i) ==
    /\ stripe[i].state = "succeeded"
    /\ i \notin answered
    /\ \A q \in Request : h[q].event # i

\* A row that stores an intent Stripe has yet to report is confirmed sooner
\* or later, unless a stale save erases or replaces the intent first.  The
\* news may come too early: a delivery answered while a stale save had the
\* intent erased is not repeated when another writes it back.
PaymentConfirms ==
    \A i \in Intent, r \in RegId :
        (Unreported(i) /\ Stores(r, i))
            ~> (Stores(r, i) => regs[r].status = "confirmed")

-----------------------------------------------------------------------------
\* Registration implements TicketPromise: the price due is the amountPaid of
\* the row, a registration is settled once Stripe took the money or an
\* organiser asked to confirm it, and ticketed once email-service has its
\* confirmation.
Promise == INSTANCE TicketPromise WITH
    Price <- Amount,
    due <- [r \in RegId |-> IF regs[r] = None THEN None
                           ELSE regs[r].amountPaid],
    settled <- Paid \cup approved,
    ticketed <- {r \in RegId : "confirmation" \in mail[r]}

\* No interleaving of sign-up, payment, webhook, confirmation and cancellation
\* mails a ticket that is neither free, paid for, nor approved, and no save
\* ever changes a price or drops a row.
KeepsPromise == Promise!Spec

=============================================================================
