------------------------- MODULE RegistrationProofs -------------------------
(***************************************************************************)
(* Theorems about Registration for any number of requests, registrations,  *)
(* events, users, intents and prices, whether or not the service gets the  *)
(* raw body and whether or not handlers fail.                              *)
(*                                                                         *)
(* The argument: every entity a handler holds, however stale, agrees with  *)
(* its row in the columns no handler changes, carries only intents made    *)
(* for that row, and says `confirmed' only for a registration that is      *)
(* settled.  These facts are closed under mixing the columns of an entity  *)
(* with those of the row, which is all a save does, and nothing ever       *)
(* becomes unsettled again.                                                *)
(***************************************************************************)
EXTENDS Registration, TablesProofs

Settled == Paid \cup approved

\* What holds of any entity of row r, the row itself included.
Belongs(r, entity) ==
    /\ entity \in RegistrationRow
    /\ entity.event = regs[r].event
    /\ entity.user = regs[r].user
    /\ entity.amountPaid = regs[r].amountPaid
    /\ entity.intent # None =>
          /\ stripe[entity.intent].reg = r
          /\ stripe[entity.intent].state # "unused"
    /\ entity.status = "confirmed" /\ entity.amountPaid > 0 => r \in Settled
    /\ entity.amountPaid <= 0 =>
          /\ entity.intent = None
          /\ entity.confirmedAt => r \in approved

\* What a sign-up holds before its insert.
Draft(entity) ==
    /\ entity \in RegistrationRow
    /\ entity.intent = None
    /\ entity.status = "confirmed" => entity.amountPaid <= 0
    /\ ~entity.confirmedAt

\* The handlers that hold an entity of the row they name.
Loaded(handler) ==
    \/ handler.pc \in {"stripe", "reload", "write"}
    \/ handler.pc = "mail" /\ handler.op \in {"create", "confirm"}

HandlerOK(handler) ==
    /\ handler.pc \in {"existing", "insert"} =>
          handler.op = "create" /\ Draft(handler.entity)
    /\ Loaded(handler) =>
          handler.reg \in Registered /\ Belongs(handler.reg, handler.entity)
    /\ handler.pc = "stripe" =>
          handler.op = "intent" /\ handler.entity.amountPaid > 0
    /\ handler.pc \in {"reload", "write"} =>
          handler.op \in {"confirm", "cancel", "intent"}
    /\ handler.pc \in {"reload", "write", "mail"} /\ handler.op = "confirm" =>
          handler.entity.status = "confirmed"
    /\ handler.pc \in {"reload", "write"} /\ handler.op = "intent" =>
          handler.entity.intent # None
    /\ handler.pc = "mail" => handler.op \in {"create", "confirm", "webhook"}
    /\ handler.pc = "confirm" => handler.op = "webhook"
    /\ handler.pc \in {"mail", "confirm"} /\ handler.op = "webhook" =>
          handler.reg \in Registered /\ handler.reg \in Paid

RowsOK == \A r \in Registered : Belongs(r, regs[r])

HandlersOK == \A q \in Request : HandlerOK(h[q])

\* Stripe is only asked to charge registrations with something to pay.
StripeOK ==
    \A i \in Intent :
        /\ stripe[i].state = "unused" => stripe[i].reg = None
        /\ stripe[i].state # "unused" =>
              stripe[i].reg \in Registered /\ regs[stripe[i].reg].amountPaid > 0

MailOK ==
    \A r \in RegId :
        /\ "payment" \in mail[r] => r \in Paid
        /\ "confirmation" \in mail[r] =>
              /\ r \in Registered
              /\ regs[r].amountPaid > 0 => r \in Settled

\* The handlers between Stripe's answer and the offer of the new intent.
Offering(handler) ==
    handler.pc \in {"reload", "write"} /\ handler.op = "intent"

\* The intent an entity carries, if any, has been offered to a browser.
Issued(entity) ==
    entity.intent # None =>
        stripe[entity.intent].state \in {"offered", "succeeded"}

\* An intent that has not been offered yet is known to one handler alone, the
\* one about to store it, and that handler will write it.
IntentOK(q) ==
    /\ Loaded(h[q]) /\ ~Offering(h[q]) => Issued(h[q].entity)
    /\ Offering(h[q]) =>
          /\ stripe[h[q].entity.intent].state = "created"
          /\ h[q].pc = "write" => "intent" \in h[q].cols
          /\ \A p \in Request \ {q} :
                Offering(h[p]) => h[p].entity.intent # h[q].entity.intent

IntentsOK ==
    /\ \A r \in Registered : Issued(regs[r])
    /\ \A q \in Request : IntentOK(q)

\* The inductive invariant.
IInv ==
    /\ TypeOK
    /\ RowsOK
    /\ HandlersOK
    /\ StripeOK
    /\ MailOK
    /\ IntentsOK
    /\ approved \subseteq Registered

-----------------------------------------------------------------------------
(* What every step keeps                                                   *)

\* No step drops a row or changes the columns that identify it, takes a
\* payment or an approval back, or gives an intent to another registration.
Grows ==
    /\ \A r \in Registered :
          /\ r \in Registered'
          /\ regs'[r].event = regs[r].event
          /\ regs'[r].user = regs[r].user
          /\ regs'[r].amountPaid = regs[r].amountPaid
    /\ \A i \in Intent :
          stripe[i].state # "unused" =>
              stripe'[i].state # "unused" /\ stripe'[i].reg = stripe[i].reg
    /\ \A i \in Intent :
          stripe[i].state \in {"offered", "succeeded"} =>
              stripe'[i].state \in {"offered", "succeeded"}
    /\ Paid \subseteq Paid'
    /\ approved \subseteq approved'

\* A save mixes an entity of the row into the row: the result belongs there.
LEMMA PatchBelongs ==
    ASSUME NEW r \in Registered, Belongs(r, regs[r]),
           NEW entity, Belongs(r, entity), NEW cols
    PROVE  Belongs(r, Patch(regs[r], entity, cols))
<1> DEFINE p == Patch(regs[r], entity, cols)
<1>1. /\ p \in RegistrationRow
      /\ p.event \in {regs[r].event, entity.event}
      /\ p.user \in {regs[r].user, entity.user}
      /\ p.amountPaid \in {regs[r].amountPaid, entity.amountPaid}
      /\ p.status \in {regs[r].status, entity.status}
      /\ p.intent \in {regs[r].intent, entity.intent}
      /\ p.confirmedAt \in {regs[r].confirmedAt, entity.confirmedAt}
  BY PatchRow DEF Belongs
<1>2. QED
  BY <1>1 DEF Belongs

\* An entity that belongs to a row goes on belonging to it.
LEMMA BelongsStable ==
    ASSUME TypeOK, Grows, NEW r \in Registered,
           NEW entity, Belongs(r, entity)
    PROVE  /\ r \in Registered'
           /\ Belongs(r, entity)'
<1>1. entity.intent \in Intent \cup {None}
  BY DEF Belongs, RegistrationRow
<1>2. QED
  BY <1>1 DEF Grows, Belongs, Settled

\* A handler that does not move stays well formed.
LEMMA HandlerStable ==
    ASSUME TypeOK, Grows, NEW handler, HandlerOK(handler)
    PROVE  HandlerOK(handler)'
BY BelongsStable DEF HandlerOK, Loaded, Draft, Grows

-----------------------------------------------------------------------------
(* The parts of the invariant that a step leaves alone                     *)

\* A step that writes no row leaves every row in order.
LEMMA RowsStable ==
    ASSUME IInv, Grows, regs' = regs
    PROVE  RowsOK'
<1> SUFFICES ASSUME NEW r \in Registered'
             PROVE  Belongs(r, regs[r])'
  BY DEF RowsOK
<1>1. r \in Registered
  BY DEF Registered
<1>2. PICK entity : entity = regs[r]
  OBVIOUS
<1>3. Belongs(r, entity)'
  BY <1>1, <1>2, BelongsStable DEF IInv, RowsOK
<1>4. QED
  BY <1>2, <1>3

\* A step that sends no mail leaves every email justified.
LEMMA MailStable ==
    ASSUME IInv, Grows, mail' = mail
    PROVE  MailOK'
BY DEF IInv, MailOK, Grows, Settled

\* A step that leaves Stripe alone leaves each intent with its row.
LEMMA StripeStable ==
    ASSUME IInv, Grows, stripe' = stripe
    PROVE  StripeOK'
BY DEF IInv, StripeOK, Grows

\* Only the handler of the acting request needs a look.
LEMMA HandlersStep ==
    ASSUME IInv, Grows, NEW q \in Request,
           \A p \in Request \ {q} : h'[p] = h[p],
           HandlerOK(h[q])'
    PROVE  HandlersOK'
<1> SUFFICES ASSUME NEW p \in Request, p # q
             PROVE  HandlerOK(h[p])'
  BY DEF HandlersOK
<1>1. PICK handler : handler = h[p]
  OBVIOUS
<1>2. HandlerOK(handler)'
  BY <1>1, HandlerStable DEF IInv, HandlersOK
<1>3. QED
  BY <1>1, <1>2

\* A step that moves no handler leaves all of them in order.
LEMMA HandlersStable ==
    ASSUME IInv, Grows, h' = h
    PROVE  HandlersOK'
<1> SUFFICES ASSUME NEW p \in Request
             PROVE  HandlerOK(h[p])'
  BY DEF HandlersOK
<1>1. PICK handler : handler = h[p]
  OBVIOUS
<1>2. HandlerOK(handler)'
  BY <1>1, HandlerStable DEF IInv, HandlersOK
<1>3. QED
  BY <1>1, <1>2

\* An idle slot is in order.
LEMMA IdleOK == HandlerOK(Idle) /\ Idle \in Handler
BY DEF HandlerOK, Idle, Loaded, Handler

-----------------------------------------------------------------------------
(* Nothing is taken back                                                   *)

\* A step that writes neither table takes nothing back.
LEMMA SameTablesGrow ==
    ASSUME IInv, regs' = regs, stripe' = stripe, approved \subseteq approved'
    PROVE  Grows
BY DEF Grows, Registered, Paid

\* An insert adds a row and changes none.
LEMMA InsertGrows ==
    ASSUME IInv, NEW q \in Request, Insert(q),
           events[h[q].entity.event] # None
    PROVE  Grows
BY DEF Insert, Grows, Registered, Paid, IInv, TypeOK, TablesTypeOK

\* A new intent takes a key that was unused.
LEMMA StripeCreatesGrows ==
    ASSUME IInv, NEW q \in Request, StripeCreates(q)
    PROVE  Grows
BY DEF StripeCreates, Fresh, NewIntent, Grows, Registered, Paid, IInv, TypeOK,
       PaymentIntent

\* The one step that updates a row: the columns that identify it agree in the
\* row and in the entity, so it does not matter which of the two is written.
LEMMA WriteFacts ==
    ASSUME IInv, NEW q \in Request, Write(q)
    PROVE  /\ h[q].reg \in Registered
           /\ h[q].entity \in RegistrationRow
           /\ Belongs(h[q].reg, h[q].entity)
           /\ Belongs(h[q].reg, regs[h[q].reg])
           /\ Belongs(h[q].reg, regs'[h[q].reg])
           /\ \A r \in RegId \ {h[q].reg} : regs'[r] = regs[r]
           /\ h[q].op = "intent" =>
                 /\ h[q].entity.intent \in Intent
                 /\ stripe[h[q].entity.intent].state = "created"
                 /\ "intent" \in h[q].cols
<1>1. /\ HandlerOK(h[q])
      /\ h[q].pc = "write"
  BY DEF IInv, HandlersOK, Write
<1>2. /\ h[q].reg \in Registered
      /\ Belongs(h[q].reg, h[q].entity)
      /\ h[q].op = "intent" => h[q].entity.intent # None
  BY <1>1 DEF HandlerOK, Loaded
<1>3. Belongs(h[q].reg, regs[h[q].reg])
  BY <1>2 DEF IInv, RowsOK
<1>4. /\ h[q].entity \in RegistrationRow
      /\ h[q].op = "intent" =>
            /\ h[q].entity.intent \in Intent
            /\ stripe[h[q].entity.intent].state = "created"
            /\ "intent" \in h[q].cols
  BY <1>1, <1>2 DEF Belongs, RegistrationRow, IInv, IntentsOK, IntentOK, Offering
<1>5. /\ regs' = [regs EXCEPT ![h[q].reg] =
                     Patch(regs[h[q].reg], h[q].entity, h[q].cols)]
      /\ regs \in [RegId -> RegistrationRow \cup {None}]
      /\ h[q].reg \in RegId
  BY <1>2 DEF Write, IInv, TypeOK, TablesTypeOK, Registered
<1>6. regs'[h[q].reg] = Patch(regs[h[q].reg], h[q].entity, h[q].cols)
  BY <1>5
<1>7. Belongs(h[q].reg, regs'[h[q].reg])
  BY <1>2, <1>3, <1>6, PatchBelongs
<1>8. QED
  BY <1>2, <1>3, <1>4, <1>5, <1>7

\* A save, however stale, drops no row and unsettles nothing.
LEMMA WriteGrows ==
    ASSUME IInv, NEW q \in Request, Write(q)
    PROVE  Grows
<1> DEFINE s == h[q].reg
<1>1. /\ s \in Registered
      /\ Belongs(s, regs'[s])
      /\ \A r \in RegId \ {s} : regs'[r] = regs[r]
      /\ h[q].op = "intent" =>
            /\ h[q].entity.intent \in Intent
            /\ stripe[h[q].entity.intent].state = "created"
  BY WriteFacts
<1>2. regs'[s] # None
  BY <1>1, TablesAssumption DEF Belongs
<1>3. \A r \in Registered :
          /\ r \in Registered'
          /\ regs'[r].event = regs[r].event
          /\ regs'[r].user = regs[r].user
          /\ regs'[r].amountPaid = regs[r].amountPaid
  BY <1>1, <1>2 DEF Belongs, Registered
<1>5. CASE h[q].op # "intent"
  BY <1>3, <1>5 DEF Write, Grows, Paid
<1>6. CASE h[q].op = "intent"
  <2>1. /\ stripe' = [stripe EXCEPT ![h[q].entity.intent].state = "offered"]
        /\ stripe \in [Intent -> PaymentIntent]
        /\ approved' = approved
    BY <1>6 DEF Write, IInv, TypeOK
  <2>2. \A i \in Intent :
            /\ stripe'[i].reg = stripe[i].reg
            /\ \/ stripe'[i] = stripe[i]
               \/ stripe[i].state = "created" /\ stripe'[i].state = "offered"
    BY <1>1, <1>6, <2>1 DEF PaymentIntent
  <2>3. Paid \subseteq Paid'
    BY <2>2 DEF Paid
  <2>4. QED
    BY <1>3, <2>1, <2>2, <2>3 DEF Grows
<1>7. QED
  BY <1>5, <1>6

\* A payment only adds to what is paid.
LEMMA PayGrows ==
    ASSUME IInv, NEW i \in Intent, Pay(i)
    PROVE  Grows
BY DEF Pay, Grows, Registered, Paid, IInv, TypeOK, PaymentIntent

-----------------------------------------------------------------------------
(* The steps that move one handler and leave the tables and Stripe alone   *)

\* A step that moves one handler, and approves at most, keeps the invariant
\* once the handler itself is in order.
LEMMA HandlerStep ==
    ASSUME IInv, NEW q \in Request,
           regs' = regs, events' = events, stripe' = stripe, mail' = mail,
           answered' = answered,
           approved \subseteq approved', approved' \subseteq Registered,
           h' \in [Request -> Handler],
           \A p \in Request \ {q} : h'[p] = h[p],
           HandlerOK(h[q])',
           IntentOK(q)'
    PROVE  IInv'
<1>1. Grows
  BY SameTablesGrow
<1>2. TypeOK'
  BY DEF IInv, TypeOK, TablesTypeOK, Registered
<1>3. RowsOK' /\ StripeOK' /\ MailOK'
  BY <1>1, RowsStable, StripeStable, MailStable
<1>4. HandlersOK'
  BY <1>1, HandlersStep
<1>5. approved' \subseteq Registered'
  BY DEF Registered
<1>6. IntentsOK'
  <2>1. \A r \in Registered' : Issued(regs[r])'
    BY DEF IInv, IntentsOK, Issued, Registered
  <2>2. ASSUME NEW p \in Request, p # q
        PROVE  IntentOK(p)'
    <3>1. IntentOK(p) /\ h'[p] = h[p]
      BY <2>2 DEF IInv, IntentsOK
    <3>2. \A o \in Request \ {p, q} : h'[o] = h[o]
      OBVIOUS
    <3>3. Offering(h'[q]) /\ Offering(h'[p]) =>
              h'[p].entity.intent # h'[q].entity.intent
      BY <2>2 DEF IntentOK
    <3>4. QED
      BY <3>1, <3>2, <3>3 DEF IntentOK, Issued
  <2>3. QED
    BY <2>1, <2>2 DEF IntentsOK
<1>7. QED
  BY <1>2, <1>3, <1>4, <1>5, <1>6 DEF IInv

\* A handler that ends, however it ends.
LEMMA EndStep ==
    ASSUME IInv, NEW q \in Request, h' = [h EXCEPT ![q] = Idle],
           regs' = regs, events' = events, stripe' = stripe, mail' = mail,
           answered' = answered, approved' = approved
    PROVE  IInv'
<1>1. h \in [Request -> Handler] /\ approved \subseteq Registered
  BY DEF IInv, TypeOK
<1>2. h'[q] = Idle /\ h' \in [Request -> Handler]
  BY <1>1, IdleOK
<1>3. HandlerOK(h[q])'
  BY <1>2 DEF HandlerOK, Idle, Loaded
<1>4. IntentOK(q)'
  BY <1>2 DEF IntentOK, Idle, Loaded, Offering
<1>5. QED
  BY <1>1, <1>2, <1>3, <1>4, HandlerStep

\* What a handler that saves looks like.
LEMMA SavingFields ==
    ASSUME NEW op \in {"confirm", "cancel"}, NEW r \in RegId,
           NEW entity \in RegistrationRow
    PROVE  /\ Saving(op, r, entity) \in Handler
           /\ Saving(op, r, entity).pc = "reload"
           /\ Saving(op, r, entity).op = op
           /\ Saving(op, r, entity).reg = r
           /\ Saving(op, r, entity).entity = entity
BY DEF Saving, Idle, Handler

\* A handler that has loaded row r and will save an entity of it.
LEMMA SavingStep ==
    ASSUME IInv, NEW q \in Request, NEW r \in Registered,
           NEW op \in {"confirm", "cancel"},
           regs' = regs, events' = events, stripe' = stripe, mail' = mail,
           answered' = answered,
           approved \subseteq approved', approved' \subseteq Registered,
           NEW entity, NEW hd \in Handler,
           hd.pc = "reload", hd.op = op, hd.reg = r, hd.entity = entity,
           h' = [h EXCEPT ![q] = hd],
           Belongs(r, entity)', Issued(entity)',
           op = "confirm" => entity.status = "confirmed"
    PROVE  IInv'
<1>1. h \in [Request -> Handler]
  BY DEF IInv, TypeOK
<1>2. /\ h'[q] = hd
      /\ h' \in [Request -> Handler]
      /\ \A p \in Request \ {q} : h'[p] = h[p]
  BY <1>1
<1>3. r \in Registered'
  BY DEF Registered
<1>4. HandlerOK(h[q])'
  BY <1>2, <1>3 DEF HandlerOK, Loaded
<1>5. IntentOK(q)'
  BY <1>2 DEF IntentOK, Offering
<1>6. QED
  BY <1>2, <1>4, <1>5, HandlerStep

-----------------------------------------------------------------------------
(* One lemma per step                                                      *)

\* The start of a sign-up keeps the invariant.
LEMMA CreateStep ==
    ASSUME IInv, NEW q \in Request, NEW e \in Event, NEW u \in User,
           NEW p \in Price, NEW public \in BOOLEAN, Create(q, e, u, p, public)
    PROVE  IInv'
<1> DEFINE hd == [Idle EXCEPT !.pc = "existing", !.op = "create",
                              !.entity = NewRow(e, u, p)]
<1>1. h \in [Request -> Handler] /\ approved \subseteq Registered
  BY DEF IInv, TypeOK
<1>2. /\ NewRow(e, u, p) \in RegistrationRow
      /\ Draft(NewRow(e, u, p))
  BY CentsOf DEF NewRow, RegistrationRow, RegistrationStatus, Draft
<1>3. hd \in Handler
  BY <1>2 DEF Idle, Handler
<1>4. h'[q] = hd /\ h' \in [Request -> Handler]
  BY <1>1, <1>3 DEF Create
<1>5. h'[q].pc = "existing" /\ h'[q].op = "create"
      /\ h'[q].entity = NewRow(e, u, p)
  BY <1>4 DEF Idle
<1>6. HandlerOK(h[q])'
  BY <1>2, <1>5 DEF HandlerOK, Loaded
<1>7. IntentOK(q)'
  BY <1>5 DEF IntentOK, Loaded, Offering
<1>8. QED
  BY <1>1, <1>4, <1>6, <1>7, HandlerStep DEF Create

\* The lookup of an earlier registration keeps the invariant.
LEMMA CheckExistingStep ==
    ASSUME IInv, NEW q \in Request, CheckExisting(q)
    PROVE  IInv'
<1>1. CASE h' = [h EXCEPT ![q] = Idle]
  BY <1>1, EndStep DEF CheckExisting
<1>2. CASE h' = [h EXCEPT ![q].pc = "insert"]
  <2>1. /\ h \in [Request -> Handler] /\ approved \subseteq Registered
        /\ HandlerOK(h[q])
    BY DEF IInv, TypeOK, HandlersOK
  <2>2. /\ h'[q] = [h[q] EXCEPT !.pc = "insert"]
        /\ h' \in [Request -> Handler]
    BY <1>2, <2>1 DEF Handler
  <2>3. /\ h'[q].pc = "insert" /\ h'[q].op = h[q].op
        /\ h'[q].entity = h[q].entity
    BY <2>1, <2>2 DEF Handler
  <2>4. HandlerOK(h[q])'
    BY <2>1, <2>3 DEF CheckExisting, HandlerOK, Loaded, Draft
  <2>5. IntentOK(q)'
    BY <2>3 DEF IntentOK, Loaded, Offering
  <2>6. QED
    BY <1>2, <2>1, <2>2, <2>4, <2>5, HandlerStep DEF CheckExisting
<1>3. QED
  BY <1>1, <1>2 DEF CheckExisting

\* The start of an approval keeps the invariant.
LEMMA ConfirmStep ==
    ASSUME IInv, NEW q \in Request, NEW r \in RegId, Confirm(q, r)
    PROVE  IInv'
<1>1. PICK entity : entity = Confirmed(regs[r])
  OBVIOUS
<1>2. r \in Registered /\ Belongs(r, regs[r]) /\ Issued(regs[r])
  BY DEF Confirm, IInv, RowsOK, IntentsOK
<1>4. /\ entity \in RegistrationRow
      /\ entity.status = "confirmed"
      /\ entity.event = regs[r].event /\ entity.user = regs[r].user
      /\ entity.amountPaid = regs[r].amountPaid
      /\ entity.intent = regs[r].intent
  BY <1>1, <1>2 DEF Belongs, Confirmed, RegistrationRow, RegistrationStatus
<1>5. Belongs(r, entity)'
  BY <1>2, <1>4 DEF Belongs, Settled, Confirm, Paid
<1>6. Issued(entity)'
  BY <1>2, <1>4 DEF Issued, Confirm
<1>7. /\ approved' = approved \cup {r} /\ approved \subseteq Registered
      /\ h' = [h EXCEPT ![q] = Saving("confirm", r, entity)]
  BY <1>1 DEF Confirm, IInv
<1>8. PICK hd \in Handler :
          /\ hd = Saving("confirm", r, entity)
          /\ hd.pc = "reload" /\ hd.op = "confirm"
          /\ hd.reg = r /\ hd.entity = entity
  BY <1>4, SavingFields
<1>9. QED
  BY <1>2, <1>4, <1>5, <1>6, <1>7, <1>8, SavingStep DEF Confirm

\* The start of a cancellation keeps the invariant.
LEMMA CancelStep ==
    ASSUME IInv, NEW q \in Request, NEW r \in RegId, Cancel(q, r)
    PROVE  IInv'
<1>1. PICK entity : entity = Cancelled(regs[r])
  OBVIOUS
<1>2. r \in Registered /\ Belongs(r, regs[r]) /\ Issued(regs[r])
  BY DEF Cancel, IInv, RowsOK, IntentsOK
<1>3. /\ entity \in RegistrationRow
      /\ entity.status = "cancelled"
      /\ entity.event = regs[r].event /\ entity.user = regs[r].user
      /\ entity.amountPaid = regs[r].amountPaid
      /\ entity.intent = regs[r].intent
      /\ entity.confirmedAt = regs[r].confirmedAt
  BY <1>1, <1>2 DEF Belongs, Cancelled, RegistrationRow, RegistrationStatus
<1>4. Belongs(r, entity)' /\ Issued(entity)'
  BY <1>2, <1>3 DEF Belongs, Issued, Cancel
<1>5. /\ approved' = approved /\ approved \subseteq Registered
      /\ h' = [h EXCEPT ![q] = Saving("cancel", r, entity)]
  BY <1>1 DEF Cancel, IInv
<1>6. PICK hd \in Handler :
          /\ hd = Saving("cancel", r, entity)
          /\ hd.pc = "reload" /\ hd.op = "cancel"
          /\ hd.reg = r /\ hd.entity = entity
  BY <1>3, SavingFields
<1>7. QED
  BY <1>2, <1>4, <1>5, <1>6, SavingStep DEF Cancel

\* The load of a paid row by the webhook keeps the invariant.
LEMMA ConfirmPaidStep ==
    ASSUME IInv, NEW q \in Request, ConfirmPaid(q)
    PROVE  IInv'
<1>1. PICK s : s = h[q].reg
  OBVIOUS
<1>2. PICK entity : entity = Confirmed(regs[s])
  OBVIOUS
<1>3. /\ s \in Registered /\ s \in Paid
      /\ h \in [Request -> Handler]
  BY <1>1 DEF ConfirmPaid, IInv, TypeOK, HandlersOK, HandlerOK
<1>4. Belongs(s, regs[s]) /\ Issued(regs[s])
  BY <1>3 DEF IInv, RowsOK, IntentsOK
<1>5. /\ entity \in RegistrationRow
      /\ entity.status = "confirmed"
      /\ entity.event = regs[s].event /\ entity.user = regs[s].user
      /\ entity.amountPaid = regs[s].amountPaid
      /\ entity.intent = regs[s].intent
  BY <1>2, <1>4 DEF Belongs, Confirmed, RegistrationRow, RegistrationStatus
<1>6. Belongs(s, entity)' /\ Issued(entity)'
  <2>1. PICK i \in Intent : stripe[i] = [reg |-> s, state |-> "succeeded"]
    BY <1>3 DEF Paid
  <2>2. regs[s].amountPaid > 0
    BY <2>1 DEF IInv, StripeOK
  <2>3. regs[s].amountPaid \in Int
    BY <1>4, AmountInt DEF Belongs, RegistrationRow
  <2>4. QED
    BY <1>3, <1>4, <1>5, <2>2, <2>3 DEF Belongs, Issued, Settled, Paid, ConfirmPaid
<1>7. /\ approved' = approved /\ approved \subseteq Registered
      /\ h[q].event \in Intent \cup {None}
      /\ h' = [h EXCEPT ![q] = [Saving("confirm", s, entity)
                                  EXCEPT !.event = h[q].event]]
  BY <1>1, <1>2, <1>3 DEF ConfirmPaid, IInv, Handler
<1>8. PICK saving \in Handler :
          /\ saving = Saving("confirm", s, entity)
          /\ saving.pc = "reload" /\ saving.op = "confirm"
          /\ saving.reg = s /\ saving.entity = entity
  BY <1>3, <1>5, SavingFields DEF Registered
<1>9. PICK hd \in Handler :
          /\ hd = [saving EXCEPT !.event = h[q].event]
          /\ hd.pc = "reload" /\ hd.op = "confirm"
          /\ hd.reg = s /\ hd.entity = entity
  <2> DEFINE hd == [saving EXCEPT !.event = h[q].event]
  <2>1. hd \in Handler /\ hd.pc = saving.pc /\ hd.op = saving.op
        /\ hd.reg = saving.reg /\ hd.entity = saving.entity
    BY <1>7 DEF Handler
  <2>2. QED
    BY <1>8, <2>1
<1>10. QED
  BY <1>3, <1>5, <1>6, <1>7, <1>8, <1>9, SavingStep DEF ConfirmPaid

\* The start of a payment intent keeps the invariant.
LEMMA CreatePaymentIntentStep ==
    ASSUME IInv, NEW q \in Request, NEW r \in RegId, CreatePaymentIntent(q, r)
    PROVE  IInv'
<1>1. /\ r \in Registered /\ Belongs(r, regs[r]) /\ Issued(regs[r])
      /\ regs[r].amountPaid > 0
  BY DEF CreatePaymentIntent, NeedsPayment, IInv, RowsOK, IntentsOK
<1>2. /\ h \in [Request -> Handler] /\ approved \subseteq Registered
      /\ regs[r] \in RegistrationRow
  BY <1>1 DEF IInv, TypeOK, Belongs
<1>3. [Idle EXCEPT !.pc = "stripe", !.op = "intent", !.reg = r,
                   !.entity = regs[r]] \in Handler
  BY <1>2 DEF Idle, Handler
<1>4. /\ h'[q].pc = "stripe" /\ h'[q].op = "intent"
      /\ h'[q].reg = r /\ h'[q].entity = regs[r]
      /\ h' \in [Request -> Handler]
  BY <1>2, <1>3 DEF CreatePaymentIntent, Idle
<1>5. HandlerOK(h[q])'
  BY <1>1, <1>4 DEF HandlerOK, Loaded, Belongs, Settled, Paid, Registered,
                    CreatePaymentIntent
<1>6. IntentOK(q)'
  BY <1>1, <1>4 DEF IntentOK, Offering, Issued, CreatePaymentIntent
<1>7. QED
  BY <1>2, <1>4, <1>5, <1>6, HandlerStep DEF CreatePaymentIntent

\* The first round trip of save keeps the invariant: a handler that offers
\* an intent finds the column changed, since no row can store it yet.
LEMMA ReloadStep ==
    ASSUME IInv, NEW q \in Request, Reload(q)
    PROVE  IInv'
<1>1. /\ h \in [Request -> Handler] /\ approved \subseteq Registered
      /\ HandlerOK(h[q]) /\ h[q].pc = "reload" /\ IntentOK(q)
  BY DEF IInv, TypeOK, HandlersOK, IntentsOK, Reload
<1>2. /\ h[q].reg \in Registered
      /\ Belongs(h[q].reg, h[q].entity)
  BY <1>1 DEF HandlerOK, Loaded
<1>3. Belongs(h[q].reg, regs[h[q].reg]) /\ Issued(regs[h[q].reg])
  BY <1>2 DEF IInv, RowsOK, IntentsOK
<1>4. PICK cols : cols = Changed(regs[h[q].reg], h[q].entity)
  OBVIOUS
<1>5. cols \subseteq RegistrationColumn
  BY <1>3, <1>4, ChangedColumns DEF Belongs
<1>6. /\ h'[q] = [h[q] EXCEPT !.pc = "write", !.cols = cols]
      /\ h' \in [Request -> Handler]
  <2> DEFINE hd == [h[q] EXCEPT !.pc = "write", !.cols = cols]
  <2>1. hd \in Handler
    BY <1>1, <1>5 DEF Handler
  <2>2. h' = [h EXCEPT ![q] = hd]
    BY <1>1, <1>4 DEF Reload
  <2>3. QED
    BY <1>1, <2>1, <2>2
<1>7. /\ h'[q].pc = "write" /\ h'[q].op = h[q].op /\ h'[q].reg = h[q].reg
      /\ h'[q].entity = h[q].entity /\ h'[q].cols = cols
  BY <1>1, <1>6 DEF Handler
<1>8. Belongs(h[q].reg, h[q].entity)'
  <2>1. PICK s, entity : s = h[q].reg /\ entity = h[q].entity
    OBVIOUS
  <2>2. Belongs(s, entity)'
    BY <1>2, <2>1 DEF Belongs, Settled, Paid, Reload
  <2>3. QED
    BY <1>7, <2>1, <2>2
<1>9. HandlerOK(h[q])'
  BY <1>1, <1>2, <1>7, <1>8 DEF HandlerOK, Loaded, Registered, Reload
<1>10. h[q].op = "intent" => "intent" \in cols
  <2>1. SUFFICES ASSUME h[q].op = "intent"
                 PROVE  regs[h[q].reg].intent # h[q].entity.intent
    BY <1>3, <1>4 DEF Changed, Belongs, RegistrationRow
  <2>2. /\ h[q].entity.intent # None
        /\ stripe[h[q].entity.intent].state = "created"
    BY <1>1, <2>1 DEF HandlerOK, IntentOK, Offering
  <2>3. QED
    BY <1>3, <2>2 DEF Issued
<1>11. IntentOK(q)'
  BY <1>1, <1>7, <1>10 DEF IntentOK, Loaded, Offering, Issued, Reload
<1>12. QED
  BY <1>1, <1>6, <1>9, <1>11, HandlerStep DEF Reload

\* A webhook keeps the invariant: the row that stores the intent was paid.
LEMMA WebhookStep ==
    ASSUME IInv, NEW q \in Request, NEW i \in Intent, Webhook(q, i)
    PROVE  IInv'
<1>1. /\ h \in [Request -> Handler] /\ approved \subseteq Registered
      /\ stripe \in [Intent -> PaymentIntent]
  BY DEF IInv, TypeOK
<1>2. PICK r \in Registered :
          /\ regs[r].intent = i
          /\ h' = [h EXCEPT ![q] = [Idle EXCEPT !.pc = "mail", !.reg = r,
                                                !.op = "webhook", !.event = i]]
  BY DEF Webhook
<1>3. /\ stripe[i].reg = r
      /\ stripe[i].state = "succeeded"
  BY <1>2, TablesAssumption DEF IInv, RowsOK, Belongs, Webhook, Notifies
<1>4. r \in RegId /\ r \in Paid
  <2>1. stripe[i] = [reg |-> r, state |-> "succeeded"]
    BY <1>1, <1>3 DEF PaymentIntent
  <2>2. QED
    BY <2>1 DEF Paid, Registered
<1>5. [Idle EXCEPT !.pc = "mail", !.reg = r, !.op = "webhook", !.event = i]
          \in Handler
  BY <1>4 DEF Idle, Handler
<1>6. /\ h'[q].pc = "mail" /\ h'[q].op = "webhook" /\ h'[q].reg = r
      /\ h' \in [Request -> Handler]
  BY <1>1, <1>2, <1>5 DEF Idle
<1>7. HandlerOK(h[q])'
  BY <1>4, <1>6 DEF HandlerOK, Loaded, Registered, Paid, Webhook
<1>8. IntentOK(q)'
  BY <1>6 DEF IntentOK, Loaded, Offering
<1>9. QED
  BY <1>1, <1>2, <1>6, <1>7, <1>8, HandlerStep DEF Webhook

-----------------------------------------------------------------------------
(* The steps that change a table, Stripe or the mail                       *)

\* An email, sent or lost, keeps the invariant.
LEMMA SendMailStep ==
    ASSUME IInv, NEW q \in Request, SendMail(q)
    PROVE  IInv'
<1>1. /\ h \in [Request -> Handler] /\ mail \in [RegId -> SUBSET MailKind]
      /\ HandlerOK(h[q]) /\ h[q].pc = "mail" /\ IntentOK(q)
      /\ h[q].op \in {"create", "confirm", "webhook"}
  BY DEF IInv, TypeOK, HandlersOK, HandlerOK, IntentsOK, SendMail
<1>2. Grows
  BY SameTablesGrow DEF SendMail
<1>3. /\ h[q].reg \in Registered
      /\ KindFor(h[q]) \in MailKind
      /\ KindFor(h[q]) = "payment" => h[q].reg \in Paid
      /\ KindFor(h[q]) = "confirmation" =>
            (regs[h[q].reg].amountPaid > 0 => h[q].reg \in Settled)
  BY <1>1 DEF KindFor, MailKind, HandlerOK, Loaded, Belongs
<1>4. h'[q] = AfterMail(h[q]) /\ h' \in [Request -> Handler]
  BY <1>1, IdleOK DEF SendMail, AfterMail, Handler
<1>5. HandlerOK(h[q])'
  <2>1. CASE h[q].op = "webhook"
    <3>1. /\ h'[q].pc = "confirm" /\ h'[q].op = "webhook"
          /\ h'[q].reg = h[q].reg
      BY <1>1, <1>4, <2>1 DEF AfterMail, Handler
    <3>2. QED
      BY <1>1, <2>1, <3>1 DEF HandlerOK, Loaded, Registered, Paid, SendMail
  <2>2. CASE h[q].op # "webhook"
    BY <1>4, <2>2 DEF AfterMail, HandlerOK, Idle, Loaded
  <2>3. QED
    BY <2>1, <2>2
<1>6. IntentOK(q)'
  BY <1>1, <1>4 DEF AfterMail, Handler, IntentOK, Loaded, Offering, Idle
<1>7. MailOK'
  <2>1. \A r \in RegId :
            \/ mail'[r] = mail[r]
            \/ r = h[q].reg /\ mail'[r] = mail[r] \cup {KindFor(h[q])}
    BY <1>1 DEF SendMail
  <2>2. Paid' = Paid /\ Registered' = Registered /\ Settled' = Settled
        /\ regs' = regs
    BY DEF SendMail, Paid, Registered, Settled
  <2>3. QED
    BY <1>3, <2>1, <2>2 DEF MailOK, IInv
<1>8. TypeOK'
  <2>1. answered' \subseteq Intent
    BY <1>1 DEF IInv, TypeOK, SendMail, Handler
  <2>2. QED
    BY <1>1, <1>3, <1>4, <2>1 DEF IInv, TypeOK, TablesTypeOK, SendMail
<1>9. RowsOK' /\ StripeOK'
  BY <1>2, RowsStable, StripeStable DEF SendMail
<1>10. HandlersOK'
  BY <1>1, <1>2, <1>5, HandlersStep DEF SendMail
<1>11. IntentsOK'
  <2>1. ASSUME NEW p \in Request, p # q
        PROVE  IntentOK(p)'
    <3>1. IntentOK(p) /\ h'[p] = h[p]
      BY <2>1 DEF IInv, IntentsOK, SendMail
    <3>2. \A o \in Request \ {p, q} : h'[o] = h[o]
      BY DEF SendMail
    <3>3. ~Offering(h'[q])
      BY <1>1, <1>4 DEF AfterMail, Handler, Offering, Idle
    <3>4. QED
      BY <3>1, <3>2, <3>3 DEF IntentOK, Issued, SendMail
  <2>2. \A r \in Registered' : Issued(regs[r])'
    BY DEF IInv, IntentsOK, Issued, Registered, SendMail
  <2>3. QED
    BY <1>6, <2>1, <2>2 DEF IntentsOK
<1>12. QED
  BY <1>7, <1>8, <1>9, <1>10, <1>11 DEF IInv, SendMail, Registered

\* A handler that does not move keeps its intent to itself, when the others
\* still hold the intents they held and no created intent changes its state.
LEMMA IntentStable ==
    ASSUME IInv, Grows, NEW q \in Request, NEW p \in Request \ {q},
           \A o \in Request \ {q} : h'[o] = h[o],
           Offering(h[p]) =>
               /\ stripe'[h[p].entity.intent].state = "created"
               /\ Offering(h'[q]) =>
                     h'[q].entity.intent # h[p].entity.intent
    PROVE  IntentOK(p)'
<1>1. /\ IntentOK(p) /\ h'[p] = h[p] /\ HandlerOK(h[p])
  BY DEF IInv, IntentsOK, HandlersOK
<1>2. Loaded(h[p]) => h[p].entity.intent \in Intent \cup {None}
  BY <1>1 DEF HandlerOK, Belongs, RegistrationRow
<1>3. QED
  BY <1>1, <1>2 DEF IntentOK, Issued, Grows, Offering

\* The insert keeps the invariant.
LEMMA InsertStep ==
    ASSUME IInv, NEW q \in Request, Insert(q),
           events[h[q].entity.event] # None
    PROVE  IInv'
<1>1. /\ h \in [Request -> Handler] /\ HandlerOK(h[q])
      /\ h[q].op = "create" /\ Draft(h[q].entity) /\ h[q].pc = "insert"
      /\ regs \in [RegId -> RegistrationRow \cup {None}]
  BY DEF IInv, TypeOK, TablesTypeOK, HandlersOK, HandlerOK, Insert
<1>2. Grows
  BY InsertGrows
<1>3. PICK r \in RegId \ Registered :
          /\ regs' = [regs EXCEPT ![r] = h[q].entity]
          /\ h' = [h EXCEPT ![q].pc = "mail", ![q].reg = r]
  BY DEF Insert
<1>4. /\ regs'[r] = h[q].entity /\ h[q].entity \in RegistrationRow
      /\ \A s \in RegId \ {r} : regs'[s] = regs[s]
      /\ regs' \in [RegId -> RegistrationRow \cup {None}]
      /\ r \in Registered'
      /\ Registered' = Registered \cup {r}
  <2>1. regs'[r] = h[q].entity /\ h[q].entity # None
    BY <1>1, <1>3, TablesAssumption DEF Draft
  <2>2. QED
    BY <1>1, <1>3, <2>1 DEF Draft, Registered
<1>5. /\ h'[q].pc = "mail" /\ h'[q].op = "create" /\ h'[q].reg = r
      /\ h'[q].entity = h[q].entity
      /\ h' \in [Request -> Handler]
      /\ \A p \in Request \ {q} : h'[p] = h[p]
  <2> DEFINE hd == [h[q] EXCEPT !.pc = "mail", !.reg = r]
  <2>1. hd \in Handler /\ hd.pc = "mail" /\ hd.op = "create" /\ hd.reg = r
        /\ hd.entity = h[q].entity
    BY <1>1 DEF Handler
  <2>2. h' = [h EXCEPT ![q] = hd]
    BY <1>1, <1>3
  <2> HIDE DEF hd
  <2>3. QED
    BY <1>1, <2>1, <2>2
<1>6. Belongs(r, regs[r])' /\ Belongs(r, h[q].entity)' /\ Issued(regs[r])'
  <2>1. PICK entity : entity = h[q].entity
    OBVIOUS
  <2>2. /\ Draft(entity) /\ regs'[r] = entity /\ h'[q].entity = entity
        /\ entity.amountPaid \in Int
    BY <1>1, <1>4, <1>5, <2>1, AmountInt DEF Draft, RegistrationRow
  <2>3. Belongs(r, entity)' /\ Issued(entity)'
    BY <2>2 DEF Draft, Belongs, Issued
  <2>4. QED
    BY <2>2, <2>3
<1>7. RowsOK'
  <2>1. ASSUME NEW s \in Registered
        PROVE  Belongs(s, regs[s])'
    <3>1. PICK entity : entity = regs[s]
      OBVIOUS
    <3>2. Belongs(s, entity)' /\ s # r
      BY <1>2, <1>3, <3>1, BelongsStable DEF IInv, RowsOK
    <3>3. QED
      BY <1>4, <3>1, <3>2 DEF Registered
  <2>2. QED
    BY <1>4, <1>6, <2>1 DEF RowsOK
<1>8. HandlersOK'
  <2>1. HandlerOK(h[q])'
    BY <1>4, <1>5, <1>6 DEF HandlerOK, Loaded
  <2>2. QED
    BY <1>2, <1>5, <2>1, HandlersStep
<1>9. IntentsOK'
  <2>1. IntentOK(q)'
    BY <1>1, <1>5 DEF IntentOK, Offering, Issued, Draft
  <2>2. ASSUME NEW p \in Request \ {q}
        PROVE  IntentOK(p)'
    BY <1>2, <1>5, IntentStable DEF Insert, Offering, IInv, IntentsOK, IntentOK
  <2>3. \A s \in Registered' : Issued(regs[s])'
    BY <1>4, <1>6 DEF IInv, IntentsOK, Issued, Insert, Registered
  <2>4. QED
    BY <2>1, <2>2, <2>3 DEF IntentsOK
<1>10. TypeOK'
  BY <1>4, <1>5 DEF IInv, TypeOK, TablesTypeOK, Insert
<1>11. StripeOK' /\ MailOK' /\ approved' \subseteq Registered'
  BY <1>2, <1>4, StripeStable, MailStable DEF Insert, IInv
<1>12. QED
  BY <1>7, <1>8, <1>9, <1>10, <1>11 DEF IInv

\* Stripe's answer keeps the invariant: the intent is known to q alone.
LEMMA StripeCreatesStep ==
    ASSUME IInv, NEW q \in Request, StripeCreates(q)
    PROVE  IInv'
<1>1. /\ h \in [Request -> Handler] /\ HandlerOK(h[q])
      /\ h[q].pc = "stripe" /\ h[q].op = "intent"
      /\ h[q].entity.amountPaid > 0
      /\ h[q].reg \in Registered /\ Belongs(h[q].reg, h[q].entity)
      /\ stripe \in [Intent -> PaymentIntent]
  BY DEF IInv, TypeOK, HandlersOK, HandlerOK, Loaded, StripeCreates
<1>2. Grows
  BY StripeCreatesGrows
<1>3. PICK i \in Intent :
          /\ stripe[i].state = "unused"
          /\ stripe' = [stripe EXCEPT ![i] = [reg |-> h[q].reg,
                                              state |-> "created"]]
          /\ h' = [h EXCEPT ![q].pc = "reload", ![q].entity.intent = i]
  BY DEF StripeCreates, Fresh, NewIntent
<1>4. PICK entity : entity = [h[q].entity EXCEPT !.intent = i]
  OBVIOUS
<1>5. /\ entity \in RegistrationRow /\ entity.intent = i
      /\ entity.event = h[q].entity.event /\ entity.user = h[q].entity.user
      /\ entity.amountPaid = h[q].entity.amountPaid
      /\ entity.status = h[q].entity.status
  BY <1>1, <1>4 DEF Belongs, RegistrationRow
<1>6. /\ h'[q].pc = "reload" /\ h'[q].op = "intent" /\ h'[q].reg = h[q].reg
      /\ h'[q].entity = entity
      /\ h' \in [Request -> Handler]
      /\ \A p \in Request \ {q} : h'[p] = h[p]
  <2> DEFINE hd == [h[q] EXCEPT !.pc = "reload", !.entity = entity]
  <2>1. hd \in Handler /\ hd.pc = "reload" /\ hd.op = "intent"
        /\ hd.reg = h[q].reg /\ hd.entity = entity
    BY <1>1, <1>5 DEF Handler
  <2>2. h' = [h EXCEPT ![q] = hd]
    BY <1>1, <1>3, <1>4 DEF Handler
  <2> HIDE DEF hd
  <2>3. QED
    BY <1>1, <2>1, <2>2
<1>7. /\ stripe'[i].reg = h[q].reg /\ stripe'[i].state = "created"
      /\ \A j \in Intent \ {i} : stripe'[j] = stripe[j]
      /\ stripe' \in [Intent -> PaymentIntent]
  BY <1>1, <1>3 DEF PaymentIntent, Registered
<1>8. HandlerOK(h[q])'
  <2>1. Registered' = Registered /\ Settled \subseteq Settled' /\ regs' = regs
    BY <1>2 DEF StripeCreates, Registered, Settled, Grows
  <2>2. Belongs(h[q].reg, entity)'
    <3>1. PICK s : s = h[q].reg
      OBVIOUS
    <3>2. /\ Belongs(s, h[q].entity) /\ h'[q].reg = s
          /\ stripe'[entity.intent].reg = s
          /\ stripe'[entity.intent].state # "unused"
          /\ entity.amountPaid \in Int /\ entity.amountPaid > 0
      BY <1>1, <1>5, <1>6, <1>7, <3>1, AmountInt DEF RegistrationRow
    <3>3. Belongs(s, entity)'
      BY <1>5, <2>1, <3>2 DEF Belongs
    <3>4. QED
      BY <3>2, <3>3
  <2>3. i # None
    BY TablesAssumption
  <2>4. QED
    BY <1>1, <1>5, <1>6, <2>1, <2>2, <2>3 DEF HandlerOK, Loaded
<1>9. HandlersOK'
  BY <1>2, <1>6, <1>8, HandlersStep
<1>10. RowsOK' /\ MailOK'
  BY <1>2, RowsStable, MailStable DEF StripeCreates
<1>11. StripeOK'
  BY <1>1, <1>7 DEF IInv, StripeOK, StripeCreates, Registered, Belongs
<1>12. TypeOK'
  BY <1>6, <1>7 DEF IInv, TypeOK, TablesTypeOK, StripeCreates
<1>13. IntentsOK'
  <2>1. ASSUME NEW p \in Request \ {q}, Offering(h[p])
        PROVE  /\ h[p].entity.intent \in Intent \ {i}
               /\ stripe'[h[p].entity.intent].state = "created"
    <3>1. HandlerOK(h[p]) /\ IntentOK(p)
      BY DEF IInv, HandlersOK, IntentsOK
    <3>2. /\ h[p].entity.intent \in Intent
          /\ stripe[h[p].entity.intent].state = "created"
      BY <2>1, <3>1
         DEF HandlerOK, IntentOK, Offering, Loaded, Belongs, RegistrationRow
    <3>3. QED
      BY <1>3, <1>7, <3>2
  <2>2. IntentOK(q)'
    BY <1>5, <1>6, <1>7, <2>1 DEF IntentOK, Offering
  <2>3. ASSUME NEW p \in Request \ {q}
        PROVE  IntentOK(p)'
    BY <1>2, <1>5, <1>6, <2>1, IntentStable
  <2>4. \A s \in Registered' : Issued(regs[s])'
    <3>1. ASSUME NEW s \in Registered
          PROVE  Issued(regs[s])'
      <4>1. /\ Issued(regs[s])
            /\ regs[s].intent \in Intent \cup {None}
        BY DEF IInv, IntentsOK, RowsOK, Belongs, RegistrationRow
      <4>2. QED
        BY <1>2, <4>1 DEF Issued, Grows, StripeCreates
    <3>2. QED
      BY <3>1 DEF StripeCreates, Registered
  <2>5. QED
    BY <2>2, <2>3, <2>4 DEF IntentsOK
<1>14. QED
  BY <1>9, <1>10, <1>11, <1>12, <1>13 DEF IInv, StripeCreates, Registered

\* The second round trip of save keeps the invariant, however stale the
\* entity and the columns are.
LEMMA WriteStep ==
    ASSUME IInv, NEW q \in Request, Write(q)
    PROVE  IInv'
<1> DEFINE s == h[q].reg
<1>1. /\ s \in Registered
      /\ Belongs(s, h[q].entity)
      /\ Belongs(s, regs[s])
      /\ Belongs(s, regs'[s])
      /\ \A r \in RegId \ {s} : regs'[r] = regs[r]
      /\ h[q].op = "intent" =>
            /\ h[q].entity.intent \in Intent
            /\ stripe[h[q].entity.intent].state = "created"
  BY WriteFacts
<1>2. /\ h \in [Request -> Handler] /\ HandlerOK(h[q]) /\ IntentOK(q)
      /\ h[q].pc = "write" /\ h[q].op \in {"confirm", "cancel", "intent"}
      /\ stripe \in [Intent -> PaymentIntent]
      /\ regs \in [RegId -> RegistrationRow \cup {None}]
  BY DEF IInv, TypeOK, TablesTypeOK, HandlersOK, HandlerOK, IntentsOK, Write
<1>3. Grows
  BY WriteGrows
<1>4. /\ regs'[s] # None
      /\ Registered' = Registered
      /\ regs' \in [RegId -> RegistrationRow \cup {None}]
  <2>1. regs'[s] # None
    BY <1>1, TablesAssumption DEF Belongs
  <2>2. regs' = [r \in RegId |-> regs'[r]]
    BY <1>2 DEF Write
  <2>3. QED
    BY <1>1, <1>2, <2>1, <2>2 DEF Registered, Belongs
<1>5. \A i \in Intent :
          \/ stripe'[i] = stripe[i]
          \/ /\ h[q].op = "intent" /\ i = h[q].entity.intent
             /\ stripe'[i].reg = stripe[i].reg /\ stripe'[i].state = "offered"
  <2>1. CASE h[q].op # "intent"
    BY <2>1 DEF Write
  <2>2. CASE h[q].op = "intent"
    <3>1. stripe' = [stripe EXCEPT ![h[q].entity.intent].state = "offered"]
      BY <2>2 DEF Write
    <3>2. QED
      BY <1>1, <1>2, <2>2, <3>1 DEF PaymentIntent
  <2>3. QED
    BY <2>1, <2>2
<1>6. stripe' \in [Intent -> PaymentIntent]
  BY <1>2 DEF Write, PaymentIntent
<1>7. h'[q] = IF h[q].op = "confirm"
              THEN [h[q] EXCEPT !.pc = "mail", !.cols = {}]
              ELSE Idle
  BY <1>2 DEF Write
<1>8. /\ h' \in [Request -> Handler]
      /\ \A p \in Request \ {q} : h'[p] = h[p]
      /\ h[q].op = "confirm" =>
            /\ h'[q].pc = "mail" /\ h'[q].op = "confirm"
            /\ h'[q].reg = s /\ h'[q].entity = h[q].entity
      /\ h[q].op # "confirm" => h'[q] = Idle
  <2> DEFINE hd == [h[q] EXCEPT !.pc = "mail", !.cols = {}]
  <2>1. hd \in Handler /\ hd.pc = "mail" /\ hd.op = h[q].op /\ hd.reg = s
        /\ hd.entity = h[q].entity
    BY <1>2 DEF Handler
  <2>2. h' = [h EXCEPT ![q] = IF h[q].op = "confirm" THEN hd ELSE Idle]
    BY <1>2 DEF Write
  <2> HIDE DEF hd
  <2>3. QED
    BY <1>2, <2>1, <2>2, IdleOK
<1>9. RowsOK'
  <2>1. ASSUME NEW r \in Registered, r # s
        PROVE  Belongs(r, regs[r])'
    <3>1. PICK entity : entity = regs[r]
      OBVIOUS
    <3>2. Belongs(r, entity)'
      BY <1>3, <3>1, BelongsStable DEF IInv, RowsOK
    <3>3. QED
      BY <1>1, <2>1, <3>1, <3>2 DEF Registered
  <2>2. PICK t : t = s
    OBVIOUS
  <2>3. PICK entity : entity = regs'[t]
    OBVIOUS
  <2>4. t \in Registered /\ Belongs(t, entity)
    BY <1>1, <2>2, <2>3
  <2>5. Belongs(t, entity)'
    BY <1>3, <2>4, BelongsStable DEF IInv
  <2>6. QED
    BY <1>4, <2>1, <2>2, <2>3, <2>5 DEF RowsOK
<1>10. HandlersOK'
  <2>1. PICK t : t = s
    OBVIOUS
  <2>2. PICK entity : entity = h[q].entity
    OBVIOUS
  <2>3. t \in Registered' /\ Belongs(t, entity)'
    BY <1>1, <1>3, <2>1, <2>2, BelongsStable DEF IInv
  <2>4. h[q].op = "confirm" => entity.status = "confirmed"
    BY <1>2, <2>2 DEF HandlerOK
  <2>5. HandlerOK(h[q])'
    <3>1. CASE h[q].op = "confirm"
      BY <1>8, <2>1, <2>2, <2>3, <2>4, <3>1 DEF HandlerOK, Loaded
    <3>2. CASE h[q].op # "confirm"
      BY <1>8, <3>2 DEF HandlerOK, Loaded, Idle
    <3>3. QED
      BY <3>1, <3>2
  <2>6. QED
    BY <1>3, <1>8, <2>5, HandlersStep
<1>11. StripeOK'
  BY <1>1, <1>2, <1>3, <1>4, <1>5 DEF IInv, StripeOK, Grows
<1>12. MailOK'
  BY <1>3, <1>4 DEF IInv, MailOK, Grows, Settled, Write
<1>13. TypeOK'
  BY <1>4, <1>6, <1>8 DEF IInv, TypeOK, TablesTypeOK, Write
<1>14. IntentsOK'
  <2>1. IntentOK(q)'
    <3>1. CASE h[q].op = "confirm"
      <4>1. /\ Issued(h[q].entity)
            /\ h[q].entity.intent \in Intent \cup {None}
        BY <1>1, <1>2, <3>1
           DEF IntentOK, Loaded, Offering, Belongs, RegistrationRow
      <4>2. Issued(h[q].entity)'
        BY <1>3, <1>8, <3>1, <4>1 DEF Issued, Grows
      <4>3. QED
        BY <1>8, <3>1, <4>2 DEF IntentOK, Offering
    <3>2. CASE h[q].op # "confirm"
      BY <1>8, <3>2 DEF IntentOK, Loaded, Offering, Idle
    <3>3. QED
      BY <3>1, <3>2
  <2>2. ASSUME NEW p \in Request \ {q}
        PROVE  IntentOK(p)'
    <3>1. HandlerOK(h[p]) /\ IntentOK(p)
      BY DEF IInv, HandlersOK, IntentsOK
    <3>2. ~Offering(h'[q])
      BY <1>8 DEF Offering, Idle
    <3>3. Offering(h[p]) =>
              /\ h[p].entity.intent \in Intent
              /\ stripe[h[p].entity.intent].state = "created"
              /\ h[q].op = "intent" => h[p].entity.intent # h[q].entity.intent
      BY <1>2, <3>1
         DEF HandlerOK, IntentOK, Offering, Loaded, Belongs, RegistrationRow
    <3>4. Offering(h[p]) => stripe'[h[p].entity.intent].state = "created"
      BY <1>5, <3>3
    <3>5. QED
      BY <1>3, <1>8, <3>2, <3>4, IntentStable
  <2>3. ASSUME NEW r \in Registered
        PROVE  Issued(regs[r])'
    <3>1. Issued(regs[r]) /\ regs[r].intent \in Intent \cup {None}
      BY DEF IInv, IntentsOK, RowsOK, Belongs, RegistrationRow
    <3>2. CASE r # s
      BY <1>1, <1>3, <3>1, <3>2 DEF Issued, Grows, Registered
    <3>3. CASE r = s
      <4>1. regs'[s].intent \in {regs[s].intent, h[q].entity.intent}
        <5>1. /\ regs'[s] = Patch(regs[s], h[q].entity, h[q].cols)
              /\ regs[s] \in RegistrationRow /\ h[q].entity \in RegistrationRow
          BY <1>1, <1>2 DEF Write, Belongs, Registered
        <5>2. QED
          BY <5>1, PatchRow
      <4>2. CASE h[q].op = "intent"
        <5>1. stripe'[h[q].entity.intent].state = "offered"
          BY <1>1, <1>2, <4>2 DEF Write, PaymentIntent
        <5>2. QED
          BY <1>3, <3>1, <3>3, <4>1, <5>1 DEF Issued, Grows
      <4>3. CASE h[q].op # "intent"
        <5>1. /\ Issued(h[q].entity)
              /\ h[q].entity.intent \in Intent \cup {None}
          BY <1>1, <1>2, <4>3
             DEF IntentOK, Loaded, Offering, Belongs, RegistrationRow
        <5>2. QED
          BY <1>3, <3>1, <3>3, <4>1, <5>1 DEF Issued, Grows
      <4>4. QED
        BY <4>2, <4>3
    <3>4. QED
      BY <3>2, <3>3
  <2>4. QED
    BY <1>4, <2>1, <2>2, <2>3 DEF IntentsOK
<1>15. QED
  BY <1>4, <1>9, <1>10, <1>11, <1>12, <1>13, <1>14 DEF IInv, Write

\* A payment keeps the invariant.
LEMMA PayStep ==
    ASSUME IInv, NEW i \in Intent, Pay(i)
    PROVE  IInv'
<1>1. Grows
  BY PayGrows
<1>2. stripe \in [Intent -> PaymentIntent]
  BY DEF IInv, TypeOK
<1>3. /\ stripe' \in [Intent -> PaymentIntent]
      /\ \A j \in Intent : stripe'[j].reg = stripe[j].reg
      /\ \A j \in Intent : stripe[j].state # "offered" => stripe'[j] = stripe[j]
      /\ \A j \in Intent : stripe'[j].state = "unused" => stripe[j].state = "unused"
  BY <1>2 DEF Pay, PaymentIntent
<1>4. RowsOK' /\ HandlersOK' /\ MailOK'
  BY <1>1, RowsStable, HandlersStable, MailStable DEF Pay
<1>5. StripeOK' /\ TypeOK' /\ approved' \subseteq Registered'
  BY <1>3 DEF Pay, IInv, StripeOK, TypeOK, TablesTypeOK, Registered
<1>6. IntentsOK'
  <2>1. ASSUME NEW p \in Request
        PROVE  IntentOK(p)'
    <3>1. HandlerOK(h[p]) /\ IntentOK(p) /\ h' = h
      BY DEF IInv, HandlersOK, IntentsOK, Pay
    <3>2. Loaded(h[p]) => h[p].entity.intent \in Intent \cup {None}
      BY <3>1 DEF HandlerOK, Belongs, RegistrationRow
    <3>3. Offering(h[p]) => h[p].entity.intent \in Intent
      BY <3>1, <3>2 DEF HandlerOK, Offering, Loaded
    <3>4. QED
      BY <1>1, <1>3, <3>1, <3>2, <3>3 DEF IntentOK, Issued, Grows
  <2>2. ASSUME NEW r \in Registered
        PROVE  Issued(regs[r])'
    <3>1. Issued(regs[r]) /\ regs[r].intent \in Intent \cup {None}
      BY DEF IInv, IntentsOK, RowsOK, Belongs, RegistrationRow
    <3>2. QED
      BY <1>1, <3>1 DEF Issued, Grows, Pay
  <2>3. QED
    BY <2>1, <2>2 DEF IntentsOK, Pay, Registered
<1>7. QED
  BY <1>4, <1>5, <1>6 DEF IInv

-----------------------------------------------------------------------------
(* The invariant                                                           *)

\* Empty tables and idle handlers satisfy the invariant.
LEMMA InitInv == Init => IInv
<1> SUFFICES ASSUME Init
             PROVE  IInv
  OBVIOUS
<1>1. /\ Registered = {}
      /\ \A q \in Request : h[q] = Idle
      /\ \A i \in Intent : stripe[i].state = "unused" /\ stripe[i].reg = None
      /\ \A r \in RegId : mail[r] = {}
      /\ approved = {}
  BY DEF Init, Registered
<1>2. TypeOK
  <2>1. h \in [Request -> Handler]
    BY IdleOK DEF Init
  <2>2. stripe \in [Intent -> PaymentIntent]
    BY DEF Init, PaymentIntent
  <2>3. TablesTypeOK
    BY DEF Init, TablesTypeOK, EventAtStart
  <2>4. QED
    BY <2>1, <2>2, <2>3 DEF Init, TypeOK
<1>3. RowsOK /\ StripeOK /\ MailOK /\ approved \subseteq Registered
  BY <1>1 DEF RowsOK, StripeOK, MailOK
<1>4. HandlersOK
  BY <1>1, IdleOK DEF HandlersOK
<1>5. IntentsOK
  BY <1>1 DEF IntentsOK, IntentOK, Idle, Loaded, Offering
<1>6. QED
  BY <1>2, <1>3, <1>4, <1>5 DEF IInv

\* A step that answers an event, or does nothing, keeps the invariant.
LEMMA AnswerStep ==
    ASSUME IInv, UNCHANGED <<regs, events, h, stripe, mail, approved>>,
           answered' \subseteq Intent
    PROVE  IInv'
<1>1. Grows
  BY SameTablesGrow DEF vars
<1>2. RowsOK' /\ HandlersOK' /\ StripeOK' /\ MailOK'
  BY <1>1, RowsStable, HandlersStable, StripeStable, MailStable
<1>3. TypeOK' /\ approved' \subseteq Registered'
  BY DEF IInv, TypeOK, TablesTypeOK, Registered
<1>4. IntentsOK'
  BY DEF IInv, IntentsOK, IntentOK, Issued, Registered
<1>5. QED
  BY <1>2, <1>3, <1>4 DEF IInv

\* A new request keeps the invariant.
LEMMA ReceiveStep ==
    ASSUME IInv, NEW q \in Request, Receive(q)
    PROVE  IInv'
<1>1. CASE \E e \in Event, u \in User, p \in Price, public \in BOOLEAN :
              Create(q, e, u, p, public)
  BY <1>1, CreateStep
<1>2. CASE \E r \in RegId : Confirm(q, r) \/ Cancel(q, r)
                                \/ CreatePaymentIntent(q, r)
  BY <1>2, ConfirmStep, CancelStep, CreatePaymentIntentStep
<1>3. CASE \E i \in Intent : Webhook(q, i)
  BY <1>3, WebhookStep
<1>4. CASE \E i \in Intent : WebhookFindsNone(q, i)
  BY <1>4, AnswerStep DEF WebhookFindsNone, IInv, TypeOK
<1>5. QED
  BY <1>1, <1>2, <1>3, <1>4 DEF Receive

\* A handler that goes on keeps the invariant.
LEMMA ContinueStep ==
    ASSUME IInv, NEW q \in Request, Continue(q)
    PROVE  IInv'
<1>1. CASE CheckExisting(q)
  BY <1>1, CheckExistingStep
<1>2. CASE Insert(q) /\ events[h[q].entity.event] # None
  BY <1>2, InsertStep
<1>3. CASE Insert(q) /\ events[h[q].entity.event] = None
  BY <1>3, EndStep DEF Insert
<1>4. CASE StripeCreates(q)
  BY <1>4, StripeCreatesStep
<1>5. CASE StripeRejects(q)
  BY <1>5, EndStep DEF StripeRejects
<1>6. CASE Reload(q)
  BY <1>6, ReloadStep
<1>7. CASE Write(q)
  BY <1>7, WriteStep
<1>8. CASE ConfirmPaid(q)
  BY <1>8, ConfirmPaidStep
<1>9. CASE SendMail(q)
  BY <1>9, SendMailStep
<1>10. QED
  BY <1>1, <1>2, <1>3, <1>4, <1>5, <1>6, <1>7, <1>8, <1>9 DEF Continue

\* Every step keeps the invariant.
LEMMA NextInv ==
    ASSUME IInv, [Next]_vars
    PROVE  IInv'
<1>1. CASE UNCHANGED vars
  BY <1>1, AnswerStep DEF vars, IInv, TypeOK
<1>2. CASE \E i \in Intent : Pay(i)
  BY <1>2, PayStep
<1>3. ASSUME NEW q \in Request, Receive(q) \/ Continue(q) \/ Fail(q)
      PROVE  IInv'
  <2>1. CASE Receive(q)
    BY <2>1, ReceiveStep
  <2>2. CASE Continue(q)
    BY <2>2, ContinueStep
  <2>3. CASE Fail(q)
    BY <2>3, EndStep DEF Fail
  <2>4. QED
    BY <1>3, <2>1, <2>2, <2>3
<1>4. QED
  BY <1>1, <1>2, <1>3 DEF Next

-----------------------------------------------------------------------------
(* The theorems                                                            *)

\* The invariant holds in every reachable state, for any number of requests
\* in progress and of rows, users, events, intents and prices.
THEOREM Invariance == Spec => []IInv
<1>1. Init => IInv
  BY InitInv
<1>2. IInv /\ [Next]_vars => IInv'
  BY NextInv
<1>3. QED
  BY <1>1, <1>2, PTL DEF Spec

\* Every variable keeps its type: in particular no save, whatever columns it
\* mixes, leaves a row the tables could not hold.
THEOREM TypeCorrect == Spec => []TypeOK
BY Invariance, PTL DEF IInv

\* No interleaving stores the intent of one registration in another.
THEOREM OwnIntents == Spec => []IntentOwnership
<1>1. IInv => IntentOwnership
  BY DEF IInv, RowsOK, Belongs, IntentOwnership
<1>2. QED
  BY <1>1, Invariance, PTL

\* A registration with a price is confirmed only if paid for or approved.
THEOREM SettledBeforeConfirmed == Spec => []ConfirmedIsSettled
<1>1. IInv => ConfirmedIsSettled
  BY DEF IInv, RowsOK, Belongs, Settled, ConfirmedIsSettled
<1>2. QED
  BY <1>1, Invariance, PTL

\* Nobody gets a receipt for a payment Stripe did not take.
THEOREM ReceiptsArePaid == Spec => []ReceiptOnlyIfPaid
<1>1. IInv => ReceiptOnlyIfPaid
  BY DEF IInv, MailOK, ReceiptOnlyIfPaid
<1>2. QED
  BY <1>1, Invariance, PTL

\* Stripe is never asked to charge a registration with nothing to pay, and no
\* webhook ever confirms one.
THEOREM FreeIsNeverCharged == Spec => []FreeNeverCharged
<1>1. IInv => FreeNeverCharged
  <2> SUFFICES ASSUME IInv, NEW r \in Registered, regs[r].amountPaid <= 0
               PROVE  /\ regs[r].intent = None
                      /\ \A i \in Intent : stripe[i].reg # r
                      /\ regs[r].confirmedAt => r \in approved
    BY DEF FreeNeverCharged
  <2>1. Belongs(r, regs[r])
    BY DEF IInv, RowsOK
  <2>2. regs[r].amountPaid \in Int
    BY <2>1, AmountInt DEF Belongs, RegistrationRow
  <2>3. \A i \in Intent : stripe[i].reg # r
    BY <2>2, TablesAssumption DEF IInv, StripeOK, Registered
  <2>4. QED
    BY <2>1, <2>3 DEF Belongs
<1>2. QED
  BY <1>1, Invariance, PTL

\* The browser gets the secret of an intent only when its row stores it.
THEOREM OfferedOnceStored == Spec => OfferedIsStored
<1> DEFINE Stored ==
        \A i \in Intent :
            stripe[i].state # "offered" /\ stripe'[i].state = "offered"
                => /\ stripe[i].reg \in Registered
                   /\ regs'[stripe[i].reg].intent = i
<1>1. ASSUME IInv, Next
      PROVE  Stored
  <2>1. stripe \in [Intent -> PaymentIntent]
    BY <1>1 DEF IInv, TypeOK
  <2>2. CASE stripe' = stripe
    BY <2>2
  <2>3. ASSUME NEW i \in Intent, Pay(i)
        PROVE  Stored
    BY <2>1, <2>3 DEF Pay, PaymentIntent
  <2>4. ASSUME NEW q \in Request, StripeCreates(q)
        PROVE  Stored
    BY <2>1, <2>4 DEF StripeCreates, NewIntent, PaymentIntent
  <2>5. ASSUME NEW q \in Request, Write(q), h[q].op = "intent"
        PROVE  Stored
    <3>1. /\ h[q].reg \in Registered
          /\ Belongs(h[q].reg, h[q].entity)
          /\ Belongs(h[q].reg, regs[h[q].reg])
          /\ h[q].entity.intent \in Intent
          /\ "intent" \in h[q].cols
      BY <1>1, <2>5, WriteFacts
    <3>2. /\ regs' = [regs EXCEPT ![h[q].reg] =
                         Patch(regs[h[q].reg], h[q].entity, h[q].cols)]
          /\ stripe' = [stripe EXCEPT ![h[q].entity.intent].state = "offered"]
          /\ regs \in [RegId -> RegistrationRow \cup {None}]
      BY <1>1, <2>5 DEF Write, IInv, TypeOK, TablesTypeOK
    <3>3. regs'[h[q].reg] = Patch(regs[h[q].reg], h[q].entity, h[q].cols)
      BY <3>1, <3>2 DEF Registered
    <3>4. regs'[h[q].reg].intent = h[q].entity.intent
      <4>1. /\ regs[h[q].reg] \in RegistrationRow
            /\ h[q].entity \in RegistrationRow
        BY <3>1 DEF Belongs
      <4>2. QED
        BY <3>1, <3>3, <4>1, PatchRow
    <3>5. stripe[h[q].entity.intent].reg = h[q].reg
      BY <3>1, TablesAssumption DEF Belongs
    <3>6. \A i \in Intent \ {h[q].entity.intent} : stripe'[i] = stripe[i]
      BY <2>1, <3>2
    <3>7. QED
      BY <3>1, <3>4, <3>5, <3>6
  <2>6. ASSUME NEW q \in Request, Receive(q) \/ Continue(q) \/ Fail(q)
        PROVE  \/ stripe' = stripe
               \/ StripeCreates(q)
               \/ Write(q) /\ h[q].op = "intent"
    BY <2>6 DEF Receive, Create, Confirm, Cancel, CreatePaymentIntent, Webhook,
                WebhookFindsNone, Continue, CheckExisting, Insert, StripeRejects,
                Reload, Write, ConfirmPaid, SendMail, Fail
  <2>7. QED
    BY <1>1, <2>2, <2>3, <2>4, <2>5, <2>6 DEF Next
<1>2. IInv /\ [Next]_vars => [Stored]_vars
  BY <1>1
<1>3. QED
  BY <1>2, Invariance, PTL DEF Spec, OfferedIsStored

-----------------------------------------------------------------------------
(* Registration implements TicketPromise                                   *)

\* What TicketPromise's variables stand for.
Due == [r \in RegId |-> IF regs[r] = None THEN None ELSE regs[r].amountPaid]

Ticketed == {r \in RegId : "confirmation" \in mail[r]}

\* A row's price is never NULL.
LEMMA DueKnown ==
    ASSUME IInv, NEW r \in Registered
    PROVE  r \in RegId /\ Due[r] = regs[r].amountPaid /\ Due[r] # None
<1>1. regs[r].amountPaid \in Amount /\ r \in RegId
  BY DEF IInv, RowsOK, Belongs, RegistrationRow, Registered
<1>2. QED
  BY <1>1, TablesAssumption DEF Due, Registered

\* A step that leaves the three tables of the promise alone stutters.
LEMMA PromiseStutters ==
    ASSUME regs' = regs, stripe' = stripe, mail' = mail, approved' = approved
    PROVE  UNCHANGED Promise!promiseVars
BY DEF Promise!promiseVars, Paid

\* The insert of a sign-up is the abstract sign-up at the row's price.
LEMMA InsertSignsUp ==
    ASSUME IInv, NEW q \in Request, Insert(q),
           events[h[q].entity.event] # None
    PROVE  Promise!Next
<1>1. /\ HandlerOK(h[q]) /\ h[q].pc = "insert" /\ Draft(h[q].entity)
      /\ regs \in [RegId -> RegistrationRow \cup {None}]
  BY DEF IInv, TypeOK, TablesTypeOK, HandlersOK, HandlerOK, Insert
<1>2. PICK r \in RegId \ Registered : regs' = [regs EXCEPT ![r] = h[q].entity]
  BY DEF Insert
<1>3. h[q].entity # None /\ h[q].entity.amountPaid \in Amount
  BY <1>1, TablesAssumption DEF Draft, RegistrationRow
<1>4. PICK p \in Amount : p = h[q].entity.amountPaid
  BY <1>3
<1>5. Due[r] = None /\ Due' = [Due EXCEPT ![r] = p]
  BY <1>1, <1>2, <1>3, <1>4 DEF Due, Registered
<1>6. (Paid \cup approved)' = Paid \cup approved /\ Ticketed' = Ticketed
  BY DEF Insert, Paid, Ticketed
<1>7. r \in RegId /\ Promise!SignUp(r, p)
  BY <1>5, <1>6 DEF Promise!SignUp, Due, Ticketed
<1>8. QED
  BY <1>7 DEF Promise!Next

\* An approval settles.
LEMMA ConfirmSettles ==
    ASSUME IInv, NEW q \in Request, NEW r \in RegId, Confirm(q, r)
    PROVE  Promise!Next
<1>1. Due[r] # None
  BY DueKnown DEF Confirm
<1>2. /\ Due' = Due /\ Ticketed' = Ticketed
      /\ (Paid \cup approved)' = (Paid \cup approved) \cup {r}
  BY DEF Confirm, Due, Ticketed, Paid
<1>3. Promise!Settle(r)
  BY <1>1, <1>2 DEF Promise!Settle, Due, Ticketed
<1>4. QED
  BY <1>3 DEF Promise!Next

\* A payment settles the registration the intent was made for.
LEMMA PaySettles ==
    ASSUME IInv, NEW i \in Intent, Pay(i)
    PROVE  Promise!Next
<1>1. /\ stripe \in [Intent -> PaymentIntent]
      /\ stripe[i].state = "offered"
      /\ stripe' = [stripe EXCEPT ![i].state = "succeeded"]
      /\ stripe[i].reg \in Registered
  BY DEF IInv, TypeOK, StripeOK, Pay
<1>2. PICK r \in Registered : r = stripe[i].reg
  BY <1>1
<1>3. r \in RegId /\ Due[r] # None
  BY DueKnown
<1>4. Paid' = Paid \cup {r}
  BY <1>1, <1>2, <1>3 DEF Paid, PaymentIntent
<1>5. /\ Due' = Due /\ Ticketed' = Ticketed
      /\ (Paid \cup approved)' = (Paid \cup approved) \cup {r}
  BY <1>4 DEF Pay, Due, Ticketed
<1>6. Promise!Settle(r)
  BY <1>3, <1>5 DEF Promise!Settle, Due, Ticketed
<1>7. QED
  BY <1>3, <1>6 DEF Promise!Next

\* A ticket goes to a settled or free registration; other mail is no ticket.
LEMMA SendMailTickets ==
    ASSUME IInv, NEW q \in Request, SendMail(q)
    PROVE  Promise!Next \/ UNCHANGED Promise!promiseVars
<1>1. /\ mail \in [RegId -> SUBSET MailKind]
      /\ HandlerOK(h[q]) /\ h[q].pc = "mail"
      /\ h[q].op \in {"create", "confirm", "webhook"}
  BY DEF IInv, TypeOK, HandlersOK, HandlerOK, SendMail
<1>2. PICK r \in Registered : r = h[q].reg
  BY <1>1 DEF HandlerOK, Loaded
<1>3. /\ r \in RegId /\ Due[r] = regs[r].amountPaid /\ Due[r] # None
  BY DueKnown
<1>4. Due' = Due /\ (Paid \cup approved)' = Paid \cup approved
  BY DEF SendMail, Due, Paid
<1>5. CASE mail' = mail
  BY <1>5, PromiseStutters DEF SendMail
<1>6. CASE mail' = [mail EXCEPT ![r] = @ \cup {KindFor(h[q])}]
  <2>1. CASE KindFor(h[q]) = "confirmation"
    <3>1. Ticketed' = Ticketed \cup {r}
      BY <1>1, <1>3, <1>6, <2>1 DEF Ticketed
    <3>2. Due[r] > 0 => r \in Paid \cup approved
      BY <1>1, <1>2, <1>3, <2>1 DEF KindFor, HandlerOK, Loaded, Belongs, Settled
    <3>3. Promise!Ticket(r)
      BY <1>3, <1>4, <3>1, <3>2 DEF Promise!Ticket, Due, Ticketed
    <3>4. QED
      BY <1>3, <3>3 DEF Promise!Next
  <2>2. CASE KindFor(h[q]) # "confirmation"
    <3>1. Ticketed' = Ticketed
      BY <1>1, <1>3, <1>6, <2>2 DEF Ticketed
    <3>2. QED
      BY <1>4, <3>1 DEF Promise!promiseVars, Due, Ticketed
  <2>3. QED
    BY <2>1, <2>2
<1>7. QED
  BY <1>2, <1>5, <1>6 DEF SendMail

\* A save changes no price, and an offer is not a payment yet.
LEMMA WriteStutters ==
    ASSUME IInv, NEW q \in Request, Write(q)
    PROVE  UNCHANGED Promise!promiseVars
<1> DEFINE s == h[q].reg
<1>1. /\ s \in Registered
      /\ Belongs(s, regs'[s])
      /\ \A r \in RegId \ {s} : regs'[r] = regs[r]
      /\ h[q].op = "intent" =>
            /\ h[q].entity.intent \in Intent
            /\ stripe[h[q].entity.intent].state = "created"
  BY WriteFacts
<1>2. regs'[s] # None /\ regs'[s].amountPaid = regs[s].amountPaid
  BY <1>1, TablesAssumption DEF Belongs
<1>3. Due' = Due
  BY <1>1, <1>2 DEF Due, Registered
<1>4. Paid' = Paid
  <2>1. CASE h[q].op # "intent"
    BY <2>1 DEF Write, Paid
  <2>2. CASE h[q].op = "intent"
    <3>1. /\ stripe' = [stripe EXCEPT ![h[q].entity.intent].state = "offered"]
          /\ stripe \in [Intent -> PaymentIntent]
      BY <2>2 DEF Write, IInv, TypeOK
    <3>2. \A i \in Intent :
              \/ stripe'[i] = stripe[i]
              \/ stripe[i].state = "created" /\ stripe'[i].state = "offered"
      BY <1>1, <2>2, <3>1 DEF PaymentIntent
    <3>3. QED
      BY <3>2 DEF Paid
  <2>3. QED
    BY <2>1, <2>2
<1>5. Ticketed' = Ticketed /\ (Paid \cup approved)' = Paid \cup approved
  BY <1>4 DEF Write, Ticketed
<1>6. QED
  BY <1>3, <1>5 DEF Promise!promiseVars, Due, Ticketed

\* A new intent is not paid.
LEMMA StripeCreatesStutters ==
    ASSUME IInv, NEW q \in Request, StripeCreates(q)
    PROVE  UNCHANGED Promise!promiseVars
<1>1. Paid' = Paid
  BY DEF StripeCreates, Fresh, NewIntent, Paid, IInv, TypeOK, PaymentIntent
<1>2. Due' = Due /\ Ticketed' = Ticketed /\ approved' = approved
  BY DEF StripeCreates, Due, Ticketed
<1>3. QED
  BY <1>1, <1>2 DEF Promise!promiseVars, Due, Ticketed

\* Every step of the service is a step of the promise, or none.
LEMMA PromiseStep ==
    ASSUME IInv, [Next]_vars
    PROVE  [Promise!Next]_(Promise!promiseVars)
<1>1. CASE UNCHANGED vars
  BY <1>1, PromiseStutters DEF vars
<1>2. CASE \E i \in Intent : Pay(i)
  BY <1>2, PaySettles
<1>3. ASSUME NEW q \in Request, Receive(q)
      PROVE  [Promise!Next]_(Promise!promiseVars)
  <2>1. CASE \E r \in RegId : Confirm(q, r)
    BY <2>1, ConfirmSettles
  <2>2. CASE ~\E r \in RegId : Confirm(q, r)
    <3>1. regs' = regs /\ stripe' = stripe /\ mail' = mail
          /\ approved' = approved
      BY <1>3, <2>2 DEF Receive, Create, Cancel, CreatePaymentIntent, Webhook,
                        WebhookFindsNone
    <3>2. QED
      BY <3>1, PromiseStutters
  <2>3. QED
    BY <2>1, <2>2
<1>4. ASSUME NEW q \in Request, Continue(q)
      PROVE  [Promise!Next]_(Promise!promiseVars)
  <2>1. CASE Insert(q) /\ events[h[q].entity.event] # None
    BY <2>1, InsertSignsUp
  <2>2. CASE StripeCreates(q)
    BY <2>2, StripeCreatesStutters
  <2>3. CASE Write(q)
    BY <2>3, WriteStutters
  <2>4. CASE SendMail(q)
    BY <2>4, SendMailTickets
  <2>5. CASE Insert(q) /\ events[h[q].entity.event] = None
    BY <2>5, PromiseStutters DEF Insert
  <2>6. CASE CheckExisting(q) \/ StripeRejects(q) \/ Reload(q)
                 \/ ConfirmPaid(q)
    BY <2>6, PromiseStutters
       DEF CheckExisting, StripeRejects, Reload, ConfirmPaid
  <2>7. QED
    BY <1>4, <2>1, <2>2, <2>3, <2>4, <2>5, <2>6 DEF Continue
<1>5. ASSUME NEW q \in Request, Fail(q)
      PROVE  [Promise!Next]_(Promise!promiseVars)
  BY <1>5, PromiseStutters DEF Fail
<1>6. QED
  BY <1>1, <1>2, <1>3, <1>4, <1>5 DEF Next

\* The service keeps its promise: it implements TicketPromise.
THEOREM ServiceKeepsPromise == Spec => KeepsPromise
<1>1. Init => Promise!Init
  <2> SUFFICES ASSUME Init
               PROVE  Promise!Init
    OBVIOUS
  <2>1. Due = [r \in RegId |-> None] /\ Ticketed = {} /\ Paid \cup approved = {}
    BY DEF Init, Due, Ticketed, Paid
  <2>2. QED
    BY <2>1 DEF Promise!Init, Due, Ticketed
<1>2. IInv /\ [Next]_vars => [Promise!Next]_(Promise!promiseVars)
  BY PromiseStep
<1>3. QED
  BY <1>1, <1>2, Invariance, PTL DEF Spec, KeepsPromise, Promise!Spec

=============================================================================
