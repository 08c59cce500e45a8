--------------------------- MODULE PlatformProofs ---------------------------
(***************************************************************************)
(* Theorems about the three services together, for any number of requests, *)
(* devices and organisers, and of registrations, events, users, intents,   *)
(* prices, dates and check-ins.                                            *)
(*                                                                         *)
(* The first argument (PInv): no handler drops a registration or moves it  *)
(* to another event, because every entity that is saved over a row, by     *)
(* whichever service, carries the event of that row; and a registration    *)
(* holds on to its event, because the DELETE is refused while one refers   *)
(* to it and the INSERT of a registration once the event is gone.          *)
(*                                                                         *)
(* The second (SInv): whatever a row or an entity in memory says of its    *)
(* price, its intent, a payment or a check-in is true when it is loaded,   *)
(* and stays true, because no service takes a payment, an approval or a    *)
(* check-in back; a save mixes two true statements about one row.          *)
(***************************************************************************)
EXTENDS Platform, TablesProofs

\* What a handler holds of row r.
EntityOf(r, entity) ==
    /\ r \in Registered
    /\ entity \in RegistrationRow
    /\ entity.event = regs[r].event

DeskSlot(handler) ==
    /\ handler \in Desk!Handler
    /\ handler.pc \in {"existing", "insert"} =>
          handler.entity \in RegistrationRow
    /\ handler.pc \in {"stripe", "reload", "write"} =>
          EntityOf(handler.reg, handler.entity)
    /\ handler.pc \in {"mail", "confirm"} => handler.reg \in Registered

DoorSlot(sc) ==
    /\ sc \in Door!ScanHandler
    /\ sc.pc # "idle" =>
          sc.row \in Door!CheckInRow /\ EntityOf(sc.row.reg, sc.entity)

OfficeSlot(handler) ==
    /\ handler \in Office!EditHandler
    /\ handler.pc # "idle" => handler.event \in Event
    /\ handler.pc \in {"reload", "write", "insert"} =>
          handler.entity \in EventRow

DeskOK == h \in [Request -> Desk!Handler] /\ \A q \in Request : DeskSlot(h[q])

DoorOK ==
    scan \in [Scanner -> Door!ScanHandler] /\ \A s \in Scanner : DoorSlot(scan[s])

OfficeOK ==
    /\ edit \in [Organizer -> Office!EditHandler]
    /\ \A o \in Organizer : OfficeSlot(edit[o])

\* The inductive invariant.
PInv ==
    /\ TablesTypeOK
    /\ RegistrationKeepsEvent
    /\ DeskOK
    /\ DoorOK
    /\ OfficeOK

-----------------------------------------------------------------------------
(* What every step keeps                                                   *)

\* No step drops a registration or moves it to another event.
RowsStay ==
    \A r \in Registered :
        r \in Registered' /\ regs'[r].event = regs[r].event

\* A step that leaves the table alone drops nothing.
LEMMA SameRowsStay ==
    ASSUME regs' = regs
    PROVE  RowsStay
BY DEF RowsStay, Registered

\* An entity of a row stays one while no row is dropped or moved.
LEMMA EntityStays ==
    ASSUME RowsStay, NEW r, NEW entity, EntityOf(r, entity)
    PROVE  EntityOf(r, entity)'
BY DEF RowsStay, EntityOf

\* A handler that does not move stays in order.
LEMMA DeskStays ==
    ASSUME DeskOK, RowsStay, h' = h
    PROVE  DeskOK'
<1> SUFFICES ASSUME NEW q \in Request
             PROVE  DeskSlot(h[q])'
  BY DEF DeskOK
<1>1. PICK x : x = h[q]
  OBVIOUS
<1>2. DeskSlot(x)'
  BY <1>1, EntityStays DEF DeskOK, DeskSlot, RowsStay
<1>3. QED
  BY <1>1, <1>2

\* So do the scans that do not move.
LEMMA DoorStays ==
    ASSUME DoorOK, RowsStay, scan' = scan
    PROVE  DoorOK'
<1> SUFFICES ASSUME NEW s \in Scanner
             PROVE  DoorSlot(scan[s])'
  BY DEF DoorOK
<1>1. PICK x : x = scan[s]
  OBVIOUS
<1>2. DoorSlot(x)'
  BY <1>1, EntityStays DEF DoorOK, DoorSlot, Door!CheckInRow
<1>3. QED
  BY <1>1, <1>2

\* And the organisers' requests, which know nothing of registrations.
LEMMA OfficeStays ==
    ASSUME OfficeOK, edit' = edit
    PROVE  OfficeOK'
BY DEF OfficeOK, OfficeSlot

\* A step of one request keeps all of them in order if it keeps that one.
LEMMA DeskStep ==
    ASSUME DeskOK, RowsStay, NEW q \in Request, NEW x, DeskSlot(x)',
           h' = [h EXCEPT ![q] = x]
    PROVE  DeskOK'
<1>1. x \in Desk!Handler
  BY DEF DeskSlot, Desk!Handler, Desk!RegistrationRow, Desk!RegistrationColumn,
         Desk!RegistrationStatus
<1>2. h' \in [Request -> Desk!Handler]
  BY <1>1 DEF DeskOK
<1>3. ASSUME NEW p \in Request
      PROVE  DeskSlot(h[p])'
  <2>1. CASE p = q
    BY <2>1 DEF DeskOK
  <2>2. CASE p # q
    <3>1. PICK y : y = h[p]
      OBVIOUS
    <3>2. DeskSlot(y)'
      BY <3>1, EntityStays DEF DeskOK, DeskSlot, RowsStay
    <3>3. QED
      BY <2>2, <3>1, <3>2 DEF DeskOK
  <2>3. QED
    BY <2>1, <2>2
<1>4. QED
  BY <1>2, <1>3 DEF DeskOK, Desk!Handler, Desk!RegistrationRow,
     Desk!RegistrationColumn, Desk!RegistrationStatus

\* A step of one scan keeps all of them in order if it keeps that one.
LEMMA DoorStep ==
    ASSUME DoorOK, RowsStay, NEW s \in Scanner, NEW x, DoorSlot(x)',
           scan' = [scan EXCEPT ![s] = x]
    PROVE  DoorOK'
<1>1. x \in Door!ScanHandler
  BY DEF DoorSlot, Door!ScanHandler, Door!CheckInRow, Door!RegistrationRow,
         Door!RegistrationColumn, Door!RegistrationStatus
<1>2. scan' \in [Scanner -> Door!ScanHandler]
  BY <1>1 DEF DoorOK
<1>3. ASSUME NEW t \in Scanner
      PROVE  DoorSlot(scan[t])'
  <2>1. CASE t = s
    BY <2>1 DEF DoorOK
  <2>2. CASE t # s
    <3>1. PICK y : y = scan[t]
      OBVIOUS
    <3>2. DoorSlot(y)'
      BY <3>1, EntityStays DEF DoorOK, DoorSlot
    <3>3. QED
      BY <2>2, <3>1, <3>2 DEF DoorOK
  <2>3. QED
    BY <2>1, <2>2
<1>4. QED
  BY <1>2, <1>3 DEF DoorOK, Door!ScanHandler, Door!CheckInRow,
     Door!RegistrationRow, Door!RegistrationColumn, Door!RegistrationStatus

\* The same of the organisers' requests.
LEMMA OfficeStep ==
    ASSUME OfficeOK, NEW o \in Organizer, NEW x, OfficeSlot(x),
           edit' = [edit EXCEPT ![o] = x]
    PROVE  OfficeOK'
BY DEF OfficeOK, OfficeSlot

\* A step that writes neither table keeps what the invariant says of them.
LEMMA TablesStay ==
    ASSUME PInv, regs' = regs, events' = events
    PROVE  TablesTypeOK' /\ RegistrationKeepsEvent' /\ RowsStay
BY SameRowsStay
   DEF PInv, TablesTypeOK, RegistrationKeepsEvent, Registered

-----------------------------------------------------------------------------
(* registration-service                                                    *)

\* The types as registration-service and the tables see them are the same.
LEMMA DeskTypes ==
    /\ Desk!RegistrationRow = RegistrationRow
    /\ Desk!RegistrationColumn = RegistrationColumn
    /\ Desk!Registered = Registered
BY DEF Desk!RegistrationRow, Desk!RegistrationStatus, Desk!RegistrationColumn,
       Desk!Registered, Desk!Amount, Desk!Cents, RegistrationRow,
       RegistrationStatus, RegistrationColumn, Registered, Amount, Cents

\* A request that writes neither table.
LEMMA DeskQuiet ==
    ASSUME PInv, NEW q \in Request, NEW x, DeskSlot(x),
           h' = [h EXCEPT ![q] = x], regs' = regs, events' = events,
           scan' = scan, edit' = edit
    PROVE  PInv'
<1>1. TablesTypeOK' /\ RegistrationKeepsEvent' /\ RowsStay
  BY TablesStay
<1>2. DeskSlot(x)'
  BY <1>1, EntityStays DEF DeskSlot, RowsStay
<1>3. DeskOK'
  BY <1>1, <1>2, DeskStep DEF PInv
<1>4. QED
  BY <1>1, <1>3, DoorStays, OfficeStays DEF PInv

\* A free slot is in order.
LEMMA DeskIdle == DeskSlot(Desk!Idle)
BY DEF DeskSlot, Desk!Idle, Desk!Handler

\* The requests that start a handler.
LEMMA DeskReceives ==
    ASSUME PInv, NEW q \in Request, Desk!Receive(q), UNCHANGED <<scan, edit>>
    PROVE  PInv'
<1>1. ASSUME NEW e \in Event, NEW u \in User, NEW p \in Price,
             NEW public \in BOOLEAN, Desk!Create(q, e, u, p, public)
      PROVE  PInv'
  <2>1. PICK x : x = [Desk!Idle EXCEPT !.pc = "existing", !.op = "create",
                                       !.entity = Desk!NewRow(e, u, p)]
    OBVIOUS
  <2>2. Desk!NewRow(e, u, p) \in RegistrationRow
    BY CentsOf DEF Desk!NewRow, Desk!Cents, Cents, RegistrationRow,
                   RegistrationStatus
  <2>3. DeskSlot(x)
    BY <2>1, <2>2, DeskTypes DEF DeskSlot, Desk!Idle, Desk!Handler
  <2>4. QED
    BY <1>1, <2>1, <2>3, DeskQuiet DEF Desk!Create
<1>2. ASSUME NEW r \in RegId, Desk!Confirm(q, r)
      PROVE  PInv'
  <2>1. PICK x : x = Desk!Saving("confirm", r, Desk!Confirmed(regs[r]))
    OBVIOUS
  <2>2. r \in Registered /\ regs[r] \in RegistrationRow
    BY <1>2, DeskTypes DEF Desk!Confirm, PInv, TablesTypeOK, Registered
  <2>3. EntityOf(r, Desk!Confirmed(regs[r]))
    BY <2>2 DEF EntityOf, Desk!Confirmed, RegistrationRow, RegistrationStatus
  <2>4. DeskSlot(x)
    BY <2>1, <2>2, <2>3, DeskTypes
    DEF DeskSlot, EntityOf, Desk!Saving, Desk!Idle, Desk!Handler
  <2>5. QED
    BY <1>2, <2>1, <2>4, DeskQuiet DEF Desk!Confirm
<1>3. ASSUME NEW r \in RegId, Desk!Cancel(q, r)
      PROVE  PInv'
  <2>1. PICK x : x = Desk!Saving("cancel", r, Desk!Cancelled(regs[r]))
    OBVIOUS
  <2>2. r \in Registered /\ regs[r] \in RegistrationRow
    BY <1>3, DeskTypes DEF Desk!Cancel, PInv, TablesTypeOK, Registered
  <2>3. EntityOf(r, Desk!Cancelled(regs[r]))
    BY <2>2 DEF EntityOf, Desk!Cancelled, RegistrationRow, RegistrationStatus
  <2>4. DeskSlot(x)
    BY <2>1, <2>2, <2>3, DeskTypes
    DEF DeskSlot, EntityOf, Desk!Saving, Desk!Idle, Desk!Handler
  <2>5. QED
    BY <1>3, <2>1, <2>4, DeskQuiet DEF Desk!Cancel
<1>4. ASSUME NEW r \in RegId, Desk!CreatePaymentIntent(q, r)
      PROVE  PInv'
  <2>1. PICK x : x = [Desk!Idle EXCEPT !.pc = "stripe", !.op = "intent",
                                       !.reg = r, !.entity = regs[r]]
    OBVIOUS
  <2>2. r \in Registered /\ EntityOf(r, regs[r])
    BY <1>4, DeskTypes
    DEF Desk!CreatePaymentIntent, PInv, TablesTypeOK, Registered, EntityOf
  <2>3. DeskSlot(x)
    BY <2>1, <2>2, DeskTypes DEF DeskSlot, EntityOf, Desk!Idle, Desk!Handler
  <2>4. QED
    BY <1>4, <2>1, <2>3, DeskQuiet DEF Desk!CreatePaymentIntent
<1>5. ASSUME NEW i \in Intent, Desk!Webhook(q, i)
      PROVE  PInv'
  <2>1. PICK r \in Registered :
            h' = [h EXCEPT ![q] = [Desk!Idle EXCEPT !.pc = "mail", !.reg = r,
                                       !.op = "webhook", !.event = i]]
    BY <1>5, DeskTypes DEF Desk!Webhook
  <2>2. PICK x : x = [Desk!Idle EXCEPT !.pc = "mail", !.reg = r,
                                       !.op = "webhook", !.event = i]
    OBVIOUS
  <2>3. DeskSlot(x)
    BY <2>2 DEF DeskSlot, Desk!Idle, Desk!Handler, Registered
  <2>4. QED
    BY <1>5, <2>1, <2>2, <2>3, DeskQuiet DEF Desk!Webhook
<1>6. ASSUME NEW i \in Intent, Desk!WebhookFindsNone(q, i)
      PROVE  PInv'
  BY <1>6, TablesStay, DeskStays, DoorStays, OfficeStays
  DEF Desk!WebhookFindsNone, PInv
<1>7. QED
  BY <1>1, <1>2, <1>3, <1>4, <1>5, <1>6 DEF Desk!Receive

\* A sign-up inserts a row of an event that exists.
LEMMA DeskInserts ==
    ASSUME PInv, NEW q \in Request, Desk!Insert(q), UNCHANGED <<scan, edit>>
    PROVE  PInv'
<1>1. h[q].entity \in RegistrationRow /\ DeskSlot(h[q])
  BY DEF Desk!Insert, PInv, DeskOK, DeskSlot
<1>2. CASE events[h[q].entity.event] = None
  BY <1>2, DeskIdle, DeskQuiet DEF Desk!Insert
<1>3. CASE events[h[q].entity.event] # None
  <2>1. PICK r \in RegId \ Registered :
            /\ regs' = [regs EXCEPT ![r] = h[q].entity]
            /\ h' = [h EXCEPT ![q].pc = "mail", ![q].reg = r]
    BY <1>3, DeskTypes DEF Desk!Insert
  <2>2. TablesTypeOK' /\ events' = events
    BY <1>1, <2>1 DEF Desk!Insert, PInv, TablesTypeOK
  <2>3. RowsStay /\ r \in Registered'
    BY <1>1, <2>1, TablesAssumption
    DEF RowsStay, Registered, PInv, TablesTypeOK
  <2>4. RegistrationKeepsEvent'
    BY <1>3, <2>1, <2>2 DEF RegistrationKeepsEvent, PInv, TablesTypeOK,
                            Registered
  <2>5. PICK x : x = [h[q] EXCEPT !.pc = "mail", !.reg = r]
    OBVIOUS
  <2>6. DeskSlot(x)'
    BY <1>1, <2>1, <2>3, <2>5
    DEF DeskSlot, Desk!Handler
  <2>7. h' = [h EXCEPT ![q] = x]
    BY <2>1, <2>5 DEF PInv, DeskOK, Desk!Handler
  <2>8. DeskOK'
    BY <2>3, <2>6, <2>7, DeskStep DEF PInv
  <2>9. QED
    BY <2>2, <2>3, <2>4, <2>8, DoorStays, OfficeStays DEF PInv
<1>4. QED
  BY <1>2, <1>3

\* What a save of an entity of row r does to the tables.
LEMMA SaveKeeps ==
    ASSUME PInv, NEW r, NEW entity, EntityOf(r, entity), NEW cols,
           regs' = [regs EXCEPT ![r] = Patch(regs[r], entity, cols)],
           events' = events
    PROVE  TablesTypeOK' /\ RegistrationKeepsEvent' /\ RowsStay
<1>1. r \in RegId /\ regs[r] \in RegistrationRow
  BY DEF PInv, TablesTypeOK, EntityOf, Registered
<1>2. PICK p : p = Patch(regs[r], entity, cols)
  OBVIOUS
<1>3. p \in RegistrationRow /\ p.event = regs[r].event
  BY <1>1, <1>2, PatchRow DEF EntityOf
<1>4. regs' = [regs EXCEPT ![r] = p] /\ p # None
  BY <1>2, <1>3, TablesAssumption
<1>5. TablesTypeOK' /\ Registered' = Registered
  BY <1>1, <1>3, <1>4, TablesAssumption
  DEF PInv, TablesTypeOK, Registered
<1>6. \A s \in Registered : regs'[s].event = regs[s].event
  BY <1>1, <1>3, <1>4 DEF PInv, TablesTypeOK, Registered
<1>7. QED
  BY <1>5, <1>6 DEF RowsStay, PInv, RegistrationKeepsEvent

\* The save of a request.
LEMMA DeskWrites ==
    ASSUME PInv, NEW q \in Request, Desk!Write(q), UNCHANGED <<scan, edit>>
    PROVE  PInv'
<1>1. DeskSlot(h[q]) /\ h[q].pc = "write"
  BY DEF Desk!Write, PInv, DeskOK
<1>2. EntityOf(h[q].reg, h[q].entity)
  BY <1>1 DEF DeskSlot
<1>3. regs' = [regs EXCEPT ![h[q].reg] =
                  Patch(regs[h[q].reg], h[q].entity, h[q].cols)]
  BY DEF Desk!Write, Desk!Patch, Patch
<1>4. events' = events
  BY DEF Desk!Write
<1>5. TablesTypeOK' /\ RegistrationKeepsEvent' /\ RowsStay
  BY <1>2, <1>3, <1>4, SaveKeeps
<1>6. PICK x : x = IF h[q].op = "confirm"
                   THEN [h[q] EXCEPT !.pc = "mail", !.cols = {}]
                   ELSE Desk!Idle
  OBVIOUS
<1>7. x \in Desk!Handler /\ (x.pc = "mail" => x.reg = h[q].reg)
      /\ x.pc \in {"mail", "idle"}
  BY <1>1, <1>6 DEF DeskSlot, Desk!Handler, Desk!Idle
<1>8. DeskSlot(x)'
  BY <1>2, <1>5, <1>7 DEF DeskSlot, EntityOf, RowsStay
<1>9. DeskOK'
  BY <1>5, <1>6, <1>8, DeskStep DEF PInv, Desk!Write
<1>10. QED
  BY <1>5, <1>9, DoorStays, OfficeStays DEF PInv

\* The steps of a request that write neither table.
LEMMA DeskContinues ==
    ASSUME PInv, NEW q \in Request, Desk!Continue(q), UNCHANGED <<scan, edit>>
    PROVE  PInv'
<1> USE DEF PInv, DeskOK
<1>1. CASE Desk!CheckExisting(q)
  <2>1. CASE h' = [h EXCEPT ![q] = Desk!Idle]
    BY <1>1, <2>1, DeskIdle, DeskQuiet DEF Desk!CheckExisting
  <2>2. CASE h' = [h EXCEPT ![q].pc = "insert"]
    <3>1. PICK x : x = [h[q] EXCEPT !.pc = "insert"]
      OBVIOUS
    <3>2. DeskSlot(x)
      BY <1>1, <3>1 DEF Desk!CheckExisting, DeskSlot, Desk!Handler
    <3>3. QED
      BY <1>1, <2>2, <3>1, <3>2, DeskQuiet DEF Desk!CheckExisting
  <2>3. QED
    BY <1>1, <2>1, <2>2 DEF Desk!CheckExisting
<1>2. CASE Desk!Insert(q)
  BY <1>2, DeskInserts
<1>3. CASE Desk!StripeCreates(q)
  <2>1. PICK i \in Intent :
            h' = [h EXCEPT ![q].pc = "reload", ![q].entity.intent = i]
    BY <1>3 DEF Desk!StripeCreates
  <2>2. PICK x : x = [h[q] EXCEPT !.pc = "reload", !.entity.intent = i]
    OBVIOUS
  <2>3. EntityOf(x.reg, x.entity)
    BY <1>3, <2>2
    DEF Desk!StripeCreates, DeskSlot, EntityOf, Desk!Handler, RegistrationRow
  <2>4. h[q] \in Desk!Handler /\ x.entity \in RegistrationRow
    BY <2>3 DEF EntityOf
  <2>5. x \in Desk!Handler /\ x.pc = "reload"
    BY <2>2, <2>4, DeskTypes DEF Desk!Handler
  <2>6. DeskSlot(x)
    BY <2>3, <2>5 DEF DeskSlot
  <2>7. h' = [h EXCEPT ![q] = x]
    BY <2>1, <2>2
  <2>8. QED
    BY <1>3, <2>6, <2>7, DeskQuiet DEF Desk!StripeCreates
<1>4. CASE Desk!StripeRejects(q)
  BY <1>4, DeskIdle, DeskQuiet DEF Desk!StripeRejects
<1>5. CASE Desk!Reload(q)
  <2>1. PICK x : x = [h[q] EXCEPT !.pc = "write",
                          !.cols = Changed(regs[h[q].reg], h[q].entity)]
    OBVIOUS
  <2>2. x.cols \subseteq RegistrationColumn
    <3>1. DeskSlot(h[q]) /\ h[q].pc = "reload"
      BY <1>5 DEF Desk!Reload
    <3>2. EntityOf(h[q].reg, h[q].entity)
      BY <3>1 DEF DeskSlot
    <3>3. regs[h[q].reg] \in RegistrationRow
      BY <3>2 DEF EntityOf, TablesTypeOK, Registered
    <3>4. x.cols = Changed(regs[h[q].reg], h[q].entity)
      BY <2>1, <3>1 DEF DeskSlot, Desk!Handler
    <3>5. QED
      BY <3>3, <3>4, ChangedColumns
  <2>3. DeskSlot(x)
    BY <1>5, <2>1, <2>2, DeskTypes DEF Desk!Reload, DeskSlot, Desk!Handler
  <2>4. QED
    BY <1>5, <2>1, <2>3, DeskQuiet DEF Desk!Reload, Desk!Changed, Changed
<1>6. CASE Desk!Write(q)
  BY <1>6, DeskWrites
<1>7. CASE Desk!ConfirmPaid(q)
  <2>1. PICK r : r = h[q].reg
    OBVIOUS
  <2>2. PICK x : x = [Desk!Saving("confirm", r, Desk!Confirmed(regs[r]))
                         EXCEPT !.event = h[q].event]
    OBVIOUS
  <2>3. /\ r \in Registered /\ regs[r] \in RegistrationRow
        /\ h[q].event \in Intent \cup {None}
    BY <1>7, <2>1
    DEF Desk!ConfirmPaid, DeskSlot, Desk!Handler, TablesTypeOK, Registered
  <2>4. EntityOf(r, Desk!Confirmed(regs[r]))
    BY <2>3 DEF EntityOf, Desk!Confirmed, RegistrationRow, RegistrationStatus
  <2>5. DeskSlot(x)
    BY <2>2, <2>3, <2>4, DeskTypes
    DEF DeskSlot, EntityOf, Desk!Saving, Desk!Idle, Desk!Handler, Registered
  <2>6. QED
    BY <1>7, <2>1, <2>2, <2>5, DeskQuiet DEF Desk!ConfirmPaid
<1>8. CASE Desk!SendMail(q)
  <2>1. PICK x : x = Desk!AfterMail(h[q])
    OBVIOUS
  <2>2. DeskSlot(x)
    BY <1>8, <2>1, DeskIdle
    DEF Desk!SendMail, Desk!AfterMail, DeskSlot, Desk!Handler
  <2>3. QED
    BY <1>8, <2>1, <2>2, DeskQuiet DEF Desk!SendMail
<1>9. QED
  BY <1>1, <1>2, <1>3, <1>4, <1>5, <1>6, <1>7, <1>8 DEF Desk!Continue

\* Every step of registration-service keeps the invariant.
LEMMA DeskKeeps ==
    ASSUME PInv, Desk!Next, UNCHANGED <<scan, edit>>
    PROVE  PInv'
<1>1. ASSUME NEW q \in Request, Desk!Fail(q)
      PROVE  PInv'
  BY <1>1, DeskIdle, DeskQuiet DEF Desk!Fail
<1>2. ASSUME NEW i \in Intent, Desk!Pay(i)
      PROVE  PInv'
  BY <1>2, TablesStay, DeskStays, DoorStays, OfficeStays DEF Desk!Pay, PInv
<1>3. QED
  BY <1>1, <1>2, DeskReceives, DeskContinues DEF Desk!Next

-----------------------------------------------------------------------------
(* checkin-service                                                         *)

\* The same for the types as checkin-service sees them.
LEMMA DoorTypes ==
    /\ Door!RegistrationRow = RegistrationRow
    /\ Door!RegistrationColumn = RegistrationColumn
    /\ Door!Registered = Registered
BY DEF Door!RegistrationRow, Door!RegistrationStatus, Door!RegistrationColumn,
       Door!Registered, Door!Amount, Door!Cents, RegistrationRow,
       RegistrationStatus, RegistrationColumn, Registered, Amount, Cents

\* A scan that writes neither table.
LEMMA DoorQuiet ==
    ASSUME PInv, NEW s \in Scanner, NEW x, DoorSlot(x),
           scan' = [scan EXCEPT ![s] = x], regs' = regs, events' = events,
           h' = h, edit' = edit
    PROVE  PInv'
<1>1. TablesTypeOK' /\ RegistrationKeepsEvent' /\ RowsStay
  BY TablesStay
<1>2. DoorSlot(x)'
  BY <1>1, EntityStays DEF DoorSlot, Door!CheckInRow
<1>3. DoorOK'
  BY <1>1, <1>2, DoorStep DEF PInv
<1>4. QED
  BY <1>1, <1>3, DeskStays, OfficeStays DEF PInv

\* A free device is in order.
LEMMA DoorIdle == DoorSlot(Door!NoScan)
BY DEF DoorSlot, Door!NoScan, Door!ScanHandler

\* A scan takes up a row it has just read.
LEMMA DoorStarts ==
    ASSUME PInv, NEW s \in Scanner, NEW r \in Registered,
           NEW session \in Session \cup {None}, NEW method \in {"qr_code", "manual"},
           Door!Start(s, r, session, method), regs' = regs, events' = events,
           h' = h, edit' = edit
    PROVE  PInv'
<1>1. PICK row : row = [reg |-> r, session |-> session, method |-> method]
  OBVIOUS
<1>2. PICK entity : entity = Door!CheckedIn(regs[r])
  OBVIOUS
<1>3. PICK x : x = [Door!NoScan EXCEPT !.pc = "record", !.row = row,
                                       !.entity = entity]
  OBVIOUS
<1>4. row \in Door!CheckInRow /\ row.reg = r
  BY <1>1 DEF Door!CheckInRow, Registered
<1>5. EntityOf(r, entity)
  <2>1. regs[r] \in RegistrationRow
    BY DEF PInv, TablesTypeOK, Registered
  <2>2. QED
    BY <1>2, <2>1 DEF EntityOf, Door!CheckedIn, RegistrationRow,
                      RegistrationStatus
<1>6. DoorSlot(x)
  BY <1>3, <1>4, <1>5, DoorTypes
  DEF DoorSlot, EntityOf, Door!NoScan, Door!ScanHandler
<1>7. QED
  BY <1>1, <1>2, <1>3, <1>6, DoorQuiet DEF Door!Start

\* The save of a scan.
LEMMA DoorWrites ==
    ASSUME PInv, NEW s \in Scanner, Door!WriteRegistration(s),
           UNCHANGED <<h, edit>>
    PROVE  PInv'
<1>1. DoorSlot(scan[s]) /\ scan[s].pc = "write"
  BY DEF Door!WriteRegistration, PInv, DoorOK
<1>2. EntityOf(scan[s].row.reg, scan[s].entity)
  BY <1>1 DEF DoorSlot
<1>3. regs' = [regs EXCEPT ![scan[s].row.reg] =
                  Patch(regs[scan[s].row.reg], scan[s].entity, scan[s].cols)]
  BY DEF Door!WriteRegistration, Door!Patch, Patch
<1>4. events' = events
  BY DEF Door!WriteRegistration
<1>5. TablesTypeOK' /\ RegistrationKeepsEvent' /\ RowsStay
  BY <1>2, <1>3, <1>4, SaveKeeps
<1>6. PICK x : x = [scan[s] EXCEPT !.pc = "announce"]
  OBVIOUS
<1>7. DoorSlot(x)
  BY <1>1, <1>6 DEF DoorSlot, Door!ScanHandler
<1>8. DoorSlot(x)'
  BY <1>5, <1>7, EntityStays DEF DoorSlot, Door!CheckInRow
<1>9. scan' = [scan EXCEPT ![s] = x]
  BY <1>6 DEF Door!WriteRegistration
<1>10. DoorOK'
  BY <1>5, <1>8, <1>9, DoorStep DEF PInv
<1>11. QED
  BY <1>5, <1>10, DeskStays, OfficeStays DEF PInv

\* Every step of checkin-service keeps the invariant.
LEMMA DoorKeeps ==
    ASSUME PInv, Door!Next, UNCHANGED <<h, edit>>
    PROVE  PInv'
<1> SUFFICES ASSUME NEW s \in Scanner,
                    Door!Arrive(s) \/ Door!Continue(s) \/ Door!ScanFails(s)
             PROVE  PInv'
  BY DEF Door!Next
<1>1. CASE Door!Arrive(s)
  <2>1. ASSUME NEW e \in Event, NEW u \in User,
               NEW session \in Session \cup {None},
               Door!ScanQr(s, e, u, session)
        PROVE  PInv'
    <3>1. PICK r \in Registered : Door!Start(s, r, session, "qr_code")
      BY <2>1 DEF Door!ScanQr, Door!RowsOf, Door!Registered, Registered
    <3>2. QED
      BY <2>1, <3>1, DoorStarts DEF Door!ScanQr
  <2>2. ASSUME NEW r \in RegId, Door!ManualCheckIn(s, r)
        PROVE  PInv'
    BY <2>2, DoorStarts, DoorTypes DEF Door!ManualCheckIn
  <2>3. QED
    BY <1>1, <2>1, <2>2 DEF Door!Arrive
<1>2. CASE Door!Record(s)
  <2>1. PICK c \in CheckInId :
            scan' = [scan EXCEPT ![s].pc = "reload", ![s].id = c]
    BY <1>2 DEF Door!Record
  <2>2. PICK x : x = [scan[s] EXCEPT !.pc = "reload", !.id = c]
    OBVIOUS
  <2>3. DoorSlot(x) /\ scan' = [scan EXCEPT ![s] = x]
    BY <1>2, <2>1, <2>2
    DEF Door!Record, PInv, DoorOK, DoorSlot, Door!ScanHandler
  <2>4. QED
    BY <1>2, <2>3, DoorQuiet DEF Door!Record
<1>3. CASE Door!ReloadRegistration(s)
  <2>1. PICK cols : cols = Changed(regs[scan[s].row.reg], scan[s].entity)
    OBVIOUS
  <2>2. DoorSlot(scan[s]) /\ scan[s].pc = "reload"
    BY <1>3 DEF Door!ReloadRegistration, PInv, DoorOK
  <2>3. regs[scan[s].row.reg] \in RegistrationRow
    BY <2>2 DEF DoorSlot, EntityOf, PInv, TablesTypeOK, Registered
  <2>4. cols \subseteq RegistrationColumn
    BY <2>1, <2>3, ChangedColumns
  <2>5. PICK x : x = [scan[s] EXCEPT !.pc = "write", !.cols = cols]
    OBVIOUS
  <2>6. DoorSlot(x)
    BY <2>2, <2>4, <2>5, DoorTypes DEF DoorSlot, Door!ScanHandler
  <2>7. scan' = [scan EXCEPT ![s] = x]
    BY <1>3, <2>1, <2>5 DEF Door!ReloadRegistration, Door!Changed, Changed
  <2>8. QED
    BY <1>3, <2>6, <2>7, DoorQuiet DEF Door!ReloadRegistration
<1>4. CASE Door!WriteRegistration(s)
  BY <1>4, DoorWrites
<1>5. CASE Door!Announce(s)
  BY <1>5, DoorIdle, DoorQuiet DEF Door!Announce
<1>6. CASE Door!ScanFails(s)
  BY <1>6, DoorIdle, DoorQuiet DEF Door!ScanFails
<1>7. QED
  BY <1>1, <1>2, <1>3, <1>4, <1>5, <1>6 DEF Door!Continue

-----------------------------------------------------------------------------
(* event-service                                                           *)

\* The same for the types as event-service sees them.
LEMMA OfficeTypes ==
    /\ Office!EventRow = EventRow
    /\ Office!EventColumn = EventColumn
    /\ Office!Registered = Registered
BY DEF Office!EventRow, Office!EventStatus, Office!EventColumn,
       Office!Registered, EventRow, EventStatus, EventColumn, Registered

\* A request of an organiser that ends or goes on without a write, or writes
\* an event without removing it.
LEMMA OfficeWrites ==
    ASSUME PInv, NEW o \in Organizer, NEW x, OfficeSlot(x),
           edit' = [edit EXCEPT ![o] = x] \/ edit' = edit,
           events' \in [Event -> EventRow \cup {None}],
           \A e \in Event : events'[e] = None => events[e] = None,
           regs' = regs, h' = h, scan' = scan
    PROVE  PInv'
<1>1. TablesTypeOK' /\ RowsStay
  BY SameRowsStay DEF PInv, TablesTypeOK
<1>2. RegistrationKeepsEvent'
  BY DEF PInv, RegistrationKeepsEvent, Registered, TablesTypeOK,
         RegistrationRow
<1>3. OfficeOK'
  BY OfficeStep, OfficeStays DEF PInv
<1>4. QED
  BY <1>1, <1>2, <1>3, DeskStays, DoorStays DEF PInv

\* A free slot is in order.
LEMMA OfficeIdle == OfficeSlot(Office!NoEdit)
BY DEF OfficeSlot, Office!NoEdit, Office!EditHandler

\* A handler that has loaded event e.
LEMMA OfficeSaves ==
    ASSUME PInv, NEW o \in Organizer, NEW e \in Event, NEW entity \in EventRow,
           Office!Save(o, e, entity), UNCHANGED <<h, scan>>
    PROVE  PInv'
<1>1. PICK x : x = [Office!NoEdit EXCEPT !.pc = "reload", !.event = e,
                                         !.entity = entity]
  OBVIOUS
<1>2. OfficeSlot(x)
  BY <1>1, OfficeTypes DEF OfficeSlot, Office!NoEdit, Office!EditHandler
<1>3. QED
  BY <1>1, <1>2, OfficeWrites DEF Office!Save, PInv, TablesTypeOK

\* The DELETE spares an event somebody is registered for.
LEMMA OfficeDeletes ==
    ASSUME PInv, NEW o \in Organizer, Office!Delete(o), UNCHANGED <<h, scan>>
    PROVE  PInv'
<1>1. edit[o].event \in Event
  BY DEF Office!Delete, PInv, OfficeOK, OfficeSlot
<1>2. TablesTypeOK' /\ RowsStay
  BY SameRowsStay DEF PInv, TablesTypeOK, Office!Delete
<1>3. RegistrationKeepsEvent'
  BY <1>1, OfficeTypes
  DEF PInv, RegistrationKeepsEvent, Registered, TablesTypeOK, RegistrationRow,
      Office!Delete, Office!Referenced
<1>4. OfficeOK'
  BY OfficeStep, OfficeIdle DEF PInv, Office!Delete
<1>5. QED
  BY <1>2, <1>3, <1>4, DeskStays, DoorStays DEF PInv, Office!Delete

\* Every step of event-service keeps the invariant.
LEMMA OfficeKeeps ==
    ASSUME PInv, Office!Next, UNCHANGED <<h, scan>>
    PROVE  PInv'
<1>1. PICK o \in Organizer :
        \/ \E start, end \in Day : Office!Create(o, start, end)
        \/ \E e \in Event :
              \/ Office!Publish(o, e) \/ Office!Cancel(o, e)
              \/ Office!Remove(o, e)
              \/ \E start, end \in Day : Office!Update(o, e, start, end)
        \/ Office!Reload(o)
        \/ Office!Write(o)
        \/ Office!Delete(o)
  BY DEF Office!Next
<1>2. ASSUME NEW start \in Day, NEW end \in Day, Office!Create(o, start, end)
      PROVE  PInv'
  <2>1. PICK e \in Event :
            events' = [events EXCEPT ![e] = [status |-> "draft",
                          startDate |-> start, endDate |-> end]]
    BY <1>2 DEF Office!Create
  <2>2. [status |-> "draft", startDate |-> start, endDate |-> end] \in EventRow
    BY DEF EventRow, EventStatus
  <2>3. /\ events' \in [Event -> EventRow \cup {None}]
        /\ \A f \in Event : events'[f] = None => events[f] = None
    BY <2>1, <2>2, TablesAssumption DEF PInv, TablesTypeOK
  <2>4. QED
    BY <1>2, <2>3, OfficeIdle, OfficeWrites DEF Office!Create
<1>3. ASSUME NEW e \in Event, events[e] # None
      PROVE  events[e] \in EventRow
  BY <1>3 DEF PInv, TablesTypeOK
<1>4. ASSUME NEW e \in Event, Office!Publish(o, e)
      PROVE  PInv'
  <2>1. [events[e] EXCEPT !.status = "published"] \in EventRow
    BY <1>3, <1>4 DEF Office!Publish, Office!Exists, EventRow, EventStatus
  <2>2. QED
    BY <1>4, <2>1, OfficeSaves DEF Office!Publish
<1>5. ASSUME NEW e \in Event, Office!Cancel(o, e)
      PROVE  PInv'
  <2>1. Office!CancelledEvent(events[e]) \in EventRow
    BY <1>3, <1>5
    DEF Office!Cancel, Office!CancelledEvent, Office!Exists, EventRow,
        EventStatus
  <2>2. QED
    BY <1>5, <2>1, OfficeSaves DEF Office!Cancel
<1>6. ASSUME NEW e \in Event, NEW start \in Day, NEW end \in Day,
             Office!Update(o, e, start, end)
      PROVE  PInv'
  <2>1. [events[e] EXCEPT !.startDate = start, !.endDate = end] \in EventRow
    BY <1>3, <1>6 DEF Office!Update, Office!Exists, EventRow, EventStatus
  <2>2. QED
    BY <1>6, <2>1, OfficeSaves DEF Office!Update
<1>7. ASSUME NEW e \in Event, Office!Remove(o, e)
      PROVE  PInv'
  <2>1. PICK x : x = [Office!NoEdit EXCEPT !.pc = "delete", !.event = e]
    OBVIOUS
  <2>2. OfficeSlot(x)
    BY <2>1 DEF OfficeSlot, Office!NoEdit, Office!EditHandler
  <2>3. QED
    BY <1>7, <2>1, <2>2, OfficeWrites DEF Office!Remove, PInv, TablesTypeOK
<1>8. CASE Office!Reload(o)
  <2>1. PICK e : e = edit[o].event
    OBVIOUS
  <2>2. OfficeSlot(edit[o]) /\ edit[o].pc = "reload" /\ e \in Event
    BY <1>8, <2>1 DEF Office!Reload, PInv, OfficeOK, OfficeSlot
  <2>3. CASE events[e] # None
    <3>1. PICK cols : cols = Changed(events[e], edit[o].entity)
      OBVIOUS
    <3>2. cols \subseteq EventColumn
      BY <1>3, <2>2, <2>3, <3>1 DEF Changed, EventRow, EventColumn
    <3>3. PICK x : x = [edit[o] EXCEPT !.pc = "write", !.cols = cols]
      OBVIOUS
    <3>4. OfficeSlot(x)
      BY <2>2, <3>2, <3>3, OfficeTypes DEF OfficeSlot, Office!EditHandler
    <3>5. edit' = [edit EXCEPT ![o] = x]
      BY <1>8, <2>1, <2>3, <3>1, <3>3
      DEF Office!Reload, Office!Exists, Office!Changed, Changed
    <3>6. QED
      BY <1>8, <3>4, <3>5, OfficeWrites DEF Office!Reload, PInv, TablesTypeOK
  <2>4. CASE events[e] = None
    <3>1. PICK x : x = [edit[o] EXCEPT !.pc = "insert"]
      OBVIOUS
    <3>2. OfficeSlot(x)
      BY <2>2, <3>1 DEF OfficeSlot, Office!EditHandler
    <3>3. edit' = [edit EXCEPT ![o] = x]
      BY <1>8, <2>1, <2>4, <3>1 DEF Office!Reload, Office!Exists
    <3>4. QED
      BY <1>8, <3>2, <3>3, OfficeWrites DEF Office!Reload, PInv, TablesTypeOK
  <2>5. QED
    BY <2>3, <2>4
<1>9. CASE Office!Write(o)
  <2>1. PICK e : e = edit[o].event
    OBVIOUS
  <2>2. e \in Event /\ edit[o].entity \in EventRow
    BY <1>9, <2>1 DEF Office!Write, PInv, OfficeOK, OfficeSlot
  <2>3. PICK row : row = Office!Saved(edit[o], events[e])
    OBVIOUS
  <2>4. /\ row \in EventRow \cup {None}
        /\ row = None => events[e] = None
    <3>1. events[e] # None =>
             Office!Patch(events[e], edit[o].entity, edit[o].cols) \in EventRow
      BY <1>3, <2>2 DEF Office!Patch, EventRow
    <3>2. events[e] \in EventRow \cup {None}
      BY <2>2 DEF PInv, TablesTypeOK
    <3>3. QED
      BY <2>2, <2>3, <3>1, <3>2, TablesAssumption DEF Office!Saved
  <2>5. events' = [events EXCEPT ![e] = row]
    BY <1>9, <2>1, <2>3 DEF Office!Write
  <2>6. /\ events' \in [Event -> EventRow \cup {None}]
        /\ \A f \in Event : events'[f] = None => events[f] = None
    BY <2>2, <2>4, <2>5 DEF PInv, TablesTypeOK
  <2>7. QED
    BY <1>9, <2>6, OfficeIdle, OfficeWrites DEF Office!Write
<1>10. CASE Office!Delete(o)
  BY <1>10, OfficeDeletes
<1>11. QED
  BY <1>1, <1>2, <1>4, <1>5, <1>6, <1>7, <1>8, <1>9, <1>10

-----------------------------------------------------------------------------
(* What the statuses of the rows stand for                                 *)

Settled == Desk!Paid \cup approved

\* Somebody was let in with registration r.
HasRecord(r) == \E c \in CheckInId : checkIns[c] # None /\ checkIns[c].reg = r

\* The price and the intent of an entity are those of row r.
Owned(r, entity) ==
    /\ entity.amountPaid = regs[r].amountPaid
    /\ entity.intent # None =>
          /\ stripe[entity.intent].state # "unused"
          /\ stripe[entity.intent].reg = r

\* What an entity of row r says, the row itself included, is true.
Justified(r, entity) ==
    /\ Owned(r, entity)
    /\ entity.status = "confirmed" /\ entity.amountPaid > 0 => r \in Settled
    /\ entity.status = "checked_in" => HasRecord(r)

\* What a sign-up holds before its insert.
Draft(entity) ==
    /\ entity.intent = None
    /\ entity.status # "checked_in"
    /\ entity.status = "confirmed" => ~(entity.amountPaid > 0)

\* The requests between Stripe's answer and the offer of the new intent.
Offering(handler) ==
    handler.pc \in {"reload", "write"} /\ handler.op = "intent"

DeskTrue(handler) ==
    /\ handler.pc \in {"existing", "insert"} => Draft(handler.entity)
    /\ handler.pc \in {"existing", "insert"} => handler.op = "create"
    /\ handler.pc \in {"stripe", "reload", "write"} =>
          Justified(handler.reg, handler.entity)
    /\ handler.pc = "stripe" => handler.op = "intent"
    /\ handler.pc = "confirm" => handler.op = "webhook"
    /\ handler.pc \in {"mail", "confirm"} /\ handler.op = "webhook" =>
          handler.reg \in Desk!Paid
    /\ Offering(handler) =>
          /\ handler.entity.intent \in Intent
          /\ stripe[handler.entity.intent].state = "created"

DoorTrue(sc) ==
    /\ sc.pc # "idle" =>
          Owned(sc.row.reg, sc.entity) /\ sc.entity.status = "checked_in"
    /\ sc.pc \in {"reload", "write"} => HasRecord(sc.row.reg)

RowsTrue == \A r \in Registered : Justified(r, regs[r])

DesksTrue == \A q \in Request : DeskTrue(h[q])

DoorsTrue == \A s \in Scanner : DoorTrue(scan[s])

\* No two requests are about to offer the same intent.
OffersDiffer ==
    \A p, q \in Request :
        p # q /\ Offering(h[p]) /\ Offering(h[q])
            => h[p].entity.intent # h[q].entity.intent

OwnTypes ==
    /\ stripe \in [Intent -> Desk!PaymentIntent]
    /\ checkIns \in [CheckInId -> Door!CheckInRow \cup {None}]

\* The inductive invariant, on top of PInv.
SInv ==
    /\ OwnTypes
    /\ RowsTrue
    /\ DesksTrue
    /\ DoorsTrue
    /\ OffersDiffer

-----------------------------------------------------------------------------
\* No step takes a payment, an approval or a check-in back, changes a price or
\* gives an intent to another registration.
Advances ==
    /\ RowsStay
    /\ \A r \in Registered : regs'[r].amountPaid = regs[r].amountPaid
    /\ \A i \in Intent :
          stripe[i].state # "unused" =>
              stripe'[i].state # "unused" /\ stripe'[i].reg = stripe[i].reg
    /\ Desk!Paid \subseteq Desk!Paid'
    /\ approved \subseteq approved'
    /\ \A r \in RegId : HasRecord(r) => HasRecord(r)'

\* The price and the intent of an entity stay those of its row.
LEMMA OwnedStays ==
    ASSUME Advances, NEW r, NEW entity, EntityOf(r, entity), Owned(r, entity)
    PROVE  Owned(r, entity)'
<1>1. entity.intent \in Intent \cup {None} /\ r \in Registered
  BY DEF EntityOf, RegistrationRow
<1>2. QED
  BY <1>1 DEF Advances, Owned

\* What an entity says stays true: nothing is taken back.
LEMMA TrueStays ==
    ASSUME Advances, NEW r, NEW entity, EntityOf(r, entity), Justified(r, entity)
    PROVE  Justified(r, entity)'
<1>1. Owned(r, entity)'
  BY OwnedStays DEF Justified
<1>2. r \in RegId
  BY DEF EntityOf, Registered
<1>3. QED
  BY <1>1, <1>2 DEF Advances, Justified, Settled

\* A handler that does not move still says what is true.
LEMMA DeskTrueStays ==
    ASSUME Advances, NEW x, DeskSlot(x), DeskTrue(x),
           Offering(x) => stripe'[x.entity.intent] = stripe[x.entity.intent]
    PROVE  DeskTrue(x)'
BY TrueStays DEF DeskSlot, DeskTrue, Draft, Offering, Advances

\* The same of a scan that does not move.
LEMMA DoorTrueStays ==
    ASSUME Advances, NEW x, DoorSlot(x), DoorTrue(x)
    PROVE  DoorTrue(x)'
<1>1. CASE x.pc = "idle"
  BY <1>1 DEF DoorTrue
<1>2. CASE x.pc # "idle"
  <2>1. EntityOf(x.row.reg, x.entity) /\ x.row.reg \in RegId
    BY <1>2 DEF DoorSlot, EntityOf, Registered
  <2>2. Owned(x.row.reg, x.entity)'
    BY <1>2, <2>1, OwnedStays DEF DoorTrue
  <2>3. QED
    BY <1>2, <2>1, <2>2 DEF DoorTrue, Advances
<1>3. QED
  BY <1>1, <1>2

\* A step that moves no scan keeps what the invariant says of them.
LEMMA DoorsTrueStay ==
    ASSUME PInv, SInv, Advances, scan' = scan
    PROVE  DoorsTrue'
<1> SUFFICES ASSUME NEW s \in Scanner
             PROVE  DoorTrue(scan[s])'
  BY DEF DoorsTrue
<1>1. PICK x : x = scan[s]
  OBVIOUS
<1>2. DoorTrue(x)'
  BY <1>1, DoorTrueStays DEF PInv, DoorOK, SInv, DoorsTrue
<1>3. QED
  BY <1>1, <1>2

\* A step that moves no request, and no intent about to be offered.
LEMMA DesksTrueStay ==
    ASSUME PInv, SInv, Advances, h' = h,
           \A i \in Intent : stripe[i].state = "created" => stripe'[i] = stripe[i]
    PROVE  DesksTrue' /\ OffersDiffer'
<1>1. ASSUME NEW q \in Request
      PROVE  DeskTrue(h[q])'
  <2>1. PICK x : x = h[q]
    OBVIOUS
  <2>2. DeskSlot(x) /\ DeskTrue(x)
    BY <2>1 DEF PInv, DeskOK, SInv, DesksTrue
  <2>3. Offering(x) => stripe'[x.entity.intent] = stripe[x.entity.intent]
    BY <2>2 DEF DeskTrue
  <2>4. DeskTrue(x)'
    BY <2>2, <2>3, DeskTrueStays
  <2>5. QED
    BY <2>1, <2>4
<1>2. QED
  BY <1>1 DEF DesksTrue, SInv, OffersDiffer, Offering

\* A step of one request, whatever it writes: the others hold on to intents
\* that it does not touch.
LEMMA DesksTrueStep ==
    ASSUME PInv, SInv, Advances, NEW q \in Request, NEW x, DeskTrue(x)',
           h' = [h EXCEPT ![q] = x],
           \A p \in Request \ {q} : Offering(h[p]) =>
               /\ stripe'[h[p].entity.intent] = stripe[h[p].entity.intent]
               /\ Offering(x) => x.entity.intent # h[p].entity.intent
    PROVE  DesksTrue' /\ OffersDiffer'
<1>1. \A p \in Request : h'[p] = IF p = q THEN x ELSE h[p]
  BY DEF PInv, DeskOK
<1>2. ASSUME NEW p \in Request
      PROVE  DeskTrue(h[p])'
  <2>1. CASE p = q
    BY <1>1, <2>1
  <2>2. CASE p # q
    <3>1. PICK y : y = h[p]
      OBVIOUS
    <3>2. DeskTrue(y)'
      BY <2>2, <3>1, DeskTrueStays DEF PInv, DeskOK, SInv, DesksTrue
    <3>3. QED
      BY <1>1, <2>2, <3>1, <3>2
  <2>3. QED
    BY <2>1, <2>2
<1>3. OffersDiffer'
  BY <1>1 DEF SInv, OffersDiffer, Offering
<1>4. QED
  BY <1>2, <1>3 DEF DesksTrue

\* A step that writes no row leaves all of them true.
LEMMA RowsTrueStay ==
    ASSUME PInv, SInv, Advances, regs' = regs
    PROVE  RowsTrue'
<1> SUFFICES ASSUME NEW r \in Registered'
             PROVE  Justified(r, regs[r])'
  BY DEF RowsTrue
<1>1. r \in Registered
  BY DEF Registered
<1>2. PICK entity : entity = regs[r]
  OBVIOUS
<1>3. EntityOf(r, entity) /\ Justified(r, entity)
  BY <1>1, <1>2 DEF PInv, TablesTypeOK, Registered, EntityOf, SInv, RowsTrue
<1>4. Justified(r, entity)'
  BY <1>3, TrueStays
<1>5. QED
  BY <1>2, <1>4

\* A save of a true entity leaves all rows true.
LEMMA SaveKeepsTrue ==
    ASSUME PInv, SInv, Advances, NEW r, NEW entity,
           EntityOf(r, entity), Justified(r, entity), NEW cols,
           regs' = [regs EXCEPT ![r] = Patch(regs[r], entity, cols)]
    PROVE  RowsTrue'
<1>1. r \in RegId /\ regs[r] \in RegistrationRow
  BY DEF PInv, TablesTypeOK, EntityOf, Registered
<1>2. PICK p : p = Patch(regs[r], entity, cols)
  OBVIOUS
<1>3. /\ p \in RegistrationRow
      /\ p.event \in {regs[r].event, entity.event}
      /\ p.amountPaid \in {regs[r].amountPaid, entity.amountPaid}
      /\ p.status \in {regs[r].status, entity.status}
      /\ p.intent \in {regs[r].intent, entity.intent}
  BY <1>1, <1>2, PatchRow DEF EntityOf
<1>4. Justified(r, regs[r])
  BY DEF EntityOf, SInv, RowsTrue
<1>5. EntityOf(r, p) /\ Justified(r, p)
  BY <1>3, <1>4 DEF EntityOf, Justified, Owned
<1>6. Justified(r, p)'
  BY <1>5, TrueStays
<1> SUFFICES ASSUME NEW s \in Registered'
             PROVE  Justified(s, regs[s])'
  BY DEF RowsTrue
<1>7. CASE s = r
  BY <1>1, <1>2, <1>6, <1>7 DEF PInv, TablesTypeOK
<1>8. CASE s # r
  <2>1. PICK e : e = regs[s]
    OBVIOUS
  <2>2. regs'[s] = e /\ s \in Registered
    BY <1>8, <2>1 DEF PInv, TablesTypeOK, Registered
  <2>3. EntityOf(s, e) /\ Justified(s, e)
    BY <2>1, <2>2 DEF PInv, TablesTypeOK, Registered, EntityOf, SInv, RowsTrue
  <2>4. Justified(s, e)'
    BY <2>3, TrueStays
  <2>5. QED
    BY <2>2, <2>4
<1>9. QED
  BY <1>7, <1>8

-----------------------------------------------------------------------------
(* The steps of checkin-service                                            *)

\* A scan that writes no registration, and at most adds a check-in.
LEMMA DoorQuietTrue ==
    ASSUME PInv, SInv, NEW s \in Scanner, NEW x, DoorTrue(x)',
           scan' = [scan EXCEPT ![s] = x], regs' = regs,
           UNCHANGED <<h, stripe, approved>>,
           checkIns' \in [CheckInId -> Door!CheckInRow \cup {None}],
           \A r \in RegId : HasRecord(r) => HasRecord(r)'
    PROVE  SInv'
<1>1. Advances
  BY SameRowsStay DEF Advances, Desk!Paid
<1>2. OwnTypes'
  BY DEF SInv, OwnTypes
<1>3. DesksTrue' /\ OffersDiffer' /\ RowsTrue'
  BY <1>1, DesksTrueStay, RowsTrueStay
<1>4. ASSUME NEW t \in Scanner
      PROVE  DoorTrue(scan[t])'
  <2>1. scan'[t] = IF t = s THEN x ELSE scan[t]
    BY DEF PInv, DoorOK
  <2>2. CASE t = s
    BY <2>1, <2>2
  <2>3. CASE t # s
    <3>1. PICK y : y = scan[t]
      OBVIOUS
    <3>2. DoorTrue(y)'
      BY <1>1, <3>1, DoorTrueStays DEF PInv, DoorOK, SInv, DoorsTrue
    <3>3. QED
      BY <2>1, <2>3, <3>1, <3>2
  <2>4. QED
    BY <2>2, <2>3
<1>5. QED
  BY <1>2, <1>3, <1>4 DEF SInv, DoorsTrue

\* A free device says nothing.
LEMMA DoorIdleTrue == DoorTrue(Door!NoScan)'
BY DEF DoorTrue, Door!NoScan

\* A scan takes up a row it has just read.
LEMMA DoorStartsTrue ==
    ASSUME PInv, SInv, NEW s \in Scanner, NEW r \in Registered,
           NEW session, NEW method, Door!Start(s, r, session, method),
           regs' = regs, checkIns' = checkIns, UNCHANGED <<h, stripe, approved>>
    PROVE  SInv'
<1>1. PICK entity : entity = Door!CheckedIn(regs[r])
  OBVIOUS
<1>2. PICK x : x = [Door!NoScan EXCEPT !.pc = "record",
                       !.row = [reg |-> r, session |-> session,
                                method |-> method],
                       !.entity = entity]
  OBVIOUS
<1>3. regs[r] \in RegistrationRow
  BY DEF PInv, TablesTypeOK, Registered
<1>4. Owned(r, entity) /\ entity.status = "checked_in"
  <2>1. /\ entity.amountPaid = regs[r].amountPaid
        /\ entity.intent = regs[r].intent
        /\ entity.status = "checked_in"
    BY <1>1, <1>3 DEF Door!CheckedIn, RegistrationRow
  <2>2. Owned(r, regs[r])
    BY DEF SInv, RowsTrue, Justified
  <2>3. QED
    BY <2>1, <2>2 DEF Owned
<1>5. DoorTrue(x)'
  BY <1>2, <1>4 DEF DoorTrue, Owned, Door!NoScan
<1>6. QED
  BY <1>1, <1>2, <1>5, DoorQuietTrue DEF Door!Start, SInv, OwnTypes, HasRecord

\* The INSERT into check_ins comes before the save of the status.
LEMMA DoorRecordsTrue ==
    ASSUME PInv, SInv, NEW s \in Scanner, Door!Record(s),
           UNCHANGED <<h, stripe, approved>>
    PROVE  SInv'
<1>1. PICK c \in CheckInId :
        /\ checkIns[c] = None
        /\ checkIns' = [checkIns EXCEPT ![c] = scan[s].row]
        /\ scan' = [scan EXCEPT ![s].pc = "reload", ![s].id = c]
  BY DEF Door!Record, Door!Recorded
<1>2. DoorSlot(scan[s]) /\ DoorTrue(scan[s]) /\ scan[s].pc = "record"
  BY DEF Door!Record, PInv, DoorOK, SInv, DoorsTrue
<1>3. scan[s].row \in Door!CheckInRow /\ scan[s].row # None
  BY <1>2, PlatformAssumption DEF DoorSlot, EntityOf, Registered, Door!CheckInRow
<1>4. /\ checkIns' \in [CheckInId -> Door!CheckInRow \cup {None}]
      /\ \A r \in RegId : HasRecord(r) => HasRecord(r)'
  BY <1>1, <1>3 DEF SInv, OwnTypes, HasRecord
<1>5. PICK x : x = [scan[s] EXCEPT !.pc = "reload", !.id = c]
  OBVIOUS
<1>6. x.row = scan[s].row /\ x.entity = scan[s].entity /\ x.pc = "reload"
  BY <1>2, <1>5 DEF DoorSlot, Door!ScanHandler
<1>7. HasRecord(x.row.reg)'
  BY <1>1, <1>3, <1>6 DEF SInv, OwnTypes, HasRecord
<1>8. DoorTrue(x)'
  BY <1>2, <1>6, <1>7 DEF DoorTrue, Owned, Door!Record
<1>9. scan' = [scan EXCEPT ![s] = x]
  BY <1>1, <1>5
<1>10. QED
  BY <1>4, <1>8, <1>9, DoorQuietTrue DEF Door!Record

\* The save of a scan: whoever it checks in has been recorded.
LEMMA DoorWritesTrue ==
    ASSUME PInv, SInv, NEW s \in Scanner, Door!WriteRegistration(s),
           UNCHANGED <<h, stripe, approved>>
    PROVE  SInv'
<1>1. DoorSlot(scan[s]) /\ DoorTrue(scan[s]) /\ scan[s].pc = "write"
  BY DEF Door!WriteRegistration, PInv, DoorOK, SInv, DoorsTrue
<1>2. PICK r : r = scan[s].row.reg
  OBVIOUS
<1>3. PICK entity : entity = scan[s].entity
  OBVIOUS
<1>4. EntityOf(r, entity) /\ Justified(r, entity)
  BY <1>1, <1>2, <1>3 DEF DoorSlot, DoorTrue, Justified
<1>5. /\ regs' = [regs EXCEPT ![r] = Patch(regs[r], entity, scan[s].cols)]
      /\ events' = events
  BY <1>2, <1>3 DEF Door!WriteRegistration, Door!Patch, Patch
<1>6. RowsStay
  BY <1>4, <1>5, SaveKeeps
<1>7. \A t \in Registered : regs'[t].amountPaid = regs[t].amountPaid
  <2>1. regs[r] \in RegistrationRow
    BY <1>4 DEF EntityOf, PInv, TablesTypeOK, Registered
  <2>2. Patch(regs[r], entity, scan[s].cols).amountPaid = regs[r].amountPaid
    BY <1>4, <2>1, PatchRow DEF EntityOf, Justified, Owned
  <2>3. QED
    BY <1>5, <2>2 DEF PInv, TablesTypeOK, Registered
<1>8. checkIns' = checkIns
  BY DEF Door!WriteRegistration
<1>9. Advances
  BY <1>6, <1>7, <1>8 DEF Advances, Desk!Paid, HasRecord
<1>10. RowsTrue' /\ DesksTrue' /\ OffersDiffer' /\ OwnTypes'
  BY <1>4, <1>5, <1>8, <1>9, SaveKeepsTrue, DesksTrueStay DEF SInv, OwnTypes
<1>11. ASSUME NEW t \in Scanner
       PROVE  DoorTrue(scan[t])'
  <2>1. PICK y : y = scan[t]
    OBVIOUS
  <2>2. DoorTrue(y)' /\ DoorSlot(y)
    BY <1>9, <2>1, DoorTrueStays DEF PInv, DoorOK, SInv, DoorsTrue
  <2>3. CASE t # s
    BY <2>1, <2>2, <2>3 DEF Door!WriteRegistration, PInv, DoorOK
  <2>4. CASE t = s
    <3>1. scan'[t] = [y EXCEPT !.pc = "announce"]
      BY <2>1, <2>4 DEF Door!WriteRegistration, PInv, DoorOK
    <3>2. y.pc = "write"
      BY <1>1, <2>1, <2>4
    <3>3. /\ scan'[t].pc = "announce" /\ scan'[t].row = y.row
          /\ scan'[t].entity = y.entity
      BY <2>2, <3>1 DEF DoorSlot, Door!ScanHandler
    <3>4. QED
      BY <2>2, <3>2, <3>3 DEF DoorTrue
  <2>5. QED
    BY <2>3, <2>4
<1>12. QED
  BY <1>10, <1>11 DEF SInv, DoorsTrue

\* Every step of checkin-service keeps what the statuses stand for.
LEMMA DoorKeepsTrue ==
    ASSUME PInv, SInv, Door!Next, UNCHANGED <<h, stripe, approved>>
    PROVE  SInv'
<1> SUFFICES ASSUME NEW s \in Scanner,
                    Door!Arrive(s) \/ Door!Continue(s) \/ Door!ScanFails(s)
             PROVE  SInv'
  BY DEF Door!Next
<1>1. CASE Door!Arrive(s)
  <2>1. ASSUME NEW e \in Event, NEW u \in User,
               NEW session \in Session \cup {None},
               Door!ScanQr(s, e, u, session)
        PROVE  SInv'
    <3>1. PICK r \in Registered : Door!Start(s, r, session, "qr_code")
      BY <2>1 DEF Door!ScanQr, Door!RowsOf, Door!Registered, Registered
    <3>2. QED
      BY <2>1, <3>1, DoorStartsTrue DEF Door!ScanQr
  <2>2. ASSUME NEW r \in RegId, Door!ManualCheckIn(s, r)
        PROVE  SInv'
    BY <2>2, DoorStartsTrue, DoorTypes DEF Door!ManualCheckIn
  <2>3. QED
    BY <1>1, <2>1, <2>2 DEF Door!Arrive
<1>2. CASE Door!Record(s)
  BY <1>2, DoorRecordsTrue
<1>3. CASE Door!ReloadRegistration(s)
  <2>1. PICK x : x = [scan[s] EXCEPT !.pc = "write",
                          !.cols = Door!Changed(regs[scan[s].row.reg],
                                                scan[s].entity)]
    OBVIOUS
  <2>2. DoorSlot(scan[s]) /\ DoorTrue(scan[s]) /\ scan[s].pc = "reload"
    BY <1>3 DEF Door!ReloadRegistration, PInv, DoorOK, SInv, DoorsTrue
  <2>3. /\ x.pc = "write" /\ x.row = scan[s].row /\ x.entity = scan[s].entity
    BY <2>1, <2>2 DEF DoorSlot, Door!ScanHandler
  <2>4. DoorTrue(x)'
    BY <1>3, <2>2, <2>3
    DEF DoorTrue, Owned, HasRecord, Door!ReloadRegistration
  <2>5. scan' = [scan EXCEPT ![s] = x]
    BY <1>3, <2>1 DEF Door!ReloadRegistration
  <2>6. QED
    BY <1>3, <2>4, <2>5, DoorQuietTrue
    DEF Door!ReloadRegistration, SInv, OwnTypes, HasRecord
<1>4. CASE Door!WriteRegistration(s)
  BY <1>4, DoorWritesTrue
<1>5. CASE Door!Announce(s)
  BY <1>5, DoorIdleTrue, DoorQuietTrue
  DEF Door!Announce, SInv, OwnTypes, HasRecord
<1>6. CASE Door!ScanFails(s)
  BY <1>6, DoorIdleTrue, DoorQuietTrue
  DEF Door!ScanFails, SInv, OwnTypes, HasRecord
<1>7. QED
  BY <1>1, <1>2, <1>3, <1>4, <1>5, <1>6 DEF Door!Continue

-----------------------------------------------------------------------------
(* The steps of registration-service                                       *)

\* While the tables and Stripe stay as they are, what is true stays true.
LEMMA DeskTrueSame ==
    ASSUME NEW x, DeskTrue(x), regs' = regs, stripe' = stripe,
           approved \subseteq approved', checkIns' = checkIns
    PROVE  DeskTrue(x)'
BY DEF DeskTrue, Draft, Justified, Owned, Settled, Desk!Paid, HasRecord,
       Offering

\* A request that writes no registration and leaves Stripe alone.
LEMMA DeskQuietTrue ==
    ASSUME PInv, SInv, NEW q \in Request, NEW x, DeskTrue(x)',
           h' = [h EXCEPT ![q] = x],
           Offering(x) => /\ Offering(h[q])
                          /\ x.entity.intent = h[q].entity.intent,
           regs' = regs, stripe' = stripe, approved \subseteq approved',
           UNCHANGED <<scan, checkIns>>
    PROVE  SInv'
<1>1. Advances
  BY SameRowsStay DEF Advances, Desk!Paid, HasRecord
<1>2. OwnTypes' /\ DoorsTrue' /\ RowsTrue'
  BY <1>1, DoorsTrueStay, RowsTrueStay DEF SInv, OwnTypes
<1>3. \A p \in Request \ {q} : Offering(h[p]) =>
         /\ stripe'[h[p].entity.intent] = stripe[h[p].entity.intent]
         /\ Offering(x) => x.entity.intent # h[p].entity.intent
  BY DEF SInv, OffersDiffer
<1>4. DesksTrue' /\ OffersDiffer'
  BY <1>1, <1>3, DesksTrueStep
<1>5. QED
  BY <1>2, <1>4 DEF SInv

\* A free slot says nothing.
LEMMA DeskIdleTrue ==
    /\ DeskTrue(Desk!Idle)
    /\ DeskTrue(Desk!Idle)'
    /\ ~Offering(Desk!Idle)
BY DEF DeskTrue, Desk!Idle, Offering

\* What a handler has read of a row is true.
LEMMA ReadIsTrue ==
    ASSUME PInv, SInv, NEW r \in Registered
    PROVE  regs[r] \in RegistrationRow /\ Justified(r, regs[r])
BY DEF PInv, SInv, TablesTypeOK, Registered, RowsTrue

\* A step that leaves all of this alone, as when a webhook finds no row.
LEMMA SameIsTrue ==
    ASSUME SInv, UNCHANGED <<regs, h, stripe, approved, scan, checkIns>>
    PROVE  SInv'
BY DEF SInv, OwnTypes, RowsTrue, DesksTrue, DoorsTrue, OffersDiffer,
       Registered, Justified, Owned, Settled, Desk!Paid, HasRecord, DeskTrue,
       DoorTrue, Offering, Draft

\* The requests that start a handler: each says what it has just read, and
\* confirms only what is approved or paid for.
LEMMA DeskReceivesTrue ==
    ASSUME PInv, SInv, NEW q \in Request, Desk!Receive(q),
           UNCHANGED <<scan, checkIns>>
    PROVE  SInv'
<1>1. ASSUME NEW e \in Event, NEW u \in User, NEW p \in Price,
             NEW public \in BOOLEAN, Desk!Create(q, e, u, p, public)
      PROVE  SInv'
  <2>1. PICK entity : entity = Desk!NewRow(e, u, p)
    OBVIOUS
  <2>2. PICK x : x = [Desk!Idle EXCEPT !.pc = "existing", !.op = "create",
                                       !.entity = entity]
    OBVIOUS
  <2>3. Draft(entity)
    BY <2>1, CentsOf DEF Draft, Desk!NewRow, Desk!Cents, Cents
  <2>4. DeskTrue(x) /\ ~Offering(x)
    BY <2>2, <2>3 DEF DeskTrue, Desk!Idle, Offering
  <2>5. QED
    BY <1>1, <2>1, <2>2, <2>4, DeskTrueSame, DeskQuietTrue DEF Desk!Create
<1>2. ASSUME NEW r \in RegId, Desk!Confirm(q, r)
      PROVE  SInv'
  <2>1. PICK entity : entity = Desk!Confirmed(regs[r])
    OBVIOUS
  <2>2. PICK x : x = Desk!Saving("confirm", r, entity)
    OBVIOUS
  <2>3. r \in Registered
    BY <1>2, DeskTypes DEF Desk!Confirm
  <2>4. /\ entity.amountPaid = regs[r].amountPaid
        /\ entity.intent = regs[r].intent
        /\ entity.status = "confirmed"
    BY <2>1, <2>3, ReadIsTrue DEF Desk!Confirmed, RegistrationRow
  <2>5. Owned(r, entity)
    BY <2>3, <2>4, ReadIsTrue DEF Justified, Owned
  <2>6. /\ regs' = regs /\ stripe' = stripe
        /\ approved' = approved \cup {r} /\ h' = [h EXCEPT ![q] = x]
    BY <1>2, <2>1, <2>2 DEF Desk!Confirm
  <2>7. Justified(r, entity)'
    BY <2>4, <2>5, <2>6 DEF Justified, Owned, Settled
  <2>8. DeskTrue(x)' /\ ~Offering(x)
    BY <2>2, <2>7 DEF DeskTrue, Desk!Saving, Desk!Idle, Offering
  <2>9. QED
    BY <2>6, <2>8, DeskQuietTrue
<1>3. ASSUME NEW r \in RegId, Desk!Cancel(q, r)
      PROVE  SInv'
  <2>1. PICK entity : entity = Desk!Cancelled(regs[r])
    OBVIOUS
  <2>2. PICK x : x = Desk!Saving("cancel", r, entity)
    OBVIOUS
  <2>3. r \in Registered
    BY <1>3, DeskTypes DEF Desk!Cancel
  <2>4. /\ entity.amountPaid = regs[r].amountPaid
        /\ entity.intent = regs[r].intent
        /\ entity.status = "cancelled"
    BY <2>1, <2>3, ReadIsTrue DEF Desk!Cancelled, RegistrationRow
  <2>5. Justified(r, entity)
    BY <2>3, <2>4, ReadIsTrue DEF Justified, Owned
  <2>6. DeskTrue(x) /\ ~Offering(x)
    BY <2>2, <2>5 DEF DeskTrue, Desk!Saving, Desk!Idle, Offering
  <2>7. QED
    BY <1>3, <2>1, <2>2, <2>6, DeskTrueSame, DeskQuietTrue DEF Desk!Cancel
<1>4. ASSUME NEW r \in RegId, Desk!CreatePaymentIntent(q, r)
      PROVE  SInv'
  <2>1. PICK x : x = [Desk!Idle EXCEPT !.pc = "stripe", !.op = "intent",
                                       !.reg = r, !.entity = regs[r]]
    OBVIOUS
  <2>2. Justified(r, regs[r])
    BY <1>4, DeskTypes, ReadIsTrue DEF Desk!CreatePaymentIntent
  <2>3. DeskTrue(x) /\ ~Offering(x)
    BY <2>1, <2>2 DEF DeskTrue, Desk!Idle, Offering
  <2>4. QED
    BY <1>4, <2>1, <2>3, DeskTrueSame, DeskQuietTrue
    DEF Desk!CreatePaymentIntent
<1>5. ASSUME NEW i \in Intent, Desk!Webhook(q, i)
      PROVE  SInv'
  <2>1. PICK r \in Registered :
            /\ regs[r].intent = i
            /\ h' = [h EXCEPT ![q] = [Desk!Idle EXCEPT !.pc = "mail",
                               !.reg = r, !.op = "webhook", !.event = i]]
    BY <1>5, DeskTypes DEF Desk!Webhook
  <2>2. r \in Desk!Paid
    <3>1. stripe[i].reg = r
      BY <2>1, ReadIsTrue, TablesAssumption DEF Justified, Owned
    <3>2. stripe[i].state = "succeeded"
      BY <1>5 DEF Desk!Webhook, Desk!Notifies
    <3>3. stripe[i] = [reg |-> r, state |-> "succeeded"]
      BY <3>1, <3>2 DEF SInv, OwnTypes, Desk!PaymentIntent
    <3>4. QED
      BY <3>3 DEF Desk!Paid, Registered
  <2>3. PICK x : x = [Desk!Idle EXCEPT !.pc = "mail", !.reg = r,
                                       !.op = "webhook", !.event = i]
    OBVIOUS
  <2>4. DeskTrue(x) /\ ~Offering(x)
    BY <2>2, <2>3 DEF DeskTrue, Desk!Idle, Offering
  <2>5. QED
    BY <1>5, <2>1, <2>3, <2>4, DeskTrueSame, DeskQuietTrue DEF Desk!Webhook
<1>6. ASSUME NEW i \in Intent, Desk!WebhookFindsNone(q, i)
      PROVE  SInv'
  BY <1>6, SameIsTrue DEF Desk!WebhookFindsNone
<1>7. QED
  BY <1>1, <1>2, <1>3, <1>4, <1>5, <1>6 DEF Desk!Receive

\* A sign-up inserts a row that is confirmed only if it is free.
LEMMA DeskInsertsTrue ==
    ASSUME PInv, PInv', SInv, NEW q \in Request, Desk!Insert(q),
           UNCHANGED <<scan, checkIns>>
    PROVE  SInv'
<1>1. /\ DeskSlot(h[q]) /\ DeskTrue(h[q])
      /\ h[q].entity \in RegistrationRow /\ Draft(h[q].entity)
      /\ h[q].op = "create"
  BY DEF Desk!Insert, PInv, DeskOK, DeskSlot, SInv, DesksTrue, DeskTrue
<1>2. CASE events[h[q].entity.event] = None
  BY <1>2, DeskIdleTrue, DeskQuietTrue DEF Desk!Insert
<1>3. CASE events[h[q].entity.event] # None
  <2>1. PICK r \in RegId \ Registered :
            /\ regs' = [regs EXCEPT ![r] = h[q].entity]
            /\ h' = [h EXCEPT ![q].pc = "mail", ![q].reg = r]
    BY <1>3, DeskTypes DEF Desk!Insert
  <2>2. \A s \in Registered :
            regs'[s] = regs[s] /\ s # r /\ s \in Registered'
    BY <2>1 DEF PInv, TablesTypeOK, Registered
  <2>3. UNCHANGED <<stripe, approved>>
    BY DEF Desk!Insert
  <2>4. Advances
    BY <2>2, <2>3 DEF Advances, RowsStay, Desk!Paid, HasRecord
  <2>5. OwnTypes' /\ DoorsTrue'
    BY <2>3, <2>4, DoorsTrueStay DEF SInv, OwnTypes
  <2>6. RowsTrue'
    <3> SUFFICES ASSUME NEW s \in Registered'
                 PROVE  Justified(s, regs[s])'
      BY DEF RowsTrue
    <3>1. CASE s = r
      <4>1. regs'[r] = h[q].entity
        BY <2>1 DEF PInv, TablesTypeOK
      <4>2. QED
        BY <1>1, <3>1, <4>1 DEF Justified, Owned, Draft
    <3>2. CASE s # r
      <4>1. PICK e : e = regs[s]
        OBVIOUS
      <4>2. s \in Registered /\ regs'[s] = e
        BY <2>1, <3>2, <4>1 DEF PInv, TablesTypeOK, Registered
      <4>3. EntityOf(s, e) /\ Justified(s, e)
        BY <4>1, <4>2, ReadIsTrue DEF EntityOf
      <4>4. QED
        BY <2>4, <4>2, <4>3, TrueStays
    <3>3. QED
      BY <3>1, <3>2
  <2>7. PICK x : x = [h[q] EXCEPT !.pc = "mail", !.reg = r]
    OBVIOUS
  <2>8. x.pc = "mail" /\ x.op = "create"
    BY <1>1, <2>7 DEF DeskSlot, Desk!Handler
  <2>9. DeskTrue(x)' /\ ~Offering(x)
    BY <2>8 DEF DeskTrue, Offering
  <2>10. h' = [h EXCEPT ![q] = x]
    BY <2>1, <2>7
  <2>11. DesksTrue' /\ OffersDiffer'
    BY <2>3, <2>4, <2>9, <2>10, DesksTrueStep
  <2>12. QED
    BY <2>5, <2>6, <2>11 DEF SInv
<1>4. QED
  BY <1>2, <1>3

\* Stripe's answer: an intent nobody has, for this registration.
LEMMA StripeCreatesTrue ==
    ASSUME PInv, SInv, NEW q \in Request, Desk!StripeCreates(q),
           UNCHANGED <<scan, checkIns>>
    PROVE  SInv'
<1>1. /\ DeskSlot(h[q]) /\ DeskTrue(h[q]) /\ h[q].pc = "stripe"
      /\ h[q].op = "intent"
  BY DEF Desk!StripeCreates, PInv, DeskOK, SInv, DesksTrue, DeskTrue
<1>2. PICK i \in Intent :
        /\ stripe[i].state = "unused"
        /\ stripe' = [stripe EXCEPT ![i] = [reg |-> h[q].reg,
                                            state |-> "created"]]
        /\ h' = [h EXCEPT ![q].pc = "reload", ![q].entity.intent = i]
  BY DEF Desk!StripeCreates, Desk!Fresh, Desk!NewIntent
<1>3. /\ EntityOf(h[q].reg, h[q].entity)
      /\ Justified(h[q].reg, h[q].entity)
  BY <1>1 DEF DeskSlot, DeskTrue
<1>4. \A j \in Intent : stripe[j].state # "unused" => stripe'[j] = stripe[j]
  BY <1>2 DEF SInv, OwnTypes
<1>5. /\ stripe'[i] = [reg |-> h[q].reg, state |-> "created"]
      /\ OwnTypes'
  BY <1>2, <1>3
  DEF SInv, OwnTypes, Desk!PaymentIntent, EntityOf, Registered
<1>6. UNCHANGED <<regs, approved>>
  BY DEF Desk!StripeCreates
<1>7. Desk!Paid \subseteq Desk!Paid'
  BY <1>4 DEF Desk!Paid
<1>8. Advances
  BY <1>4, <1>6, <1>7, SameRowsStay DEF Advances, HasRecord
<1>9. DoorsTrue' /\ RowsTrue'
  BY <1>6, <1>8, DoorsTrueStay, RowsTrueStay
<1>10. PICK x : x = [h[q] EXCEPT !.pc = "reload", !.entity.intent = i]
  OBVIOUS
<1>11. PICK entity : entity = [h[q].entity EXCEPT !.intent = i]
  OBVIOUS
<1>12. /\ x.pc = "reload" /\ x.op = "intent" /\ x.reg = h[q].reg
       /\ x.entity = entity
  BY <1>1, <1>10, <1>11 DEF DeskSlot, Desk!Handler
<1>13. /\ entity.intent = i
       /\ entity.amountPaid = h[q].entity.amountPaid
       /\ entity.status = h[q].entity.status
  BY <1>3, <1>11 DEF EntityOf, RegistrationRow
<1>14. Justified(x.reg, entity)'
  <2>1. PICK r, e : r = h[q].reg /\ e = h[q].entity
    OBVIOUS
  <2>2. EntityOf(r, e) /\ Justified(r, e)
    BY <1>3, <2>1
  <2>3. Justified(r, e)'
    BY <1>8, <2>2, TrueStays
  <2>4. /\ entity.amountPaid = e.amountPaid /\ entity.status = e.status
        /\ stripe'[i].reg = r /\ stripe'[i].state = "created"
    BY <1>5, <1>13, <2>1
  <2>5. Justified(r, entity)'
    BY <1>13, <2>3, <2>4 DEF Justified, Owned
  <2>6. QED
    BY <1>12, <2>1, <2>5
<1>15. DeskTrue(x)'
  BY <1>5, <1>12, <1>13, <1>14 DEF DeskTrue, Offering
<1>16. h' = [h EXCEPT ![q] = x]
  BY <1>2, <1>10
<1>17. \A p \in Request \ {q} : Offering(h[p]) =>
          /\ stripe'[h[p].entity.intent] = stripe[h[p].entity.intent]
          /\ x.entity.intent # h[p].entity.intent
  BY <1>2, <1>4, <1>12, <1>13 DEF SInv, DesksTrue, DeskTrue
<1>18. DesksTrue' /\ OffersDiffer'
  BY <1>8, <1>15, <1>16, <1>17, DesksTrueStep
<1>19. QED
  BY <1>5, <1>9, <1>18 DEF SInv

\* The save of a request, and the offer of the intent it made.
LEMMA DeskWritesTrue ==
    ASSUME PInv, SInv, NEW q \in Request, Desk!Write(q),
           UNCHANGED <<scan, checkIns>>
    PROVE  SInv'
<1>1. DeskSlot(h[q]) /\ DeskTrue(h[q]) /\ h[q].pc = "write"
  BY DEF Desk!Write, PInv, DeskOK, SInv, DesksTrue
<1>2. PICK r, e : r = h[q].reg /\ e = h[q].entity
  OBVIOUS
<1>3. EntityOf(r, e) /\ Justified(r, e)
  BY <1>1, <1>2 DEF DeskSlot, DeskTrue
<1>4. /\ regs' = [regs EXCEPT ![r] = Patch(regs[r], e, h[q].cols)]
      /\ UNCHANGED <<events, approved>>
  BY <1>2 DEF Desk!Write, Desk!Patch, Patch
<1>5. RowsStay
  BY <1>3, <1>4, SaveKeeps
<1>6. \A t \in Registered : regs'[t].amountPaid = regs[t].amountPaid
  <2>1. regs[r] \in RegistrationRow
    BY <1>3 DEF EntityOf, PInv, TablesTypeOK, Registered
  <2>2. Patch(regs[r], e, h[q].cols).amountPaid = regs[r].amountPaid
    BY <1>3, <2>1, PatchRow DEF EntityOf, Justified, Owned
  <2>3. QED
    BY <1>4, <2>2 DEF PInv, TablesTypeOK, Registered
<1>7. /\ OwnTypes'
      /\ \A i \in Intent :
            \/ stripe'[i] = stripe[i]
            \/ /\ h[q].op = "intent" /\ i = e.intent
               /\ stripe[i].state = "created"
               /\ stripe'[i].state = "offered"
               /\ stripe'[i].reg = stripe[i].reg
  <2>1. CASE h[q].op # "intent"
    BY <2>1 DEF Desk!Write, SInv, OwnTypes
  <2>2. CASE h[q].op = "intent"
    <3>1. e.intent \in Intent /\ stripe[e.intent].state = "created"
      BY <1>1, <1>2, <2>2 DEF DeskTrue, Offering
    <3>2. stripe' = [stripe EXCEPT ![e.intent].state = "offered"]
      BY <1>2, <2>2 DEF Desk!Write
    <3>3. QED
      BY <2>2, <3>1, <3>2 DEF SInv, OwnTypes, Desk!PaymentIntent
  <2>3. QED
    BY <2>1, <2>2
<1>8. Desk!Paid \subseteq Desk!Paid'
  BY <1>7 DEF Desk!Paid
<1>9. Advances
  <2>1. \A t \in RegId : HasRecord(t) => HasRecord(t)'
    BY DEF HasRecord
  <2>2. \A i \in Intent :
            stripe[i].state # "unused" =>
                stripe'[i].state # "unused" /\ stripe'[i].reg = stripe[i].reg
    BY <1>7
  <2>3. QED
    BY <1>4, <1>5, <1>6, <1>8, <2>1, <2>2 DEF Advances
<1>10. RowsTrue' /\ DoorsTrue'
  BY <1>3, <1>4, <1>9, SaveKeepsTrue, DoorsTrueStay
<1>11. PICK x : x = IF h[q].op = "confirm"
                    THEN [h[q] EXCEPT !.pc = "mail", !.cols = {}]
                    ELSE Desk!Idle
  OBVIOUS
<1>12. \/ x = Desk!Idle
       \/ x.pc = "mail" /\ x.op = "confirm"
  BY <1>1, <1>11 DEF DeskSlot, Desk!Handler
<1>13. DeskTrue(x)' /\ ~Offering(x)
  BY <1>12, DeskIdleTrue DEF DeskTrue, Offering
<1>14. h' = [h EXCEPT ![q] = x]
  BY <1>11 DEF Desk!Write
<1>15. \A p \in Request \ {q} : Offering(h[p]) =>
          stripe'[h[p].entity.intent] = stripe[h[p].entity.intent]
  <2> SUFFICES ASSUME NEW p \in Request \ {q}, Offering(h[p])
               PROVE  stripe'[h[p].entity.intent] = stripe[h[p].entity.intent]
    OBVIOUS
  <2>1. h[p].entity.intent \in Intent
    BY DEF SInv, DesksTrue, DeskTrue
  <2>2. h[q].op = "intent" => h[p].entity.intent # e.intent
    BY <1>1, <1>2 DEF SInv, OffersDiffer, Offering
  <2>3. QED
    BY <1>7, <2>1, <2>2
<1>16. DesksTrue' /\ OffersDiffer'
  BY <1>9, <1>13, <1>14, <1>15, DesksTrueStep
<1>17. QED
  BY <1>7, <1>10, <1>16 DEF SInv

\* The steps of a request in progress.
LEMMA DeskContinuesTrue ==
    ASSUME PInv, PInv', SInv, NEW q \in Request, Desk!Continue(q),
           UNCHANGED <<scan, checkIns>>
    PROVE  SInv'
<1>0. DeskSlot(h[q]) /\ DeskTrue(h[q]) /\ h[q] \in Desk!Handler
  BY DEF PInv, DeskOK, SInv, DesksTrue
<1>1. CASE Desk!CheckExisting(q)
  <2>1. CASE h' = [h EXCEPT ![q] = Desk!Idle]
    BY <1>1, <2>1, DeskIdleTrue, DeskQuietTrue DEF Desk!CheckExisting
  <2>2. CASE h' = [h EXCEPT ![q].pc = "insert"]
    <3>1. PICK x : x = [h[q] EXCEPT !.pc = "insert"]
      OBVIOUS
    <3>2. DeskTrue(x) /\ ~Offering(x)
      BY <1>0, <1>1, <3>1
      DEF Desk!CheckExisting, DeskTrue, Offering, Desk!Handler
    <3>3. DeskTrue(x)'
      BY <1>1, <3>2, DeskTrueSame DEF Desk!CheckExisting
    <3>4. QED
      BY <1>1, <2>2, <3>1, <3>2, <3>3, DeskQuietTrue DEF Desk!CheckExisting
  <2>3. QED
    BY <1>1, <2>1, <2>2 DEF Desk!CheckExisting
<1>2. CASE Desk!Insert(q)
  BY <1>2, DeskInsertsTrue
<1>3. CASE Desk!StripeCreates(q)
  BY <1>3, StripeCreatesTrue
<1>4. CASE Desk!StripeRejects(q)
  BY <1>4, DeskIdleTrue, DeskQuietTrue DEF Desk!StripeRejects
<1>5. CASE Desk!Reload(q)
  <2>1. PICK x : x = [h[q] EXCEPT !.pc = "write",
                          !.cols = Desk!Changed(regs[h[q].reg], h[q].entity)]
    OBVIOUS
  <2>2. /\ x.pc = "write" /\ x.op = h[q].op /\ x.reg = h[q].reg
        /\ x.entity = h[q].entity /\ h[q].pc = "reload"
    BY <1>0, <1>5, <2>1 DEF Desk!Reload, Desk!Handler
  <2>3. DeskTrue(x)
    BY <1>0, <2>2 DEF DeskTrue, Offering
  <2>4. Offering(x) => Offering(h[q])
    BY <2>2 DEF Offering
  <2>5. h' = [h EXCEPT ![q] = x]
    BY <1>5, <2>1 DEF Desk!Reload
  <2>6. QED
    BY <1>5, <2>2, <2>3, <2>4, <2>5, DeskTrueSame, DeskQuietTrue
    DEF Desk!Reload
<1>6. CASE Desk!Write(q)
  BY <1>6, DeskWritesTrue
<1>7. CASE Desk!ConfirmPaid(q)
  <2>1. PICK r : r = h[q].reg
    OBVIOUS
  <2>2. PICK entity : entity = Desk!Confirmed(regs[r])
    OBVIOUS
  <2>3. PICK x : x = [Desk!Saving("confirm", r, entity)
                         EXCEPT !.event = h[q].event]
    OBVIOUS
  <2>4. r \in Registered /\ r \in Desk!Paid
    BY <1>0, <1>7, <2>1 DEF Desk!ConfirmPaid, DeskSlot, DeskTrue
  <2>5. /\ entity.amountPaid = regs[r].amountPaid
        /\ entity.intent = regs[r].intent
        /\ entity.status = "confirmed"
    BY <2>2, <2>4, ReadIsTrue DEF Desk!Confirmed, RegistrationRow
  <2>6. Justified(r, entity)
    BY <2>4, <2>5, ReadIsTrue DEF Justified, Owned, Settled
  <2>7. DeskTrue(x) /\ ~Offering(x)
    BY <2>3, <2>6 DEF DeskTrue, Desk!Saving, Desk!Idle, Offering
  <2>8. QED
    BY <1>7, <2>1, <2>2, <2>3, <2>7, DeskTrueSame, DeskQuietTrue
    DEF Desk!ConfirmPaid
<1>8. CASE Desk!SendMail(q)
  <2>1. PICK x : x = Desk!AfterMail(h[q])
    OBVIOUS
  <2>2. DeskTrue(x) /\ ~Offering(x)
    BY <1>0, <1>8, <2>1, DeskIdleTrue
    DEF Desk!SendMail, Desk!AfterMail, DeskTrue, Offering, Desk!Handler
  <2>3. QED
    BY <1>8, <2>1, <2>2, DeskTrueSame, DeskQuietTrue DEF Desk!SendMail
<1>9. QED
  BY <1>1, <1>2, <1>3, <1>4, <1>5, <1>6, <1>7, <1>8 DEF Desk!Continue

\* A payment settles one registration and unsettles none.
LEMMA PayTrue ==
    ASSUME PInv, SInv, NEW i \in Intent, Desk!Pay(i),
           UNCHANGED <<scan, checkIns>>
    PROVE  SInv'
<1>1. /\ stripe[i].state = "offered"
      /\ stripe' = [stripe EXCEPT ![i].state = "succeeded"]
      /\ UNCHANGED <<regs, h, approved>>
  BY DEF Desk!Pay
<1>2. /\ OwnTypes'
      /\ \A j \in Intent :
            \/ stripe'[j] = stripe[j]
            \/ stripe[j].state = "offered" /\ stripe'[j].state = "succeeded"
               /\ stripe'[j].reg = stripe[j].reg
  BY <1>1 DEF SInv, OwnTypes, Desk!PaymentIntent
<1>3. Desk!Paid \subseteq Desk!Paid'
  BY <1>2 DEF Desk!Paid
<1>4. Advances
  BY <1>1, <1>2, <1>3, SameRowsStay DEF Advances, HasRecord
<1>5. \A j \in Intent : stripe[j].state = "created" => stripe'[j] = stripe[j]
  BY <1>2
<1>6. QED
  BY <1>1, <1>2, <1>4, <1>5, RowsTrueStay, DesksTrueStay, DoorsTrueStay
  DEF SInv

\* Every step of registration-service keeps what the statuses stand for.
LEMMA DeskKeepsTrue ==
    ASSUME PInv, PInv', SInv, Desk!Next, UNCHANGED <<scan, checkIns>>
    PROVE  SInv'
<1>1. ASSUME NEW q \in Request, Desk!Fail(q)
      PROVE  SInv'
  BY <1>1, DeskIdleTrue, DeskQuietTrue DEF Desk!Fail
<1>2. QED
  BY <1>1, PayTrue, DeskReceivesTrue, DeskContinuesTrue DEF Desk!Next

-----------------------------------------------------------------------------
(* The three services together                                             *)

\* PInv is an inductive invariant of the three services together.
THEOREM PlatformInvariance == Spec => []PInv
<1>1. Init => PInv
  <2> SUFFICES ASSUME Init
               PROVE  PInv
    OBVIOUS
  <2>1. /\ regs = [r \in RegId |-> None]
        /\ events \in [Event -> EventRow]
    BY DEF Init, Desk!Init, Desk!EventAtStart, Desk!EventRow, Desk!EventStatus,
           EventRow, EventStatus
  <2>2. TablesTypeOK /\ RegistrationKeepsEvent
    BY <2>1 DEF TablesTypeOK, RegistrationKeepsEvent, Registered
  <2>3. DeskOK
    BY DeskIdle DEF Init, Desk!Init, DeskOK, DeskSlot
  <2>4. DoorOK
    BY DoorIdle DEF Init, Door!Init, DoorOK, DoorSlot
  <2>5. OfficeOK
    BY OfficeIdle DEF Init, Office!Init, OfficeOK, OfficeSlot
  <2>6. QED
    BY <2>2, <2>3, <2>4, <2>5 DEF PInv
<1>2. PInv /\ [Next]_vars => PInv'
  <2> SUFFICES ASSUME PInv, [Next]_vars
               PROVE  PInv'
    OBVIOUS
  <2>1. CASE Next
    BY <2>1, DeskKeeps, DoorKeeps, OfficeKeeps
    DEF Next, DeskNext, DoorNext, OfficeNext, deskVars, doorVars, officeVars
  <2>2. CASE UNCHANGED vars
    BY <2>2, TablesStay, DeskStays, DoorStays, OfficeStays
    DEF vars, deskVars, doorVars, officeVars, PInv
  <2>3. QED
    BY <2>1, <2>2
<1>3. QED
  BY <1>1, <1>2, PTL DEF Spec

\* No registration is ever left without its event: not by a sign-up that looks
\* the event up while an organiser deletes it, nor by any save, however stale.
THEOREM RegistrationsKeepTheirEvent == Spec => []RegistrationKeepsEvent
<1>1. PInv => RegistrationKeepsEvent
  BY DEF PInv
<1>2. QED
  BY <1>1, PlatformInvariance, PTL

\* SInv holds of the three services together: what the status, the price and
\* the intent of a row or of a loaded entity say is true.
THEOREM PlatformStatuses == Spec => []SInv
<1>1. Init => SInv
  <2> SUFFICES ASSUME Init
               PROVE  SInv
    OBVIOUS
  <2>1. /\ regs = [r \in RegId |-> None]
        /\ stripe = [i \in Intent |-> [reg |-> None, state |-> "unused"]]
        /\ checkIns = [c \in CheckInId |-> None]
    BY DEF Init, Desk!Init, Door!Init
  <2>2. OwnTypes
    BY <2>1 DEF OwnTypes, Desk!PaymentIntent
  <2>3. RowsTrue
    BY <2>1 DEF RowsTrue, Registered
  <2>4. DesksTrue /\ OffersDiffer
    BY DeskIdleTrue DEF Init, Desk!Init, DesksTrue, OffersDiffer
  <2>5. DoorsTrue
    BY DEF Init, Door!Init, DoorsTrue, DoorTrue, Door!NoScan
  <2>6. QED
    BY <2>2, <2>3, <2>4, <2>5 DEF SInv
<1>2. PInv /\ PInv' /\ SInv /\ [Next]_vars => SInv'
  <2> SUFFICES ASSUME PInv, PInv', SInv, [Next]_vars
               PROVE  SInv'
    OBVIOUS
  <2>1. ASSUME UNCHANGED <<regs, h, stripe, approved, scan, checkIns>>
        PROVE  SInv'
    BY <2>1, SameIsTrue
  <2>2. CASE DeskNext
    BY <2>2, DeskKeepsTrue DEF DeskNext, doorVars
  <2>3. CASE DoorNext
    BY <2>3, DoorKeepsTrue DEF DoorNext, deskVars
  <2>4. CASE OfficeNext
    <3>1. regs' = regs
      BY <2>4 DEF OfficeNext, Office!Next, Office!Create, Office!Publish, Office!Cancel,
                  Office!Remove, Office!Update, Office!Save, Office!Reload,
                  Office!Write, Office!Delete
    <3>2. QED
      BY <2>1, <2>4, <3>1 DEF OfficeNext, deskVars, doorVars
  <2>5. CASE UNCHANGED vars
    BY <2>1, <2>5 DEF vars, deskVars, doorVars
  <2>6. QED
    BY <2>2, <2>3, <2>4, <2>5 DEF Next
<1>3. QED
  BY <1>1, <1>2, PlatformInvariance, PTL DEF Spec

\* Whoever counts as checked in was let in, even though confirmations,
\* cancellations and payment intents save the same rows as the scans.
THEOREM CheckInsStayRecorded == Spec => []CheckedInHasRecord
<1>1. SInv => CheckedInHasRecord
  BY DoorTypes
  DEF SInv, RowsTrue, Justified, HasRecord, CheckedInHasRecord,
      Door!CheckedInHasRecord, Door!Recorded
<1>2. QED
  BY <1>1, PlatformStatuses, PTL

\* A registration with a price is confirmed only once it is paid for or
\* approved, even though scans save the rows too.
THEOREM ConfirmationsAreSettled == Spec => []ConfirmedIsSettled
<1>1. SInv => ConfirmedIsSettled
  BY DeskTypes
  DEF SInv, RowsTrue, Justified, Settled, ConfirmedIsSettled,
      Desk!ConfirmedIsSettled
<1>2. QED
  BY <1>1, PlatformStatuses, PTL

=============================================================================
