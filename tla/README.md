# It-event-platform in TLA+

A verification development for the event platform under `src/`: TypeScript
microservices (NestJS, TypeORM, PostgreSQL, Stripe, Socket.IO) behind an API
gateway, with a Next.js frontend. The modules model every service that keeps
state, the gateway, the parts of the frontend that decide something and the demo
script. TLC checks them on small instances. TLAPS proves every invariant that the
runs check, the action properties and the three refinements, for every size of
the tables and any concurrency (two of the refinements hold only for requests that
do not overlap, and are proved for these); liveness stays with TLC.

## 1. The system

### Components, state, operations

| Component (under `src/`) | State | Operations that change it | Here |
|---|---|---|---|
| registration-service: registrations | `registrations` rows; Stripe intents | sign up, confirm, cancel, payment intent, Stripe webhook | `Registration` |
| registration-service: rules engine | none (pure) | evaluate rules into visibility, price, errors | `RulesEngine` |
| registration-service: form builder | `form_fields` rows | create, update, remove, reorder | `FormBuilder` |
| checkin-service | `check_ins` rows, status in `registrations` | QR scan, manual check-in, dashboard broadcast | `CheckIn` |
| event-service | `events` rows | create, update, publish, cancel, remove | `EventService`, `EventPage` |
| email-service | `email_campaigns` rows | create, update, schedule, send, track | `Campaign` |
| user-service (users, auth) | `users` rows | register, guest sign-up, login, update, status, import, remove | `Accounts` |
| networking-service | `users` rows, an in-memory list of meetings | profile update, schedule and answer meetings | `Accounts`, `Meetings` |
| support-service | `support_tickets` rows with a JSON message list | create, reply, assign, resolve, close, escalate | `Tickets` |
| task-service | `tasks` rows with a JSON comment list | create, update, status, comment, assign, remove | `TaskBoard` |
| api-gateway | none | authenticate and forward | `Console` |
| analytics-service | none (reads all tables) | counts for dashboards | `Dashboard` |
| frontend | session cookie | server actions, public page, customiser | `Console`, `EventPage`, `Dashboard` |
| demo script | none | a chain of calls through the gateway | `Seed` |
| packages/database, packages/shared | schema, keys, enumerations; TypeORM's `save` | - | `TypeOrm`, `Tables`, `SavedRows`, `Platform` |
| notification-service, file-service | a log in memory; S3 objects | send; upload, delete | left out |
| containers, setup | - | - | left out |

### How they interact

The services do not call one another about their rows: each has repositories of
its own on **one shared database**. What the check-in service writes into
`registrations.status` is what the registration service reads, and an event
that event-service deletes is what a foreign key of `registrations` refuses. The
only call between services is the post of an email (registration to email
service), which is best effort.

There are no transactions, no locks and no version columns. A handler is a chain
of `await`s; at each of them any other handler of any service may run. Most
writes are `entity = findOne(); entity.x = ...; save(entity)`. TypeORM's `save`
reads the row again and updates **every column in which the entity in memory
differs from the row it has just read**, so it also writes back, from the stale
entity, what others changed meanwhile (module `TypeOrm`).

### What is hard

* Interleaving and stale state: check-then-insert without a unique index,
  guards evaluated on an entity that is saved later, whole-entity saves.
* Money: the intent's id has to be in its row before the browser can pay;
  webhooks are late, repeated and lost; a receipt, a ticket and a status must
  not run ahead of the payment.
* Partial failure: each `await` may throw or the process may die, and what was
  written stays written.
* Foreign keys and deletion: an event may vanish between the lookup and the
  insert of a registration.
* Legal calls in an unlucky sequence: a second payment intent, a confirmation
  after a cancellation or after a check-in.
* Order and overlap of rules, and JavaScript's comparisons of numbers and texts.
* Lists in one JSON column (messages, comments) rewritten from a loaded entity;
  parallel updates of a form's order; ids taken from the length of an array that
  a restart empties.
* Figures on one page that come from queries at different moments.
* A click that fails at one of several hops, before or after it was carried out.

`PROJECT.json` lists the hazards line by line, with the properties that would
catch each of them.

### What makes each component correct

* Registrations: a registration with a price is confirmed only if Stripe took
  the money or an organiser approved it; receipts and tickets go only to those
  entitled; intents stay with their registration; a registration with nothing to
  pay is neither charged nor kept waiting; a payment takes effect; one
  registration per person and event.
* Check-ins: whoever counts as checked in has a record; a code enters once; the
  dashboard hears of every record and shows only people who are checked in.
* Events: the lifecycle goes one way; a live event is not deleted under its
  attendees.
* Campaigns: counters and totals never claim what did not happen; a send that
  is not cut short shows as SENT, and nothing else does (as long as the bodies of
  edits are of their DTO's type, see section 5).
* Rules: visibility, price and tier are what the prevailing rule says; a form is
  rejected exactly for required fields that stay empty.
* Accounts: one user per email; nobody has, or is issued a token for, a role
  nobody granted; no save touches a password.
* Threads of tickets and tasks: in order, nothing twice; nothing lost while
  requests do not overlap; a ticket's first response is dated once.
* Meetings: an answer reaches the meeting it was meant for.
* Form builder and event page: what was ordered, chosen and saved last is what
  is rendered, unless edits overlapped; even then nothing is made up.
* Dashboards: off by no more than what was saved while they were loaded.
* Console: what the browser is told is true of what was carried out.
* Demo script: may be run again after any failure.
* Together: registrations keep their events, and none of the above is broken by
  another service that saves the same rows.

## 2. The modules

| Module | What it is |
|---|---|
| `TypeOrm` | external: which columns `save` finds changed, and the row after its UPDATE |
| `SavedRows` | a table whose rows are loaded, changed and saved whole, with the round trips of `save` and `delete`; instantiated by the five modules that follow the pattern and nothing else |
| `Tables` | the shared tables `registrations` and `events`, their rows, enumerations and keys; the assumptions on the constants |
| `Registration` | registration-service on those tables, with Stripe and the mail it asks for |
| `TicketPromise` | abstract specification: sign up, settle, ticket |
| `CheckIn` | checkin-service on the same tables |
| `EventService` | event-service on the same tables |
| `EventLifecycle` | abstract specification: the one-way life of an event |
| `Platform` | the three services composed on the tables they share |
| `Campaign` | email-service's campaigns: edit, schedule, send, count opens and clicks |
| `RulesEngine` | the rules engine, with a reference that neither sorts nor loops |
| `Accounts` | user-service, auth and the profile save on the table `users` |
| `Tickets`, `TaskBoard` | support-service and task-service |
| `Conversation` | abstract specification: what a thread of messages promises |
| `Meetings` | the meetings of networking-service, across restarts |
| `FormBuilder` | the form builder and the form as it is rendered |
| `EventPage` | templates, customiser and the public page of an event |
| `Dashboard` | the parallel queries behind the figures of four pages |
| `Console` | server actions, session cookie, api client and gateway |
| `Seed` | `scripts/seed-demo.mjs` |
| `MCRegistration`, `MCCheckIn`, `MCCampaign` | symmetry sets for TLC |
| `MCPlatform` | desk with door, or desk with office, in one run; symmetry |
| `MCRulesEngine` | the repertoire of rules and answers TLC runs through |
| `MCBackOffice` | events, accounts, tickets, tasks and meetings in one run; the refinement of `Conversation` |
| `MCFrontOffice` | rules, form builder, event page, dashboard, console and demo script in one run |
| `TablesProofs` | lemmas about `Changed` and `Patch` on registrations |
| `RegistrationProofs`, `CheckInProofs`, `CampaignProofs`, `AccountsProofs`, `PlatformProofs` | theorems about the module of that name, and their proofs |
| `BackOfficeProofs` | theorems about events, tickets, tasks, meetings, the refinements of `Conversation` and `EventLifecycle`, and `MCBackOffice` as a whole; uses `AccountsProofs` |
| `FrontOfficeProofs` | theorems about the rules engine, the form builder, the event page, the figures, the console, the demo script, and `MCFrontOffice` as a whole |

### State and actions against the code

**Registration.** `h[q]` is the handler a request runs in slot `q`: the next
call it awaits (`pc`), the route (`op`), the row, the entity in memory and the
columns `save` found changed. One action per stretch of code between two
awaits:

| Code (`registration.service.ts`) | Actions |
|---|---|
| `create` | `Create` (event lookup, publication check), `CheckExisting` (earlier row, rules), `Insert` (the foreign key may reject it), `SendMail` |
| `confirm` | `Confirm` (load, change), `Reload`, `Write`, `SendMail` |
| `cancel` | `Cancel` (load, guard, change), `Reload`, `Write` |
| `createPaymentIntent` | `CreatePaymentIntent` (load, guard), `StripeCreates` / `StripeRejects`, `Reload`, `Write` (store, then hand out the secret) |
| `handleStripeWebhook` | `Webhook` (signature, filter, lookup), `SendMail` (receipt), `ConfirmPaid`, `Reload`, `Write`, `SendMail` (the ticket, and the 2xx); `WebhookFindsNone` (no row: a 2xx at once) |
| any await that throws | `Fail` |

`stripe[i]` is the external side: an intent is created, offered to a browser,
and paid by `Pay`. A webhook may arrive at any time after the payment and any
number of times. `answered` holds the payments of which one delivery was answered
with a 2xx: by a handler that came to its end, or by one that found no row (line
169 returns, and the answer is a 2xx like any other). Stripe stops repeating these,
so a webhook that came while a stale save had the intent erased is lost, even if
another stale save writes the intent back. `event` of a handler is the payment
its webhook reports. `mail` records which of the three emails reached
email-service; a post may fail at any time. `approved` is a history variable:
the registrations an organiser asked to confirm, the only lawful reason besides
money. A row keeps the columns some handler tests or changes after the insert.
The rules engine decides the price and may reject the form: its verdict is a
choice in `CheckExisting`, its price a parameter of `Create`. A price is in tenths
of a cent, the row keeps whole cents (`Cents`, what `decimal(10,2)` does), and the
status is decided on the former (`NewRow`).

**CheckIn.** `scan[s]` is the scan a device runs: `ScanQr` or `ManualCheckIn`
(lookup, guard), `Record` (insert into `check_ins`), `ReloadRegistration` and
`WriteRegistration` (the save), `Announce` (the broadcast), `ScanFails`.
`cutShort` is a history variable: the recorded check-ins whose scan failed before
the broadcast.

**EventService.** `edit[o]` is an organiser's request. `save` of an entity whose
row is gone inserts it again (`Saved`); `Delete` goes by key and is refused
by the foreign key while somebody is registered. `minted` is the sequence of
primary keys: a key is never handed out twice.

**Campaign.** `job[j]` is a request that ends in a save: the route (`op`), the
entity it loaded, and for a send the recipients not tried yet and the mails that
went out. `Update`, `Schedule` and `Send` load and change; `Reload` and `Write`
are the save; a send goes on with `MailOne` for every recipient (accepted, or an
exception the loop swallows) and `Finish`, which puts the result into **the same
entity** for a second save. `Track` is the atomic `increment` of a counter.
`mailed` and `hits` are what really happened, `cutShort` the campaigns one of
whose sends failed or crashed on the way.

**RulesEngine.** One evaluation of `evaluateForm`. `Evaluate` matches every rule
with the answers before any action is applied; `NextRule` takes up the highest
priority left (the earlier rule among equals, since JavaScript's sort is stable);
`ApplyAction` is one round of the inner loop; `Validate` checks the required
fields. The call is synchronous, so no other actor moves in between: the steps
are there so that an invariant can speak about the loops. Values are numbers,
their texts, the empty text, null and undefined, which is what `==`, `Number()`,
`??` and `!` tell apart; a condition reads a field of `formData`, and the other
parts of the context are looked up the same way. `Firing`, `Places` and
`Overrides` are the reference: the lower priority, then the later rule, then the
later action has the last word.

**Platform** instantiates the three and lets any of them take the next step.

**SavedRows.** A request holds `pc`, the key, the entity and the columns `save`
found changed. `Take` is the load and the assignments, `Reload` the SELECT inside
`save`, `Write` its UPDATE, or its INSERT when the row was gone; `TakeOut` and
`Delete` are the two halves of `remove`, the second of which a foreign key may
refuse. Columns with `select: false` are missing from a loaded entity, and
`save` skips them.

**Accounts.** `visit[v]` is a sign-up, a guest or a login: `Register`, `Guest`,
`LookUpAgain` (the guest path looks twice), `InsertUser` (the unique index may
refuse it), `Login` and `Refresh` (the checks), `Sign` (the token names the role
the handler holds) and `Attach` (the second call of the public page). `clerk[c]`
is an administrator's request or a profile save, on `SavedRows`. `granted` is a
history variable: the roles some request gave a user.

**Tickets, TaskBoard.** One action per route. A message is the stamp of its
`createdAt` (`at`) and whether it is an answer to the customer (`outbound`): its
sender is an agent and it is no internal note. A comment is its stamp. The relation `assignedTo` is loaded with the
row and `save` believes it rather than the plain id, so an assignment takes
effect only while nobody is assigned (`Assigned`, `Reassigned`). Tasks can be
removed, and vanish with their event by the cascade (`DeleteEvent`); a save that
loaded a task before its removal inserts it again.

**Meetings.** The array, the lists that browsers have fetched, and restarts.
`stripped` is the switch of the two services one can read from the code: with
`whitelist: true` and a DTO without decorators the pipe removes both parties
(TRUE, as booted), with a decorated DTO it does not (FALSE); both are checked
and proved.

**FormBuilder.** `author[a]` is an update, `drag[a]` a reorder: `Reorder` starts
the parallel UPDATEs, `UpdateOrder` is one of them, in any order, `OrderRejected`
one that fails while the others run on, `Reordered` the answer of `Promise.all`.
`FindByEvent` renders; equal `orderIndex`es come in any order. `settled` and
`page` are history variables.

**EventPage.** Edits (`Apply`, `Customize`, `Publish`, `Cancel`) are saves of the
whole event; `PublicEventPage` is what `/e/:id` renders for a visitor or with a
session, with `ResolvePalette`, `ResolveSections` and `Rendering` for the
functions of `lib/templates.ts` and the page.

**Dashboard.** `Open` asks for the queries of one page, `Run` answers one of them
at the moment it runs, `CallFails` drops a whole call; `SignUp` and `SaveStatus`
are what the other services do to the table meanwhile (a sign-up may wait with an
amount of 0.00).

**Console.** A click runs the script of its server action: `Submit`, then for
every call `Forward` (the guard), `Refuses`, `ServiceDown`, `ServiceGoesDown`,
`CarryOut` and `Return` (what the api client makes of the answer); `Unreachable`
cuts it anywhere. The token and the cookie that holds it have lifetimes that
start at different moments.

**Seed.** `main` call by call: `SeedCall`, `SeedCallFails` (an error before or
after the call took effect), `SeedKilled`, and `StartSeed` for the next run.

### Abstract specifications

`TicketPromise` says what an attendee and an organiser may rely on: the price of
a registration is fixed at sign-up, and the ticket of a registration that costs
something goes out after it was settled. `Registration` implements it under the
mapping `due` = the row's `amountPaid` (whole cents), `settled` = paid or approved,
`ticketed` = confirmation mail delivered (`KeepsPromise`). `EventLifecycle` is
the state machine the comments of event-service describe, as far as operations
exist for it (nothing makes an event ONGOING or COMPLETED); event-service
implements it as long as organisers wait for one another (`FollowsLifecycle`).

`Conversation` says what a thread promises: messages are appended in the order of
their dates and stay until the thread is discarded for good, and the first
response is dated once, by the first answer to the customer or a message before
it. Whether a note or the customer's own message dates it is left open, because the
entity and the service say different things of it (section 3, divergences). For
tasks, whose comments carry no such date, every comment counts. `Tickets` and `TaskBoard` both implement it as long as no
two requests overlap (`ConversationsKept`): the mapping shows the threads in the
behaviours that are marked `alone`. With overlap they do not, by design of the
whole-row save; what is left then is `MessagesInOrder`.

All three refinements are proved (section 4), under the same conditions.

## 3. What TLC checks

| Run | Instance | Properties |
|---|---|---|
| `RegistrationRace` | two requests, one registration, ten cents, fair | `ConfirmedIsSettled`, `ReceiptOnlyIfPaid`, `OfferedIsStored`, `PaymentConfirms` |
| `RegistrationTwoRows` | one request at a time, two people, prices of nothing, 0.4 and 10 cents, two intents, failures | `TypeOK`, `IntentOwnership`, `FreeNeverCharged`, `KeepsPromise` |
| `CheckInRace` | two devices, three check-ins, a session, failures, fair | `TypeOK`, `CheckedInHasRecord`, `AnnouncedCheckedIn`, `NoEntryOnceShown`, `RecordAnnounced` |
| `Platform` | either desk and door on one registration, or sign-ups, cancellations and two organisers on one event; failures | `CheckedInHasRecord`, `ConfirmedIsSettled`, `RegistrationKeepsEvent` |
| `CampaignRace` | two requests on one campaign, one recipient each, one open or click, failures, fair | `TypeOK`, `CountersNotInflated`, `ClaimsWereMailed`, `SentOnceTried`, `SendCompletes` |
| `BackOffice` | events: one organiser, two events, three days; accounts: one visitor, two clerks, two users, two emails; tickets: two agents, one ticket, three replies; tasks: two members, two tasks, two comments; meetings: two people, two meetings, one restart | `BackOfficeTypeOK`, `OneUserPerEmail`, `RoleWasGranted`, `MessagesInOrder`, `LinesNameTheirMeeting`, `FollowsLifecycle`, `PasswordKept`, `ConversationsKept` |
| `FrontOffice` | rules: lists of at most two of the repertoire; form: two authors, three questions; page: two organisers, two templates; dashboard: three registrations, two saves while loading; console: one tab, three ticks, every action; demo: three attendees, two runs | `FrontOfficeTypeOK`, `FieldsFollowLastWord`, `PriceFollowsLastWord`, `RejectedIffEmpty`, `StoredAsText`, `RenderedAsReordered`, `PagesWereChosen`, `LastEditShown`, `FiguresOffBySaves`, `AnswersTrue`, `SeedRepeatable` |

A behaviour of `BackOffice` or `FrontOffice` is about one component, named by
`part`; the others stay in their initial states. The components of one such run
share no state in the models, so an interleaving of two of them would show
nothing that each alone does not; those that do share rows are composed in
`Platform`.

and, where the code breaks what it says of itself:

| Run | What TLC finds |
|---|---|
| `RegistrationDuplicate` | two sign-ups of one person both look for an earlier row, then both insert |
| `RegistrationRounding` | at 0.4 cents a registration waits for a payment of 0.00, which `createPaymentIntent` refuses to start |
| `RegistrationOrphan` | a second payment intent replaces the id of the first, which is then paid: no webhook can find the row |
| `RegistrationAsBooted` | `main.ts` boots without `rawBody: true`, every webhook throws, a paid registration stays PENDING for ever |
| `CheckInDoubleScan` | two devices scan one code at once, and it enters twice |

### The divergences without a run of their own

The models contain these too; they were met while modelling.

* A payment that succeeds after the cancellation confirms the cancelled
  registration and mails a ticket: the webhook calls `confirm` whatever the
  status, where its comment says "flips PENDING → CONFIRMED".
* The webhook answers 2xx when it finds no row (`registration.service.ts:169`), and
  Stripe takes the event as delivered: intent stored, erased by a save that loaded
  the row earlier, paid, webhook dropped, intent written back by another such
  save. The row is then paid for and stores its intent, and stays PENDING.
  `PaymentConfirms` speaks of payments that Stripe has yet to report; without that
  condition TLC finds this trace in `RegistrationRace`.
* A campaign's final save overwrites opens and clicks counted while it was being
  sent; `update` and `schedule` put the status they loaded, or theirs, over a
  SENT that was saved meanwhile; `send` may run twice and mail everybody twice.
* Nothing reads `scheduledTime`: a scheduled campaign stays SCHEDULED, although
  its entity's comment says such rows are picked up.
* `update` (event-service) assigns dates without the check `create` makes.
* `publish`, `cancel` and `remove` (event-service) check the status of the
  entity they loaded: with two organisers at once an event leaves CANCELLED, or
  is deleted after it was published.
* `cancel` (registration-service) may save CANCELLED over a CHECKED_IN that was
  written after its guard; `confirm` has no guard, so that an approval after a
  check-in makes the code good for a second entry.
* `in` and `not_in` compare strictly, although the comment above the operators
  announces loose equality; a required field answered with 0 counts as empty;
  the rules of one form come from a SELECT without an order, so that rules of
  equal priority may change places from one sign-up to the next.
* `maxParticipants` is read nowhere, and nothing ever sets WAITLISTED.
* `reply` stamps `firstResponseAt` at the first message of anybody, an internal
  note or the customer's own included: its comment counts internal notes "by
  design" (`tickets.service.ts:78`), the entity says that the column "is set on
  the first outbound agent message" (`support-ticket.entity.ts:62-63`). The model
  tells outbound messages from others and stamps at either; the promise in
  `Conversation` leaves open which of the two dates the response.
* Two replies that overlap lose a message, stamp the first response twice although
  the comment says "once" (`tickets.service.ts:77`), or leave a ticket with
  replies OPEN and without a first response. A reassignment is silently ignored,
  because `findOne` has loaded the relation `assignedTo`.
* A task that is removed while somebody saves it comes back.
* `PUT /users/:id` and the profile save write old roles over new ones, and a
  token may name a role that was withdrawn while it was signed.
* The DTOs of profiles and meetings have no decorators, and the pipe strips all
  their fields: a profile is saved unchanged and no list shows any meeting.
* A guest's account cannot be claimed (`auth.service.ts:58-59` and
  `guest.dto.ts:4-5` say it can): sign-up answers Conflict. `bulkCreate` stores no
  password, where the header says that the service "owns password hashing on
  write".
* "Published events have a template" (`e/[id]/page.tsx:39-40`), but `publish`
  never looks at it, and a stale save can take it away again.
* In the customiser an empty list of sections means the template's own sections.
* The fields of a form start at "10, 20, 30" according to their entity, and at 0
  according to `reorder`.
* "Failures come back as a tagged union" (`api.ts:17-18`), but an empty or
  incomplete body of a 200 makes `res.json()` throw: deleting a form field ends
  on an error page although the field is gone.
* The attendance rate divides those checked in by those still CONFIRMED, and can
  exceed 100 %.
* `emails/actions.ts:4-5` takes "the event's confirmed registrations" for the
  recipients, and the code sends to all of them; the event form of the frontend accepts an end equal to the start,
  which event-service refuses.
* The demo script calls itself idempotent and creates another event at each run;
  its branches for "only draft" and "already registered" are never taken.

### Bounds, and why they are enough

* `Request`, `Scanner`, `Organizer` bound the requests in progress. Each handler
  saves one row it loaded, so what goes wrong between handlers goes wrong
  between two of them. A behaviour of `Platform` is about the door or about the
  office, named by `part`: nobody edits the event of the people at the door, and
  nobody pays, is approved or scanned while organisers edit.
* `RegId`, `CheckInId`, `Event`, `Intent` bound the keys ever used. Insertions
  start only while a key is left (`RoomToInsert`, `RoomToRecord`), Stripe
  answers only while an intent is unused. Two rows are needed for an intent or a
  price to end up in the wrong row, two intents for one to replace the other,
  two check-ins for a second entry (three with a session).
* `MaxRecipients`, `MaxMails`, `MaxHits` bound a send's recipients and what is
  counted of a campaign: two sends of one recipient each are enough for their
  totals to mix, and one hit for a stale counter to be written over it.
* `Price` has a free and a paid value, and one that the column rounds to nothing
  (`RegistrationTwoRows`, `CheckInRace`): the code only asks whether the price, or
  the stored amount, is positive. `Day` has two or three values: only their order counts.
* `MaxRequest` bounds the requests that save in a behaviour of `BackOffice` (four)
  and `FrontOffice` (three): a row to start from, two requests that overlap on it
  and, in the back office, a third that meets what they left. `MaxStamp` and
  `MaxComment` bound the clocks of messages: two messages can change places, a
  third shows what was lost before it.
* `MaxMeeting` and `MaxBoot`: two meetings for an id to name the wrong one, one
  restart to make a list stale.
* `MaxChange` counts the saves while a page is loading: two, the second to undo or
  to add to what the first did between two queries.
* `MaxTime`, `Lifetime`: a token of lifetime one runs out within three ticks, before
  and after its cookie; only their order counts.
* `MaxRun`: a second run of the demo script meets whatever the first has left.
* The rules: a conflict is between two rules or two actions of one, and the order
  of three follows from that of each two (the theorems need no bound).
* `Faults`, `ScanFaults`: failures are on wherever the property does not need
  handlers to reach their end.
* Nothing is counted without bound, so no run needs a state constraint.

`RawBody` is the one switch about the code: TRUE is the contract the controller
states (`RawBodyRequest`), FALSE is the service as `main.ts` boots it. The
properties of payments are checked under TRUE, where webhooks do something, and
proved for both; `RegistrationAsBooted` shows what FALSE costs.

CheckIn starts from any table the sign-up can leave behind. Where the system may
stop (every key used, everybody checked in) the configuration says so with
`CHECK_DEADLOCK FALSE`.

### Fairness

`WF_vars(Continue(q))`: the Node.js event loop runs a handler whose awaited call
has been answered, or ends it when the call fails; with `Faults = FALSE` none does. Nothing obliges
a new request, a payment or a scan to happen.
`SF_vars(Deliver(i))`: Stripe repeats a webhook until one delivery is answered with
a 2xx, and not after; strong, because a request slot is busy at times but free
again and again. A delivery that finds no row counts as answered. (Stripe gives up
after some days; that a payment is reported at all within these is idealised.)
`PaymentConfirms`, `RecordAnnounced` and `SendCompletes` need nothing else; the
last two allow failures and exclude the scans and sends these cut short. `PaymentConfirms`
is stated as far as the code goes: a row that stores an intent whose payment Stripe
has yet to report is confirmed at some moment, unless a later save erases or
replaces the intent first.

## 4. What is proved

`RegistrationProofs`, for every value of the constants, from the assumptions
`TablesAssumption` (prices are integers in tenths of a cent, free, negative and
below the half cent that the column rounds away included; `None` is no key, row or
amount)
and `RegistrationAssumption` (the switches are Boolean). No bound on requests,
rows or intents, failures and raw body on or off:

| Theorem | Statement |
|---|---|
| `Invariance` | `Spec => []IInv` |
| `TypeCorrect` | `Spec => []TypeOK` |
| `OwnIntents` | `Spec => []IntentOwnership` |
| `SettledBeforeConfirmed` | `Spec => []ConfirmedIsSettled` |
| `ReceiptsArePaid` | `Spec => []ReceiptOnlyIfPaid` |
| `FreeIsNeverCharged` | `Spec => []FreeNeverCharged` |
| `OfferedOnceStored` | `Spec => OfferedIsStored` |
| `ServiceKeepsPromise` | `Spec => KeepsPromise` |

**The inductive invariant.** None of the properties is inductive: a state in
which a handler holds a `confirmed` entity of an unpaid row satisfies them all
and is one save away from breaking them. `IInv` therefore speaks about the
entities in memory. `Belongs(r, entity)` says what an entity of row `r`, however
stale, has in common with the row: event, user and price, an intent made for
`r`, and `confirmed` only when `r` is settled. Both the stored row and every
loaded entity belong to `r`; the lemma `PatchBelongs` shows that this survives
any mixture of columns of the two, which is all a stale save can produce, and
`BelongsStable` that it survives the steps of others, because (`Grows`) nothing
is ever unpaid, unapproved or given to another registration again. A second part,
`IntentsOK`, says that an intent Stripe has answered but the browser has not seen
is known to one handler alone, so no row can store it yet, so `save` finds the
column changed and writes it: this is what makes `OfferedIsStored` true. There is
one lemma per action, and the refinement goes action by action through the same
invariant.

`CheckInProofs`, from `TablesAssumption` and `CheckIn`'s own assumption, for any
number of devices, registrations, sessions and check-ins, failures on or off:

| Theorem | Statement |
|---|---|
| `CheckInInvariance` | `Spec => []CInv` |
| `CheckInTypeCorrect` | `Spec => []TypeOK` |
| `CheckInsAreRecorded` | `Spec => []CheckedInHasRecord` |
| `DashboardIsRight` | `Spec => []AnnouncedCheckedIn` |
| `ShownStaysOut` | `Spec => NoEntryOnceShown` |

`CInv` adds what holds of a scan in progress (`ScanOK`): its entity says
CHECKED_IN before anybody is, but from the insert on it holds the key of a row of
`check_ins` for its registration, and when `save` leaves the status out of its
UPDATE, the row is CHECKED_IN already and no scan takes that back (`Stays`).

`CampaignProofs`, from `Campaign`'s assumptions, for any number of requests,
campaigns, recipients and hits, failures on or off:

| Theorem | Statement |
|---|---|
| `CampaignInvariance` | `Spec => []CampaignInv` |
| `CampaignTypeCorrect` | `Spec => []TypeOK` |
| `NoHitInvented` | `Spec => []CountersNotInflated` |
| `NoMailInvented` | `Spec => []ClaimsWereMailed` |
| `SentIsEarned` | `Spec => SentOnceTried` |

`Honest(c, row)` says that a row claims no more mails, opens and clicks than
there were. Mails and hits only grow, so an entity stays honest however stale it
gets, and a row mixed of two honest ones by a save is honest; `CampaignInv` keeps
rows and entities in memory honest, and lets an entity be SENT only in the last
save of a send without recipients left.

`AccountsProofs`, from `Accounts`' assumptions, for any number of visitors,
clerks, users and emails:

| Theorem | Statement |
|---|---|
| `AccountInvariance` | `AccountSpec => []` the inductive invariant |
| `AccountsTypeCorrect` | `AccountSpec => []AccountTypeOK` |
| `EmailsAreUnique` | `AccountSpec => []OneUserPerEmail` |
| `RolesAreGranted` | `AccountSpec => []RoleWasGranted` |
| `PasswordsStay` | `AccountSpec => PasswordKept` |

The unique index decides at the INSERT and at every UPDATE, whatever the lookups
found; roles are only ever added to `granted`, so the role of an entity or a
visit was granted however old it is; and a loaded entity does not have the hash,
so `save` never finds it changed.

`BackOfficeProofs`, from the assumptions of the modules it uses (`None` is no key,
row, date or thread; agents and members are finitely many, as the requests in
progress of one process are), with any number of organisers, agents, members,
rows, messages and restarts unless it is said:

| Theorem | Statement |
|---|---|
| `TicketThreads`, `TaskThreads` | `TicketSpec => []ThreadInOrder`, `TaskSpec => []CommentsInOrder` |
| `ThreadsStayInOrder` | `BackOfficeSpec => []MessagesInOrder` |
| `TalkIsKept` | `BackOfficeSpec => ConversationsKept` |
| `MeetingInvariance` | `MeetingSpec => []MInv` |
| `AnswersReachTheirMeeting` | `MeetingSpec => []LinesNameTheirMeeting` |
| `LifecycleOfOne` | one organiser: `Spec => FollowsLifecycle` (of `EventService`) |
| `BackOfficeTypeCorrect` | `BackOfficeSpec => []BackOfficeTypeOK` |
| `BackOfficeKeepsItsPromises` | `BackOfficeSpec => []` the four invariants of the run |
| `BackOfficeFollowsLifecycle`, `BackOfficeKeepsPasswords` | the two action properties of the run, the first with one organiser |

`Dated(list, n)` says that the dates of a thread (`Dates` of the messages of a
ticket) are in order and end at or before `n`. The
properties are not inductive, since a handler may hold any entity; `TicketInv` and
`TaskInv` say of entities in memory what they say of rows. A reply is stamped by
a clock that has run on since every stamp in the entity, so appending keeps it
dated, and a save takes the thread of the entity or that of the row.

*The conversation.* `ConversationsKept` speaks about the behaviours in which no
request starts before the last one has ended. `AloneInv` says that in these at
most one request is in progress (here the finite number of agents is used: what
counts is how many are not idle), that the row it loaded is still there, and that
the thread in its entity is the row's or the row's with one message more, and the
first response likewise (`AgentsFit`, `MembersFit`). Every step then is a step
of `Conversation` or a stutter: the write shows what the entity holds, an insert
opens a thread, and a removal or the cascade from an event discards it.

*The lifecycle* is implemented only if organisers wait for one another: with two
of them a stale save takes an event out of CANCELLED, as section 3 says. The
theorem has that as its hypothesis, `OneOrganizer`, and nothing else about the
instance. `LifeInv` says that the row a request has loaded is still there, that the
status in its entity is the row's or one that the lifecycle leads to from there
(and that `save` writes it if it differs), that what is about to be deleted is not
live, and so that no save inserts a removed event again.

`FrontOfficeProofs`, from the assumptions of the modules it uses: rules, answers
and prices are typed, and actions on fields name a field; a form has finitely
many fields, an event finitely many registrations and a configuration finitely
many prices; `None` is no number, row, key, list or template:

| Theorem | Statement |
|---|---|
| `RulesInvariance`, `RulesTypeCorrect` | `Spec => []RulesInv`, `Spec => []TypeOK` (of `RulesEngine`) |
| `FieldsAsOrdered` | `Spec => []FieldsFollowLastWord` |
| `PriceAsOrdered` | `Spec => []PriceFollowsLastWord` |
| `RejectedAsRequired` | `Spec => []RejectedIffEmpty` |
| `NumbersAndTextsAlike` | `Spec => []StoredAsText` |
| `OrderIsTheListsOrder` | `FormSpec => []RenderedAsReordered` |
| `RenderedPagesWereChosen` | `PageSpec => []PagesWereChosen` |
| `SavedEditsAreShown` | `PageSpec => []LastEditShown` |
| `FiguresAreRecent` | `DashboardSpec => []FiguresOffBySaves` |
| `AnswersAreTrue` | `ConsoleSpec => []AnswersTrue` |
| `DemoIsRepeatable` | `SeedSpec => []SeedRepeatable` |
| `FrontOfficeTypeCorrect` | `FrontOfficeSpec => []FrontOfficeTypeOK` |
| `FrontOfficeKeepsItsPromises` | `FrontOfficeSpec => []` all the invariants of the run |

*Rules.* The properties speak about the end of the loops only. `RulesInv` says the
same at every step about the places worked off `SoFar`, together with the order
in which rules are taken up (`TakenInOrder`). The lemma `SoFarGrows` is the core:
the newest place prevails over all that were worked off before it, and none of
them prevails over it, so whatever the newest action writes is the last word; and
`LastWordIs` says that the reference's CHOOSE picks that place and no other.

*Form.* `FormInv` follows a reorder that met no other request (`DragOK`): each of its
UPDATEs that has run has given its field the index of its place in the list,
unless the field is gone, whichever ran first. Once all have run that stays so
until a request starts (`SettledOK`), and the fields of the list have different
indexes in the list's order, so that a rendering, which may put equal indexes in
any order, has no choice left.

*Event page.* `PageInv` says of entities in memory what the property says of the
page: their template was picked, their publication happened, their sections
repeat nothing. While one edit has the event for itself its entity is what was
asked for (`Undisturbed`), and from its save until the next edit the row is; the
rendering is computed section by section (`Listed`).

*Figures.* `FiguresInv` speaks about the loading of a page at every moment. A
figure's drift is how far it is from what its query would find now, and nothing as
long as the query has not run. A query that runs adds no drift. A save moves the
counts of all, of the confirmed and of those checked in by one at most and never
two of them in the same sense (`Moves`), so what the page adds and subtracts
drifts by one at most; which of them had been counted does not matter. A call that
fails takes all its figures away (`CallsFailAsOne`), so no figure is combined with
one that is missing. The sums are folds over sets whose order is not known.
`OneSum` and `SumExists` show that what such a fold computes exists and is
unique, `TotalTake` that any element may be taken first, `GroupsAddUp` that groups add
up to the whole; each by taking a smallest subset that would break the claim
(`SmallestSubset`), which needs no induction theorem with an operator as its
parameter.

*Console.* `ConsoleInv` counts how often each call of a click was carried out: those
before the current one once, the current one as often as its state says, those
after it never; so an answer can be compared with what happened.

*Demo script.* `SeedInv` ties what a run has in hand, at each of its calls, to what
the platform holds: nobody has two accounts or two registrations for one event,
the attendees the loop has passed are counted as far as they are registered for
the newest event, and that event is this run's.

*Together.* Each theorem is about the part alone. A step of `MCBackOffice` or
`MCFrontOffice` is a step of every part or leaves it alone (`OnePartAtATime`), so
the conjunction of the parts' invariants is invariant too.

`PlatformProofs`, from the assumptions of the three services and
`PlatformAssumption` (`None` is no row of `check_ins`), with any number of
requests, devices and organisers, failures on or off:

| Theorem | Statement |
|---|---|
| `PlatformInvariance` | `Spec => []PInv` |
| `RegistrationsKeepTheirEvent` | `Spec => []RegistrationKeepsEvent` |
| `PlatformStatuses` | `Spec => []SInv` |
| `CheckInsStayRecorded` | `Spec => []CheckedInHasRecord` |
| `ConfirmationsAreSettled` | `Spec => []ConfirmedIsSettled` |

The theorems about one service do not carry over, because the others save the
same rows. `PInv` says that every entity, in whichever service, carries the event
of the row it will be saved over, and that every registration has its event; no
step drops a registration or moves it (`RowsStay`), and the foreign key refuses
what would break the rest. `SInv` says that rows and entities tell the truth about
price, intent, payment and check-in; nothing takes a payment, an approval or a
check-in back (`Advances`), so a true statement stays true while it is held in
memory, and a save mixes two true statements about one row.

**Only model-checked:** the liveness properties `PaymentConfirms`,
`RecordAnnounced` and `SendCompletes` (fairness and ENABLED are beyond the prover).
Every other property that a passing run checks is stated by a theorem.

## 5. What is not modelled

* **notification-service**: posts to Slack and keeps a log in memory that nobody
  acts on. The call to it is one of the scripts of `Console`.
* **file-service**: stateless calls to S3 under fresh keys, which no other part of
  the system makes use of.
* **Infrastructure**: containers, setup, schema synchronisation.
* **Reads that decide nothing**: search and pagination of users, match suggestions,
  the statistics of tickets and tasks, the registration trend; of the platform's
  figures those that several queries must agree on are in `Dashboard`.
* **email-service's providers and texts**: the choice between providers, the calls
  and the HTML of a mail are one step that is accepted or fails.
* **frontend**: layout, styling and static pages. What decides something (session,
  server actions, the public page, the customiser, the pages that combine figures)
  is in `Console`, `EventPage` and `Dashboard`.
* **Sockets' rooms** in checkin-service: who listens to the broadcast.

* **Requests whose bodies are not of their DTO's type.** The pipe validates bodies
  whose declared type is a decorated class. `Partial<...>` and arrays are none, so
  `PUT /campaigns/:id`, `PUT /tasks/:id`, `PUT /form-fields/:id` and the import of
  users take any body, and `Object.assign` or `create` puts all of it into the
  entity: a campaign's status and counters (`campaigns.service.ts:63`), a task's
  comments, a user's id. In every module the inputs are those of the DTO's type.
  `SentOnceTried`, `CountersNotInflated`, `ClaimsWereMailed`, `MessagesInOrder`,
  `ConversationsKept`, `PasswordKept` and the theorems about them rest on that: of
  any other body the code promises nothing.

## 6. What is left to do

* State for `Platform` what approvals and cancellations still promise once a scan
  may come between (the hazards of `PROJECT.json` without a property say in a note
  why the code promises nothing there).
* Prove that `Registration`'s refinement of `TicketPromise` survives the other
  services of `Platform`, as `ConfirmedIsSettled` does.
* Larger instances of `BackOffice` and `FrontOffice` (a second ticket, a second tab)
  if more time per run is available: what they would add is more rows of the same
  kind, as no handler touches two rows, and the theorems cover any number of rows.
