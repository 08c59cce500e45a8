------------------------------ MODULE Console ------------------------------
(***************************************************************************)
(* The way of a click: a form of the frontend, its server action, the      *)
(* api-gateway, a service, and the answer back.  An action is a script of  *)
(* calls made one after the other; a call can fail at every hop, before    *)
(* or after the service has carried it out, and nobody ever repeats one.   *)
(*                                                                         *)
(* What a call carries out is the business of the service's own module;    *)
(* here only whether it was carried out is kept.                           *)
(***************************************************************************)
EXTENDS Integers, Sequences, FiniteSets, TypeOrm

CONSTANTS
    Tab,        \* browser tabs: bounds the concurrency
    MaxTime,    \* bound on the clock
    Lifetime    \* how long a token, and the cookie that holds it, lives

ASSUME ConsoleAssumption ==
    /\ MaxTime \in Nat
    /\ Lifetime \in Nat \ {0}
    /\ None \notin Int

VARIABLES
    clock,
    signedIn,   \* the session cookie: [exp, until], or None
    signing,    \* the expiry of a token on its way to the browser, or None
    click       \* [Tab -> the last click in it]

consoleVars == <<clock, signedIn, signing, click>>

-----------------------------------------------------------------------------
(* The routes of the gateway and the scripts of the server actions         *)

Service ==
    {"user-service", "event-service", "registration-service",
     "email-service", "checkin-service", "notification-service",
     "task-service", "support-service"}

\* A call behind JwtAuthGuard, answered with a JSON body.
Guarded(service) == [to |-> service, guarded |-> TRUE, body |-> TRUE]

\* A call on the public surface.
Public(service) == [to |-> service, guarded |-> FALSE, body |-> TRUE]

\* A handler that returns nothing answers 200 with an empty body.
Silent(call) == [call EXCEPT !.body = FALSE]

Script(session, checked, calls) ==
    [session |-> session,   \* sends to the login page without a session
     checked |-> checked,   \* looks at the form before it calls
     calls |-> calls]

PublishEvent == Script(TRUE, FALSE, <<Guarded("event-service")>>)

CreateEvent == Script(TRUE, TRUE, <<Guarded("event-service")>>)

ApplyTemplate == Script(TRUE, TRUE, <<Guarded("event-service")>>)

SaveCustomization == Script(TRUE, FALSE, <<Guarded("event-service")>>)

\* The recipients are read first; none to send to ends the action.
SendCampaign ==
    Script(TRUE, FALSE,
           <<Guarded("registration-service"), Guarded("email-service")>>)

CreateCampaign == Script(TRUE, TRUE, <<Guarded("email-service")>>)

CreateFormField == Script(TRUE, TRUE, <<Guarded("registration-service")>>)

DeleteFormField ==
    Script(TRUE, FALSE, <<Silent(Guarded("registration-service"))>>)

ManualCheckIn == Script(TRUE, FALSE, <<Guarded("checkin-service")>>)

CreateTask == Script(TRUE, TRUE, <<Guarded("task-service")>>)

MoveTask == Script(TRUE, FALSE, <<Guarded("task-service")>>)

CreateTicket == Script(TRUE, TRUE, <<Guarded("support-service")>>)

TicketOp == Script(TRUE, FALSE, <<Guarded("support-service")>>)

SetRole == Script(TRUE, FALSE, <<Guarded("user-service")>>)

ToggleActive == Script(TRUE, FALSE, <<Guarded("user-service")>>)

SendNotification == Script(TRUE, TRUE, <<Guarded("notification-service")>>)

\* A visitor's sign-up: the guest account first, then the registration.
RegisterAttendee ==
    Script(FALSE, TRUE,
           <<Public("user-service"), Public("registration-service")>>)

ServerAction ==
    {PublishEvent, CreateEvent, ApplyTemplate, SaveCustomization,
     SendCampaign, CreateCampaign, CreateFormField, DeleteFormField,
     ManualCheckIn, CreateTask, MoveTask, CreateTicket, TicketOp,
     SetRole, ToggleActive, SendNotification, RegisterAttendee}

-----------------------------------------------------------------------------
\* What the browser is told: nothing yet, the success message, the message of
\* a refusal (4xx), of the gateway (502) or of no answer at all, an error
\* page, errors beside the fields, or the login page.
Answer == {"none", "ok", "refused", "unavailable", "unreachable", "thrown",
           "inline", "login"}

\* How the gateway's answer comes: complete, without a body, cut off, or as
\* an error status.
Status == {"json", "empty", "cut", "refused", "unavailable"}

NoClick == [pc |-> "answered", script |-> None, token |-> None, call |-> 0,
            done |-> <<>>, status |-> None, answer |-> "none"]

ASSUME RoutesAssumption ==
    \A script \in ServerAction : \A i \in DOMAIN script.calls :
        script.calls[i].to \in Service

\* A click on its way: done[i] counts how often call i was carried out.
Click ==
    [pc: {"send", "service", "relay", "answered"},
     script: ServerAction \cup {None}, token: Int \cup {None}, call: 0..2,
     done: Seq(Nat), status: Status \cup {None}, answer: Answer]

ConsoleTypeOK ==
    /\ clock \in 0..MaxTime
    /\ signedIn \in [exp: Int, until: Int] \cup {None}
    /\ signing \in Int \cup {None}
    /\ click \in [Tab -> Click]

ConsoleInit ==
    /\ clock = 0
    /\ signedIn = None
    /\ signing = None
    /\ click = [b \in Tab |-> NoClick]

Tick ==
    /\ clock < MaxTime      \* bound
    /\ clock' = clock + 1
    /\ UNCHANGED <<signedIn, signing, click>>

\* login or register: user-service signs a token that lives seven days.
TokenSigned ==
    /\ signing = None
    /\ signing' = clock + Lifetime
    /\ UNCHANGED <<clock, signedIn, click>>

\* The answer comes, and with it the cookie, seven days from now.
CookieSet ==
    /\ signing # None
    /\ signedIn' = [exp |-> signing, until |-> clock + Lifetime]
    /\ signing' = None
    /\ UNCHANGED <<clock, click>>

SignInFails ==
    /\ signing # None
    /\ signing' = None
    /\ UNCHANGED <<clock, signedIn, click>>

Logout ==
    /\ signedIn # None
    /\ signedIn' = None
    /\ UNCHANGED <<clock, signing, click>>

\* The browser drops the cookie on time.
Token == IF signedIn # None /\ clock < signedIn.until THEN signedIn.exp ELSE None

\* getSession: a token that has run out is no session.
Session == Token # None /\ Token >= clock

\* A new click replaces what the tab showed.
Shows(b, script, answer) ==
    click' = [click EXCEPT ![b] =
        [NoClick EXCEPT !.script = script, !.answer = answer,
                        !.done = [i \in DOMAIN script.calls |-> 0]]]

RedirectToLogin(b, script) ==
    /\ click[b].pc = "answered"
    /\ script.session /\ ~Session
    /\ Shows(b, script, "login")
    /\ UNCHANGED <<clock, signedIn, signing>>

ErrorsInline(b, script) ==
    /\ click[b].pc = "answered"
    /\ script.session => Session
    /\ script.checked
    /\ Shows(b, script, "inline")
    /\ UNCHANGED <<clock, signedIn, signing>>

\* The action starts; it sees the cookies the browser sent with the click,
\* whatever happens to them meanwhile.
Submit(b, script) ==
    /\ click[b].pc = "answered"
    /\ script.session => Session
    /\ click' = [click EXCEPT ![b] =
          [NoClick EXCEPT !.pc = "send", !.script = script, !.token = Token,
                          !.call = 1,
                          !.done = [i \in DOMAIN script.calls |-> 0]]]
    /\ UNCHANGED <<clock, signedIn, signing>>

CallOf(b) == click[b].script.calls[click[b].call]

\* The call is over with this status.
Relays(b, status) ==
    click' = [click EXCEPT ![b].pc = "relay", ![b].status = status]

\* JwtAuthGuard: a token whose expiry has come is refused.
Admitted(b) ==
    CallOf(b).guarded => click[b].token # None /\ clock < click[b].token

\* The gateway receives the call, and sends it on or refuses it.
Forward(b) ==
    /\ click[b].pc = "send"
    /\ IF Admitted(b) THEN click' = [click EXCEPT ![b].pc = "service"]
       ELSE Relays(b, "refused")
    /\ UNCHANGED <<clock, signedIn, signing>>

\* The service refuses: validation, a missing row, a conflict.
Refuses(b) ==
    /\ click[b].pc = "service"
    /\ Relays(b, "refused")
    /\ UNCHANGED <<clock, signedIn, signing>>

Carried(b) ==
    LET c == click[b] IN
    [c EXCEPT !.done[c.call] = @ + 1]

\* The gateway gets no connection to the service.
ServiceDown(b) ==
    /\ click[b].pc = "service"
    /\ Relays(b, "unavailable")
    /\ UNCHANGED <<clock, signedIn, signing>>

\* The service has carried the call out and goes down before it answers.
ServiceGoesDown(b) ==
    /\ click[b].pc = "service"
    /\ click' = [click EXCEPT ![b] =
          [Carried(b) EXCEPT !.pc = "relay", !.status = "unavailable"]]
    /\ UNCHANGED <<clock, signedIn, signing>>

\* The service carries the call out; its answer is streamed on, and may end
\* before it is complete.
CarryOut(b) ==
    /\ click[b].pc = "service"
    /\ \E status \in {IF CallOf(b).body THEN "json" ELSE "empty", "cut"} :
          click' = [click EXCEPT ![b] =
                       [Carried(b) EXCEPT !.pc = "relay", !.status = status]]
    /\ UNCHANGED <<clock, signedIn, signing>>

Answered(b, answer) ==
    click' = [click EXCEPT ![b].pc = "answered", ![b].answer = answer]

\* fetch rejects: the gateway is not there, or its answer does not come back,
\* and the service may carry the call out all the same.
Unreachable(b) ==
    /\ click[b].pc \in {"send", "service", "relay"}
    /\ \E c \in {click[b]} \cup
              (IF click[b].pc = "service" THEN {Carried(b)} ELSE {}) :
          click' = [click EXCEPT ![b] = [c EXCEPT !.pc = "answered",
                                                  !.answer = "unreachable"]]
    /\ UNCHANGED <<clock, signedIn, signing>>

\* Mutant of Failed: only what the gateway itself reports is a failure.
FailedAtGateway(status) == status = "unavailable"

\* !res.ok
Failed(status) == status \in {"refused", "unavailable"}

\* apiFetch returns a failure, throws because there is no JSON to parse, or
\* lets the action go on to its next call.
Return(b) ==
    LET c == click[b] IN
    /\ c.pc = "relay"
    /\ \/ /\ Failed(c.status)
          /\ Answered(b, c.status)
       \/ /\ ~Failed(c.status)
          /\ c.status \in {"empty", "cut"}
          /\ Answered(b, "thrown")
       \/ /\ ~Failed(c.status)
          /\ c.status \notin {"empty", "cut"}
          /\ IF c.call < Len(c.script.calls)
             THEN click' = [click EXCEPT ![b].pc = "send", ![b].call = @ + 1]
             ELSE Answered(b, "ok")
    /\ UNCHANGED <<clock, signedIn, signing>>

\* sendCampaignAction finds nobody to send to.
NobodyToSendTo(b) ==
    /\ click[b].script = SendCampaign
    /\ click[b].call = 1 /\ click[b].pc = "relay" /\ click[b].status = "json"
    /\ Answered(b, "inline")
    /\ UNCHANGED <<clock, signedIn, signing>>

ConsoleNext ==
    \/ Tick \/ TokenSigned \/ CookieSet \/ SignInFails \/ Logout
    \/ \E b \in Tab :
          \/ \E script \in ServerAction :
                \/ RedirectToLogin(b, script)
                \/ ErrorsInline(b, script)
                \/ Submit(b, script)
          \/ Forward(b) \/ Refuses(b) \/ ServiceDown(b)
          \/ ServiceGoesDown(b) \/ CarryOut(b) \/ Unreachable(b)
          \/ Return(b) \/ NobodyToSendTo(b)

ConsoleSpec == ConsoleInit /\ [][ConsoleNext]_consoleVars

-----------------------------------------------------------------------------
(* Properties                                                              *)

\* What an answer lets its reader conclude, wherever the call failed: "ok"
\* means that every call was carried out, a refusal that the refused call and
\* those after it were not, and no click ever carries out a call twice or
\* without the calls before it.  The other answers leave open what happened.
AnswersTrue ==
    \A b \in Tab :
        LET c == click[b] IN
        /\ \A i \in DOMAIN c.done :
              /\ c.done[i] <= 1
              /\ c.done[i] = 1 => \A j \in 1..(i - 1) : c.done[j] = 1
        /\ c.answer = "ok" => \A i \in DOMAIN c.done : c.done[i] = 1
        /\ c.answer = "refused" =>
              \A i \in DOMAIN c.done : c.done[i] = 1 => i < c.call
        /\ c.answer = "login" => \A i \in DOMAIN c.done : c.done[i] = 0

=============================================================================
