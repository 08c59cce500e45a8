---------------------------- MODULE TicketPromise ----------------------------
(***************************************************************************)
(* What registration-service promises, seen from outside: people sign up   *)
(* at a price, the price of a registration is fixed at sign-up, and the    *)
(* ticket of a registration that costs something is not mailed before the  *)
(* registration is settled, by a payment or by the organiser's decision.   *)
(***************************************************************************)
EXTENDS Integers

CONSTANTS RegId, Price, None

VARIABLES
    due,        \* [RegId -> the price, or None before the sign-up]
    settled,    \* the registrations paid for or approved
    ticketed    \* the registrations whose ticket has been mailed

promiseVars == <<due, settled, ticketed>>

PromiseTypeOK ==
    /\ due \in [RegId -> Price \cup {None}]
    /\ settled \subseteq RegId
    /\ ticketed \subseteq RegId

Init ==
    /\ due = [r \in RegId |-> None]
    /\ settled = {}
    /\ ticketed = {}

SignUp(r, p) ==
    /\ due[r] = None
    /\ due' = [due EXCEPT ![r] = p]
    /\ UNCHANGED <<settled, ticketed>>

Settle(r) ==
    /\ due[r] # None
    /\ settled' = settled \cup {r}
    /\ UNCHANGED <<due, ticketed>>

Ticket(r) ==
    /\ due[r] # None
    /\ due[r] > 0 => r \in settled
    /\ ticketed' = ticketed \cup {r}
    /\ UNCHANGED <<due, settled>>

Next ==
    \E r \in RegId : Settle(r) \/ Ticket(r) \/ \E p \in Price : SignUp(r, p)

Spec == Init /\ [][Next]_promiseVars

=============================================================================
