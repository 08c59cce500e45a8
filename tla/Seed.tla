-------------------------------- MODULE Seed --------------------------------
(***************************************************************************)
(* scripts/seed-demo.mjs: sets up the demo organiser, an event with a page *)
(* and its attendees, call by call through the gateway.  A call may be     *)
(* carried out and its answer lost; the script may be stopped anywhere,    *)
(* and is run again.  Only one runs at a time.                             *)
(***************************************************************************)
EXTENDS Integers, Sequences, FiniteSets, FiniteSetsExt, TypeOrm

CONSTANTS
    Guest,      \* the demo attendees, in the order of the list ATTENDEES
    Owner,      \* the demo organiser's account
    MaxRun      \* bound on the times the script is run

ASSUME SeedAssumption ==
    /\ IsFiniteSet(Guest) /\ Owner \notin Guest
    /\ MaxRun \in Nat

VARIABLES
    accounts,   \* [Guest and Owner -> how many users have this e-mail]
    demos,      \* the events created, in order
    seed,       \* the running script, or the last one
    runs        \* the times it was started

seedVars == <<accounts, demos, seed, runs>>

\* The steps of main, in order; "guest" and "register" are the two calls of
\* the loop's body.
SeedStep ==
    {"organizer", "event", "template", "publish", "guest", "register"}

Demo == [template: BOOLEAN, published: BOOLEAN, guests: [Guest -> Nat]]

SeedTypeOK ==
    /\ accounts \in [Guest \cup {Owner} -> Nat]
    /\ demos \in Seq(Demo)
    /\ seed.at \in SeedStep \cup {"stopped", "ready"}
    /\ seed.left \subseteq Guest
    /\ seed.guest \in Guest \cup {None}
    /\ seed.registered \in 0..Cardinality(Guest)
    /\ seed.smooth \in BOOLEAN
    /\ runs \in 0..MaxRun

NotRun == [at |-> "stopped", left |-> {}, guest |-> None, registered |-> 0,
           smooth |-> TRUE]

SeedInit ==
    /\ accounts = [p \in Guest \cup {Owner} |-> 0]
    /\ demos = <<>>
    /\ seed = NotRun
    /\ runs = 0

StartSeed ==
    /\ seed.at \in {"stopped", "ready"}
    /\ runs < MaxRun        \* bound
    /\ runs' = runs + 1
    /\ seed' = [NotRun EXCEPT !.at = "organizer", !.left = Guest]
    /\ UNCHANGED <<accounts, demos>>

\* The event of the run in progress: it has just been created.
ThisDemo == Len(demos)

-----------------------------------------------------------------------------
(* What the services do with a call                                        *)

\* register answers 409 and the script logs in, guest answers with the
\* account that is there.
Known(p) == accounts[p] > 0

AccountOf(p) ==
    /\ accounts' = IF Known(p) THEN accounts
                   ELSE [accounts EXCEPT ![p] = @ + 1]
    /\ UNCHANGED demos

InDemo(changed) ==
    /\ demos' = [demos EXCEPT ![ThisDemo] = changed]
    /\ UNCHANGED accounts

Carries(at) ==
    CASE at = "organizer" -> AccountOf(Owner)
      [] at = "event" ->
            /\ demos' = Append(demos, [template |-> FALSE, published |-> FALSE,
                                       guests |-> [g \in Guest |-> 0]])
            /\ UNCHANGED accounts
      [] at = "template" -> InDemo([demos[ThisDemo] EXCEPT !.template = TRUE])
      [] at = "publish" -> InDemo([demos[ThisDemo] EXCEPT !.published = TRUE])
      [] at = "guest" -> AccountOf(seed.guest)
      [] at = "register" ->
            InDemo([demos[ThisDemo] EXCEPT !.guests[seed.guest] = @ + 1])

-----------------------------------------------------------------------------
(* The script.  Its event is new, so that the errors it looks for, "only   *)
(* draft" and "already registered", never come.                            *)

\* The loop: its next attendee, or the end.
NextGuest(s) ==
    IF s.left = {} THEN [s EXCEPT !.at = "ready", !.guest = None]
    ELSE LET g == CHOOSE g \in s.left : TRUE
         IN [s EXCEPT !.at = "guest", !.guest = g, !.left = @ \ {g}]

After(s) ==
    CASE s.at = "organizer" -> [s EXCEPT !.at = "event"]
      [] s.at = "event" -> [s EXCEPT !.at = "template"]
      [] s.at = "template" -> [s EXCEPT !.at = "publish"]
      [] s.at = "publish" -> NextGuest(s)
      [] s.at = "guest" -> [s EXCEPT !.at = "register"]
      [] s.at = "register" -> NextGuest([s EXCEPT !.registered = @ + 1])

\* Mutant of Caught: the attendee counts as registered whatever the error.
CaughtAll(s) ==
    IF s.at = "register" THEN After(s)
    ELSE IF s.at = "guest" THEN NextGuest(s) ELSE [s EXCEPT !.at = "stopped"]

\* What an error of a call does: the loop warns and goes on, everything else
\* ends the script.
Caught(s) ==
    IF s.at \in {"guest", "register"} THEN NextGuest(s)
    ELSE [s EXCEPT !.at = "stopped"]

\* The call is carried out and answered.
SeedCall ==
    /\ seed.at \in SeedStep
    /\ Carries(seed.at)
    /\ seed' = After(seed)
    /\ UNCHANGED runs

\* An error, before the call is carried out or after: no connection, an error
\* of the service, an answer that is lost.
SeedCallFails ==
    /\ seed.at \in SeedStep
    /\ Carries(seed.at) \/ UNCHANGED <<accounts, demos>>
    /\ seed' = [Caught(seed) EXCEPT !.smooth = FALSE]
    /\ UNCHANGED runs

\* The script is killed, before the call in progress is carried out or after.
SeedKilled ==
    /\ seed.at \in SeedStep
    /\ Carries(seed.at) \/ UNCHANGED <<accounts, demos>>
    /\ seed' = [seed EXCEPT !.at = "stopped", !.guest = None]
    /\ UNCHANGED runs

SeedNext == StartSeed \/ SeedCall \/ SeedCallFails \/ SeedKilled

SeedSpec == SeedInit /\ [][SeedNext]_seedVars

-----------------------------------------------------------------------------
(* Properties                                                              *)

\* "Re-running logs in the existing organizer instead of failing": however
\* often the script was run and wherever it was stopped, an e-mail has one
\* account and nobody is registered twice for an event.  A run that ends well
\* leaves its own event live, with its template and at least the registrations
\* that it reports; if no call failed, with all of them.
SeedRepeatable ==
    /\ \A p \in DOMAIN accounts : accounts[p] <= 1
    /\ \A d \in DOMAIN demos : \A g \in Guest : demos[d].guests[g] <= 1
    /\ seed.at = "ready" =>
          LET demo  == demos[ThisDemo]
              there == {g \in Guest : demo.guests[g] = 1}
          IN  /\ demo.template /\ demo.published
              /\ accounts[Owner] = 1
              /\ \A g \in there : accounts[g] = 1
              /\ seed.registered <= Cardinality(there)
              /\ seed.smooth => seed.registered = Cardinality(Guest)

=============================================================================
