------------------------------ MODULE Platform ------------------------------
(***************************************************************************)
(* registration-service, checkin-service and event-service together on the *)
(* tables they share.  The services never call one another about these     *)
(* rows: what one of them writes is all the others learn.                  *)
(***************************************************************************)
EXTENDS Tables

CONSTANTS
    Request, RawBody, Faults,                   \* registration-service
    Scanner, CheckInId, Session, ScanFaults,    \* checkin-service
    Organizer                                   \* event-service

VARIABLES
    h, stripe, answered, mail, approved,    \* registration-service
    checkIns, scan, announced, cutShort,    \* checkin-service
    edit, minted                    \* event-service

deskVars == <<h, stripe, answered, mail, approved>>
doorVars == <<checkIns, scan, announced, cutShort>>
officeVars == <<edit, minted>>

vars == <<regs, events, deskVars, doorVars, officeVars>>

Desk == INSTANCE Registration
Door == INSTANCE CheckIn
Office == INSTANCE EventService

ASSUME PlatformAssumption == None \notin Door!CheckInRow

TypeOK == Desk!TypeOK /\ Door!TypeOK /\ Office!TypeOK

Init == Desk!Init /\ Door!Init /\ Office!Init

\* A step of one service leaves what the others keep to themselves.
DeskNext == Desk!Next /\ UNCHANGED <<doorVars, officeVars>>

DoorNext == Door!Next /\ UNCHANGED <<deskVars, officeVars>>

OfficeNext == Office!Next /\ UNCHANGED <<deskVars, doorVars>>

Next == DeskNext \/ DoorNext \/ OfficeNext

Spec == Init /\ [][Next]_vars

-----------------------------------------------------------------------------
(* Properties                                                              *)

\* Even with confirmations, cancellations and payment intents saving the same
\* rows as the scans, a row says CHECKED_IN only if a check-in was recorded.
CheckedInHasRecord == Door!CheckedInHasRecord

\* Even with scans saving the rows, a registration with a price is confirmed
\* only once it is paid for or approved.
ConfirmedIsSettled == Desk!ConfirmedIsSettled

\* No registration is left without its event, however a sign-up that has
\* looked the event up races with the deletion of the event.
RegistrationKeepsEvent ==
    \A r \in Registered : events[regs[r].event] # None

=============================================================================
