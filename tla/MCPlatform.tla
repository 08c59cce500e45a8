----------------------------- MODULE MCPlatform -----------------------------
(***************************************************************************)
(* Platform on small tables.  A behaviour is about the door or about the   *)
(* office, named by part: either nobody edits the event of the people who  *)
(* sign up, pay and come to the door, or organisers edit it while people   *)
(* sign up and cancel.  Each is a behaviour of Platform.                   *)
(***************************************************************************)
EXTENDS Platform, TLC

VARIABLE part       \* the services that this behaviour is about

partVars == <<vars, part>>

PartInit == Init /\ part \in {"door", "office"}

PartNext ==
    /\ UNCHANGED part
    /\ \/ DeskNext /\ (part = "office" => UNCHANGED <<stripe, approved>>)
       \/ part = "door" /\ DoorNext
       \/ part = "office" /\ OfficeNext

PartSpec == PartInit /\ [][PartNext]_partVars

\* No definition of the three services orders slots or keys.
Symmetry == Permutations(Request) \cup Permutations(RegId)
                \cup Permutations(Scanner) \cup Permutations(CheckInId)
                \cup Permutations(Organizer) \cup Permutations(Event)

=============================================================================
