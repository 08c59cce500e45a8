------------------------------ MODULE Meetings ------------------------------
(***************************************************************************)
(* networking-service: one-to-one meetings between attendees, kept in an   *)
(* array of the process.  The id of a meeting is its place in the array,   *)
(* and a restart of the service empties the array while browsers still     *)
(* show what they fetched before.                                          *)
(*                                                                         *)
(* ScheduleMeetingDto carries no validation decorators, so the pipe with   *)
(* whitelist: true strips the two parties from every request: as booted,   *)
(* stripped is TRUE, and no list shows any meeting.  With stripped FALSE   *)
(* the module is the service that its DTO describes.                       *)
(***************************************************************************)
EXTENDS Integers, Sequences

CONSTANTS
    Attendee,
    MaxMeeting, \* bound on the meetings of one run of the process
    MaxBoot,    \* bound on the restarts
    Nobody      \* undefined

ASSUME MeetingsAssumption ==
    /\ MaxMeeting \in Nat
    /\ MaxBoot \in Nat
    /\ Nobody \notin Attendee

VARIABLES
    stripped,   \* TRUE: the pipe removes undecorated fields
    store,      \* meetingStore
    shown,      \* [Attendee -> what the list in this browser shows]
    boot        \* history: how often the service has been started again

meetingVars == <<stripped, store, shown, boot>>

MeetingStatus == {"pending", "accepted", "declined"}

Meeting == [requester: Attendee \cup {Nobody}, recipient: Attendee \cup {Nobody},
            status: MeetingStatus]

\* A line of a list, with the run of the service that it was fetched from.
Line == [id: 1..MaxMeeting, requester: Attendee, recipient: Attendee,
         boot: 0..MaxBoot]

MeetingTypeOK ==
    /\ stripped \in BOOLEAN
    /\ store \in UNION {[1..n -> Meeting] : n \in 0..MaxMeeting}
    /\ shown \in [Attendee -> SUBSET Line]
    /\ boot \in 0..MaxBoot

-----------------------------------------------------------------------------
MeetingInit ==
    /\ stripped \in BOOLEAN
    /\ store = <<>>
    /\ shown = [p \in Attendee |-> {}]
    /\ boot = 0

\* What is left of a field of the body.
Accepted(field) == IF stripped THEN Nobody ELSE field

\* Mutant of Placed: the newest meeting comes first.
PlacedFirst(meeting) == <<meeting>> \o store

\* The id is the length before the push plus one.
Placed(meeting) == Append(store, meeting)

\* POST /networking/meetings.
Schedule(from, to) ==
    /\ Len(store) < MaxMeeting      \* bound
    /\ store' = Placed([requester |-> Accepted(from),
                        recipient |-> Accepted(to), status |-> "pending"])
    /\ UNCHANGED <<stripped, shown, boot>>

\* GET /networking/meetings/user/:userId.
GetMeetings(p) ==
    /\ shown' = [shown EXCEPT ![p] =
          {[id |-> i, requester |-> store[i].requester,
            recipient |-> store[i].recipient, boot |-> boot] :
              i \in {j \in DOMAIN store :
                        p \in {store[j].requester, store[j].recipient}}}]
    /\ UNCHANGED <<stripped, store, boot>>

\* PATCH /networking/meetings/:id/respond, from a line of the list: whoever
\* asks, whatever was answered before.
Respond(p, line, status) ==
    /\ line \in shown[p]
    /\ line.id \in DOMAIN store
    /\ store' = [store EXCEPT ![line.id].status = status]
    /\ UNCHANGED <<stripped, shown, boot>>

Restart ==
    /\ boot < MaxBoot               \* bound
    /\ boot' = boot + 1
    /\ store' = <<>>
    /\ UNCHANGED <<stripped, shown>>

MeetingNext ==
    \/ \E from, to \in Attendee : Schedule(from, to)
    \/ \E p \in Attendee :
          \/ GetMeetings(p)
          \/ \E line \in shown[p], status \in {"accepted", "declined"} :
                Respond(p, line, status)
    \/ Restart

MeetingSpec == MeetingInit /\ [][MeetingNext]_meetingVars

-----------------------------------------------------------------------------
(* Properties                                                              *)

\* An answer reaches the meeting it was meant for: until the service is
\* started again, every line of every list, however old, still names by its
\* id the meeting of the same two people.
LinesNameTheirMeeting ==
    \A p \in Attendee : \A line \in shown[p] :
        line.boot = boot =>
            /\ line.id \in DOMAIN store
            /\ store[line.id].requester = line.requester
            /\ store[line.id].recipient = line.recipient

=============================================================================
