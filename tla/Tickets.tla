------------------------------ MODULE Tickets ------------------------------
(***************************************************************************)
(* support-service: tickets whose conversation is one JSON column.  Every  *)
(* operation on a ticket loads the row, changes the entity and saves it    *)
(* whole, so two agents at one ticket overwrite each other.                *)
(*                                                                         *)
(* A message is its createdAt and whether it is an answer to the customer, *)
(* which its senderId and its isInternal say; of slaDueAt the model keeps  *)
(* the priority it was computed from.  Slack is only told: its failures    *)
(* are caught.                                                             *)
(***************************************************************************)
EXTENDS Integers, Sequences, FiniteSets, TypeOrm

CONSTANTS
    TicketId,   \* primary keys of support_tickets
    Agent,      \* slots for requests in progress: bounds the concurrency
    Supporter,  \* users a ticket can be assigned to
    MaxStamp,   \* bound on the replies given
    AskedPriority   \* the priorities that new tickets are given

ASSUME TicketsAssumption ==
    /\ MaxStamp \in Nat
    /\ None \notin TicketId
    /\ None \notin Supporter
    /\ None \notin Nat

VARIABLES
    tickets,    \* [TicketId -> row or None]: the support_tickets table
    desk,       \* [Agent -> handler]: the requests in progress
    stamp       \* the clock that dates replies

ticketVars == <<tickets, desk, stamp>>

TicketStatus == {"open", "in_progress", "resolved", "closed"}

TicketPriority == {"low", "medium", "high", "critical"}

\* An agent writes an outbound message or an internal note; the customer's
\* own messages are not outbound either.
Message == [at: 1..MaxStamp, outbound: BOOLEAN]

\* No message is stamped twice, so no thread is longer than MaxStamp.
Thread == UNION {[1..n -> Message] : n \in 0..MaxStamp}

TicketRow ==
    [status: TicketStatus, priority: TicketPriority, due: TicketPriority,
     assignedTo: Supporter \cup {None}, messages: Thread,
     firstResponse: (1..MaxStamp) \cup {None}, resolved: BOOLEAN]

TicketColumn == {"status", "priority", "due", "assignedTo", "messages",
                 "firstResponse", "resolved"}

ASSUME TicketRowAssumption ==
    /\ None \notin TicketRow
    /\ None \notin Thread
    /\ AskedPriority \subseteq TicketPriority

Desk == INSTANCE SavedRows WITH Key <- TicketId, Hidden <- {},
                                rows <- tickets, request <- desk

TicketTypeOK ==
    /\ tickets \in [TicketId -> TicketRow \cup {None}]
    /\ desk \in [Agent -> Desk!Handler(TicketRow, TicketColumn)]
    /\ stamp \in 0..MaxStamp

-----------------------------------------------------------------------------
NewTicket(priority) ==
    [status |-> "open", priority |-> priority, due |-> priority,
     assignedTo |-> None, messages |-> <<>>, firstResponse |-> None,
     resolved |-> FALSE]

TicketInit ==
    /\ tickets = [t \in TicketId |-> None]
    /\ desk = [a \in Agent |-> Desk!Idle]
    /\ stamp = 0

\* Mutant of Replied: the newest message goes on top.
RepliedOnTop(row, m) ==
    [row EXCEPT !.messages = <<m>> \o @,
                !.firstResponse = IF @ = None THEN m.at ELSE @,
                !.status = IF @ = "open" THEN "in_progress" ELSE @]

\* Mutant of Replied: the first response is stamped at every reply.
RepliedRestamping(row, m) ==
    [row EXCEPT !.messages = Append(@, m),
                !.firstResponse = m.at,
                !.status = IF @ = "open" THEN "in_progress" ELSE @]

\* The ticket after a reply or an internal note.
Replied(row, m) ==
    [row EXCEPT !.messages = Append(@, m),
                !.firstResponse = IF @ = None THEN m.at ELSE @,
                !.status = IF @ = "open" THEN "in_progress" ELSE @]

\* Mutant of Assigned: a status the enum does not have.
AssignedMisspelt(row, p) ==
    [row EXCEPT !.assignedTo = IF @ = None THEN p ELSE @,
                !.status = "assigned"]

\* findOne loads the relation assignedTo, and where the entity has both the
\* related object and the plain id, save believes the object: an assignment
\* takes effect only while nobody is assigned.
Assigned(row, p) ==
    [row EXCEPT !.assignedTo = IF @ = None THEN p ELSE @,
                !.status = "in_progress"]

SaveTicket(a, t, entity) == Desk!Take(a, t, entity) /\ UNCHANGED stamp

-----------------------------------------------------------------------------
\* POST /tickets.
CreateTicket(a, priority) ==
    /\ \E t \in TicketId : Desk!Insert(a, t, NewTicket(priority))
    /\ UNCHANGED stamp

\* POST /tickets/:id/reply of an agent or of the customer, stamped when the row
\* has been loaded.
Reply(a, t) ==
    /\ stamp < MaxStamp     \* bound
    /\ stamp' = stamp + 1
    /\ \E outbound \in BOOLEAN :
          Desk!Take(a, t, Replied(tickets[t],
                                  [at |-> stamp', outbound |-> outbound]))

AssignTicket(a, t, p) == SaveTicket(a, t, Assigned(tickets[t], p))

Resolve(a, t) ==
    SaveTicket(a, t, [tickets[t] EXCEPT !.status = "resolved", !.resolved = TRUE])

Close(a, t) == SaveTicket(a, t, [tickets[t] EXCEPT !.status = "closed"])

\* The priority rises; slaDueAt keeps the target set by create.
Escalate(a, t) == SaveTicket(a, t, [tickets[t] EXCEPT !.priority = "critical"])

ReloadTicket(a) == Desk!Reload(a) /\ UNCHANGED stamp

WriteTicket(a) == Desk!Write(a) /\ UNCHANGED stamp

\* A save that rejects, or a crash: nothing of the handler is left.
TicketFails(a) ==
    /\ desk[a] # Desk!Idle
    /\ desk' = [desk EXCEPT ![a] = Desk!Idle]
    /\ UNCHANGED <<tickets, stamp>>

TicketNext ==
    \E a \in Agent :
        \/ \E priority \in AskedPriority : CreateTicket(a, priority)
        \/ \E t \in Desk!Stored :
              \/ Reply(a, t) \/ Resolve(a, t) \/ Close(a, t) \/ Escalate(a, t)
              \/ \E p \in Supporter : AssignTicket(a, t, p)
        \/ ReloadTicket(a)
        \/ WriteTicket(a)
        \/ TicketFails(a)

TicketSpec == TicketInit /\ [][TicketNext]_ticketVars

-----------------------------------------------------------------------------
(* Properties                                                              *)

\* Agents who overwrite each other lose messages, but what the customer reads
\* is in the order in which it was written, and nothing twice.
ThreadInOrder ==
    \A t \in Desk!Stored : \A i, j \in DOMAIN tickets[t].messages :
        i < j => tickets[t].messages[i].at < tickets[t].messages[j].at

=============================================================================
