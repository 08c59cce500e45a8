---------------------------- MODULE MCBackOffice ----------------------------
(***************************************************************************)
(* The services that organisers and staff use: events, accounts, tickets,  *)
(* tasks and meetings on small tables.  The five share no state here, so a *)
(* behaviour of this module is a behaviour of one of them, named by part;  *)
(* the others stay as they were.                                           *)
(***************************************************************************)
EXTENDS EventService, Accounts, Tickets, TaskBoard, Meetings, TLC

CONSTANT MaxRequest     \* bound on the requests of a behaviour that save

\* The requests in progress can be counted.
ASSUME BackOfficeAssumption == IsFiniteSet(Agent) /\ IsFiniteSet(Member)

VARIABLES
    part,       \* the component that this behaviour is about
    alone,      \* TRUE: no request starts before the last one has ended
    begun       \* the requests that have started

others == <<accountVars, ticketVars, taskVars, meetingVars>>

eventVars == <<regs, events, edit, minted>>

backVars == <<eventVars, others, part, alone, begun>>

InProgress ==
    CASE part = "accounts" ->
            Cardinality({v \in Visitor : visit[v] # NoVisit})
                + Cardinality({c \in Clerk : clerk[c] # Office!Idle})
      [] part = "tickets" -> Cardinality({a \in Agent : desk[a] # Desk!Idle})
      [] part = "tasks" -> Cardinality({m \in Member : board[m] # Board!Idle})
      [] OTHER -> 0

BackOfficeInit ==
    /\ part \in {"events", "accounts", "tickets", "tasks", "meetings"}
    /\ alone \in BOOLEAN
    /\ begun = 0
    /\ alone => part \in {"tickets", "tasks"}
    /\ Init
    /\ part # "events" => events = [e \in Event |-> None]
    /\ AccountInit /\ TicketInit /\ TaskInit /\ MeetingInit
    /\ part # "meetings" => stripped

BackOfficeNext ==
    /\ UNCHANGED <<part, alone>>
    /\ \/ /\ part = "events" /\ Next
          /\ UNCHANGED others
       \/ /\ part = "accounts" /\ AccountNext
          /\ UNCHANGED <<eventVars, ticketVars, taskVars, meetingVars>>
       \/ /\ part = "tickets" /\ TicketNext
          /\ UNCHANGED <<eventVars, accountVars, taskVars, meetingVars>>
       \/ /\ part = "tasks" /\ TaskNext
          /\ UNCHANGED <<eventVars, accountVars, ticketVars, meetingVars>>
       \/ /\ part = "meetings" /\ MeetingNext
          /\ UNCHANGED <<eventVars, accountVars, ticketVars, taskVars>>
    /\ begun' = IF InProgress' > InProgress THEN begun + 1 ELSE begun
    /\ begun' <= MaxRequest
    /\ alone => InProgress' <= 1

BackOfficeSpec == BackOfficeInit /\ [][BackOfficeNext]_backVars

\* No definition orders keys, slots or addresses.  The configuration gives
\* the components the same two keys and the same two slots.
Symmetry ==
    Permutations(UserId) \cup Permutations(Clerk) \cup Permutations(Email)

-----------------------------------------------------------------------------
(* Properties                                                              *)

\* The tables of the back office keep their types, whatever their services
\* save: the enumerations of statuses, priorities and roles and the shapes of
\* the JSON columns.
BackOfficeTypeOK ==
    TypeOK /\ AccountTypeOK /\ TicketTypeOK /\ TaskTypeOK /\ MeetingTypeOK

\* Tickets and tasks side by side: what several people write at once may get
\* lost, but never shows twice or in the wrong order.
MessagesInOrder == ThreadInOrder /\ CommentsInOrder

TicketTalk == INSTANCE Conversation WITH
    Thread <- TicketId,
    Message <- Message,
    At <- [m \in Message |-> m.at],
    Answer <- {m \in Message : m.outbound},
    said <- [t \in TicketId |-> IF alone /\ tickets[t] # None
                                THEN tickets[t].messages ELSE None],
    first <- [t \in TicketId |-> IF alone /\ tickets[t] # None
                                 THEN tickets[t].firstResponse ELSE None],
    gone <- {}

\* The comments of a task carry no date of their own beside the list.
FirstComment(t) ==
    IF tasks[t].comments = <<>> THEN None ELSE tasks[t].comments[1]

TaskTalk == INSTANCE Conversation WITH
    Thread <- TaskId,
    Message <- 1..MaxComment,
    At <- [c \in 1..MaxComment |-> c],
    Answer <- 1..MaxComment,
    said <- [t \in TaskId |-> IF alone /\ tasks[t] # None
                              THEN tasks[t].comments ELSE None],
    first <- [t \in TaskId |-> IF alone /\ tasks[t] # None
                               THEN FirstComment(t) ELSE None],
    gone <- IF alone THEN {t \in taskKeys : tasks[t] = None} ELSE {}

\* As long as no two requests overlap, the threads of tickets and tasks are
\* conversations: nothing said is lost, the first response is dated once and no
\* later than the first answer, and what was removed stays removed.
ConversationsKept == TicketTalk!Spec /\ TaskTalk!Spec

=============================================================================
