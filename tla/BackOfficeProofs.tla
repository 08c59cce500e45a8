-------------------------- MODULE BackOfficeProofs --------------------------
(***************************************************************************)
(* Theorems about the services behind the doors, for any numbers of rows,  *)
(* of requests at once, of messages, of attendees and of restarts: events, *)
(* tickets, tasks and meetings here, accounts in AccountsProofs.           *)
(*                                                                         *)
(* Threads: a handler appends the stamp of a clock that has run on since   *)
(* every earlier message, so the thread in any entity, however stale, is   *)
(* in order; and a save takes a thread from the entity or leaves the one   *)
(* of the row, never a mixture.                                            *)
(*                                                                         *)
(* Conversations: while no two requests overlap, the entity that a request *)
(* holds is the row it will find, or that row and one message more; so the *)
(* tables implement Conversation.                                          *)
(*                                                                         *)
(* Meetings: the array only grows at its end and an answer changes nothing *)
(* but a status, so a place keeps its two people until a restart empties   *)
(* the array; and a restart makes every line of every list older than the  *)
(* process.                                                                *)
(*                                                                         *)
(* Events: of two organisers one may undo the other's change of status;    *)
(* one alone finds the row as it was loaded, so the status goes one way.   *)
(***************************************************************************)
EXTENDS MCBackOffice, AccountsProofs, FiniteSetTheorems, TLAPS

-----------------------------------------------------------------------------
(* Threads                                                                 *)

\* A list of stamps, the last of them not after n, each once and in order:
\* before the one at place i there were i - 1 others.
Dated(list, n) ==
    /\ list \in Seq(Nat)
    /\ \A i \in DOMAIN list : i <= list[i] /\ list[i] <= n
    /\ \A i, j \in DOMAIN list : i < j => list[i] < list[j]

\* A list stays dated while the clock goes on.
LEMMA DatedLater ==
    ASSUME NEW n \in Nat, NEW m \in Nat, n <= m, NEW list, Dated(list, n)
    PROVE  Dated(list, m)
<1>1. \A i \in DOMAIN list : list[i] \in Nat
  BY DEF Dated
<1>2. QED
  BY <1>1 DEF Dated

\* The next stamp goes to the end.
LEMMA DatedAppend ==
    ASSUME NEW n \in Nat, NEW list, Dated(list, n)
    PROVE  Dated(Append(list, n + 1), n + 1)
<1>1. list \in Seq(Nat) /\ DOMAIN list = 1..Len(list) /\ Len(list) \in Nat
  BY DEF Dated
<1>2. \A i \in 1..Len(list) : /\ list[i] \in Nat /\ list[i] <= n
                               /\ i <= list[i]
  BY <1>1 DEF Dated
<1>3. PICK l : l = Append(list, n + 1)
  OBVIOUS
<1>4. /\ l \in Seq(Nat) /\ DOMAIN l = 1..(Len(list) + 1)
      /\ \A i \in 1..Len(list) : l[i] = list[i]
      /\ l[Len(list) + 1] = n + 1
  BY <1>1, <1>3
<1>5. \A i \in DOMAIN l : i <= l[i] /\ l[i] <= n + 1
  <2>1. Len(list) <= n
    BY <1>1, <1>2
  <2>2. QED
    BY <1>1, <1>2, <1>4, <2>1
<1>6. ASSUME NEW i \in DOMAIN l, NEW j \in DOMAIN l, i < j
      PROVE  l[i] < l[j]
  <2>1. i \in 1..Len(list) /\ l[i] = list[i]
    BY <1>1, <1>4, <1>6
  <2>2. CASE j = Len(list) + 1
    BY <1>2, <1>4, <2>1, <2>2
  <2>3. CASE j \in 1..Len(list)
    BY <1>1, <1>4, <1>6, <2>1, <2>3 DEF Dated
  <2>4. QED
    BY <1>1, <1>4, <2>2, <2>3
<1>7. QED
  BY <1>3, <1>4, <1>5, <1>6 DEF Dated

\* As no stamp comes twice, a list is no longer than the clock has run.
LEMMA DatedIsShort ==
    ASSUME NEW n \in Nat, NEW max \in Nat, n <= max, NEW list, Dated(list, n)
    PROVE  list \in UNION {[1..k -> 1..max] : k \in 0..max}
<1>1. /\ list \in Seq(Nat) /\ Len(list) \in Nat /\ DOMAIN list = 1..Len(list)
      /\ list = [i \in 1..Len(list) |-> list[i]]
  BY DEF Dated
<1>2. \A i \in 1..Len(list) : /\ list[i] \in Nat /\ list[i] <= n
                               /\ i <= list[i]
  BY <1>1 DEF Dated
<1>3. Len(list) \in 0..max
  BY <1>1, <1>2
<1>4. list \in [1..Len(list) -> 1..max]
  BY <1>1, <1>2
<1>5. QED
  BY <1>3, <1>4

-----------------------------------------------------------------------------
(* Tickets                                                                 *)

\* The dates of the messages of a thread.
Dates(list) == [i \in DOMAIN list |-> list[i].at]

\* What is said in a thread has a date.
LEMMA DatesOf ==
    ASSUME NEW list \in Seq(Message)
    PROVE  /\ Dates(list) \in Seq(Nat) /\ DOMAIN Dates(list) = DOMAIN list
           /\ \A i \in DOMAIN list : /\ Dates(list)[i] = list[i].at
                                     /\ list[i] \in Message
<1>1. /\ Len(list) \in Nat /\ DOMAIN list = 1..Len(list)
      /\ \A i \in 1..Len(list) : list[i] \in Message
  OBVIOUS
<1>2. \A i \in 1..Len(list) : list[i].at \in Nat
  BY <1>1, TicketsAssumption DEF Message
<1>3. Dates(list) = [i \in 1..Len(list) |-> list[i].at]
  BY <1>1 DEF Dates
<1>4. Dates(list) \in [1..Len(list) -> Nat]
  BY <1>2, <1>3
<1>5. QED
  BY <1>1, <1>3, <1>4

\* A message that is added brings its date.
LEMMA DatesAppend ==
    ASSUME NEW list \in Seq(Message), NEW m \in Message
    PROVE  Dates(Append(list, m)) = Append(Dates(list), m.at)
<1>1. PICK l : l = Append(list, m)
  OBVIOUS
<1>2. /\ l \in Seq(Message) /\ Len(list) \in Nat /\ Len(l) = Len(list) + 1
      /\ DOMAIN l = 1..(Len(list) + 1) /\ l[Len(list) + 1] = m
      /\ \A i \in 1..Len(list) : l[i] = list[i]
  BY <1>1
<1>3. /\ Dates(list) \in Seq(Nat) /\ Len(Dates(list)) = Len(list)
      /\ \A i \in 1..Len(list) : Dates(list)[i] = list[i].at
  <2>1. DOMAIN list = 1..Len(list)
    OBVIOUS
  <2>2. /\ Dates(list) \in Seq(Nat) /\ DOMAIN Dates(list) = 1..Len(list)
        /\ \A i \in 1..Len(list) : Dates(list)[i] = list[i].at
    BY <2>1, DatesOf
  <2>3. QED
    BY <2>2
<1>4. m.at \in Nat
  BY TicketsAssumption DEF Message
<1>5. PICK d : d = Append(Dates(list), m.at)
  OBVIOUS
<1>6. /\ d \in Seq(Nat) /\ Len(d) = Len(list) + 1
      /\ d[Len(list) + 1] = m.at
      /\ \A i \in 1..Len(list) : d[i] = Dates(list)[i]
  BY <1>2, <1>3, <1>4, <1>5
<1>7. d = [i \in 1..(Len(list) + 1) |-> d[i]]
  BY <1>2, <1>6
<1>8. \A i \in 1..(Len(list) + 1) : d[i] = l[i].at
  BY <1>2, <1>3, <1>6
<1>9. Dates(l) = [i \in 1..(Len(list) + 1) |-> l[i].at]
  BY <1>2 DEF Dates
<1>10. QED
  BY <1>1, <1>5, <1>7, <1>8, <1>9

\* As no message is stamped twice, a thread is as short as its type says.
LEMMA ThreadIsShort ==
    ASSUME NEW n \in Nat, n <= MaxStamp, NEW list \in Seq(Message),
           Dated(Dates(list), n)
    PROVE  list \in Thread
<1>1. Dates(list) \in UNION {[1..k -> 1..MaxStamp] : k \in 0..MaxStamp}
  BY TicketsAssumption, DatedIsShort
<1>2. PICK k \in 0..MaxStamp : DOMAIN Dates(list) = 1..k
  BY <1>1
<1>3. DOMAIN list = 1..k /\ \A i \in 1..k : list[i] \in Message
  BY <1>2, DatesOf
<1>4. list = [i \in DOMAIN list |-> list[i]]
  OBVIOUS
<1>5. list \in [1..k -> Message]
  BY <1>3, <1>4
<1>6. QED
  BY <1>2, <1>5 DEF Thread

\* The rows of support_tickets at time n with a thread that is in order.
TicketsBy(n) ==
    {row \in [status: TicketStatus, priority: TicketPriority,
              due: TicketPriority, assignedTo: Supporter \cup {None},
              messages: Seq(Message), firstResponse: (1..n) \cup {None},
              resolved: BOOLEAN] :
        Dated(Dates(row.messages), n)}

\* A handler in progress holds such a row.
AgentOK(handler, n) ==
    \/ handler = Desk!Idle
    \/ handler \in [pc: {"reload", "write", "insert"}, key: TicketId,
                    entity: TicketsBy(n), cols: SUBSET TicketColumn]

\* The inductive invariant of the tickets.
TicketInv ==
    /\ stamp \in 0..MaxStamp
    /\ tickets = [t \in TicketId |-> tickets[t]]
    /\ desk = [a \in Agent |-> desk[a]]
    /\ \A t \in TicketId : tickets[t] # None => tickets[t] \in TicketsBy(stamp)
    /\ \A a \in Agent : AgentOK(desk[a], stamp)

\* A row is made of its columns.
LEMMA TicketColumns ==
    ASSUME NEW n, NEW row \in TicketsBy(n)
    PROVE  /\ row = [status |-> row.status, priority |-> row.priority,
                     due |-> row.due, assignedTo |-> row.assignedTo,
                     messages |-> row.messages,
                     firstResponse |-> row.firstResponse,
                     resolved |-> row.resolved]
           /\ row.status \in TicketStatus /\ row.priority \in TicketPriority
           /\ row.due \in TicketPriority
           /\ row.assignedTo \in Supporter \cup {None}
           /\ row.messages \in Seq(Message) /\ Dated(Dates(row.messages), n)
           /\ row.firstResponse \in (1..n) \cup {None}
           /\ row.resolved \in BOOLEAN
BY DEF TicketsBy

\* The columns make a row.
LEMMA TicketMade ==
    ASSUME NEW n, NEW s \in TicketStatus, NEW p \in TicketPriority,
           NEW d \in TicketPriority, NEW who \in Supporter \cup {None},
           NEW list \in Seq(Message), Dated(Dates(list), n),
           NEW answered \in (1..n) \cup {None}, NEW done \in BOOLEAN
    PROVE  [status |-> s, priority |-> p, due |-> d, assignedTo |-> who,
            messages |-> list, firstResponse |-> answered,
            resolved |-> done] \in TicketsBy(n)
BY DEF TicketsBy

\* Nothing falls out of order while the clock goes on.
LEMMA TicketsLater ==
    ASSUME NEW n \in Nat, NEW m \in Nat, n <= m
    PROVE  /\ \A row : row \in TicketsBy(n) => row \in TicketsBy(m)
           /\ \A handler : AgentOK(handler, n) => AgentOK(handler, m)
<1>1. ASSUME NEW row \in TicketsBy(n)
      PROVE  row \in TicketsBy(m)
  <2>1. row.firstResponse \in (1..m) \cup {None}
    BY <1>1, TicketColumns
  <2>2. Dated(Dates(row.messages), m)
    BY <1>1, TicketColumns, DatedLater
  <2>3. [status |-> row.status, priority |-> row.priority, due |-> row.due,
         assignedTo |-> row.assignedTo, messages |-> row.messages,
         firstResponse |-> row.firstResponse,
         resolved |-> row.resolved] \in TicketsBy(m)
    BY <1>1, <2>1, <2>2, TicketColumns, TicketMade
  <2>4. QED
    BY <1>1, <2>3, TicketColumns
<1>2. QED
  BY <1>1 DEF AgentOK

\* A step of one agent that writes no ticket.
LEMMA AgentStep ==
    ASSUME TicketInv, NEW a \in Agent, NEW x,
           stamp' \in 0..MaxStamp, stamp <= stamp',
           tickets' = tickets, desk' = [desk EXCEPT ![a] = x],
           AgentOK(x, stamp')
    PROVE  TicketInv'
<1> stamp \in Nat /\ stamp' \in Nat
  BY TicketsAssumption DEF TicketInv
<1>1. \A t \in TicketId : tickets[t] # None => tickets[t] \in TicketsBy(stamp')
  BY TicketsLater DEF TicketInv
<1>2. \A b \in Agent : AgentOK(desk[b], stamp')
  BY TicketsLater DEF TicketInv
<1>3. /\ desk' = [b \in Agent |-> desk'[b]]
      /\ \A b \in Agent : desk'[b] = IF b = a THEN x ELSE desk[b]
  BY DEF TicketInv
<1>4. QED
  BY <1>1, <1>2, <1>3 DEF TicketInv

\* A request that has ended holds no thread.
LEMMA AgentIdle == \A n : AgentOK(Desk!Idle, n)
BY DEF AgentOK

\* A request in progress is not the idle one.
LEMMA AgentBusy ==
    ASSUME NEW n, NEW handler, AgentOK(handler, n), handler.pc # "idle"
    PROVE  /\ handler.pc \in {"reload", "write", "insert"}
           /\ handler.key \in TicketId
           /\ handler.entity \in TicketsBy(n)
           /\ handler.cols \in SUBSET TicketColumn
           /\ handler = [pc |-> handler.pc, key |-> handler.key,
                         entity |-> handler.entity, cols |-> handler.cols]
BY DEF AgentOK, Desk!Idle

\* An agent has loaded a ticket and will save entity.
LEMMA AgentTakes ==
    ASSUME TicketInv, NEW a \in Agent, NEW t \in TicketId, NEW entity,
           Desk!Take(a, t, entity), stamp' \in 0..MaxStamp, stamp <= stamp',
           entity \in TicketsBy(stamp')
    PROVE  TicketInv'
<1>1. PICK x : x = [Desk!Idle EXCEPT !.pc = "reload", !.key = t,
                                     !.entity = entity]
  OBVIOUS
<1>2. x = [pc |-> "reload", key |-> t, entity |-> entity, cols |-> {}]
  BY <1>1 DEF Desk!Idle
<1>3. AgentOK(x, stamp')
  BY <1>2 DEF AgentOK
<1>4. QED
  BY <1>1, <1>3, AgentStep DEF Desk!Take

\* The save mixes two rows: it takes each column from one or the other.
LEMMA TicketPatched ==
    ASSUME NEW n, NEW old \in TicketsBy(n), NEW e \in TicketsBy(n), NEW cols
    PROVE  /\ Desk!Patch(old, e, cols) \in TicketsBy(n)
           /\ Desk!Patch(old, e, cols).messages =
                  IF "messages" \in cols THEN e.messages ELSE old.messages
           /\ Desk!Patch(old, e, cols).firstResponse =
                  IF "firstResponse" \in cols THEN e.firstResponse
                  ELSE old.firstResponse
<1>1. PICK row : row = Desk!Patch(old, e, cols)
  OBVIOUS
<1>2. row = [c \in DOMAIN old |-> IF c \in cols THEN e[c] ELSE old[c]]
  BY <1>1 DEF Desk!Patch
<1>3. DOMAIN old = {"status", "priority", "due", "assignedTo", "messages",
                    "firstResponse", "resolved"}
  BY DEF TicketsBy
<1>4. /\ row.status \in {e.status, old.status}
      /\ row.priority \in {e.priority, old.priority}
      /\ row.due \in {e.due, old.due}
      /\ row.assignedTo \in {e.assignedTo, old.assignedTo}
      /\ row.messages = IF "messages" \in cols THEN e.messages
                        ELSE old.messages
      /\ row.firstResponse = IF "firstResponse" \in cols
                             THEN e.firstResponse ELSE old.firstResponse
      /\ row.resolved \in {e.resolved, old.resolved}
  BY <1>2, <1>3
<1>5. row = [status |-> row.status, priority |-> row.priority,
             due |-> row.due, assignedTo |-> row.assignedTo,
             messages |-> row.messages, firstResponse |-> row.firstResponse,
             resolved |-> row.resolved]
  BY <1>2, <1>3
<1>6. /\ row.status \in TicketStatus /\ row.priority \in TicketPriority
      /\ row.due \in TicketPriority
      /\ row.assignedTo \in Supporter \cup {None}
      /\ row.messages \in Seq(Message) /\ Dated(Dates(row.messages), n)
      /\ row.firstResponse \in (1..n) \cup {None}
      /\ row.resolved \in BOOLEAN
  BY <1>4, TicketColumns
<1>7. [status |-> row.status, priority |-> row.priority, due |-> row.due,
       assignedTo |-> row.assignedTo, messages |-> row.messages,
       firstResponse |-> row.firstResponse,
       resolved |-> row.resolved] \in TicketsBy(n)
  BY <1>6, TicketMade
<1>8. row \in TicketsBy(n)
  BY <1>5, <1>7
<1>9. QED
  BY <1>1, <1>4, <1>8

\* The thread that is saved is in order.
LEMMA AgentWrites ==
    ASSUME TicketInv, NEW a \in Agent, WriteTicket(a)
    PROVE  TicketInv'
<1>1. /\ AgentOK(desk[a], stamp) /\ desk[a].entity \in TicketsBy(stamp)
      /\ stamp' = stamp
  BY AgentBusy DEF WriteTicket, Desk!Write, TicketInv
<1>2. PICK k : k = desk[a].key
  OBVIOUS
<1>3. PICK row : row = Desk!Saved(desk[a], tickets[k])
  OBVIOUS
<1>4. ASSUME k \in TicketId, row # None
      PROVE  row \in TicketsBy(stamp)
  <2>1. PICK e : e = desk[a].entity
    OBVIOUS
  <2>2. CASE desk[a].pc = "write" /\ tickets[k] # None
    <3>1. tickets[k] \in TicketsBy(stamp) /\ e \in TicketsBy(stamp)
      BY <1>1, <1>4, <2>1, <2>2 DEF TicketInv
    <3>2. row = Desk!Patch(tickets[k], e, desk[a].cols)
      BY <1>3, <2>1, <2>2 DEF Desk!Saved
    <3>3. QED
      BY <3>1, <3>2, TicketPatched
  <2>3. CASE desk[a].pc = "insert" /\ tickets[k] = None
    <3>1. e \in TicketsBy(stamp)
      BY <1>1, <2>1
    <3>2. row = [c \in DOMAIN e |-> e[c]]
      BY <1>3, <2>1, <2>3 DEF Desk!Saved, Desk!Undefined
    <3>3. row = e
      BY <3>1, <3>2 DEF TicketsBy
    <3>4. QED
      BY <3>1, <3>3
  <2>4. CASE ~(desk[a].pc = "write" /\ tickets[k] # None)
             /\ ~(desk[a].pc = "insert" /\ tickets[k] = None)
    <3>1. row = tickets[k]
      BY <1>3, <2>4 DEF Desk!Saved
    <3>2. QED
      BY <1>4, <3>1 DEF TicketInv
  <2>5. QED
    BY <2>2, <2>3, <2>4
<1>5. tickets' = [tickets EXCEPT ![k] = row]
  BY <1>2, <1>3 DEF WriteTicket, Desk!Write
<1>6. \A t \in TicketId : tickets'[t] # None => tickets'[t] \in TicketsBy(stamp)
  BY <1>4, <1>5 DEF TicketInv
<1>7. /\ tickets' = [t \in TicketId |-> tickets'[t]]
      /\ desk' = [b \in Agent |-> desk'[b]]
      /\ \A b \in Agent : desk'[b] = IF b = a THEN Desk!Idle ELSE desk[b]
  BY <1>5 DEF TicketInv, WriteTicket, Desk!Write
<1>8. QED
  BY <1>1, <1>6, <1>7, AgentIdle DEF TicketInv

\* Every step of support-service keeps the threads in order.
LEMMA TicketStep ==
    ASSUME TicketInv, TicketNext
    PROVE  TicketInv'
<1> PICK a \in Agent :
        \/ \E priority \in AskedPriority : CreateTicket(a, priority)
        \/ \E t \in Desk!Stored :
              \/ Reply(a, t) \/ Resolve(a, t) \/ Close(a, t) \/ Escalate(a, t)
              \/ \E p \in Supporter : AssignTicket(a, t, p)
        \/ ReloadTicket(a)
        \/ WriteTicket(a)
        \/ TicketFails(a)
  BY DEF TicketNext
<1>1. ASSUME NEW priority \in AskedPriority, CreateTicket(a, priority)
      PROVE  TicketInv'
  <2>1. PICK t \in TicketId :
            tickets' = [tickets EXCEPT ![t] = NewTicket(priority)]
    BY <1>1 DEF CreateTicket, Desk!Insert
  <2>2. NewTicket(priority) \in TicketsBy(stamp)
    <3>1. priority \in TicketPriority
      BY TicketRowAssumption
    <3>2. << >> \in Seq(Message) /\ Dated(Dates(<< >>), stamp)
      BY DEF Dated, Dates
    <3>3. QED
      BY <3>1, <3>2, TicketMade DEF NewTicket, TicketStatus
  <2>3. \A s \in TicketId :
            tickets'[s] = IF s = t THEN NewTicket(priority) ELSE tickets[s]
    BY <2>1 DEF TicketInv
  <2>4. QED
    BY <1>1, <2>1, <2>2, <2>3 DEF TicketInv, CreateTicket, Desk!Insert
<1>2. ASSUME NEW t \in Desk!Stored
      PROVE  t \in TicketId /\ tickets[t] \in TicketsBy(stamp)
  BY DEF TicketInv, Desk!Stored
<1>3. ASSUME NEW t \in Desk!Stored, Reply(a, t)
      PROVE  TicketInv'
  <2>1. PICK row : row = tickets[t]
    OBVIOUS
  <2>2. PICK m \in Message :
            /\ m.at = stamp + 1
            /\ Desk!Take(a, t, Replied(row, m))
    <3>1. stamp + 1 \in 1..MaxStamp /\ stamp' = stamp + 1
      BY <1>3, TicketsAssumption DEF Reply, TicketInv
    <3>2. PICK outbound \in BOOLEAN :
              Desk!Take(a, t, Replied(row, [at |-> stamp + 1,
                                            outbound |-> outbound]))
      BY <1>3, <2>1, <3>1 DEF Reply
    <3>3. [at |-> stamp + 1, outbound |-> outbound] \in Message
      BY <3>1 DEF Message
    <3>4. QED
      BY <3>2, <3>3
  <2>3. PICK entity : entity = Replied(row, m)
    OBVIOUS
  <2>4. row \in TicketsBy(stamp) /\ stamp \in Nat
    BY <1>2, <2>1, TicketsAssumption DEF TicketInv
  <2>5. /\ Append(row.messages, m) \in Seq(Message)
        /\ Dated(Dates(Append(row.messages, m)), stamp + 1)
    <3>1. row.messages \in Seq(Message) /\ Dated(Dates(row.messages), stamp)
      BY <2>4, TicketColumns
    <3>2. Dated(Append(Dates(row.messages), stamp + 1), stamp + 1)
      BY <2>4, <3>1, DatedAppend
    <3>3. Dates(Append(row.messages, m)) = Append(Dates(row.messages), m.at)
      BY <3>1, DatesAppend
    <3>4. Append(row.messages, m) \in Seq(Message)
      BY <3>1
    <3>5. QED
      BY <2>2, <3>2, <3>3, <3>4
  <2>6. entity \in TicketsBy(stamp + 1)
    <3>1. PICK list, answered, status :
              /\ list = Append(row.messages, m)
              /\ answered = IF row.firstResponse = None THEN m.at
                            ELSE row.firstResponse
              /\ status = IF row.status = "open" THEN "in_progress"
                          ELSE row.status
      OBVIOUS
    <3>2. /\ list \in Seq(Message) /\ Dated(Dates(list), stamp + 1)
          /\ answered \in (1..(stamp + 1)) \cup {None}
          /\ status \in TicketStatus
      BY <2>2, <2>4, <2>5, <3>1, TicketColumns DEF TicketStatus
    <3>3. entity = [status |-> status, priority |-> row.priority,
                    due |-> row.due, assignedTo |-> row.assignedTo,
                    messages |-> list, firstResponse |-> answered,
                    resolved |-> row.resolved]
      <4>1. row = [status |-> row.status, priority |-> row.priority,
                 due |-> row.due, assignedTo |-> row.assignedTo,
                 messages |-> row.messages,
                 firstResponse |-> row.firstResponse,
                 resolved |-> row.resolved]
        BY <2>4, TicketColumns
      <4>2. QED
        BY <2>3, <3>1, <4>1 DEF Replied
    <3>4. /\ row.priority \in TicketPriority /\ row.due \in TicketPriority
          /\ row.assignedTo \in Supporter \cup {None}
          /\ row.resolved \in BOOLEAN
      BY <2>4, TicketColumns
    <3>5. QED
      BY <3>2, <3>3, <3>4, TicketMade
  <2>7. /\ Desk!Take(a, t, entity) /\ stamp' = stamp + 1
        /\ stamp' \in 0..MaxStamp /\ stamp <= stamp'
    BY <1>3, <2>2, <2>3, <2>4, TicketsAssumption DEF Reply
  <2>8. QED
    BY <1>2, <2>6, <2>7, AgentTakes
<1>4. ASSUME NEW t \in Desk!Stored, NEW entity, SaveTicket(a, t, entity),
             entity \in TicketsBy(stamp)
      PROVE  TicketInv'
  <2>1. stamp \in Nat /\ stamp' = stamp /\ stamp' \in 0..MaxStamp
    BY <1>4, TicketsAssumption DEF SaveTicket, TicketInv
  <2>2. Desk!Take(a, t, entity)
    BY <1>4 DEF SaveTicket
  <2>3. QED
    BY <1>2, <1>4, <2>1, <2>2, AgentTakes
<1>5. ASSUME NEW t \in Desk!Stored, NEW p \in Supporter, AssignTicket(a, t, p)
      PROVE  TicketInv'
  <2>1. PICK row : row = tickets[t]
    OBVIOUS
  <2>2. PICK entity : entity = Assigned(row, p)
    OBVIOUS
  <2>3. row \in TicketsBy(stamp)
    BY <1>2, <2>1
  <2>4. entity \in TicketsBy(stamp)
    <3>1. PICK who : who = IF row.assignedTo = None THEN p ELSE row.assignedTo
      OBVIOUS
    <3>2. who \in Supporter \cup {None} /\ "in_progress" \in TicketStatus
      BY <2>3, <3>1, TicketColumns DEF TicketStatus
    <3>3. entity = [status |-> "in_progress", priority |-> row.priority,
                    due |-> row.due, assignedTo |-> who,
                    messages |-> row.messages,
                    firstResponse |-> row.firstResponse,
                    resolved |-> row.resolved]
      <4>1. row = [status |-> row.status, priority |-> row.priority,
                 due |-> row.due, assignedTo |-> row.assignedTo,
                 messages |-> row.messages,
                 firstResponse |-> row.firstResponse,
                 resolved |-> row.resolved]
        BY <2>3, TicketColumns
      <4>2. QED
        BY <2>2, <3>1, <4>1 DEF Assigned
    <3>4. /\ row.priority \in TicketPriority /\ row.due \in TicketPriority
          /\ row.messages \in Seq(Message) /\ Dated(Dates(row.messages), stamp)
          /\ row.firstResponse \in (1..stamp) \cup {None}
          /\ row.resolved \in BOOLEAN
      BY <2>3, TicketColumns
    <3>5. QED
      BY <3>2, <3>3, <3>4, TicketMade
  <2>5. QED
    BY <1>4, <1>5, <2>1, <2>2, <2>4 DEF AssignTicket
<1>6. ASSUME NEW t \in Desk!Stored,
             Resolve(a, t) \/ Close(a, t) \/ Escalate(a, t)
      PROVE  TicketInv'
  <2>1. PICK row : row = tickets[t]
    OBVIOUS
  <2>2. PICK x, y, z :
            /\ x = [row EXCEPT !.status = "resolved", !.resolved = TRUE]
            /\ y = [row EXCEPT !.status = "closed"]
            /\ z = [row EXCEPT !.priority = "critical"]
    OBVIOUS
  <2>3. row \in TicketsBy(stamp)
    BY <1>2, <2>1
  <2> /\ "resolved" \in TicketStatus /\ "closed" \in TicketStatus
      /\ "critical" \in TicketPriority
    BY DEF TicketStatus, TicketPriority
  <2> row = [status |-> row.status, priority |-> row.priority,
             due |-> row.due, assignedTo |-> row.assignedTo,
             messages |-> row.messages,
             firstResponse |-> row.firstResponse,
             resolved |-> row.resolved]
    BY <2>3, TicketColumns
  <2> /\ row.status \in TicketStatus
      /\ row.priority \in TicketPriority /\ row.due \in TicketPriority
      /\ row.assignedTo \in Supporter \cup {None}
      /\ row.messages \in Seq(Message) /\ Dated(Dates(row.messages), stamp)
      /\ row.firstResponse \in (1..stamp) \cup {None}
      /\ row.resolved \in BOOLEAN
    BY <2>3, TicketColumns
  <2>4. x \in TicketsBy(stamp)
    <3>1. x = [status |-> "resolved", priority |-> row.priority,
               due |-> row.due, assignedTo |-> row.assignedTo,
               messages |-> row.messages, firstResponse |-> row.firstResponse,
               resolved |-> TRUE]
      BY <2>2
    <3>2. QED
      BY <3>1, TicketMade
  <2>5. y \in TicketsBy(stamp)
    <3>1. y = [status |-> "closed", priority |-> row.priority,
               due |-> row.due, assignedTo |-> row.assignedTo,
               messages |-> row.messages, firstResponse |-> row.firstResponse,
               resolved |-> row.resolved]
      BY <2>2
    <3>2. QED
      BY <3>1, TicketMade
  <2>6. z \in TicketsBy(stamp)
    <3>1. z = [status |-> row.status, priority |-> "critical",
               due |-> row.due, assignedTo |-> row.assignedTo,
               messages |-> row.messages, firstResponse |-> row.firstResponse,
               resolved |-> row.resolved]
      BY <2>2
    <3>2. QED
      BY <3>1, TicketMade
  <2>7. QED
    BY <1>4, <1>6, <2>1, <2>2, <2>4, <2>5, <2>6 DEF Resolve, Close, Escalate
<1>7. CASE ReloadTicket(a)
  <2>1. PICK was : was = desk[a]
    OBVIOUS
  <2>2. /\ was.pc = "reload" /\ AgentOK(was, stamp)
        /\ stamp' = stamp /\ tickets' = tickets
    BY <1>7, <2>1 DEF ReloadTicket, Desk!Reload, TicketInv
  <2>3. /\ was.key \in TicketId /\ was.entity \in TicketsBy(stamp)
        /\ was = [pc |-> was.pc, key |-> was.key, entity |-> was.entity,
                  cols |-> was.cols]
        /\ was.cols \in SUBSET TicketColumn
    BY <2>2, AgentBusy
  <2>4. CASE tickets[was.key] # None
    <3>1. PICK row : row = tickets[was.key]
      OBVIOUS
    <3>2. PICK cols : cols = Desk!Changed(row, was.entity)
                                 \ Desk!Undefined(was.entity)
      OBVIOUS
    <3>3. row \in TicketsBy(stamp)
      BY <2>3, <2>4, <3>1 DEF TicketInv
    <3>4. DOMAIN row = TicketColumn
      BY <3>3, TicketColumns DEF TicketColumn
    <3>5. cols \in SUBSET TicketColumn
      BY <3>2, <3>4 DEF Desk!Changed
    <3>6. PICK x : x = [was EXCEPT !.pc = "write", !.cols = cols]
      OBVIOUS
    <3>7. x = [pc |-> "write", key |-> was.key, entity |-> was.entity,
               cols |-> cols]
      BY <2>3, <3>6
    <3>8. AgentOK(x, stamp)
      BY <2>3, <3>5, <3>7 DEF AgentOK
    <3>9. desk' = [desk EXCEPT ![a] = x]
      BY <1>7, <2>1, <2>4, <3>1, <3>2, <3>6 DEF ReloadTicket, Desk!Reload
    <3>10. QED
      BY <2>2, <3>8, <3>9, TicketsAssumption, AgentStep DEF TicketInv
  <2>5. CASE tickets[was.key] = None
    <3>1. PICK x : x = [was EXCEPT !.pc = "insert"]
      OBVIOUS
    <3>2. x = [pc |-> "insert", key |-> was.key, entity |-> was.entity,
               cols |-> was.cols]
      BY <2>3, <3>1
    <3>3. AgentOK(x, stamp)
      BY <2>3, <3>2 DEF AgentOK
    <3>4. desk' = [desk EXCEPT ![a] = x]
      BY <1>7, <2>1, <2>5, <3>1 DEF ReloadTicket, Desk!Reload
    <3>5. QED
      BY <2>2, <3>3, <3>4, TicketsAssumption, AgentStep DEF TicketInv
  <2>6. QED
    BY <2>4, <2>5
<1>8. CASE WriteTicket(a)
  BY <1>8, AgentWrites
<1>9. CASE TicketFails(a)
  BY <1>9, AgentIdle, AgentStep, TicketsAssumption DEF TicketFails, TicketInv
<1>10. QED
  BY <1>1, <1>3, <1>5, <1>6, <1>7, <1>8, <1>9

\* Nothing is written at the start.
LEMMA TicketStart == TicketInit => TicketInv
<1>1. 0 \in 0..MaxStamp
  BY TicketsAssumption
<1>2. QED
  BY <1>1, AgentIdle DEF TicketInit, TicketInv

\* Dates in order are messages in order.
LEMMA TicketsInOrder == TicketInv => ThreadInOrder
<1> SUFFICES ASSUME TicketInv, NEW t \in Desk!Stored,
                    NEW i \in DOMAIN tickets[t].messages,
                    NEW j \in DOMAIN tickets[t].messages, i < j
             PROVE  tickets[t].messages[i].at < tickets[t].messages[j].at
  BY DEF ThreadInOrder
<1>1. PICK list : list = tickets[t].messages
  OBVIOUS
<1>2. list \in Seq(Message) /\ Dated(Dates(list), stamp)
  BY <1>1, TicketColumns DEF TicketInv, Desk!Stored
<1>3. /\ DOMAIN Dates(list) = DOMAIN list
      /\ Dates(list)[i] = list[i].at /\ Dates(list)[j] = list[j].at
  BY <1>1, <1>2, DatesOf
<1>4. QED
  BY <1>1, <1>2, <1>3 DEF Dated

\* However agents overwrite each other, the thread of a ticket is in order.
THEOREM TicketThreads == TicketSpec => []ThreadInOrder
<1>2. TicketInv /\ [TicketNext]_ticketVars => TicketInv'
  BY TicketStep DEF ticketVars, TicketInv
<1>3. TicketInv => ThreadInOrder
  BY TicketsInOrder
<1>4. QED
  BY TicketStart, <1>2, <1>3, PTL DEF TicketSpec

-----------------------------------------------------------------------------
(* Tasks                                                                   *)

\* The rows of tasks at time n with comments that are in order.
TasksBy(n) ==
    {row \in [status: TaskStatus, priority: TaskPriority,
              assignedTo: Assignee \cup {None}, comments: Seq(Nat)] :
        Dated(row.comments, n)}

\* A handler in progress holds such a row, unless it deletes it.
MemberOK(handler, n) ==
    \/ handler = Board!Idle
    \/ handler \in [pc: {"reload", "write", "insert"}, key: TaskId,
                    entity: TasksBy(n), cols: SUBSET TaskColumn]
    \/ handler \in [pc: {"delete"}, key: TaskId, entity: {None}, cols: {{}}]

\* The inductive invariant of the tasks.
TaskInv ==
    /\ written \in 0..MaxComment
    /\ taskKeys \subseteq TaskId
    /\ eventGone \in BOOLEAN
    /\ tasks = [t \in TaskId |-> tasks[t]]
    /\ board = [m \in Member |-> board[m]]
    /\ \A t \in TaskId :
          tasks[t] # None => tasks[t] \in TasksBy(written) /\ ~eventGone
    /\ \A m \in Member : MemberOK(board[m], written)

\* A row is made of its columns.
LEMMA TaskColumns ==
    ASSUME NEW n, NEW row \in TasksBy(n)
    PROVE  /\ row = [status |-> row.status, priority |-> row.priority,
                     assignedTo |-> row.assignedTo, comments |-> row.comments]
           /\ row.status \in TaskStatus /\ row.priority \in TaskPriority
           /\ row.assignedTo \in Assignee \cup {None}
           /\ row.comments \in Seq(Nat) /\ Dated(row.comments, n)
BY DEF TasksBy

\* The columns make a row.
LEMMA TaskMade ==
    ASSUME NEW n, NEW s \in TaskStatus, NEW p \in TaskPriority,
           NEW who \in Assignee \cup {None}, NEW list \in Seq(Nat),
           Dated(list, n)
    PROVE  [status |-> s, priority |-> p, assignedTo |-> who,
            comments |-> list] \in TasksBy(n)
BY DEF TasksBy

\* Nothing falls out of order while the clock goes on.
LEMMA TasksLater ==
    ASSUME NEW n \in Nat, NEW m \in Nat, n <= m
    PROVE  /\ \A row : row \in TasksBy(n) => row \in TasksBy(m)
           /\ \A handler : MemberOK(handler, n) => MemberOK(handler, m)
<1>1. ASSUME NEW row \in TasksBy(n)
      PROVE  row \in TasksBy(m)
  <2>1. Dated(row.comments, m)
    BY <1>1, TaskColumns, DatedLater
  <2>2. [status |-> row.status, priority |-> row.priority,
         assignedTo |-> row.assignedTo,
         comments |-> row.comments] \in TasksBy(m)
    BY <1>1, <2>1, TaskColumns, TaskMade
  <2>3. QED
    BY <1>1, <2>2, TaskColumns
<1>2. QED
  BY <1>1 DEF MemberOK

\* A request in progress is not the idle one; one that saves holds a row.
LEMMA MemberBusy ==
    ASSUME NEW n, NEW handler, MemberOK(handler, n), handler.pc # "idle"
    PROVE  /\ handler.pc \in {"reload", "write", "insert", "delete"}
           /\ handler.key \in TaskId
           /\ handler.pc # "delete" => handler.entity \in TasksBy(n)
           /\ handler.cols \in SUBSET TaskColumn
           /\ handler = [pc |-> handler.pc, key |-> handler.key,
                         entity |-> handler.entity, cols |-> handler.cols]
BY DEF MemberOK, Board!Idle

\* A step of one member that writes no task.
LEMMA MemberStep ==
    ASSUME TaskInv, NEW m \in Member, NEW x, written' \in 0..MaxComment,
           written <= written', tasks' = tasks, eventGone' = eventGone,
           taskKeys' = taskKeys, board' = [board EXCEPT ![m] = x],
           MemberOK(x, written')
    PROVE  TaskInv'
<1> written \in Nat /\ written' \in Nat
  BY TaskBoardAssumption DEF TaskInv
<1>1. \A t \in TaskId : tasks[t] # None => tasks[t] \in TasksBy(written')
  BY TasksLater DEF TaskInv
<1>2. \A b \in Member : MemberOK(board[b], written')
  BY TasksLater DEF TaskInv
<1>3. /\ board' = [b \in Member |-> board'[b]]
      /\ \A b \in Member : board'[b] = IF b = m THEN x ELSE board[b]
  BY DEF TaskInv
<1>4. QED
  BY <1>1, <1>2, <1>3 DEF TaskInv

\* A request that has ended holds no thread.
LEMMA MemberIdle == \A n : MemberOK(Board!Idle, n)
BY DEF MemberOK

\* A member has loaded a task and will save entity.
LEMMA MemberTakes ==
    ASSUME TaskInv, NEW m \in Member, NEW t \in TaskId, NEW entity,
           Board!Take(m, t, entity),
           written' \in 0..MaxComment, written <= written',
           eventGone' = eventGone, taskKeys' = taskKeys,
           entity \in TasksBy(written')
    PROVE  TaskInv'
<1>1. PICK x : x = [Board!Idle EXCEPT !.pc = "reload", !.key = t,
                                      !.entity = entity]
  OBVIOUS
<1>2. x = [pc |-> "reload", key |-> t, entity |-> entity, cols |-> {}]
  BY <1>1 DEF Board!Idle
<1>3. MemberOK(x, written')
  BY <1>2 DEF MemberOK
<1>4. QED
  BY <1>1, <1>3, MemberStep DEF Board!Take

\* A step of one member that changes one task, while the event is there.
LEMMA TaskPut ==
    ASSUME TaskInv, NEW m \in Member, NEW k, NEW row,
           tasks' = [tasks EXCEPT ![k] = row],
           k \in TaskId /\ row # None => row \in TasksBy(written) /\ ~eventGone,
           board' = board \/ board' = [board EXCEPT ![m] = Board!Idle],
           written' = written, eventGone' = eventGone,
           taskKeys' \subseteq TaskId
    PROVE  TaskInv'
<1>1. \A t \in TaskId : tasks'[t] = IF t = k THEN row ELSE tasks[t]
  BY DEF TaskInv
<1>2. tasks' = [t \in TaskId |-> tasks'[t]]
  BY DEF TaskInv
<1>3. /\ board' = [b \in Member |-> board'[b]]
      /\ \A b \in Member : board'[b] \in {Board!Idle, board[b]}
  BY DEF TaskInv
<1>4. QED
  BY <1>1, <1>2, <1>3, MemberIdle DEF TaskInv

\* The save mixes two rows: it takes each column from one or the other.
LEMMA TaskPatched ==
    ASSUME NEW n, NEW old \in TasksBy(n), NEW e \in TasksBy(n), NEW cols
    PROVE  /\ Board!Patch(old, e, cols) \in TasksBy(n)
           /\ Board!Patch(old, e, cols).comments =
                  IF "comments" \in cols THEN e.comments ELSE old.comments
<1>1. PICK row : row = Board!Patch(old, e, cols)
  OBVIOUS
<1>2. row = [c \in DOMAIN old |-> IF c \in cols THEN e[c] ELSE old[c]]
  BY <1>1 DEF Board!Patch
<1>3. DOMAIN old = {"status", "priority", "assignedTo", "comments"}
  BY DEF TasksBy
<1>4. /\ row.status \in {e.status, old.status}
      /\ row.priority \in {e.priority, old.priority}
      /\ row.assignedTo \in {e.assignedTo, old.assignedTo}
      /\ row.comments = IF "comments" \in cols THEN e.comments
                        ELSE old.comments
  BY <1>2, <1>3
<1>5. row = [status |-> row.status, priority |-> row.priority,
             assignedTo |-> row.assignedTo, comments |-> row.comments]
  BY <1>2, <1>3
<1>6. /\ row.status \in TaskStatus /\ row.priority \in TaskPriority
      /\ row.assignedTo \in Assignee \cup {None}
      /\ row.comments \in Seq(Nat) /\ Dated(row.comments, n)
  BY <1>4, TaskColumns
<1>7. [status |-> row.status, priority |-> row.priority,
       assignedTo |-> row.assignedTo, comments |-> row.comments]
          \in TasksBy(n)
  BY <1>6, TaskMade
<1>8. row \in TasksBy(n)
  BY <1>5, <1>7
<1>9. QED
  BY <1>1, <1>4, <1>8

\* The thread that is saved is in order, and the save finds nothing to change
\* once the event is gone.
LEMMA MemberWrites ==
    ASSUME TaskInv, NEW m \in Member, WriteTask(m)
    PROVE  TaskInv'
<1>1. MemberOK(board[m], written) /\ board[m].entity \in TasksBy(written)
  BY MemberBusy DEF WriteTask, Board!Write, TaskInv
<1>2. PICK k : k = board[m].key
  OBVIOUS
<1>3. PICK row : row = Board!Saved(board[m], tasks[k])
  OBVIOUS
<1>4. ASSUME k \in TaskId, row # None
      PROVE  row \in TasksBy(written) /\ ~eventGone
  <2>1. PICK e : e = board[m].entity
    OBVIOUS
  <2>2. CASE board[m].pc = "write" /\ tasks[k] # None
    <3>1. /\ tasks[k] \in TasksBy(written) /\ ~eventGone
          /\ e \in TasksBy(written)
      BY <1>1, <1>4, <2>1, <2>2 DEF TaskInv
    <3>2. row = Board!Patch(tasks[k], e, board[m].cols)
      BY <1>3, <2>1, <2>2 DEF Board!Saved
    <3>3. QED
      BY <3>1, <3>2, TaskPatched
  <2>3. CASE board[m].pc = "insert" /\ tasks[k] = None
    <3>1. e \in TasksBy(written) /\ ~eventGone
      BY <1>1, <2>1, <2>3 DEF WriteTask
    <3>2. row = [c \in DOMAIN e |-> e[c]]
      BY <1>3, <2>1, <2>3 DEF Board!Saved, Board!Undefined
    <3>3. row = e
      BY <3>1, <3>2 DEF TasksBy
    <3>4. QED
      BY <3>1, <3>3
  <2>4. CASE ~(board[m].pc = "write" /\ tasks[k] # None)
             /\ ~(board[m].pc = "insert" /\ tasks[k] = None)
    <3>1. row = tasks[k]
      BY <1>3, <2>4 DEF Board!Saved
    <3>2. QED
      BY <1>4, <3>1 DEF TaskInv
  <2>5. QED
    BY <2>2, <2>3, <2>4
<1>5. tasks' = [tasks EXCEPT ![k] = row]
  BY <1>2, <1>3 DEF WriteTask, Board!Write
<1>6. /\ board' = [board EXCEPT ![m] = Board!Idle]
      /\ written' = written /\ eventGone' = eventGone
      /\ taskKeys' \subseteq TaskId
  BY DEF WriteTask, Board!Write, TaskInv
<1>7. QED
  BY <1>4, <1>5, <1>6, TaskPut

\* Every step of task-service, and the deletion of the event, keep the
\* threads in order.
LEMMA TaskStep ==
    ASSUME TaskInv, TaskNext
    PROVE  TaskInv'
<1> USE TaskBoardAssumption
<1>1. ASSUME NEW t \in Board!Stored
      PROVE  t \in TaskId /\ tasks[t] \in TasksBy(written)
  BY DEF TaskInv, Board!Stored
<1>2. ASSUME NEW m \in Member, NEW t \in Board!Stored, NEW entity,
             SaveTask(m, t, entity), entity \in TasksBy(written)
      PROVE  TaskInv'
  <2>1. /\ Board!Take(m, t, entity) /\ written' = written
        /\ eventGone' = eventGone /\ taskKeys' = taskKeys
    BY <1>2 DEF SaveTask
  <2>2. written' \in 0..MaxComment /\ written <= written'
    BY <2>1 DEF TaskInv
  <2>3. QED
    BY <1>1, <1>2, <2>1, <2>2, MemberTakes
<1>3. ASSUME NEW m \in Member, NEW priority \in NewPriority,
             NEW p \in Assignee \cup {None}, CreateTask(m, priority, p)
      PROVE  TaskInv'
  <2>1. PICK row : row = NewTask(priority, p)
    OBVIOUS
  <2>2. PICK t \in TaskId : /\ tasks' = [tasks EXCEPT ![t] = row]
                            /\ taskKeys' = taskKeys \cup {t}
    BY <1>3, <2>1 DEF CreateTask, Board!Insert
  <2>3. row \in TasksBy(written)
    <3>1. priority \in TaskPriority
      BY TaskRowAssumption
    <3>2. << >> \in Seq(Nat) /\ Dated(<< >>, written)
      BY DEF Dated
    <3>3. QED
      BY <2>1, <3>1, <3>2, TaskMade DEF NewTask, TaskStatus
  <2>4. /\ board' = board /\ written' = written
        /\ eventGone' = eventGone /\ ~eventGone
        /\ taskKeys' \subseteq TaskId
    BY <1>3, <2>2 DEF CreateTask, Board!Insert, TaskInv
  <2>5. QED
    BY <2>2, <2>3, <2>4, TaskPut
<1>4. ASSUME NEW m \in Member, NEW t \in Board!Stored, AddComment(m, t)
      PROVE  TaskInv'
  <2>1. PICK row : row = tasks[t]
    OBVIOUS
  <2>2. PICK entity : entity = Commented(row, written + 1)
    OBVIOUS
  <2>3. row \in TasksBy(written) /\ written \in Nat
    BY <1>1, <2>1 DEF TaskInv
  <2>4. PICK list : list = Append(row.comments, written + 1)
    OBVIOUS
  <2>5. list \in Seq(Nat) /\ Dated(list, written + 1)
    BY <2>3, <2>4, DatedAppend, TaskColumns
  <2>6. entity = [status |-> row.status, priority |-> row.priority,
                  assignedTo |-> row.assignedTo, comments |-> list]
    <3>1. row = [status |-> row.status, priority |-> row.priority,
                 assignedTo |-> row.assignedTo, comments |-> row.comments]
      BY <2>3, TaskColumns
    <3>2. QED
      BY <2>2, <2>4, <3>1 DEF Commented
  <2>7. entity \in TasksBy(written + 1)
    <3>1. /\ row.status \in TaskStatus /\ row.priority \in TaskPriority
          /\ row.assignedTo \in Assignee \cup {None}
      BY <2>3, TaskColumns
    <3>2. QED
      BY <2>5, <2>6, <3>1, TaskMade
  <2>8. /\ Board!Take(m, t, entity) /\ written' = written + 1
        /\ written' \in 0..MaxComment /\ written <= written'
        /\ eventGone' = eventGone /\ taskKeys' = taskKeys
    BY <1>4, <2>1, <2>2, <2>3 DEF AddComment
  <2>9. QED
    BY <1>1, <2>7, <2>8, MemberTakes
<1>5. ASSUME NEW m \in Member, NEW t \in Board!Stored,
             NEW status \in TaskStatus, UpdateTaskStatus(m, t, status)
      PROVE  TaskInv'
  <2>1. PICK row, entity : /\ row = tasks[t]
                           /\ entity = [row EXCEPT !.status = status]
    OBVIOUS
  <2>2. row \in TasksBy(written)
    BY <1>1, <2>1
  <2>3. entity = [status |-> status, priority |-> row.priority,
                  assignedTo |-> row.assignedTo, comments |-> row.comments]
    BY <2>1, <2>2, TaskColumns
  <2>4. entity \in TasksBy(written)
    BY <2>2, <2>3, TaskColumns, TaskMade
  <2>5. QED
    BY <1>2, <1>5, <2>1, <2>4 DEF UpdateTaskStatus
<1>6. ASSUME NEW row \in TasksBy(written), NEW p \in Assignee
      PROVE  Reassigned(row, p) \in TasksBy(written)
  <2>1. PICK who : who = IF row.assignedTo = None THEN p ELSE row.assignedTo
    OBVIOUS
  <2>2. who \in Assignee \cup {None}
    BY <2>1, TaskColumns
  <2>3. Reassigned(row, p) =
            [status |-> row.status, priority |-> row.priority,
             assignedTo |-> who, comments |-> row.comments]
    BY <2>1, TaskColumns DEF Reassigned
  <2>4. QED
    BY <2>2, <2>3, TaskColumns, TaskMade
<1>7. ASSUME NEW m \in Member, NEW t \in Board!Stored, NEW p \in Assignee,
             AssignTask(m, t, p)
      PROVE  TaskInv'
  BY <1>1, <1>2, <1>6, <1>7 DEF AssignTask
<1>8. ASSUME NEW m \in Member, NEW t \in Board!Stored,
             NEW priority \in NewPriority, NEW p \in Assignee,
             UpdateTask(m, t, priority, p)
      PROVE  TaskInv'
  <2>1. PICK row, entity :
            /\ row = Reassigned(tasks[t], p)
            /\ entity = [row EXCEPT !.priority = priority]
    OBVIOUS
  <2>2. row \in TasksBy(written)
    BY <1>1, <1>6, <2>1
  <2>3. priority \in TaskPriority
    BY TaskRowAssumption
  <2>4. entity = [status |-> row.status, priority |-> priority,
                  assignedTo |-> row.assignedTo, comments |-> row.comments]
    BY <2>1, <2>2, TaskColumns
  <2>5. entity \in TasksBy(written)
    BY <2>2, <2>3, <2>4, TaskColumns, TaskMade
  <2>6. QED
    BY <1>2, <1>8, <2>1, <2>5 DEF UpdateTask
<1>9. ASSUME NEW m \in Member, NEW t \in Board!Stored, RemoveTask(m, t)
      PROVE  TaskInv'
  <2>1. PICK x : x = [Board!Idle EXCEPT !.pc = "delete", !.key = t]
    OBVIOUS
  <2>2. x = [pc |-> "delete", key |-> t, entity |-> None, cols |-> {}]
    BY <2>1 DEF Board!Idle
  <2>3. MemberOK(x, written)
    BY <1>1, <2>2 DEF MemberOK
  <2>4. /\ board' = [board EXCEPT ![m] = x] /\ tasks' = tasks
        /\ written' = written /\ taskKeys' = taskKeys
        /\ eventGone' = eventGone
    BY <1>9, <2>1 DEF RemoveTask, Board!TakeOut
  <2>5. QED
    BY <2>3, <2>4, MemberStep DEF TaskInv
<1>10. ASSUME NEW m \in Member, ReloadTask(m)
       PROVE  TaskInv'
  <2>1. PICK was : was = board[m]
    OBVIOUS
  <2>2. /\ was.pc = "reload" /\ MemberOK(was, written)
        /\ written' = written /\ taskKeys' = taskKeys
        /\ eventGone' = eventGone /\ tasks' = tasks
    BY <1>10, <2>1 DEF ReloadTask, Board!Reload, TaskInv
  <2>3. /\ was.key \in TaskId /\ was.entity \in TasksBy(written)
        /\ was = [pc |-> was.pc, key |-> was.key, entity |-> was.entity,
                  cols |-> was.cols]
        /\ was.cols \in SUBSET TaskColumn
    BY <2>2, MemberBusy
  <2>4. CASE tasks[was.key] # None
    <3>1. PICK row : row = tasks[was.key]
      OBVIOUS
    <3>2. PICK cols : cols = Board!Changed(row, was.entity)
                                 \ Board!Undefined(was.entity)
      OBVIOUS
    <3>3. row \in TasksBy(written)
      BY <2>3, <2>4, <3>1 DEF TaskInv
    <3>4. DOMAIN row = TaskColumn
      BY <3>3, TaskColumns DEF TaskColumn
    <3>5. cols \in SUBSET TaskColumn
      BY <3>2, <3>4 DEF Board!Changed
    <3>6. PICK x : x = [was EXCEPT !.pc = "write", !.cols = cols]
      OBVIOUS
    <3>7. x = [pc |-> "write", key |-> was.key, entity |-> was.entity,
               cols |-> cols]
      BY <2>3, <3>6
    <3>8. MemberOK(x, written)
      BY <2>3, <3>5, <3>7 DEF MemberOK
    <3>9. board' = [board EXCEPT ![m] = x]
      BY <1>10, <2>1, <2>4, <3>1, <3>2, <3>6 DEF ReloadTask, Board!Reload
    <3>10. QED
      BY <2>2, <3>8, <3>9, MemberStep DEF TaskInv
  <2>5. CASE tasks[was.key] = None
    <3>1. PICK x : x = [was EXCEPT !.pc = "insert"]
      OBVIOUS
    <3>2. x = [pc |-> "insert", key |-> was.key, entity |-> was.entity,
               cols |-> was.cols]
      BY <2>3, <3>1
    <3>3. MemberOK(x, written)
      BY <2>3, <3>2 DEF MemberOK
    <3>4. board' = [board EXCEPT ![m] = x]
      BY <1>10, <2>1, <2>5, <3>1 DEF ReloadTask, Board!Reload
    <3>5. QED
      BY <2>2, <3>3, <3>4, MemberStep DEF TaskInv
  <2>6. QED
    BY <2>4, <2>5
<1>11. ASSUME NEW m \in Member, WriteTask(m)
       PROVE  TaskInv'
  BY <1>11, MemberWrites
<1>12. ASSUME NEW m \in Member, DeleteTask(m)
       PROVE  TaskInv'
  <2>1. /\ tasks' = [tasks EXCEPT ![board[m].key] = None]
        /\ board' = [board EXCEPT ![m] = Board!Idle]
        /\ written' = written /\ eventGone' = eventGone
        /\ taskKeys' \subseteq TaskId
    BY <1>12 DEF DeleteTask, Board!Delete, TaskInv
  <2>2. QED
    BY <2>1, TaskPut
<1>13. ASSUME NEW m \in Member, TaskFails(m)
       PROVE  TaskInv'
  BY <1>13, MemberIdle, MemberStep DEF TaskFails, TaskInv
<1>14. ASSUME DeleteEvent
       PROVE  TaskInv'
  BY <1>14 DEF DeleteEvent, TaskInv
<1>15. QED
  BY <1>3, <1>4, <1>5, <1>7, <1>8, <1>9, <1>10, <1>11, <1>12, <1>13, <1>14
  DEF TaskNext

\* Nothing is written at the start.
LEMMA TaskStart == TaskInit => TaskInv
<1>1. 0 \in 0..MaxComment
  BY TaskBoardAssumption
<1>2. QED
  BY <1>1, MemberIdle DEF TaskInit, TaskInv

\* However members overwrite each other, the comments of a task are in order,
\* and no task outlives its event.
THEOREM TaskThreads == TaskSpec => []CommentsInOrder
<1>2. TaskInv /\ [TaskNext]_taskVars => TaskInv'
  BY TaskStep DEF taskVars, TaskInv
<1>3. TaskInv => CommentsInOrder
  BY DEF TaskInv, CommentsInOrder, TasksBy, Dated, Board!Stored
<1>4. QED
  BY TaskStart, <1>2, <1>3, PTL DEF TaskSpec

-----------------------------------------------------------------------------
(* Conversations on tickets                                                *)

\* A set of at most one element.
LEMMA AtMostOne ==
    ASSUME NEW S, IsFiniteSet(S), Cardinality(S) <= 1, NEW a \in S, NEW b \in S
    PROVE  a = b
<1> SUFFICES ASSUME a # b
             PROVE  FALSE
  OBVIOUS
<1>1. IsFiniteSet({a}) /\ Cardinality({a}) = 1
  BY FS_Singleton
<1>2. {a} \cup {b} \subseteq S /\ b \notin {a}
  OBVIOUS
<1>3. Cardinality({a} \cup {b}) = 2
  BY <1>1, <1>2, FS_AddElement
<1>4. Cardinality({a} \cup {b}) <= Cardinality(S)
  BY <1>2, FS_Subset
<1>5. Cardinality(S) \in Nat
  BY FS_CardinalityType
<1>6. QED
  BY <1>3, <1>4, <1>5

\* A message may follow those of a thread.
Later(list, m) == \A i \in DOMAIN list : list[i] < m

\* What a request leaves in the entity of a ticket it has loaded: the thread
\* as it was, or one message more.
Answers(row, entity) ==
    \/ /\ entity.messages = row.messages
       /\ entity.firstResponse = row.firstResponse
    \/ \E m \in Message :
          /\ Later(Dates(row.messages), m.at)
          /\ entity.messages = Append(row.messages, m)
          /\ entity.firstResponse = IF row.firstResponse = None THEN m.at
                                    ELSE row.firstResponse

\* A request in progress and the row it was loaded from, as nobody else saves.
AgentFits(handler) ==
    /\ handler.pc # "insert"
    /\ handler.pc \in {"reload", "write"} =>
          /\ tickets[handler.key] # None
          /\ Answers(tickets[handler.key], handler.entity)
    /\ handler.pc = "write" =>
          \A c \in {"messages", "firstResponse"} :
              \/ c \in handler.cols
              \/ tickets[handler.key][c] = handler.entity[c]

\* No two agents at once.
OneAgent == \A a, b \in Agent : desk[a] # Desk!Idle /\ desk[b] # Desk!Idle
                                    => a = b

\* The inductive invariant of the conversations on tickets.
AgentsFit == \A a \in Agent : AgentFits(desk[a])

\* What Conversation sees of the tickets.
TicketSaid ==
    [t \in TicketId |-> IF alone /\ tickets[t] # None
                        THEN tickets[t].messages ELSE None]

TicketFirst ==
    [t \in TicketId |-> IF alone /\ tickets[t] # None
                        THEN tickets[t].firstResponse ELSE None]

TicketsSeenAlike == TicketSaid' = TicketSaid /\ TicketFirst' = TicketFirst

\* A request that has ended fits.
LEMMA IdleFits == AgentFits(Desk!Idle)
BY DEF AgentFits, Desk!Idle

\* A step of one agent that writes no ticket.
LEMMA AgentQuiet ==
    ASSUME TicketInv, AgentsFit, NEW a \in Agent, NEW x, AgentFits(x),
           desk' = [desk EXCEPT ![a] = x], tickets' = tickets, alone' = alone
    PROVE  AgentsFit' /\ TicketsSeenAlike
<1>1. \A b \in Agent : desk'[b] \in {x, desk[b]}
  BY DEF TicketInv
<1>2. \A b \in Agent : AgentFits(desk'[b])
  BY <1>1 DEF AgentsFit
<1>3. AgentsFit'
  BY <1>2 DEF AgentsFit, AgentFits
<1>4. TicketsSeenAlike
  BY DEF TicketsSeenAlike, TicketSaid, TicketFirst
<1>5. QED
  BY <1>3, <1>4

\* A row of the table is not None, and its thread is one.
LEMMA TicketStored ==
    ASSUME TicketInv, NEW row \in TicketsBy(stamp)
    PROVE  /\ row \in TicketRow /\ row # None /\ row.messages # None
           /\ row.messages \in Seq(Message)
           /\ row.firstResponse \in (1..MaxStamp) \cup {None}
<1>1. stamp \in Nat /\ MaxStamp \in Nat /\ stamp <= MaxStamp
  BY TicketsAssumption DEF TicketInv
<1>2. row.messages \in Thread
  BY <1>1, TicketColumns, ThreadIsShort
<1>3. row.firstResponse \in (1..MaxStamp) \cup {None}
  BY <1>1, TicketColumns
<1>4. row \in TicketRow
  BY <1>2, <1>3, TicketColumns DEF TicketRow
<1>5. QED
  BY <1>2, <1>3, <1>4, TicketColumns, TicketRowAssumption

\* One ticket changes, and Conversation sees the thread it has now.
LEMMA TicketSeen ==
    ASSUME TicketInv, alone, alone' = alone, NEW t \in TicketId, NEW row,
           row # None, tickets' = [tickets EXCEPT ![t] = row]
    PROVE  /\ TicketSaid' = [TicketSaid EXCEPT ![t] = row.messages]
           /\ TicketFirst' = [TicketFirst EXCEPT ![t] = row.firstResponse]
<1>1. \A s \in TicketId : tickets'[s] = IF s = t THEN row ELSE tickets[s]
  BY DEF TicketInv
<1>2. \A s \in TicketId :
          TicketSaid'[s] = IF s = t THEN row.messages ELSE TicketSaid[s]
  BY <1>1 DEF TicketSaid
<1>3. \A s \in TicketId :
          TicketFirst'[s] = IF s = t THEN row.firstResponse ELSE TicketFirst[s]
  BY <1>1 DEF TicketFirst
<1>4. /\ TicketSaid = [s \in TicketId |-> TicketSaid[s]]
      /\ TicketSaid' = [s \in TicketId |-> TicketSaid'[s]]
  BY DEF TicketSaid
<1>5. /\ TicketFirst = [s \in TicketId |-> TicketFirst[s]]
      /\ TicketFirst' = [s \in TicketId |-> TicketFirst'[s]]
  BY DEF TicketFirst
<1>6. QED
  BY <1>2, <1>3, <1>4, <1>5

\* A thread is opened, on what Conversation sees.
LEMMA TicketOpens ==
    ASSUME NEW t \in TicketId, TicketSaid[t] = None,
           TicketSaid' = [TicketSaid EXCEPT ![t] = <<>>],
           TicketFirst' = TicketFirst
    PROVE  TicketTalk!Next
<1>1. TicketTalk!Open(t)
  BY DEF TicketTalk!Open, TicketSaid, TicketFirst
<1>2. QED
  BY <1>1 DEF TicketTalk!Next

\* A message is added, on what Conversation sees.
LEMMA TicketSays ==
    ASSUME NEW t \in TicketId, NEW m \in Message, NEW list \in Seq(Message),
           TicketSaid[t] = list, list # None, Later(Dates(list), m.at),
           TicketSaid' = [TicketSaid EXCEPT ![t] = Append(list, m)],
           TicketFirst' = [TicketFirst EXCEPT ![t] =
                              IF TicketFirst[t] = None THEN m.at
                              ELSE TicketFirst[t]]
    PROVE  TicketTalk!Next
<1>1. m.at \in Nat /\ m.at > 0
  BY TicketsAssumption DEF Message
<1>2. list # <<>> => /\ list[Len(list)] \in Message
                     /\ m.at > list[Len(list)].at
  <2>1. SUFFICES ASSUME list # <<>>
                 PROVE  /\ list[Len(list)] \in Message
                        /\ m.at > list[Len(list)].at
    OBVIOUS
  <2>2. PICK k : k = Len(list)
    OBVIOUS
  <2>3. k \in DOMAIN list
    BY <2>1, <2>2
  <2>4. /\ DOMAIN Dates(list) = DOMAIN list /\ Dates(list)[k] = list[k].at
        /\ list[k] \in Message
    BY <2>3, DatesOf
  <2>5. list[k].at < m.at /\ list[k].at \in Nat
    BY <2>3, <2>4, TicketsAssumption DEF Later, Message
  <2>6. QED
    BY <1>1, <2>2, <2>4, <2>5
<1>3. [x \in Message |-> x.at][m] > TicketTalk!Last(t)
  <2>1. CASE list = <<>>
    BY <1>1, <2>1 DEF TicketTalk!Last, TicketSaid
  <2>2. CASE list # <<>>
    <3>1. TicketTalk!Last(t) = [x \in Message |-> x.at][list[Len(list)]]
      BY <2>2 DEF TicketTalk!Last, TicketSaid
    <3>2. QED
      BY <1>2, <2>2, <3>1
  <2>3. QED
    BY <2>1, <2>2
<1>4. TicketTalk!Say(t, m)
  BY <1>3 DEF TicketTalk!Say, TicketSaid, TicketFirst
<1>5. QED
  BY <1>4 DEF TicketTalk!Next

\* An agent has loaded a ticket and will save entity.
LEMMA AgentTakesFit ==
    ASSUME TicketInv, AgentsFit, NEW a \in Agent, NEW t \in TicketId,
           NEW entity, tickets[t] # None, Answers(tickets[t], entity),
           Desk!Take(a, t, entity), alone' = alone
    PROVE  AgentsFit' /\ TicketsSeenAlike
<1>1. PICK x : x = [Desk!Idle EXCEPT !.pc = "reload", !.key = t,
                                     !.entity = entity]
  OBVIOUS
<1>2. x = [pc |-> "reload", key |-> t, entity |-> entity, cols |-> {}]
  BY <1>1 DEF Desk!Idle
<1>3. AgentFits(x)
  BY <1>2 DEF AgentFits
<1>4. desk' = [desk EXCEPT ![a] = x] /\ tickets' = tickets
  BY <1>1 DEF Desk!Take
<1>5. QED
  BY <1>3, <1>4, AgentQuiet

\* save finds the row it was loaded from, and every column that differs.
LEMMA AgentReloadsFit ==
    ASSUME TicketInv, AgentsFit, NEW a \in Agent, ReloadTicket(a),
           alone' = alone
    PROVE  AgentsFit' /\ TicketsSeenAlike
<1>1. PICK was, row : was = desk[a] /\ row = tickets[was.key]
  OBVIOUS
<1>2. /\ was.pc = "reload" /\ AgentOK(was, stamp) /\ AgentFits(was)
      /\ tickets' = tickets
  BY <1>1 DEF ReloadTicket, Desk!Reload, TicketInv, AgentsFit
<1>3. /\ was.key \in TicketId
      /\ was = [pc |-> was.pc, key |-> was.key, entity |-> was.entity,
                cols |-> was.cols]
  BY <1>2, AgentBusy
<1>4. row # None /\ Answers(row, was.entity)
  BY <1>1, <1>2 DEF AgentFits
<1>5. PICK cols : cols = Desk!Changed(row, was.entity)
                             \ Desk!Undefined(was.entity)
  OBVIOUS
<1>6. row \in TicketsBy(stamp)
  BY <1>1, <1>3, <1>4 DEF TicketInv
<1>7. DOMAIN row = TicketColumn
  BY <1>6, TicketColumns DEF TicketColumn
<1>8. \A c \in TicketColumn : c \in cols \/ row[c] = was.entity[c]
  BY <1>5, <1>7 DEF Desk!Changed, Desk!Undefined
<1>9. PICK x : x = [was EXCEPT !.pc = "write", !.cols = cols]
  OBVIOUS
<1>10. x = [pc |-> "write", key |-> was.key, entity |-> was.entity,
            cols |-> cols]
  BY <1>3, <1>9
<1>11. AgentFits(x)
  BY <1>1, <1>4, <1>8, <1>10 DEF AgentFits, TicketColumn
<1>12. desk' = [desk EXCEPT ![a] = x]
  BY <1>1, <1>4, <1>5, <1>9, ReloadTicket(a) DEF ReloadTicket, Desk!Reload
<1>13. QED
  BY <1>2, <1>11, <1>12, AgentQuiet

\* The save of the only request in progress adds the message it brings to the
\* thread it has read.
LEMMA AgentWritesFit ==
    ASSUME TicketInv, AgentsFit, OneAgent, alone, alone' = alone,
           NEW a \in Agent, WriteTicket(a)
    PROVE  AgentsFit' /\ (TicketTalk!Next \/ TicketsSeenAlike)
<1>1. PICK was, k, e : was = desk[a] /\ k = was.key /\ e = was.entity
  OBVIOUS
<1>2. PICK old, row : old = tickets[k] /\ row = Desk!Patch(old, e, was.cols)
  OBVIOUS
<1>3. /\ was.pc = "write" /\ AgentOK(was, stamp) /\ AgentFits(was)
      /\ stamp \in Nat
  BY <1>1, TicketsAssumption
  DEF WriteTicket, Desk!Write, TicketInv, AgentsFit, AgentFits
<1>4. k \in TicketId /\ e \in TicketsBy(stamp)
  BY <1>1, <1>3, AgentBusy
<1>5. /\ old # None /\ Answers(old, e)
      /\ \A c \in {"messages", "firstResponse"} :
            c \in was.cols \/ old[c] = e[c]
  BY <1>1, <1>2, <1>3 DEF AgentFits
<1>6. old \in TicketsBy(stamp)
  BY <1>2, <1>4, <1>5 DEF TicketInv
<1>7. /\ row \in TicketsBy(stamp)
      /\ row.messages = e.messages /\ row.firstResponse = e.firstResponse
  <2>1. row \in TicketsBy(stamp)
    BY <1>2, <1>4, <1>6, TicketPatched
  <2>2. /\ row.messages = IF "messages" \in was.cols THEN e.messages
                          ELSE old.messages
        /\ row.firstResponse = IF "firstResponse" \in was.cols
                               THEN e.firstResponse ELSE old.firstResponse
    BY <1>2, <1>4, <1>6, TicketPatched
  <2>3. /\ "messages" \in was.cols \/ old.messages = e.messages
        /\ "firstResponse" \in was.cols \/ old.firstResponse = e.firstResponse
    BY <1>5
  <2>4. QED
    BY <2>1, <2>2, <2>3
<1>8. /\ row # None
      /\ old.messages # None /\ old.messages \in Seq(Message)
      /\ old.firstResponse \in (1..MaxStamp) \cup {None}
  BY <1>6, <1>7, TicketStored
<1>9. /\ tickets' = [tickets EXCEPT ![k] = row]
      /\ desk' = [desk EXCEPT ![a] = Desk!Idle]
  <2>1. Desk!Saved(was, old) = row
    BY <1>2, <1>3, <1>5, <1>1 DEF Desk!Saved
  <2>2. QED
    BY <1>1, <1>2, <2>1 DEF WriteTicket, Desk!Write
<1>10. AgentsFit'
  <2>1. desk[a] # Desk!Idle
    BY <1>1, <1>3 DEF Desk!Idle
  <2>2. \A b \in Agent : desk'[b] = Desk!Idle
    BY <1>9, <2>1 DEF OneAgent, TicketInv
  <2>3. QED
    BY <2>2 DEF AgentsFit, AgentFits, Desk!Idle
<1>11. /\ TicketSaid' = [TicketSaid EXCEPT ![k] = e.messages]
       /\ TicketFirst' = [TicketFirst EXCEPT ![k] = e.firstResponse]
  <2>1. /\ TicketSaid' = [TicketSaid EXCEPT ![k] = row.messages]
        /\ TicketFirst' = [TicketFirst EXCEPT ![k] = row.firstResponse]
    BY <1>4, <1>8, <1>9, TicketSeen
  <2>2. QED
    BY <1>7, <2>1
<1>12. /\ TicketSaid[k] = old.messages /\ TicketFirst[k] = old.firstResponse
       /\ TicketSaid = [t \in TicketId |-> TicketSaid[t]]
       /\ TicketFirst = [t \in TicketId |-> TicketFirst[t]]
  BY <1>2, <1>4, <1>5 DEF TicketSaid, TicketFirst
<1>13. CASE /\ e.messages = old.messages
            /\ e.firstResponse = old.firstResponse
  <2>1. TicketSaid' = TicketSaid /\ TicketFirst' = TicketFirst
    BY <1>4, <1>11, <1>12, <1>13
  <2>2. QED
    BY <1>10, <2>1 DEF TicketsSeenAlike
<1>14. ASSUME NEW m \in Message, Later(Dates(old.messages), m.at),
              e.messages = Append(old.messages, m),
              e.firstResponse = IF old.firstResponse = None THEN m.at
                                ELSE old.firstResponse
       PROVE  TicketTalk!Next
  <2>1. PICK list : list = old.messages
    OBVIOUS
  <2>2. /\ list \in Seq(Message) /\ list # None
        /\ Later(Dates(list), m.at)
        /\ TicketSaid[k] = list
    BY <1>8, <1>12, <1>14, <2>1
  <2>3. TicketSaid' = [TicketSaid EXCEPT ![k] = Append(list, m)]
    BY <1>11, <1>14, <2>1
  <2>4. TicketFirst' = [TicketFirst EXCEPT ![k] =
                            IF TicketFirst[k] = None THEN m.at
                            ELSE TicketFirst[k]]
    BY <1>11, <1>12, <1>14
  <2>5. QED
    BY <1>4, <2>2, <2>3, <2>4, TicketSays
<1>15. QED
  BY <1>5, <1>10, <1>13, <1>14 DEF Answers

\* What a request that says nothing has loaded, it saves.
LEMMA SilentAnswers ==
    ASSUME NEW row, NEW entity, entity.messages = row.messages,
           entity.firstResponse = row.firstResponse
    PROVE  Answers(row, entity)
BY DEF Answers

\* The entities that the operations on a ticket save.
LEMMA TicketAnswers ==
    ASSUME NEW n, NEW row \in TicketsBy(n)
    PROVE  /\ \A p : Answers(row, Assigned(row, p))
           /\ Answers(row, [row EXCEPT !.status = "resolved",
                                      !.resolved = TRUE])
           /\ Answers(row, [row EXCEPT !.status = "closed"])
           /\ Answers(row, [row EXCEPT !.priority = "critical"])
           /\ \A m \in Message :
                 Later(Dates(row.messages), m.at)
                     => Answers(row, Replied(row, m))
<1>1. row = [status |-> row.status, priority |-> row.priority,
             due |-> row.due, assignedTo |-> row.assignedTo,
             messages |-> row.messages, firstResponse |-> row.firstResponse,
             resolved |-> row.resolved]
  BY TicketColumns
<1>2. ASSUME NEW p
      PROVE  Answers(row, Assigned(row, p))
  <2>1. /\ Assigned(row, p).messages = row.messages
        /\ Assigned(row, p).firstResponse = row.firstResponse
    BY <1>1 DEF Assigned
  <2>2. QED
    BY <2>1, SilentAnswers
<1>3. PICK x, y, z :
        /\ x = [row EXCEPT !.status = "resolved", !.resolved = TRUE]
        /\ y = [row EXCEPT !.status = "closed"]
        /\ z = [row EXCEPT !.priority = "critical"]
  OBVIOUS
<1>4. /\ x.messages = row.messages /\ x.firstResponse = row.firstResponse
      /\ y.messages = row.messages /\ y.firstResponse = row.firstResponse
      /\ z.messages = row.messages /\ z.firstResponse = row.firstResponse
  BY <1>1, <1>3
<1>5. Answers(row, x) /\ Answers(row, y) /\ Answers(row, z)
  BY <1>4, SilentAnswers
<1>6. ASSUME NEW m \in Message, Later(Dates(row.messages), m.at)
      PROVE  Answers(row, Replied(row, m))
  <2>1. PICK entity : entity = Replied(row, m)
    OBVIOUS
  <2>2. /\ entity.messages = Append(row.messages, m)
        /\ entity.firstResponse = IF row.firstResponse = None THEN m.at
                                  ELSE row.firstResponse
    BY <1>1, <2>1 DEF Replied
  <2>3. Answers(row, entity)
    BY <1>6, <2>2 DEF Answers
  <2>4. QED
    BY <2>1, <2>3
<1>7. QED
  BY <1>2, <1>3, <1>5, <1>6

\* A ticket is created with an empty thread.
LEMMA TicketCreated ==
    ASSUME TicketInv, AgentsFit, alone, alone' = alone, NEW a \in Agent,
           NEW priority \in AskedPriority, CreateTicket(a, priority)
    PROVE  AgentsFit' /\ TicketTalk!Next
<1>1. PICK row : row = NewTicket(priority)
  OBVIOUS
<1>2. PICK t \in TicketId : /\ tickets[t] = None /\ desk' = desk
                            /\ tickets' = [tickets EXCEPT ![t] = row]
  BY <1>1 DEF CreateTicket, Desk!Insert
<1>3. row.messages = <<>> /\ row.firstResponse = None
  BY <1>1 DEF NewTicket
<1>4. row # None
  <2>1. priority \in TicketPriority
    BY TicketRowAssumption
  <2>2. << >> \in Seq(Message) /\ Dated(Dates(<< >>), stamp)
    BY DEF Dated, Dates
  <2>3. row \in TicketsBy(stamp)
    BY <1>1, <2>1, <2>2, TicketMade DEF NewTicket, TicketStatus
  <2>4. QED
    BY <2>3, TicketStored
<1>5. AgentsFit'
  <2>1. \A s \in TicketId : tickets[s] # None => tickets'[s] = tickets[s]
    BY <1>2 DEF TicketInv
  <2>2. \A b \in Agent : desk[b].pc \in {"reload", "write"}
            => desk[b].key \in TicketId
    BY AgentBusy DEF TicketInv
  <2>3. QED
    BY <1>2, <2>1, <2>2 DEF AgentsFit, AgentFits
<1>6. /\ TicketSaid' = [TicketSaid EXCEPT ![t] = row.messages]
      /\ TicketFirst' = [TicketFirst EXCEPT ![t] = row.firstResponse]
  BY <1>2, <1>4, TicketSeen
<1>7. /\ TicketSaid[t] = None /\ TicketFirst[t] = None
      /\ TicketFirst = [s \in TicketId |-> TicketFirst[s]]
  BY <1>2 DEF TicketSaid, TicketFirst
<1>8. /\ TicketSaid' = [TicketSaid EXCEPT ![t] = <<>>]
      /\ TicketFirst' = TicketFirst
  BY <1>3, <1>6, <1>7
<1>9. QED
  BY <1>5, <1>7, <1>8, TicketOpens

\* A step of support-service while no two requests overlap is a step of a
\* conversation, or its readers see nothing of it.
LEMMA TicketTalks ==
    ASSUME TicketInv, AgentsFit, OneAgent, alone, alone' = alone, TicketNext
    PROVE  AgentsFit' /\ (TicketTalk!Next \/ TicketsSeenAlike)
<1> PICK a \in Agent :
        \/ \E priority \in AskedPriority : CreateTicket(a, priority)
        \/ \E t \in Desk!Stored :
              \/ Reply(a, t) \/ Resolve(a, t) \/ Close(a, t) \/ Escalate(a, t)
              \/ \E p \in Supporter : AssignTicket(a, t, p)
        \/ ReloadTicket(a)
        \/ WriteTicket(a)
        \/ TicketFails(a)
  BY DEF TicketNext
<1>1. ASSUME NEW t \in Desk!Stored
      PROVE  /\ t \in TicketId /\ tickets[t] # None
             /\ tickets[t] \in TicketsBy(stamp)
  BY DEF TicketInv, Desk!Stored
<1>2. ASSUME NEW t \in Desk!Stored, NEW entity,
             Answers(tickets[t], entity), Desk!Take(a, t, entity)
      PROVE  AgentsFit' /\ TicketsSeenAlike
  BY <1>1, <1>2, AgentTakesFit
<1>3. ASSUME NEW t \in Desk!Stored, Reply(a, t)
      PROVE  AgentsFit' /\ TicketsSeenAlike
  <2>1. PICK row : row = tickets[t]
    OBVIOUS
  <2>2. row \in TicketsBy(stamp)
    BY <1>1, <2>1
  <2>3. PICK m \in Message :
            /\ m.at = stamp + 1
            /\ Desk!Take(a, t, Replied(row, m))
    <3>1. stamp + 1 \in 1..MaxStamp /\ stamp' = stamp + 1
      BY <1>3, TicketsAssumption DEF Reply, TicketInv
    <3>2. PICK outbound \in BOOLEAN :
              Desk!Take(a, t, Replied(row, [at |-> stamp + 1,
                                            outbound |-> outbound]))
      BY <1>3, <2>1, <3>1 DEF Reply
    <3>3. [at |-> stamp + 1, outbound |-> outbound] \in Message
      BY <3>1 DEF Message
    <3>4. QED
      BY <3>2, <3>3
  <2>4. Dates(row.messages) \in Seq(Nat) /\ Dated(Dates(row.messages), stamp)
    BY <2>2, TicketColumns, DatesOf
  <2>5. Later(Dates(row.messages), m.at)
    <3>1. stamp \in Nat
      BY TicketsAssumption DEF TicketInv
    <3>2. \A i \in DOMAIN Dates(row.messages) :
              /\ Dates(row.messages)[i] \in Nat
              /\ Dates(row.messages)[i] <= stamp
      BY <2>4 DEF Dated
    <3>3. QED
      BY <2>3, <3>1, <3>2 DEF Later
  <2>6. Answers(row, Replied(row, m))
    BY <2>2, <2>5, TicketAnswers
  <2>7. QED
    BY <1>2, <2>1, <2>3, <2>6
<1>4. ASSUME NEW t \in Desk!Stored,
             \/ Resolve(a, t) \/ Close(a, t) \/ Escalate(a, t)
             \/ \E p \in Supporter : AssignTicket(a, t, p)
      PROVE  AgentsFit' /\ TicketsSeenAlike
  BY <1>1, <1>2, <1>4, TicketAnswers
  DEF Resolve, Close, Escalate, AssignTicket, SaveTicket
<1>5. CASE TicketFails(a)
  BY <1>5, IdleFits, AgentQuiet DEF TicketFails
<1>6. QED
  BY <1>3, <1>4, <1>5, TicketCreated, AgentReloadsFit, AgentWritesFit

\* No ticket and no request at the start.
LEMMA TicketTalkStart ==
    ASSUME TicketInit
    PROVE  AgentsFit /\ TicketTalk!Init
<1>1. AgentsFit
  BY IdleFits DEF TicketInit, AgentsFit
<1>2. TicketTalk!Init
  BY DEF TicketInit, TicketTalk!Init
<1>3. QED
  BY <1>1, <1>2

-----------------------------------------------------------------------------
(* Conversations on tasks                                                  *)

\* What a request leaves in the entity of a task it has loaded: the comments
\* as they were, or one more.
Adds(row, entity) ==
    \/ entity.comments = row.comments
    \/ \E c \in 1..MaxComment :
          Later(row.comments, c) /\ entity.comments = Append(row.comments, c)

\* A request in progress and the row it was loaded from, as nobody else
\* saves: only the deletion of the event takes the row away.
MemberFits(handler) ==
    \/ eventGone
    \/ /\ handler.pc # "insert"
       /\ handler.pc \in {"reload", "write"} =>
             /\ tasks[handler.key] # None
             /\ Adds(tasks[handler.key], handler.entity)
       /\ handler.pc = "write" =>
             \/ "comments" \in handler.cols
             \/ tasks[handler.key].comments = handler.entity.comments

\* No two members at once.
OneMember == \A a, b \in Member :
                board[a] # Board!Idle /\ board[b] # Board!Idle => a = b

\* The inductive invariant of the conversations on tasks.
MembersFit ==
    /\ \A t \in TaskId : tasks[t] # None => t \in taskKeys
    /\ \A m \in Member : MemberFits(board[m])

\* What Conversation sees of the tasks.
TaskSaid == [t \in TaskId |-> IF alone /\ tasks[t] # None
                              THEN tasks[t].comments ELSE None]

TaskFirst == [t \in TaskId |-> IF alone /\ tasks[t] # None
                               THEN FirstComment(t) ELSE None]

TaskGone == IF alone THEN {t \in taskKeys : tasks[t] = None} ELSE {}

TasksSeenAlike == /\ TaskSaid' = TaskSaid /\ TaskFirst' = TaskFirst
                  /\ TaskGone' = TaskGone

\* A request that has ended fits.
LEMMA EndedFits == MemberFits(Board!Idle)
BY DEF MemberFits, Board!Idle

\* A step of one member that writes no task.
LEMMA MemberQuiet ==
    ASSUME TaskInv, MembersFit, NEW m \in Member, NEW x, MemberFits(x),
           board' = [board EXCEPT ![m] = x], tasks' = tasks, alone' = alone,
           taskKeys' = taskKeys, eventGone' = eventGone
    PROVE  MembersFit' /\ TasksSeenAlike
<1>1. \A b \in Member : board'[b] \in {x, board[b]}
  BY DEF TaskInv
<1>2. \A b \in Member : MemberFits(board'[b])
  BY <1>1 DEF MembersFit
<1>3. MembersFit'
  BY <1>2 DEF MembersFit, MemberFits
<1>4. TasksSeenAlike
  BY DEF TasksSeenAlike, TaskSaid, TaskFirst, TaskGone, FirstComment
<1>5. QED
  BY <1>3, <1>4

\* A row of the table is not None, and its comments are a list.
LEMMA TaskStored ==
    ASSUME TaskInv, NEW row \in TasksBy(written)
    PROVE  /\ row \in TaskRow /\ row # None /\ row.comments # None
           /\ row.comments \in Seq(1..MaxComment)
           /\ \A i \in DOMAIN row.comments : row.comments[i] # None
<1>1. written \in Nat /\ MaxComment \in Nat /\ written <= MaxComment
  BY TaskBoardAssumption DEF TaskInv
<1>2. row.comments \in Comments
  BY <1>1, TaskColumns, DatedIsShort DEF Comments
<1>3. row \in TaskRow
  BY <1>2, TaskColumns DEF TaskRow
<1>4. \A i \in DOMAIN row.comments : row.comments[i] \in Nat
  BY TaskColumns DEF Dated
<1>5. row.comments \in Seq(1..MaxComment)
  BY <1>2, TaskBoardAssumption DEF Comments
<1>6. QED
  BY <1>2, <1>3, <1>4, <1>5, TaskColumns, TaskRowAssumption,
     TaskBoardAssumption

\* One task changes, and Conversation sees the comments it has now.
LEMMA TaskShows ==
    ASSUME TaskInv, alone, alone' = alone, NEW t \in TaskId, NEW row,
           row # None, tasks' = [tasks EXCEPT ![t] = row]
    PROVE  /\ TaskSaid' = [TaskSaid EXCEPT ![t] = row.comments]
           /\ TaskFirst' = [TaskFirst EXCEPT ![t] =
                               IF row.comments = <<>> THEN None
                               ELSE row.comments[1]]
<1>1. \A s \in TaskId : tasks'[s] = IF s = t THEN row ELSE tasks[s]
  BY DEF TaskInv
<1>2. \A s \in TaskId :
          TaskSaid'[s] = IF s = t THEN row.comments ELSE TaskSaid[s]
  BY <1>1 DEF TaskSaid
<1>3. PICK one : one = IF row.comments = <<>> THEN None ELSE row.comments[1]
  OBVIOUS
<1>4. \A s \in TaskId : TaskFirst'[s] = IF s = t THEN one ELSE TaskFirst[s]
  BY <1>1, <1>3 DEF TaskFirst, FirstComment
<1>5. /\ TaskSaid = [s \in TaskId |-> TaskSaid[s]]
      /\ TaskSaid' = [s \in TaskId |-> TaskSaid'[s]]
  BY DEF TaskSaid
<1>6. /\ TaskFirst = [s \in TaskId |-> TaskFirst[s]]
      /\ TaskFirst' = [s \in TaskId |-> TaskFirst'[s]]
  BY DEF TaskFirst
<1>7. TaskFirst' = [TaskFirst EXCEPT ![t] = one]
  BY <1>4, <1>6
<1>8. QED
  BY <1>2, <1>3, <1>5, <1>7

\* A list of comments is opened, on what Conversation sees.
LEMMA TaskOpens ==
    ASSUME NEW t \in TaskId, TaskSaid[t] = None, t \notin TaskGone,
           TaskSaid' = [TaskSaid EXCEPT ![t] = <<>>],
           TaskFirst' = TaskFirst, TaskGone' = TaskGone
    PROVE  TaskTalk!Next
<1>1. TaskTalk!Open(t)
  BY DEF TaskTalk!Open, TaskSaid, TaskFirst, TaskGone
<1>2. QED
  BY <1>1 DEF TaskTalk!Next

\* A comment is added, on what Conversation sees.
LEMMA TaskSays ==
    ASSUME NEW t \in TaskId, NEW c \in 1..MaxComment,
           NEW list \in Seq(1..MaxComment),
           TaskSaid[t] = list, list # None, Later(list, c),
           TaskSaid' = [TaskSaid EXCEPT ![t] = Append(list, c)],
           TaskFirst' = [TaskFirst EXCEPT ![t] =
                            IF TaskFirst[t] = None THEN c ELSE TaskFirst[t]],
           TaskGone' = TaskGone
    PROVE  TaskTalk!Next
<1>1. c \in Nat /\ c > 0
  BY TaskBoardAssumption
<1>2. list # <<>> => c > list[Len(list)]
  BY <1>1 DEF Later
<1>3. [x \in 1..MaxComment |-> x][c] > TaskTalk!Last(t)
  <2>1. CASE list = <<>>
    BY <1>1, <2>1 DEF TaskTalk!Last, TaskSaid
  <2>2. CASE list # <<>>
    <3>1. TaskTalk!Last(t) = [x \in 1..MaxComment |-> x][list[Len(list)]]
      BY <2>2 DEF TaskTalk!Last, TaskSaid
    <3>2. list[Len(list)] \in 1..MaxComment
      BY <2>2, TaskBoardAssumption
    <3>3. QED
      BY <1>2, <2>2, <3>1, <3>2
  <2>3. QED
    BY <2>1, <2>2
<1>4. TaskTalk!Say(t, c)
  BY <1>3 DEF TaskTalk!Say, TaskSaid, TaskFirst, TaskGone
<1>5. QED
  BY <1>4 DEF TaskTalk!Next

\* Lists of comments are discarded, on what Conversation sees.
LEMMA TasksDrop ==
    ASSUME NEW dropped \in SUBSET TaskId,
           \A t \in dropped : TaskSaid[t] # None,
           TaskSaid' = [t \in TaskId |-> IF t \in dropped THEN None
                                         ELSE TaskSaid[t]],
           TaskFirst' = [t \in TaskId |-> IF t \in dropped THEN None
                                          ELSE TaskFirst[t]],
           TaskGone' = TaskGone \cup dropped
    PROVE  TaskTalk!Next
<1>1. TaskTalk!Discard(dropped)
  BY DEF TaskTalk!Discard, TaskSaid, TaskFirst, TaskGone
<1>2. QED
  BY <1>1 DEF TaskTalk!Next

\* A member has loaded a task and will save entity.
LEMMA MemberTakesFit ==
    ASSUME TaskInv, MembersFit, NEW m \in Member, NEW t \in TaskId,
           NEW entity, tasks[t] # None, Adds(tasks[t], entity),
           Board!Take(m, t, entity), alone' = alone, taskKeys' = taskKeys,
           eventGone' = eventGone
    PROVE  MembersFit' /\ TasksSeenAlike
<1>1. PICK x : x = [Board!Idle EXCEPT !.pc = "reload", !.key = t,
                                      !.entity = entity]
  OBVIOUS
<1>2. x = [pc |-> "reload", key |-> t, entity |-> entity, cols |-> {}]
  BY <1>1 DEF Board!Idle
<1>3. MemberFits(x)
  BY <1>2 DEF MemberFits
<1>4. board' = [board EXCEPT ![m] = x] /\ tasks' = tasks
  BY <1>1 DEF Board!Take
<1>5. QED
  BY <1>3, <1>4, MemberQuiet

\* save finds the row it was loaded from, unless the event is gone, and every
\* column that differs.
LEMMA MemberReloadsFit ==
    ASSUME TaskInv, MembersFit, NEW m \in Member, ReloadTask(m),
           alone' = alone
    PROVE  MembersFit' /\ TasksSeenAlike
<1>1. PICK was, row : was = board[m] /\ row = tasks[was.key]
  OBVIOUS
<1>2. /\ was.pc = "reload" /\ MemberOK(was, written) /\ MemberFits(was)
      /\ tasks' = tasks /\ taskKeys' = taskKeys /\ eventGone' = eventGone
  BY <1>1 DEF ReloadTask, Board!Reload, TaskInv, MembersFit
<1>3. /\ was.key \in TaskId
      /\ was = [pc |-> was.pc, key |-> was.key, entity |-> was.entity,
                cols |-> was.cols]
  BY <1>2, MemberBusy
<1>4. CASE row = None
  <2>1. eventGone
    BY <1>1, <1>2, <1>4 DEF MemberFits
  <2>2. board' = [board EXCEPT ![m].pc = "insert"]
    BY <1>1, <1>4, ReloadTask(m) DEF ReloadTask, Board!Reload
  <2>3. PICK x : x = [board[m] EXCEPT !.pc = "insert"]
    OBVIOUS
  <2>4. board' = [board EXCEPT ![m] = x]
    BY <2>2, <2>3
  <2>5. MemberFits(x)
    BY <2>1 DEF MemberFits
  <2>6. QED
    BY <1>2, <2>4, <2>5, MemberQuiet
<1>5. CASE row # None
  <2>1. row \in TasksBy(written) /\ ~eventGone
    BY <1>1, <1>3, <1>5 DEF TaskInv
  <2>2. Adds(row, was.entity)
    BY <1>1, <1>2, <2>1 DEF MemberFits
  <2>3. PICK cols : cols = Board!Changed(row, was.entity)
                               \ Board!Undefined(was.entity)
    OBVIOUS
  <2>4. "comments" \in DOMAIN row
    BY <2>1, TaskColumns
  <2>5. "comments" \in cols \/ row.comments = was.entity.comments
    BY <2>3, <2>4 DEF Board!Changed, Board!Undefined
  <2>6. PICK x : x = [was EXCEPT !.pc = "write", !.cols = cols]
    OBVIOUS
  <2>7. x = [pc |-> "write", key |-> was.key, entity |-> was.entity,
             cols |-> cols]
    BY <1>3, <2>6
  <2>8. MemberFits(x)
    BY <1>1, <1>5, <2>2, <2>5, <2>7 DEF MemberFits
  <2>9. board' = [board EXCEPT ![m] = x]
    BY <1>1, <1>5, <2>3, <2>6, ReloadTask(m) DEF ReloadTask, Board!Reload
  <2>10. QED
    BY <1>2, <2>8, <2>9, MemberQuiet
<1>6. QED
  BY <1>4, <1>5

\* When the only request in progress ends, none is left to fit.
LEMMA LastOneFits ==
    ASSUME TaskInv, OneMember, NEW m \in Member, board[m] # Board!Idle,
           board' = [board EXCEPT ![m] = Board!Idle],
           \A t \in TaskId : tasks'[t] # None => t \in taskKeys'
    PROVE  MembersFit'
<1>1. \A b \in Member : board'[b] = Board!Idle
  BY DEF OneMember, TaskInv
<1>2. QED
  BY <1>1 DEF MembersFit, MemberFits, Board!Idle

\* The save of the only request in progress adds the comment it brings to the
\* list it has read.
LEMMA MemberWritesFit ==
    ASSUME TaskInv, MembersFit, OneMember, alone, alone' = alone,
           NEW m \in Member, WriteTask(m)
    PROVE  MembersFit' /\ (TaskTalk!Next \/ TasksSeenAlike)
<1>1. PICK was, k, e : was = board[m] /\ k = was.key /\ e = was.entity
  OBVIOUS
<1>2. PICK old, row : old = tasks[k] /\ row = Board!Patch(old, e, was.cols)
  OBVIOUS
<1>3. /\ was.pc = "write" /\ MemberOK(was, written) /\ MemberFits(was)
      /\ board' = [board EXCEPT ![m] = Board!Idle]
      /\ tasks' = [tasks EXCEPT ![k] = Board!Saved(was, old)]
      /\ taskKeys' = taskKeys /\ eventGone' = eventGone
  BY <1>1, <1>2 DEF WriteTask, Board!Write, TaskInv, MembersFit, MemberFits
<1>4. k \in TaskId /\ e \in TasksBy(written)
  BY <1>1, <1>3, MemberBusy
<1>5. board[m] # Board!Idle
  BY <1>1, <1>3 DEF Board!Idle
<1>6. CASE old = None
  <2>1. Board!Saved(was, old) = old
    BY <1>3, <1>6 DEF Board!Saved
  <2>2. tasks' = tasks
    BY <1>2, <1>3, <1>4, <2>1 DEF TaskInv
  <2>3. MembersFit'
    BY <1>3, <1>5, <2>2, LastOneFits DEF MembersFit
  <2>4. TasksSeenAlike
    BY <1>3, <2>2 DEF TasksSeenAlike, TaskSaid, TaskFirst, TaskGone,
                      FirstComment
  <2>5. QED
    BY <2>3, <2>4
<1>7. CASE old # None
  <2>1. old \in TasksBy(written) /\ ~eventGone /\ k \in taskKeys
    BY <1>2, <1>4, <1>7 DEF TaskInv, MembersFit
  <2>2. /\ Adds(old, e)
        /\ "comments" \in was.cols \/ old.comments = e.comments
    BY <1>1, <1>2, <1>3, <2>1 DEF MemberFits
  <2>3. row \in TasksBy(written) /\ row.comments = e.comments
    BY <1>2, <1>4, <2>1, <2>2, TaskPatched
  <2>4. /\ row # None
        /\ old.comments # None /\ old.comments \in Seq(1..MaxComment)
        /\ \A i \in DOMAIN old.comments : old.comments[i] # None
    BY <2>1, <2>3, TaskStored
  <2>5. tasks' = [tasks EXCEPT ![k] = row]
    BY <1>1, <1>2, <1>3, <1>7 DEF Board!Saved
  <2>6. \A t \in TaskId : tasks'[t] = IF t = k THEN row ELSE tasks[t]
    BY <2>5 DEF TaskInv
  <2>7. MembersFit'
    BY <1>3, <1>5, <2>1, <2>6, LastOneFits DEF MembersFit
  <2>8. TaskGone' = TaskGone
    BY <1>2, <1>3, <1>7, <2>4, <2>6 DEF TaskGone, TaskInv
  <2>9. /\ TaskSaid' = [TaskSaid EXCEPT ![k] = row.comments]
        /\ TaskFirst' = [TaskFirst EXCEPT ![k] =
                            IF row.comments = <<>> THEN None
                            ELSE row.comments[1]]
    BY <1>4, <2>4, <2>5, TaskShows
  <2>10. /\ TaskSaid[k] = old.comments
         /\ TaskFirst[k] = IF old.comments = <<>> THEN None
                           ELSE old.comments[1]
         /\ TaskSaid = [t \in TaskId |-> TaskSaid[t]]
         /\ TaskFirst = [t \in TaskId |-> TaskFirst[t]]
    BY <1>2, <1>4, <1>7 DEF TaskSaid, TaskFirst, FirstComment
  <2>11. CASE e.comments = old.comments
    <3>1. TaskSaid' = TaskSaid /\ TaskFirst' = TaskFirst
      BY <1>4, <2>3, <2>9, <2>10, <2>11
    <3>2. QED
      BY <2>7, <2>8, <3>1 DEF TasksSeenAlike
  <2>12. ASSUME NEW c \in 1..MaxComment, Later(old.comments, c),
                e.comments = Append(old.comments, c)
         PROVE  TaskTalk!Next
    <3>1. PICK list : list = old.comments
      OBVIOUS
    <3>2. /\ list \in Seq(1..MaxComment) /\ list # None /\ Later(list, c)
          /\ TaskSaid[k] = list
      BY <2>4, <2>10, <2>12, <3>1
    <3>3. TaskSaid' = [TaskSaid EXCEPT ![k] = Append(list, c)]
      BY <2>3, <2>9, <2>12, <3>1
    <3>4. Append(list, c) # <<>>
          /\ Append(list, c)[1] = IF list = <<>> THEN c ELSE list[1]
      <4>1. /\ Len(list) \in Nat /\ Len(Append(list, c)) = Len(list) + 1
            /\ Len(list) = 0 <=> list = <<>>
        BY <2>12, <3>2
      <4>2. /\ \A i \in 1..Len(list) : Append(list, c)[i] = list[i]
            /\ Append(list, c)[Len(list) + 1] = c
        BY <2>12, <3>2
      <4>3. Append(list, c) # <<>>
        BY <4>1
      <4>4. Append(list, c)[1] = IF Len(list) = 0 THEN c ELSE list[1]
        BY <4>1, <4>2
      <4>5. QED
        BY <4>1, <4>3, <4>4
    <3>5. TaskFirst[k] = None <=> list = <<>>
      <4>1. list # <<>> => 1 \in DOMAIN list
        BY <3>2
      <4>2. QED
        BY <2>4, <2>10, <3>1, <4>1
    <3>6. TaskFirst' = [TaskFirst EXCEPT ![k] =
                            IF TaskFirst[k] = None THEN c ELSE TaskFirst[k]]
      BY <2>3, <2>9, <2>10, <2>12, <3>1, <3>4, <3>5
    <3>7. QED
      BY <1>4, <2>8, <3>2, <3>3, <3>6, TaskSays
  <2>13. QED
    BY <2>2, <2>7, <2>11, <2>12 DEF Adds
<1>8. QED
  BY <1>6, <1>7

\* A task is created with an empty list, under a key not used before.
LEMMA TaskCreated ==
    ASSUME TaskInv, MembersFit, alone, alone' = alone, NEW m \in Member,
           NEW priority \in NewPriority, NEW p \in Assignee \cup {None},
           CreateTask(m, priority, p)
    PROVE  MembersFit' /\ TaskTalk!Next
<1>1. PICK row : row = NewTask(priority, p)
  OBVIOUS
<1>2. PICK t \in TaskId \ taskKeys :
            /\ tasks[t] = None /\ board' = board
            /\ tasks' = [tasks EXCEPT ![t] = row]
            /\ taskKeys' = taskKeys \cup {t}
  BY <1>1 DEF CreateTask, Board!Insert
<1>3. ~eventGone /\ eventGone' = eventGone
  BY DEF CreateTask
<1>4. row.comments = <<>>
  BY <1>1 DEF NewTask
<1>5. row # None
  <2>1. priority \in TaskPriority
    BY TaskRowAssumption
  <2>2. << >> \in Seq(Nat) /\ Dated(<< >>, written)
    BY DEF Dated
  <2>3. row \in TasksBy(written)
    BY <1>1, <2>1, <2>2, TaskMade DEF NewTask, TaskStatus
  <2>4. QED
    BY <2>3, TaskStored
<1>6. \A s \in TaskId : tasks'[s] = IF s = t THEN row ELSE tasks[s]
  BY <1>2 DEF TaskInv
<1>7. MembersFit'
  <2>1. \A s \in TaskId : tasks[s] # None => tasks'[s] = tasks[s]
    BY <1>2, <1>6
  <2>2. \A b \in Member : board[b].pc \in {"reload", "write"}
            => board[b].key \in TaskId
    BY MemberBusy DEF TaskInv
  <2>3. \A b \in Member : MemberFits(board[b])'
    BY <1>2, <1>3, <2>1, <2>2 DEF MembersFit, MemberFits
  <2>4. \A s \in TaskId : tasks'[s] # None => s \in taskKeys'
    BY <1>2, <1>6 DEF MembersFit
  <2>5. QED
    BY <1>2, <2>3, <2>4 DEF MembersFit
<1>8. /\ TaskSaid' = [TaskSaid EXCEPT ![t] = <<>>]
      /\ TaskFirst' = [TaskFirst EXCEPT ![t] = None]
  BY <1>2, <1>4, <1>5, TaskShows
<1>9. /\ TaskSaid[t] = None /\ TaskFirst[t] = None
      /\ TaskFirst = [s \in TaskId |-> TaskFirst[s]]
  BY <1>2 DEF TaskSaid, TaskFirst
<1>10. TaskFirst' = TaskFirst
  BY <1>8, <1>9
<1>11. t \notin TaskGone /\ TaskGone' = TaskGone
  BY <1>2, <1>5, <1>6 DEF TaskGone, TaskInv
<1>12. QED
  BY <1>2, <1>7, <1>8, <1>9, <1>10, <1>11, TaskOpens

\* A task is deleted, with its comments and for good.
LEMMA TaskDropped ==
    ASSUME TaskInv, MembersFit, OneMember, alone, alone' = alone,
           NEW m \in Member, DeleteTask(m)
    PROVE  MembersFit' /\ (TaskTalk!Next \/ TasksSeenAlike)
<1>1. PICK k : k = board[m].key
  OBVIOUS
<1>2. /\ board[m].pc = "delete" /\ MemberOK(board[m], written)
      /\ tasks' = [tasks EXCEPT ![k] = None]
      /\ board' = [board EXCEPT ![m] = Board!Idle]
      /\ taskKeys' = taskKeys /\ eventGone' = eventGone
  BY <1>1 DEF DeleteTask, Board!Delete, TaskInv
<1>3. k \in TaskId
  BY <1>1, <1>2, MemberBusy
<1>4. \A s \in TaskId : tasks'[s] = IF s = k THEN None ELSE tasks[s]
  BY <1>2 DEF TaskInv
<1>5. MembersFit'
  <2>1. board[m] # Board!Idle
    BY <1>2 DEF Board!Idle
  <2>2. QED
    BY <1>2, <1>4, <2>1, LastOneFits DEF MembersFit
<1>6. CASE tasks[k] = None
  <2>1. tasks' = tasks
    BY <1>2, <1>3, <1>6 DEF TaskInv
  <2>2. TasksSeenAlike
    BY <1>2, <2>1 DEF TasksSeenAlike, TaskSaid, TaskFirst, TaskGone,
                      FirstComment
  <2>3. QED
    BY <1>5, <2>2
<1>7. CASE tasks[k] # None
  <2>1. tasks[k].comments # None
    BY <1>3, <1>7, TaskStored DEF TaskInv
  <2>2. PICK dropped : dropped = {k}
    OBVIOUS
  <2>3. dropped \in SUBSET TaskId /\ \A t \in dropped : TaskSaid[t] # None
    BY <1>3, <1>7, <2>1, <2>2 DEF TaskSaid
  <2>4. TaskSaid' = [t \in TaskId |-> IF t \in dropped THEN None
                                      ELSE TaskSaid[t]]
    BY <1>4, <2>2 DEF TaskSaid
  <2>5. TaskFirst' = [t \in TaskId |-> IF t \in dropped THEN None
                                       ELSE TaskFirst[t]]
    BY <1>4, <2>2 DEF TaskFirst, FirstComment
  <2>6. TaskGone' = TaskGone \cup dropped
    BY <1>2, <1>3, <1>4, <1>7, <2>2 DEF TaskGone, TaskInv, MembersFit
  <2>7. QED
    BY <1>5, <2>3, <2>4, <2>5, <2>6, TasksDrop
<1>8. QED
  BY <1>6, <1>7

\* The event is deleted, and all its tasks with it.
LEMMA EventDropped ==
    ASSUME TaskInv, MembersFit, alone, alone' = alone, DeleteEvent
    PROVE  MembersFit' /\ TaskTalk!Next
<1>1. /\ eventGone' /\ taskKeys' = taskKeys /\ board' = board
      /\ \A t \in TaskId : tasks'[t] = None
  BY DEF DeleteEvent
<1>2. MembersFit'
  BY <1>1 DEF MembersFit, MemberFits
<1>3. PICK dropped : dropped = {t \in TaskId : tasks[t] # None}
  OBVIOUS
<1>4. \A t \in TaskId : tasks[t] # None => tasks[t].comments # None
  BY TaskStored DEF TaskInv
<1>5. dropped \in SUBSET TaskId /\ \A t \in dropped : TaskSaid[t] # None
  BY <1>3, <1>4 DEF TaskSaid
<1>6. TaskSaid' = [t \in TaskId |-> IF t \in dropped THEN None
                                    ELSE TaskSaid[t]]
  BY <1>1, <1>3 DEF TaskSaid
<1>7. TaskFirst' = [t \in TaskId |-> IF t \in dropped THEN None
                                     ELSE TaskFirst[t]]
  BY <1>1, <1>3 DEF TaskFirst
<1>8. TaskGone' = TaskGone \cup dropped
  BY <1>1, <1>3 DEF TaskGone, TaskInv, MembersFit
<1>9. QED
  BY <1>2, <1>5, <1>6, <1>7, <1>8, TasksDrop

\* The entities that the operations on a task save.
LEMMA TaskAdds ==
    ASSUME NEW n, NEW row \in TasksBy(n)
    PROVE  /\ \A p : Adds(row, Reassigned(row, p))
           /\ \A p, priority :
                 Adds(row, [Reassigned(row, p) EXCEPT !.priority = priority])
           /\ \A status : Adds(row, [row EXCEPT !.status = status])
           /\ \A c \in 1..MaxComment :
                 Later(row.comments, c) => Adds(row, Commented(row, c))
<1>1. row = [status |-> row.status, priority |-> row.priority,
             assignedTo |-> row.assignedTo, comments |-> row.comments]
  BY TaskColumns
<1>2. ASSUME NEW p
      PROVE  /\ Reassigned(row, p).comments = row.comments
             /\ \A priority : [Reassigned(row, p) EXCEPT !.priority = priority]
                                  .comments = row.comments
  <2>1. PICK who, x : /\ who = IF row.assignedTo = None THEN p
                               ELSE row.assignedTo
                      /\ x = Reassigned(row, p)
    OBVIOUS
  <2>2. x = [status |-> row.status, priority |-> row.priority,
             assignedTo |-> who, comments |-> row.comments]
    BY <1>1, <2>1 DEF Reassigned
  <2>3. QED
    BY <2>1, <2>2
<1>3. \A status : [row EXCEPT !.status = status].comments = row.comments
  BY <1>1
<1>4. \A c : Commented(row, c).comments = Append(row.comments, c)
  BY <1>1 DEF Commented
<1>5. QED
  BY <1>2, <1>3, <1>4 DEF Adds

\* A step of task-service while no two requests overlap is a step of a
\* conversation, or its readers see nothing of it.
LEMMA TaskTalks ==
    ASSUME TaskInv, MembersFit, OneMember, alone, alone' = alone, TaskNext
    PROVE  MembersFit' /\ (TaskTalk!Next \/ TasksSeenAlike)
<1>1. ASSUME NEW t \in Board!Stored
      PROVE  /\ t \in TaskId /\ tasks[t] # None
             /\ tasks[t] \in TasksBy(written)
  BY DEF TaskInv, Board!Stored
<1>2. ASSUME NEW m \in Member, NEW t \in Board!Stored, NEW entity,
             Adds(tasks[t], entity), SaveTask(m, t, entity)
      PROVE  MembersFit' /\ TasksSeenAlike
  BY <1>1, <1>2, MemberTakesFit DEF SaveTask
<1>3. ASSUME NEW m \in Member, NEW t \in Board!Stored, AddComment(m, t)
      PROVE  MembersFit' /\ TasksSeenAlike
  <2>1. PICK row, c : row = tasks[t] /\ c = written + 1
    OBVIOUS
  <2>2. row \in TasksBy(written)
    BY <1>1, <2>1
  <2>3. c \in 1..MaxComment /\ written \in Nat /\ c = written'
    BY <1>3, <2>1, TaskBoardAssumption DEF AddComment, TaskInv
  <2>4. row.comments \in Seq(Nat) /\ Dated(row.comments, written)
    BY <2>2, TaskColumns
  <2>5. Later(row.comments, c)
    <3>1. \A i \in DOMAIN row.comments :
              row.comments[i] \in Nat /\ row.comments[i] <= written
      BY <2>4 DEF Dated
    <3>2. QED
      BY <2>1, <2>3, <3>1 DEF Later
  <2>6. Adds(row, Commented(row, c))
    BY <2>2, <2>3, <2>5, TaskAdds
  <2>7. /\ Board!Take(m, t, Commented(row, c))
        /\ taskKeys' = taskKeys /\ eventGone' = eventGone
    BY <1>3, <2>1, <2>3 DEF AddComment
  <2>8. QED
    BY <1>1, <2>1, <2>6, <2>7, MemberTakesFit
<1>4. ASSUME NEW m \in Member, NEW t \in Board!Stored,
             \/ \E status \in TaskStatus : UpdateTaskStatus(m, t, status)
             \/ \E p \in Assignee :
                   \/ AssignTask(m, t, p)
                   \/ \E priority \in NewPriority :
                         UpdateTask(m, t, priority, p)
      PROVE  MembersFit' /\ TasksSeenAlike
  BY <1>1, <1>2, <1>4, TaskAdds DEF UpdateTaskStatus, AssignTask, UpdateTask
<1>5. ASSUME NEW m \in Member, NEW t \in Board!Stored, RemoveTask(m, t)
      PROVE  MembersFit' /\ TasksSeenAlike
  <2>1. PICK x : x = [Board!Idle EXCEPT !.pc = "delete", !.key = t]
    OBVIOUS
  <2>2. x = [pc |-> "delete", key |-> t, entity |-> None, cols |-> {}]
    BY <2>1 DEF Board!Idle
  <2>3. MemberFits(x)
    BY <2>2 DEF MemberFits
  <2>4. /\ board' = [board EXCEPT ![m] = x] /\ tasks' = tasks
        /\ taskKeys' = taskKeys /\ eventGone' = eventGone
    BY <1>5, <2>1 DEF RemoveTask, Board!TakeOut
  <2>5. QED
    BY <2>3, <2>4, MemberQuiet
<1>6. ASSUME NEW m \in Member, TaskFails(m)
      PROVE  MembersFit' /\ TasksSeenAlike
  BY <1>6, EndedFits, MemberQuiet DEF TaskFails
<1>7. QED
  BY <1>3, <1>4, <1>5, <1>6, TaskCreated, MemberReloadsFit, MemberWritesFit,
     TaskDropped, EventDropped DEF TaskNext

\* No task and no request at the start.
LEMMA TaskTalkStart ==
    ASSUME TaskInit
    PROVE  MembersFit /\ TaskTalk!Init
<1>1. MembersFit
  BY EndedFits DEF TaskInit, MembersFit
<1>2. TaskTalk!Init
  BY DEF TaskInit, TaskTalk!Init
<1>3. QED
  BY <1>1, <1>2

-----------------------------------------------------------------------------
(* Meetings                                                                *)

\* The meetings the array can hold: the pipe strips both parties or none.
Placeable ==
    {m \in Meeting : \/ m.requester = Nobody /\ m.recipient = Nobody
                     \/ m.requester \in Attendee /\ m.recipient \in Attendee}

\* The inductive invariant: types and the lines.
MInv ==
    /\ stripped \in BOOLEAN
    /\ store \in Seq(Placeable) /\ Len(store) <= MaxMeeting
    /\ shown \in [Attendee -> SUBSET Line]
    /\ boot \in 0..MaxBoot
    /\ \A p \in Attendee : \A line \in shown[p] : line.boot <= boot
    /\ LinesNameTheirMeeting

\* The array of meetings grows at its end and keeps the parties of each.
PartiesStay ==
    \A i \in DOMAIN store :
        /\ i \in DOMAIN store'
        /\ store'[i].requester = store[i].requester
        /\ store'[i].recipient = store[i].recipient

\* A step that keeps the parties, the lists and the process.
LEMMA ListsStay ==
    ASSUME MInv, PartiesStay, store' \in Seq(Placeable),
           Len(store') <= MaxMeeting, shown' = shown, boot' = boot,
           stripped' = stripped
    PROVE  MInv'
<1>1. LinesNameTheirMeeting'
  BY DEF MInv, PartiesStay, LinesNameTheirMeeting
<1>2. stripped' \in BOOLEAN
  BY DEF MInv
<1>3. QED
  BY <1>1, <1>2 DEF MInv

\* A new meeting goes to the end of the array.
LEMMA ScheduleKeeps ==
    ASSUME MInv, NEW from \in Attendee, NEW to \in Attendee, Schedule(from, to)
    PROVE  MInv'
<1>1. PICK m : m = [requester |-> Accepted(from), recipient |-> Accepted(to),
                    status |-> "pending"]
  OBVIOUS
<1>2. m \in Placeable
  BY <1>1 DEF Placeable, Accepted, Meeting, MeetingStatus
<1>3. store' = Append(store, m) /\ Len(store) < MaxMeeting
  BY <1>1 DEF Schedule, Placed
<1>4. /\ store' \in Seq(Placeable) /\ Len(store') <= MaxMeeting
      /\ PartiesStay
  BY <1>2, <1>3, MeetingsAssumption DEF MInv, PartiesStay
<1>5. QED
  BY <1>4, ListsStay DEF Schedule

\* An answer changes the status of one meeting and no party of any.
LEMMA RespondKeeps ==
    ASSUME MInv, NEW p \in Attendee, NEW line,
           NEW status \in {"accepted", "declined"}, Respond(p, line, status)
    PROVE  MInv'
<1>1. PICK i : i = line.id
  OBVIOUS
<1>2. i \in DOMAIN store /\ store' = [store EXCEPT ![i].status = status]
  BY <1>1 DEF Respond
<1>3. store[i] \in Placeable /\ i \in 1..Len(store)
  BY <1>2 DEF MInv
<1>4. PICK m : m = [store[i] EXCEPT !.status = status]
  OBVIOUS
<1>5. /\ m \in Placeable
      /\ m.requester = store[i].requester /\ m.recipient = store[i].recipient
  BY <1>3, <1>4 DEF Placeable, Meeting, MeetingStatus
<1>6. store' = [store EXCEPT ![i] = m]
  BY <1>2, <1>4
<1>7. /\ store' \in Seq(Placeable) /\ Len(store') <= MaxMeeting
      /\ PartiesStay
  BY <1>3, <1>5, <1>6 DEF MInv, PartiesStay
<1>8. QED
  BY <1>7, ListsStay DEF Respond

\* A list is fetched from the array as it is.
LEMMA GetMeetingsKeeps ==
    ASSUME MInv, NEW p \in Attendee, GetMeetings(p)
    PROVE  MInv'
<1>1. PICK lines :
        lines = {[id |-> i, requester |-> store[i].requester,
                  recipient |-> store[i].recipient, boot |-> boot] :
                    i \in {j \in DOMAIN store :
                              p \in {store[j].requester, store[j].recipient}}}
  OBVIOUS
<1>2. shown' = [shown EXCEPT ![p] = lines]
  BY <1>1 DEF GetMeetings
<1>3. \A line \in lines :
        /\ line \in Line
        /\ line.boot = boot
        /\ line.id \in DOMAIN store
        /\ store[line.id].requester = line.requester
        /\ store[line.id].recipient = line.recipient
  <2> SUFFICES ASSUME NEW line \in lines
               PROVE  /\ line \in Line
                      /\ line.boot = boot
                      /\ line.id \in DOMAIN store
                      /\ store[line.id].requester = line.requester
                      /\ store[line.id].recipient = line.recipient
    OBVIOUS
  <2>1. PICK i \in DOMAIN store :
          /\ line = [id |-> i, requester |-> store[i].requester,
                     recipient |-> store[i].recipient, boot |-> boot]
          /\ p \in {store[i].requester, store[i].recipient}
    BY <1>1
  <2>2. store[i] \in Placeable /\ i \in 1..MaxMeeting /\ boot \in 0..MaxBoot
    BY MeetingsAssumption DEF MInv
  <2>3. store[i].requester \in Attendee /\ store[i].recipient \in Attendee
    BY <2>1, <2>2, MeetingsAssumption DEF Placeable
  <2>4. QED
    BY <2>1, <2>2, <2>3 DEF Line
<1>4. \A q \in Attendee : shown'[q] = IF q = p THEN lines ELSE shown[q]
  BY <1>2 DEF MInv
<1>5. /\ store' = store
      /\ boot' = boot
      /\ stripped' = stripped
  BY DEF GetMeetings
<1>6. shown' \in [Attendee -> SUBSET Line]
  BY <1>2, <1>3 DEF MInv
<1>7. \A q \in Attendee : \A line \in shown'[q] : line.boot <= boot
  BY <1>3, <1>4 DEF MInv
<1>8. LinesNameTheirMeeting'
  BY <1>3, <1>4, <1>5 DEF MInv, LinesNameTheirMeeting
<1>9. stripped' \in BOOLEAN
  BY <1>5 DEF MInv
<1>10. QED
  BY <1>5, <1>6, <1>7, <1>8, <1>9 DEF MInv

\* After a restart no line of any list is of the current process.
LEMMA RestartKeeps ==
    ASSUME MInv, Restart
    PROVE  MInv'
<1>1. /\ store' \in Seq(Placeable) /\ Len(store') <= MaxMeeting
      /\ boot' \in 0..MaxBoot /\ shown' = shown
  BY MeetingsAssumption DEF MInv, Restart
<1>2. \A p \in Attendee : \A line \in shown[p] :
        line.boot \in Nat /\ line.boot <= boot /\ line.boot # boot'
  BY MeetingsAssumption DEF MInv, Restart, Line
<1>3. \A p \in Attendee : \A line \in shown'[p] : line.boot <= boot'
  BY <1>1, <1>2, MeetingsAssumption DEF MInv, Restart
<1>4. LinesNameTheirMeeting'
  BY <1>1, <1>2 DEF LinesNameTheirMeeting
<1>5. stripped' \in BOOLEAN
  BY DEF MInv, Restart
<1>6. QED
  BY <1>1, <1>3, <1>4, <1>5 DEF MInv

\* No meeting and no line at the start.
LEMMA MeetingStart == MeetingInit => MInv
<1> SUFFICES ASSUME MeetingInit
             PROVE  MInv
  OBVIOUS
<1>1. /\ store \in Seq(Placeable) /\ Len(store) <= MaxMeeting
      /\ boot \in 0..MaxBoot
  BY MeetingsAssumption DEF MeetingInit
<1>2. stripped \in BOOLEAN
  BY DEF MeetingInit
<1>3. \A p \in Attendee : shown[p] = {}
  BY DEF MeetingInit
<1>4. shown \in [Attendee -> SUBSET Line]
  BY DEF MeetingInit
<1>5. QED
  BY <1>1, <1>2, <1>3, <1>4 DEF MInv, LinesNameTheirMeeting

\* Every step of networking-service keeps the invariant.
LEMMA MeetingStep ==
    ASSUME MInv, [MeetingNext]_meetingVars
    PROVE  MInv'
<1>1. CASE MeetingNext
  BY <1>1, ScheduleKeeps, RespondKeeps, GetMeetingsKeeps, RestartKeeps
  DEF MeetingNext
<1>2. CASE UNCHANGED meetingVars
  <2>1. /\ store' = store /\ shown' = shown /\ boot' = boot
        /\ stripped' = stripped
    BY <1>2 DEF meetingVars
  <2>2. QED
    BY <2>1 DEF MInv, LinesNameTheirMeeting
<1>3. QED
  BY <1>1, <1>2

\* MInv is an inductive invariant of the meetings.
THEOREM MeetingInvariance == MeetingSpec => []MInv
BY MeetingStart, MeetingStep, PTL DEF MeetingSpec

\* An answer reaches the meeting it was meant for: until the service is
\* started again, every line of every list, however old, still names by its
\* id the meeting of the same two people.
THEOREM AnswersReachTheirMeeting == MeetingSpec => []LinesNameTheirMeeting
<1>1. MInv => LinesNameTheirMeeting
  BY DEF MInv
<1>2. QED
  BY <1>1, MeetingInvariance, PTL

-----------------------------------------------------------------------------
(* Events                                                                  *)

\* What an organiser's request holds.
EditOK(handler) ==
    \/ handler = NoEdit
    \/ handler \in [pc: {"reload", "write", "insert"}, event: Event,
                    entity: EventRow, cols: SUBSET EventColumn]
    \/ handler \in [pc: {"delete"}, event: Event, entity: {None}, cols: {{}}]

\* The inductive invariant of the types of event-service.
EventsTyped ==
    /\ TablesTypeOK
    /\ minted \subseteq Event
    /\ edit = [o \in Organizer |-> edit[o]]
    /\ \A o \in Organizer : EditOK(edit[o])

\* A request in progress is not the idle one; one that saves holds a row.
LEMMA EditBusy ==
    ASSUME NEW handler, EditOK(handler), handler.pc # "idle"
    PROVE  /\ handler.pc \in {"reload", "write", "insert", "delete"}
           /\ handler.event \in Event
           /\ handler.pc # "delete" => handler.entity \in EventRow
           /\ handler.cols \in SUBSET EventColumn
           /\ handler = [pc |-> handler.pc, event |-> handler.event,
                         entity |-> handler.entity, cols |-> handler.cols]
BY DEF EditOK, NoEdit

\* A step of one organiser that writes no event.
LEMMA OrganiserStep ==
    ASSUME EventsTyped, NEW o \in Organizer, NEW x, EditOK(x),
           edit' = [edit EXCEPT ![o] = x],
           regs' = regs, events' = events, minted' = minted
    PROVE  EventsTyped'
<1>1. /\ edit' = [p \in Organizer |-> edit'[p]]
      /\ \A p \in Organizer : edit'[p] \in {x, edit[p]}
  BY DEF EventsTyped
<1>2. TablesTypeOK'
  BY DEF EventsTyped, TablesTypeOK
<1>3. QED
  BY <1>1, <1>2 DEF EventsTyped

\* A step of one organiser that ends with, or is, a write of one event.
LEMMA EventPut ==
    ASSUME EventsTyped, NEW o \in Organizer, NEW e, NEW row,
           e \in Event => row \in EventRow \cup {None},
           events' = events \/ events' = [events EXCEPT ![e] = row],
           edit' = edit \/ edit' = [edit EXCEPT ![o] = NoEdit],
           regs' = regs, minted' \subseteq Event
    PROVE  EventsTyped'
<1>1. /\ edit' = [p \in Organizer |-> edit'[p]]
      /\ \A p \in Organizer : edit'[p] \in {NoEdit, edit[p]}
  BY DEF EventsTyped
<1>2. \A p \in Organizer : EditOK(edit'[p])
  BY <1>1 DEF EventsTyped, EditOK
<1>3. TablesTypeOK'
  BY DEF EventsTyped, TablesTypeOK
<1>4. QED
  BY <1>1, <1>2, <1>3 DEF EventsTyped

\* A handler of o has loaded an event and will save entity.
LEMMA SaveTyped ==
    ASSUME EventsTyped, NEW o \in Organizer, NEW e \in Event,
           NEW entity \in EventRow, Save(o, e, entity)
    PROVE  EventsTyped'
<1>1. PICK x : x = [NoEdit EXCEPT !.pc = "reload", !.event = e,
                                  !.entity = entity]
  OBVIOUS
<1>2. x = [pc |-> "reload", event |-> e, entity |-> entity, cols |-> {}]
  BY <1>1 DEF NoEdit
<1>3. EditOK(x)
  BY <1>2 DEF EditOK
<1>4. QED
  BY <1>1, <1>3, OrganiserStep DEF Save

\* A row of events is made of its columns, and the columns make a row.
LEMMA EventColumns ==
    ASSUME NEW row \in EventRow
    PROVE  /\ row = [status |-> row.status, startDate |-> row.startDate,
                     endDate |-> row.endDate]
           /\ row.status \in EventStatus
           /\ row.startDate \in Day /\ row.endDate \in Day
           /\ DOMAIN row = EventColumn
           /\ \A s \in EventStatus, d, f \in Day :
                 [status |-> s, startDate |-> d, endDate |-> f] \in EventRow
BY DEF EventRow, EventColumn

\* What an UPDATE makes of a row.
LEMMA PatchEvent ==
    ASSUME NEW row \in EventRow, NEW entity \in EventRow, NEW cols
    PROVE  LET p == Patch(row, entity, cols)
           IN  /\ p \in EventRow
               /\ p.status = IF "status" \in cols THEN entity.status
                             ELSE row.status
<1>1. PICK p : p = Patch(row, entity, cols)
  OBVIOUS
<1>2. p = [c \in EventColumn |-> IF c \in cols THEN entity[c] ELSE row[c]]
  BY <1>1, EventColumns DEF Patch
<1>3. /\ p = [status |-> p.status, startDate |-> p.startDate,
              endDate |-> p.endDate]
      /\ p.status = IF "status" \in cols THEN entity.status ELSE row.status
      /\ p.startDate \in {entity.startDate, row.startDate}
      /\ p.endDate \in {entity.endDate, row.endDate}
  BY <1>2 DEF EventColumn
<1>4. p.status \in EventStatus /\ p.startDate \in Day /\ p.endDate \in Day
  BY <1>3, EventColumns
<1>5. p \in EventRow
  BY <1>3, <1>4, EventColumns
<1>6. QED
  BY <1>1, <1>3, <1>5

\* What an edit of the status makes of a row.
LEMMA RestatedRow ==
    ASSUME NEW row \in EventRow
    PROVE  /\ [row EXCEPT !.status = "published"] \in EventRow
           /\ [row EXCEPT !.status = "published"].status = "published"
           /\ CancelledEvent(row) \in EventRow
           /\ CancelledEvent(row).status = "cancelled"
<1>1. row = [status |-> row.status, startDate |-> row.startDate,
             endDate |-> row.endDate]
  BY EventColumns
<1>2. "published" \in EventStatus /\ "cancelled" \in EventStatus
  BY DEF EventStatus
<1>3. [row EXCEPT !.status = "published"] =
          [status |-> "published", startDate |-> row.startDate,
           endDate |-> row.endDate]
  BY <1>1
<1>4. CancelledEvent(row) =
          [status |-> "cancelled", startDate |-> row.startDate,
           endDate |-> row.endDate]
  BY <1>1 DEF CancelledEvent
<1>5. QED
  BY <1>2, <1>3, <1>4, EventColumns

\* What an edit of the dates makes of a row.
LEMMA RedatedRow ==
    ASSUME NEW row \in EventRow, NEW start \in Day, NEW end \in Day
    PROVE  /\ [row EXCEPT !.startDate = start, !.endDate = end] \in EventRow
           /\ [row EXCEPT !.startDate = start, !.endDate = end].status
                  = row.status
<1>1. row = [status |-> row.status, startDate |-> row.startDate,
             endDate |-> row.endDate]
  BY EventColumns
<1>2. DOMAIN row = {"status", "startDate", "endDate"}
  BY <1>1
<1>3. PICK x : x = [row EXCEPT !.startDate = start, !.endDate = end]
  OBVIOUS
<1>4. x = [c \in {"status", "startDate", "endDate"} |->
             IF c = "endDate" THEN end
             ELSE IF c = "startDate" THEN start ELSE row[c]]
  BY <1>2, <1>3
<1>5. x = [status |-> row.status, startDate |-> start, endDate |-> end]
  BY <1>4
<1>6. x \in EventRow /\ x.status = row.status
  BY <1>5, EventColumns
<1>7. QED
  BY <1>3, <1>6

\* The first round trip of a save.
LEMMA ReloadTyped ==
    ASSUME EventsTyped, NEW o \in Organizer, Reload(o)
    PROVE  EventsTyped'
<1>1. PICK was : was = edit[o]
  OBVIOUS
<1>2. was.pc = "reload" /\ EditOK(was)
  BY <1>1 DEF Reload, EventsTyped
<1>3. /\ was.event \in Event /\ was.entity \in EventRow
      /\ was = [pc |-> was.pc, event |-> was.event, entity |-> was.entity,
                cols |-> was.cols]
      /\ was.cols \in SUBSET EventColumn
  BY <1>2, EditBusy
<1>4. CASE Exists(was.event)
  <2>1. PICK cols : cols = Changed(events[was.event], was.entity)
    OBVIOUS
  <2>2. events[was.event] \in EventRow
    BY <1>3, <1>4 DEF Exists, EventsTyped, TablesTypeOK
  <2>3. cols \in SUBSET EventColumn
    BY <2>1, <2>2, EventColumns DEF Changed
  <2>4. PICK x : x = [was EXCEPT !.pc = "write", !.cols = cols]
    OBVIOUS
  <2>5. x = [pc |-> "write", event |-> was.event, entity |-> was.entity,
             cols |-> cols]
    BY <1>3, <2>4
  <2>6. EditOK(x)
    BY <1>3, <2>3, <2>5 DEF EditOK
  <2>7. edit' = [edit EXCEPT ![o] = x]
    BY <1>1, <1>4, <2>1, <2>4 DEF Reload
  <2>8. QED
    BY <2>6, <2>7, OrganiserStep DEF Reload
<1>5. CASE ~Exists(was.event)
  <2>1. PICK x : x = [was EXCEPT !.pc = "insert"]
    OBVIOUS
  <2>2. x = [pc |-> "insert", event |-> was.event, entity |-> was.entity,
             cols |-> was.cols]
    BY <1>3, <2>1
  <2>3. EditOK(x)
    BY <1>3, <2>2 DEF EditOK
  <2>4. edit' = [edit EXCEPT ![o] = x]
    BY <1>1, <1>5, <2>1 DEF Reload
  <2>5. QED
    BY <2>3, <2>4, OrganiserStep DEF Reload
<1>6. QED
  BY <1>4, <1>5

\* The second one: the row is mixed of two rows, or is the entity.
LEMMA WriteTyped ==
    ASSUME EventsTyped, NEW o \in Organizer, Write(o)
    PROVE  EventsTyped'
<1>1. PICK was : was = edit[o]
  OBVIOUS
<1>2. was.pc \in {"write", "insert"} /\ EditOK(was)
  BY <1>1 DEF Write, EventsTyped
<1>3. was.event \in Event /\ was.entity \in EventRow
  BY <1>2, EditBusy
<1>4. PICK old, row : old = events[was.event] /\ row = Saved(was, old)
  OBVIOUS
<1>5. old \in EventRow \cup {None}
  BY <1>3, <1>4 DEF EventsTyped, TablesTypeOK
<1>6. row \in EventRow \cup {None}
  <2>1. CASE was.pc = "write" /\ old # None
    BY <1>3, <1>4, <1>5, <2>1, PatchEvent DEF Saved
  <2>2. CASE was.pc = "insert" /\ old = None
    BY <1>3, <1>4, <2>2 DEF Saved
  <2>3. CASE /\ ~(was.pc = "write" /\ old # None)
             /\ ~(was.pc = "insert" /\ old = None)
    BY <1>4, <1>5, <2>3 DEF Saved
  <2>4. QED
    BY <2>1, <2>2, <2>3
<1>7. events' = [events EXCEPT ![was.event] = row]
  BY <1>1, <1>4 DEF Write
<1>8. QED
  BY <1>6, <1>7, EventPut DEF Write, EventsTyped

\* Every step of event-service keeps the types.
LEMMA EventsStayTyped ==
    ASSUME EventsTyped, [Next]_vars
    PROVE  EventsTyped'
<1>1. ASSUME NEW e \in Event, Exists(e)
      PROVE  events[e] \in EventRow
  BY <1>1 DEF Exists, EventsTyped, TablesTypeOK
<1>2. ASSUME NEW o \in Organizer, NEW start \in Day, NEW end \in Day,
             Create(o, start, end)
      PROVE  EventsTyped'
  <2>1. PICK row : row = [status |-> "draft", startDate |-> start,
                          endDate |-> end]
    OBVIOUS
  <2>2. PICK e \in Event : /\ events' = [events EXCEPT ![e] = row]
                           /\ minted' = minted \cup {e}
    BY <1>2, <2>1 DEF Create
  <2>3. row \in EventRow
    BY <2>1 DEF EventRow, EventStatus
  <2>4. /\ regs' = regs /\ edit' = edit /\ minted' \subseteq Event
    BY <1>2, <2>2 DEF Create, EventsTyped
  <2>5. QED
    BY <2>2, <2>3, <2>4, EventPut
<1>3. ASSUME NEW o \in Organizer, NEW e \in Event,
             \/ Publish(o, e) \/ Cancel(o, e)
             \/ \E start, end \in Day : Update(o, e, start, end)
      PROVE  EventsTyped'
  <2>1. events[e] \in EventRow
    BY <1>1, <1>3 DEF Publish, Cancel, Update
  <2>2. PICK entity \in EventRow : Save(o, e, entity)
    BY <1>3, <2>1, RestatedRow, RedatedRow DEF Publish, Cancel, Update
  <2>3. QED
    BY <2>2, SaveTyped
<1>4. ASSUME NEW o \in Organizer, NEW e \in Event, Remove(o, e)
      PROVE  EventsTyped'
  <2>1. PICK x : x = [NoEdit EXCEPT !.pc = "delete", !.event = e]
    OBVIOUS
  <2>2. x = [pc |-> "delete", event |-> e, entity |-> None, cols |-> {}]
    BY <2>1 DEF NoEdit
  <2>3. EditOK(x)
    BY <2>2 DEF EditOK
  <2>4. QED
    BY <1>4, <2>1, <2>3, OrganiserStep DEF Remove
<1>5. ASSUME NEW o \in Organizer, Delete(o)
      PROVE  EventsTyped'
  BY <1>5, EventPut DEF Delete, EventsTyped
<1>6. CASE UNCHANGED vars
  <2>1. /\ regs' = regs /\ events' = events /\ edit' = edit
        /\ minted' = minted
    BY <1>6 DEF vars
  <2>2. QED
    BY <2>1 DEF EventsTyped, TablesTypeOK
<1>7. QED
  BY <1>2, <1>3, <1>4, <1>5, <1>6, ReloadTyped, WriteTyped DEF Next

\* The tables and requests are typed at the start.
LEMMA EventsStart == Init => EventsTyped
<1> SUFFICES ASSUME Init
             PROVE  EventsTyped
  OBVIOUS
<1>1. TablesTypeOK
  BY DEF Init, TablesTypeOK, EventAtStart
<1>2. \A o \in Organizer : EditOK(edit[o])
  BY DEF Init, EditOK
<1>3. QED
  BY <1>1, <1>2 DEF Init, EventsTyped

\* What is typed is of the type the module states.
LEMMA EventsAreTyped == EventsTyped => TypeOK
<1> SUFFICES ASSUME EventsTyped
             PROVE  TypeOK
  OBVIOUS
<1>1. ASSUME NEW o \in Organizer
      PROVE  edit[o] \in EditHandler
  BY DEF EventsTyped, EditOK, NoEdit, EditHandler
<1>2. QED
  BY <1>1 DEF EventsTyped, TypeOK

-----------------------------------------------------------------------------
(* The life of an event                                                    *)

\* No two requests of organisers are in progress at once.
OneOrganizer == \A o, p \in Organizer : o = p

\* A status and the one that an edit of a row with that status leaves in the
\* entity.
Leads(from, to) ==
    \/ to = from
    \/ from = "draft" /\ to = "published"
    \/ from \in {"draft", "published"} /\ to = "cancelled"

\* The request in progress and the row it was loaded from: nobody else moves.
EditFits(handler) ==
    /\ handler.pc # "insert"
    /\ handler.pc \in {"reload", "write"} =>
          /\ Exists(handler.event)
          /\ Leads(events[handler.event].status, handler.entity.status)
    /\ handler.pc = "write" =>
          \/ "status" \in handler.cols
          \/ events[handler.event].status = handler.entity.status
    /\ handler.pc = "delete" =>
          /\ Exists(handler.event)
          /\ events[handler.event].status \in {"draft", "cancelled"}

\* The inductive invariant of the lifecycle.
LifeInv ==
    /\ EventsTyped
    /\ \A e \in Event : Exists(e) =>
          /\ e \in minted
          /\ events[e].status \in {"draft", "published", "cancelled"}
    /\ \A o \in Organizer : EditFits(edit[o])

\* What EventLifecycle sees of the tables.
StatusSeen ==
    [e \in Event |-> IF Exists(e) THEN events[e].status
                     ELSE IF e \in minted THEN "deleted" ELSE None]

\* A step of the lifecycle, on what it sees.
LEMMA SeenBecomes ==
    ASSUME NEW e \in Event, NEW from, NEW to, StatusSeen[e] \in from,
           StatusSeen' = [StatusSeen EXCEPT ![e] = to]
    PROVE  Life!Becomes(e, from, to)
BY DEF Life!Becomes, StatusSeen

\* A step on requests only.
LEMMA QuietStep ==
    ASSUME LifeInv, EventsTyped', OneOrganizer, NEW o \in Organizer, NEW x,
           EditFits(x), edit' = [edit EXCEPT ![o] = x],
           events' = events, minted' = minted
    PROVE  LifeInv' /\ StatusSeen' = StatusSeen
<1>1. \A p \in Organizer : edit'[p] = x
  BY DEF LifeInv, EventsTyped, OneOrganizer
<1>2. \A e : Exists(e)' <=> Exists(e)
  BY DEF Exists
<1>3. StatusSeen' = StatusSeen
  BY <1>2 DEF StatusSeen
<1>4. EditFits(x)'
  BY <1>2 DEF EditFits
<1>5. \A p \in Organizer : EditFits(edit[p])'
  BY <1>1, <1>4
<1>6. \A e \in Event : Exists(e)' =>
          /\ e \in minted'
          /\ events'[e].status \in {"draft", "published", "cancelled"}
  BY <1>2 DEF LifeInv
<1>7. QED
  BY <1>3, <1>5, <1>6 DEF LifeInv

\* A step that changes one row and leaves the organiser idle.
LEMMA RowStep ==
    ASSUME LifeInv, EventsTyped', NEW e \in Event, NEW row,
           events' = [events EXCEPT ![e] = row],
           \A o \in Organizer : edit'[o] = NoEdit,
           row # None =>
              row.status \in {"draft", "published", "cancelled"},
           minted \subseteq minted', row # None => e \in minted'
    PROVE  LifeInv'
<1>1. \A f \in Event : events'[f] = IF f = e THEN row ELSE events[f]
  BY DEF LifeInv, EventsTyped, TablesTypeOK
<1>2. \A f \in Event : Exists(f)' =>
          /\ f \in minted'
          /\ events'[f].status \in {"draft", "published", "cancelled"}
  BY <1>1 DEF LifeInv, Exists
<1>3. \A o \in Organizer : EditFits(edit[o])'
  BY DEF EditFits, NoEdit
<1>4. QED
  BY <1>2, <1>3 DEF LifeInv

\* The status that EventLifecycle sees moves with the row.
LEMMA SeenMoves ==
    ASSUME LifeInv, NEW e \in Event, NEW row, NEW to,
           events' = [events EXCEPT ![e] = row],
           minted' \subseteq minted \cup {e}, minted \subseteq minted',
           \/ row # None /\ to = row.status
           \/ row = None /\ e \in minted' /\ to = "deleted"
    PROVE  StatusSeen' = [StatusSeen EXCEPT ![e] = to]
<1>1. \A f \in Event : events'[f] = IF f = e THEN row ELSE events[f]
  BY DEF LifeInv, EventsTyped, TablesTypeOK
<1>2. \A f \in Event : StatusSeen'[f] = IF f = e THEN to ELSE StatusSeen[f]
  BY <1>1 DEF StatusSeen, Exists
<1>3. StatusSeen' = [f \in Event |-> StatusSeen'[f]]
  BY DEF StatusSeen
<1>4. StatusSeen = [f \in Event |-> StatusSeen[f]]
  BY DEF StatusSeen
<1>5. QED
  BY <1>2, <1>3, <1>4

\* Every step keeps the invariant, and is a step of the lifecycle or none.
LEMMA LifeStep ==
    ASSUME LifeInv, [Next]_vars, OneOrganizer
    PROVE  LifeInv' /\ (Life!Next \/ StatusSeen' = StatusSeen)
<1>0. EventsTyped'
  BY EventsStayTyped DEF LifeInv
<1>1. ASSUME NEW o \in Organizer, NEW start \in Day, NEW end \in Day,
             Create(o, start, end)
      PROVE  LifeInv' /\ Life!Next
  <2>1. PICK row : row = [status |-> "draft", startDate |-> start,
                          endDate |-> end]
    OBVIOUS
  <2>2. PICK e \in Event \ minted :
            /\ events' = [events EXCEPT ![e] = row]
            /\ minted' = minted \cup {e}
    BY <1>1, <2>1 DEF Create
  <2>3. row \in EventRow
    BY <2>1 DEF EventRow, EventStatus
  <2>4. row # None /\ row.status = "draft"
    BY <2>1, <2>3, TablesAssumption
  <2>5. \A p \in Organizer : edit'[p] = NoEdit
    BY <1>1 DEF Create, OneOrganizer
  <2>6. LifeInv'
    BY <1>0, <2>2, <2>4, <2>5, RowStep
  <2>7. ~Exists(e)
    BY <2>2 DEF LifeInv
  <2>8. StatusSeen[e] = None
    BY <2>2, <2>7 DEF StatusSeen
  <2>9. StatusSeen' = [StatusSeen EXCEPT ![e] = "draft"]
    BY <2>2, <2>4, SeenMoves
  <2>10. Life!Becomes(e, {None}, "draft")
    <3>1. PICK from, to : from = {None} /\ to = "draft"
      OBVIOUS
    <3>2. /\ StatusSeen[e] \in from
          /\ StatusSeen' = [StatusSeen EXCEPT ![e] = to]
      BY <2>8, <2>9, <3>1
    <3>3. Life!Becomes(e, from, to)
      BY <2>2, <3>2, SeenBecomes
    <3>4. QED
      BY <3>1, <3>3
  <2>11. QED
    BY <2>2, <2>6, <2>10 DEF Life!Next
<1>2. ASSUME NEW o \in Organizer, NEW e \in Event, NEW entity,
             Exists(e), Leads(events[e].status, entity.status),
             Save(o, e, entity)
      PROVE  LifeInv' /\ StatusSeen' = StatusSeen
  <2>1. PICK x : x = [NoEdit EXCEPT !.pc = "reload", !.event = e,
                                    !.entity = entity]
    OBVIOUS
  <2>2. x = [pc |-> "reload", event |-> e, entity |-> entity, cols |-> {}]
    BY <2>1 DEF NoEdit
  <2>3. EditFits(x)
    BY <1>2, <2>2 DEF EditFits
  <2>4. QED
    BY <1>0, <1>2, <2>1, <2>3, QuietStep DEF Save
<1>3. ASSUME NEW e \in Event, Exists(e)
      PROVE  /\ events[e] \in EventRow
             /\ events[e].startDate \in Day /\ events[e].endDate \in Day
  <2>1. events[e] \in EventRow
    BY <1>3 DEF Exists, LifeInv, EventsTyped, TablesTypeOK
  <2>2. QED
    BY <2>1, EventColumns
<1>4. ASSUME NEW o \in Organizer, NEW e \in Event, Publish(o, e)
      PROVE  LifeInv' /\ StatusSeen' = StatusSeen
  <2>1. PICK row, entity : /\ row = events[e]
                           /\ entity = [row EXCEPT !.status = "published"]
    OBVIOUS
  <2>2. Exists(e) /\ row.status = "draft" /\ Save(o, e, entity)
    BY <1>4, <2>1 DEF Publish, MayPublish
  <2>3. entity.status = "published"
    <3>1. row \in EventRow
      BY <1>3, <2>1, <2>2
    <3>2. QED
      BY <2>1, <3>1, RestatedRow
  <2>4. Leads(events[e].status, entity.status)
    BY <2>1, <2>2, <2>3 DEF Leads
  <2>5. QED
    BY <1>2, <2>2, <2>4
<1>5. ASSUME NEW o \in Organizer, NEW e \in Event, Cancel(o, e)
      PROVE  LifeInv' /\ StatusSeen' = StatusSeen
  <2>1. PICK row, entity : row = events[e] /\ entity = CancelledEvent(row)
    OBVIOUS
  <2>2. Exists(e) /\ Save(o, e, entity)
    BY <1>5, <2>1 DEF Cancel
  <2>3. entity.status = "cancelled"
    BY <1>3, <2>1, <2>2, RestatedRow
  <2>4. row.status \in {"draft", "published", "cancelled"}
    BY <2>1, <2>2 DEF LifeInv
  <2>5. Leads(events[e].status, entity.status)
    BY <2>1, <2>3, <2>4 DEF Leads
  <2>6. QED
    BY <1>2, <2>2, <2>5
<1>6. ASSUME NEW o \in Organizer, NEW e \in Event, NEW start \in Day,
             NEW end \in Day, Update(o, e, start, end)
      PROVE  LifeInv' /\ StatusSeen' = StatusSeen
  <2>1. PICK row, entity :
            /\ row = events[e]
            /\ entity = [row EXCEPT !.startDate = start, !.endDate = end]
    OBVIOUS
  <2>2. Exists(e) /\ Save(o, e, entity)
    BY <1>6, <2>1 DEF Update
  <2>3. entity.status = row.status
    <3>1. row \in EventRow
      BY <1>3, <2>1, <2>2
    <3>2. DOMAIN row = {"status", "startDate", "endDate"}
      BY <3>1, EventColumns DEF EventColumn
    <3>3. QED
      BY <2>1, <3>2
  <2>4. Leads(events[e].status, entity.status)
    BY <2>1, <2>3 DEF Leads
  <2>5. QED
    BY <1>2, <2>2, <2>4
<1>7. ASSUME NEW o \in Organizer, NEW e \in Event, Remove(o, e)
      PROVE  LifeInv' /\ StatusSeen' = StatusSeen
  <2>1. PICK x : x = [NoEdit EXCEPT !.pc = "delete", !.event = e]
    OBVIOUS
  <2>2. x = [pc |-> "delete", event |-> e, entity |-> None, cols |-> {}]
    BY <2>1 DEF NoEdit
  <2>3. Exists(e) /\ events[e].status \in {"draft", "cancelled"}
    BY <1>7 DEF Remove, MayRemove, LifeInv
  <2>4. EditFits(x)
    BY <2>2, <2>3 DEF EditFits
  <2>5. QED
    BY <1>0, <1>7, <2>1, <2>4, QuietStep DEF Remove
<1>8. ASSUME NEW o \in Organizer, Reload(o)
      PROVE  LifeInv' /\ StatusSeen' = StatusSeen
  <2>1. PICK was, row : was = edit[o] /\ row = events[was.event]
    OBVIOUS
  <2>2. was.pc = "reload" /\ EditOK(was) /\ EditFits(was)
    BY <1>8, <2>1 DEF Reload, LifeInv, EventsTyped
  <2>3. /\ was = [pc |-> was.pc, event |-> was.event, entity |-> was.entity,
                  cols |-> was.cols]
        /\ was.event \in Event /\ was.entity \in EventRow
    BY <2>1, <2>2, EditBusy
  <2>4. Exists(was.event) /\ Leads(row.status, was.entity.status)
    BY <2>1, <2>2 DEF EditFits
  <2>5. PICK cols : cols = Changed(row, was.entity)
    OBVIOUS
  <2>6. "status" \in cols \/ row.status = was.entity.status
    <3>1. row \in EventRow
      BY <1>3, <2>1, <2>3, <2>4
    <3>2. "status" \in DOMAIN row
      BY <3>1, EventColumns DEF EventColumn
    <3>3. QED
      BY <2>5, <3>2 DEF Changed
  <2>7. PICK x : x = [was EXCEPT !.pc = "write", !.cols = cols]
    OBVIOUS
  <2>8. x = [pc |-> "write", event |-> was.event, entity |-> was.entity,
             cols |-> cols]
    BY <2>3, <2>7
  <2>9. EditFits(x)
    BY <2>1, <2>4, <2>6, <2>8 DEF EditFits
  <2>10. edit' = [edit EXCEPT ![o] = x] /\ events' = events /\ minted' = minted
    BY <1>8, <2>1, <2>4, <2>5, <2>7 DEF Reload
  <2>11. QED
    BY <1>0, <2>9, <2>10, QuietStep
<1>9. ASSUME NEW o \in Organizer, Write(o)
      PROVE  LifeInv' /\ (Life!Next \/ StatusSeen' = StatusSeen)
  <2>1. PICK was, e, old : was = edit[o] /\ e = was.event /\ old = events[e]
    OBVIOUS
  <2>2. was.pc = "write" /\ EditOK(was) /\ EditFits(was)
    BY <1>9, <2>1 DEF Write, LifeInv, EventsTyped, EditFits
  <2>3. e \in Event /\ was.entity \in EventRow
    BY <2>1, <2>2, EditBusy
  <2>4. /\ Exists(e) /\ Leads(old.status, was.entity.status)
        /\ "status" \in was.cols \/ old.status = was.entity.status
    BY <2>1, <2>2 DEF EditFits
  <2>5. old \in EventRow /\ old.status \in {"draft", "published", "cancelled"}
    BY <1>3, <2>1, <2>3, <2>4 DEF LifeInv
  <2>6. PICK row : row = Saved(was, old)
    OBVIOUS
  <2>7. row = Patch(old, was.entity, was.cols)
    BY <2>1, <2>2, <2>4, <2>6 DEF Saved, Exists
  <2>8. row \in EventRow /\ row.status = was.entity.status
    BY <2>3, <2>4, <2>5, <2>7, PatchEvent
  <2>9. row # None /\ row.status \in {"draft", "published", "cancelled"}
    BY <2>4, <2>5, <2>8, TablesAssumption DEF Leads
  <2>10. /\ events' = [events EXCEPT ![e] = row] /\ minted' = minted
         /\ \A p \in Organizer : edit'[p] = NoEdit
    BY <1>9, <2>1, <2>6 DEF Write, LifeInv, EventsTyped, OneOrganizer
  <2>11. LifeInv'
    BY <1>0, <2>3, <2>4, <2>9, <2>10, RowStep DEF LifeInv
  <2>12. StatusSeen' = [StatusSeen EXCEPT ![e] = row.status]
    BY <2>3, <2>9, <2>10, SeenMoves
  <2>13. /\ StatusSeen[e] = old.status
         /\ StatusSeen = [f \in Event |-> StatusSeen[f]]
    BY <2>1, <2>3, <2>4 DEF StatusSeen
  <2>14. CASE row.status = old.status
    BY <2>3, <2>11, <2>12, <2>13, <2>14
  <2>15. CASE old.status = "draft" /\ row.status = "published"
    <3>1. Life!Becomes(e, {"draft"}, "published")
      BY <2>3, <2>12, <2>13, <2>15, SeenBecomes
    <3>2. QED
      BY <2>3, <2>11, <3>1 DEF Life!Next
  <2>16. CASE old.status \in {"draft", "published"} /\ row.status = "cancelled"
    <3>1. Life!Becomes(e, {"draft", "published"}, "cancelled")
      BY <2>3, <2>12, <2>13, <2>16, SeenBecomes
    <3>2. QED
      BY <2>3, <2>11, <3>1 DEF Life!Next
  <2>17. QED
    BY <2>4, <2>8, <2>11, <2>14, <2>15, <2>16 DEF Leads
<1>10. ASSUME NEW o \in Organizer, Delete(o)
       PROVE  LifeInv' /\ (Life!Next \/ StatusSeen' = StatusSeen)
  <2>1. PICK was, e : was = edit[o] /\ e = was.event
    OBVIOUS
  <2>2. was.pc = "delete" /\ EditOK(was) /\ EditFits(was)
    BY <1>10, <2>1 DEF Delete, LifeInv, EventsTyped
  <2>3. e \in Event
    BY <2>1, <2>2, EditBusy
  <2>4. Exists(e) /\ events[e].status \in {"draft", "cancelled"}
    BY <2>1, <2>2 DEF EditFits
  <2>5. edit' = [edit EXCEPT ![o] = NoEdit] /\ minted' = minted
    BY <1>10 DEF Delete
  <2>6. CASE events' = events
    <3>1. EditFits(NoEdit)
      BY DEF EditFits, NoEdit
    <3>2. QED
      BY <1>0, <2>5, <2>6, <3>1, QuietStep
  <2>7. CASE events' = [events EXCEPT ![e] = None]
    <3>1. \A p \in Organizer : edit'[p] = NoEdit
      BY <2>5 DEF LifeInv, EventsTyped, OneOrganizer
    <3>2. LifeInv'
      BY <1>0, <2>3, <2>5, <2>7, <3>1, RowStep
    <3>3. e \in minted'
      BY <2>3, <2>4, <2>5 DEF LifeInv
    <3>4. StatusSeen' = [StatusSeen EXCEPT ![e] = "deleted"]
      BY <2>3, <2>5, <2>7, <3>3, SeenMoves
    <3>5. StatusSeen[e] \in {"draft", "cancelled"}
      BY <2>3, <2>4 DEF StatusSeen
    <3>6. Life!Becomes(e, {"draft", "cancelled"}, "deleted")
      <4>1. PICK from, to : from = {"draft", "cancelled"} /\ to = "deleted"
        OBVIOUS
      <4>2. /\ StatusSeen[e] \in from
            /\ StatusSeen' = [StatusSeen EXCEPT ![e] = to]
        BY <3>4, <3>5, <4>1
      <4>3. Life!Becomes(e, from, to)
        BY <2>3, <4>2, SeenBecomes
      <4>4. QED
        BY <4>1, <4>3
    <3>7. QED
      BY <2>3, <3>2, <3>6 DEF Life!Next
  <2>8. QED
    BY <1>10, <2>1, <2>6, <2>7 DEF Delete
<1>11. CASE UNCHANGED vars
  <2>1. /\ regs' = regs /\ events' = events /\ edit' = edit
        /\ minted' = minted
    BY <1>11 DEF vars
  <2>2. QED
    BY <1>0, <2>1 DEF LifeInv, EditFits, Exists, StatusSeen
<1>12. QED
  BY <1>1, <1>4, <1>5, <1>6, <1>7, <1>8, <1>9, <1>10, <1>11 DEF Next

\* At the start no event is past its publication.
LEMMA LifeStart == Init => LifeInv /\ Life!Init
<1> SUFFICES ASSUME Init
             PROVE  LifeInv /\ Life!Init
  OBVIOUS
<1>1. EventsTyped
  BY EventsStart
<1>2. \A e \in Event : Exists(e) =>
          /\ e \in minted
          /\ events[e].status \in {"draft", "published"}
  BY DEF Init, Exists, EventAtStart
<1>3. \A o \in Organizer : EditFits(edit[o])
  BY DEF Init, EditFits, NoEdit
<1>4. \A e \in Event : ~Exists(e) => e \notin minted
  BY DEF Init
<1>5. Life!Init
  BY <1>2, <1>4 DEF Life!Init
<1>6. QED
  BY <1>1, <1>2, <1>3, <1>5 DEF LifeInv

\* Under one organiser at a time event-service implements EventLifecycle:
\* events are published once, cancelled for good, deleted only when not live,
\* and never come back.  (Of two, the stale save of one takes back what the
\* other has changed, the cancellation of the event included.)
THEOREM LifecycleOfOne ==
    ASSUME OneOrganizer
    PROVE  Spec => FollowsLifecycle
<1>1. Init => LifeInv /\ Life!Init
  BY LifeStart
<1>2. LifeInv /\ [Next]_vars => LifeInv' /\ [Life!Next]_StatusSeen
  BY LifeStep
<1>3. QED
  BY <1>1, <1>2, PTL DEF Spec, FollowsLifecycle, Life!Spec, StatusSeen

-----------------------------------------------------------------------------
(* Together: the part of the back office that a behaviour is about         *)

\* A behaviour of the back office is one of each of its parts.
LEMMA OnePartSteps ==
    ASSUME [BackOfficeNext]_backVars
    PROVE  /\ [Next]_vars /\ [AccountNext]_accountVars
           /\ [TicketNext]_ticketVars /\ [TaskNext]_taskVars
           /\ [MeetingNext]_meetingVars
<1>1. UNCHANGED eventVars => UNCHANGED vars
  BY DEF eventVars, vars
<1>2. CASE BackOfficeNext
  BY <1>1, <1>2 DEF BackOfficeNext, others
<1>3. CASE UNCHANGED backVars
  BY <1>1, <1>3 DEF backVars, others
<1>4. QED
  BY <1>2, <1>3

\* The inductive invariant of the back office: those of its parts.
BackOfficeInv == EventsTyped /\ AccountInv /\ TicketInv /\ TaskInv /\ MInv

\* It holds at the start.
LEMMA BackOfficeStart == BackOfficeInit => BackOfficeInv
BY EventsStart, AccountsStart, TicketStart, TaskStart, MeetingStart
DEF BackOfficeInit, BackOfficeInv

\* Every step keeps it.
LEMMA BackOfficeStep ==
    ASSUME BackOfficeInv, [BackOfficeNext]_backVars
    PROVE  BackOfficeInv'
<1>1. /\ [Next]_vars /\ [AccountNext]_accountVars
      /\ [TicketNext]_ticketVars /\ [TaskNext]_taskVars
      /\ [MeetingNext]_meetingVars
  BY OnePartSteps
<1>2. EventsTyped'
  BY <1>1, EventsStayTyped DEF BackOfficeInv
<1>3. AccountInv'
  BY <1>1, AccountsStep DEF BackOfficeInv
<1>4. TicketInv'
  BY <1>1, TicketStep DEF BackOfficeInv, ticketVars, TicketInv
<1>5. TaskInv'
  BY <1>1, TaskStep DEF BackOfficeInv, taskVars, TaskInv
<1>6. MInv'
  BY <1>1, MeetingStep DEF BackOfficeInv
<1>7. QED
  BY <1>2, <1>3, <1>4, <1>5, <1>6 DEF BackOfficeInv

\* Threads in order are the columns the table's type allows.
LEMMA TicketsAreTyped == TicketInv => TicketTypeOK
<1> SUFFICES ASSUME TicketInv
             PROVE  TicketTypeOK
  OBVIOUS
<1>1. ASSUME NEW row \in TicketsBy(stamp)
      PROVE  row \in TicketRow
  BY TicketStored
<1>2. ASSUME NEW a \in Agent
      PROVE  desk[a] \in Desk!Handler(TicketRow, TicketColumn)
  BY <1>1 DEF TicketInv, AgentOK, Desk!Idle, Desk!Handler
<1>3. QED
  BY <1>1, <1>2 DEF TicketInv, TicketTypeOK

\* The same for tasks.
LEMMA TasksAreTyped == TaskInv => TaskTypeOK
<1> SUFFICES ASSUME TaskInv
             PROVE  TaskTypeOK
  OBVIOUS
<1>1. ASSUME NEW row \in TasksBy(written)
      PROVE  row \in TaskRow
  BY TaskStored
<1>2. ASSUME NEW m \in Member
      PROVE  board[m] \in Board!Handler(TaskRow, TaskColumn)
  BY <1>1 DEF TaskInv, MemberOK, Board!Idle, Board!Handler
<1>3. QED
  BY <1>1, <1>2 DEF TaskInv, TaskTypeOK

\* The array of meetings is of the type the module states.
LEMMA MeetingsAreTyped == MInv => MeetingTypeOK
<1> SUFFICES ASSUME MInv
             PROVE  MeetingTypeOK
  OBVIOUS
<1>1. Len(store) \in 0..MaxMeeting
  BY MeetingsAssumption DEF MInv
<1>2. store \in [1..Len(store) -> Meeting]
  BY DEF MInv, Placeable
<1>3. store \in UNION {[1..n -> Meeting] : n \in 0..MaxMeeting}
  BY <1>1, <1>2
<1>4. QED
  BY <1>3 DEF MInv, MeetingTypeOK

\* The tables of the back office keep their types, whatever their services
\* save at once.
THEOREM BackOfficeTypeCorrect == BackOfficeSpec => []BackOfficeTypeOK
<1>1. BackOfficeInv => BackOfficeTypeOK
  BY EventsAreTyped, TicketsAreTyped, TasksAreTyped, MeetingsAreTyped
  DEF BackOfficeInv, AccountInv, BackOfficeTypeOK
<1>2. QED
  BY <1>1, BackOfficeStart, BackOfficeStep, PTL DEF BackOfficeSpec

\* What several people write at once on tickets and tasks may get lost, but
\* never shows twice or in the wrong order.
THEOREM ThreadsStayInOrder == BackOfficeSpec => []MessagesInOrder
<1>1. BackOfficeInv => MessagesInOrder
  BY TicketsInOrder
  DEF BackOfficeInv, TaskInv, CommentsInOrder, TasksBy, Dated, Board!Stored,
      MessagesInOrder
<1>2. QED
  BY <1>1, BackOfficeStart, BackOfficeStep, PTL DEF BackOfficeSpec

\* What the run of the back office checks of every state, for any numbers of
\* rows and of requests at once: one user per address, roles that were
\* granted, threads in order and answers that reach their meeting.
THEOREM BackOfficeKeepsItsPromises ==
    BackOfficeSpec => [](/\ OneUserPerEmail /\ RoleWasGranted
                         /\ MessagesInOrder /\ LinesNameTheirMeeting)
<1>1. BackOfficeInv => /\ OneUserPerEmail /\ RoleWasGranted
                       /\ LinesNameTheirMeeting
  BY DEF BackOfficeInv, AccountInv, RoleWasGranted, VisitOK, MInv
<1>2. QED
  BY <1>1, BackOfficeStart, BackOfficeStep, ThreadsStayInOrder, PTL
  DEF BackOfficeSpec

\* With one organiser the run's property follows from that of the service.
THEOREM BackOfficeFollowsLifecycle ==
    ASSUME OneOrganizer
    PROVE  BackOfficeSpec => FollowsLifecycle
<1>1. BackOfficeInit => Init
  BY DEF BackOfficeInit
<1>2. [BackOfficeNext]_backVars => [Next]_vars
  BY OnePartSteps
<1>3. BackOfficeSpec => Spec
  BY <1>1, <1>2, PTL DEF BackOfficeSpec, Spec
<1>4. QED
  BY <1>3, LifecycleOfOne

\* No request of an administrator, however stale, changes a password.
THEOREM BackOfficeKeepsPasswords == BackOfficeSpec => PasswordKept
<1>1. BackOfficeInit => AccountInit
  BY DEF BackOfficeInit
<1>2. [BackOfficeNext]_backVars => [AccountNext]_accountVars
  BY OnePartSteps
<1>3. BackOfficeSpec => AccountSpec
  BY <1>1, <1>2, PTL DEF BackOfficeSpec, AccountSpec
<1>4. QED
  BY <1>3, PasswordsStay

\* What holds of a behaviour in which no two requests overlap.
AloneInv ==
    alone => /\ part \in {"tickets", "tasks"}
             /\ InProgress <= 1
             /\ AgentsFit /\ MembersFit

\* While tickets are worked on, at most one agent works.
LEMMA AgentsAlone ==
    ASSUME part = "tickets", InProgress <= 1
    PROVE  OneAgent
<1>1. PICK busy : busy = {a \in Agent : desk[a] # Desk!Idle}
  OBVIOUS
<1>2. InProgress = Cardinality(busy)
  BY <1>1 DEF InProgress
<1>3. IsFiniteSet(busy)
  BY <1>1, BackOfficeAssumption, FS_Subset
<1>4. \A a, b \in busy : a = b
  BY <1>2, <1>3, AtMostOne
<1>5. QED
  BY <1>1, <1>4 DEF OneAgent

\* While tasks are worked on, at most one member works.
LEMMA MembersAlone ==
    ASSUME part = "tasks", InProgress <= 1
    PROVE  OneMember
<1>1. PICK busy : busy = {m \in Member : board[m] # Board!Idle}
  OBVIOUS
<1>2. InProgress = Cardinality(busy)
  BY <1>1 DEF InProgress
<1>3. IsFiniteSet(busy)
  BY <1>1, BackOfficeAssumption, FS_Subset
<1>4. \A a, b \in busy : a = b
  BY <1>2, <1>3, AtMostOne
<1>5. QED
  BY <1>1, <1>4 DEF OneMember

\* Nobody is at work at the start.
LEMMA AloneStart ==
    ASSUME BackOfficeInit
    PROVE  AloneInv /\ TicketTalk!Init /\ TaskTalk!Init
<1>1. /\ AgentsFit /\ TicketTalk!Init
      /\ MembersFit /\ TaskTalk!Init
  BY TicketTalkStart, TaskTalkStart DEF BackOfficeInit
<1>2. ASSUME alone
      PROVE  InProgress <= 1
  <2>1. part \in {"tickets", "tasks"}
    BY <1>2 DEF BackOfficeInit
  <2>2. CASE part = "tickets"
    <3>1. {a \in Agent : desk[a] # Desk!Idle} = {}
      BY DEF BackOfficeInit, TicketInit
    <3>2. InProgress = Cardinality({})
      BY <2>2, <3>1 DEF InProgress
    <3>3. QED
      BY <3>2, FS_EmptySet
  <2>3. CASE part = "tasks"
    <3>1. {m \in Member : board[m] # Board!Idle} = {}
      BY DEF BackOfficeInit, TaskInit
    <3>2. InProgress = Cardinality({})
      BY <2>3, <3>1 DEF InProgress
    <3>3. QED
      BY <3>2, FS_EmptySet
  <2>4. QED
    BY <2>1, <2>2, <2>3
<1>3. QED
  BY <1>1, <1>2 DEF BackOfficeInit, AloneInv

\* A step that leaves the tickets alone.
LEMMA TicketsStill ==
    ASSUME UNCHANGED ticketVars, alone' = alone
    PROVE  TicketsSeenAlike /\ (AgentsFit => AgentsFit')
BY DEF ticketVars, TicketsSeenAlike, TicketSaid, TicketFirst, AgentsFit,
       AgentFits

\* A step that leaves the tasks alone.
LEMMA TasksStill ==
    ASSUME UNCHANGED taskVars, alone' = alone
    PROVE  TasksSeenAlike /\ (MembersFit => MembersFit')
BY DEF taskVars, TasksSeenAlike, TaskSaid, TaskFirst, TaskGone, FirstComment,
       MembersFit, MemberFits

\* While requests may overlap, Conversation is shown nothing.
LEMMA NothingSeen ==
    ASSUME ~alone, alone' = alone
    PROVE  TicketsSeenAlike /\ TasksSeenAlike
BY DEF TicketsSeenAlike, TicketSaid, TicketFirst, TasksSeenAlike, TaskSaid,
       TaskFirst, TaskGone

\* Every step of the back office is a step of a conversation on tickets, or
\* one on tasks, or is not seen by their readers.
LEMMA BackOfficeTalks ==
    ASSUME TicketInv, TaskInv, AloneInv, [BackOfficeNext]_backVars
    PROVE  /\ AloneInv'
           /\ TicketTalk!Next \/ TicketsSeenAlike
           /\ TaskTalk!Next \/ TasksSeenAlike
<1>1. alone' = alone /\ part' = part
  BY DEF BackOfficeNext, backVars
<1>2. CASE ~alone
  BY <1>1, <1>2, NothingSeen DEF AloneInv
<1>3. CASE alone /\ UNCHANGED backVars
  <2>1. UNCHANGED ticketVars /\ UNCHANGED taskVars
    BY <1>3 DEF backVars, others
  <2>2. InProgress' = InProgress
    BY <1>3 DEF backVars, others, accountVars, ticketVars, taskVars,
                InProgress
  <2>3. QED
    BY <1>1, <1>3, <2>1, <2>2, TicketsStill, TasksStill DEF AloneInv
<1>4. CASE alone /\ BackOfficeNext
  <2>1. InProgress' <= 1
    BY <1>4 DEF BackOfficeNext
  <2>2. CASE part = "tickets"
    <3>1. TicketNext /\ UNCHANGED taskVars
      BY <1>4, <2>2 DEF BackOfficeNext
    <3>2. OneAgent
      BY <1>4, <2>2, AgentsAlone DEF AloneInv
    <3>3. AgentsFit' /\ (TicketTalk!Next \/ TicketsSeenAlike)
      BY <1>1, <1>4, <3>1, <3>2, TicketTalks DEF AloneInv
    <3>4. MembersFit' /\ TasksSeenAlike
      BY <1>1, <1>4, <3>1, TasksStill DEF AloneInv
    <3>5. QED
      BY <1>1, <2>1, <2>2, <3>3, <3>4 DEF AloneInv
  <2>3. CASE part = "tasks"
    <3>1. TaskNext /\ UNCHANGED ticketVars
      BY <1>4, <2>3 DEF BackOfficeNext
    <3>2. OneMember
      BY <1>4, <2>3, MembersAlone DEF AloneInv
    <3>3. MembersFit' /\ (TaskTalk!Next \/ TasksSeenAlike)
      BY <1>1, <1>4, <3>1, <3>2, TaskTalks DEF AloneInv
    <3>4. AgentsFit' /\ TicketsSeenAlike
      BY <1>1, <1>4, <3>1, TicketsStill DEF AloneInv
    <3>5. QED
      BY <1>1, <2>1, <2>3, <3>3, <3>4 DEF AloneInv
  <2>4. QED
    BY <1>4, <2>2, <2>3 DEF AloneInv
<1>5. QED
  BY <1>2, <1>3, <1>4

\* As long as no two requests overlap, nothing that was said on a ticket or a
\* task is lost, the first response is dated once and no later than the first
\* answer, and what was removed stays removed: the tables implement Conversation.
THEOREM TalkIsKept == BackOfficeSpec => ConversationsKept
<1>1. BackOfficeInit =>
          TicketInv /\ TaskInv /\ AloneInv /\ TicketTalk!Init /\ TaskTalk!Init
  BY TicketStart, TaskStart, AloneStart DEF BackOfficeInit
<1>2. TicketInv /\ TaskInv /\ AloneInv /\ [BackOfficeNext]_backVars =>
          /\ (TicketInv /\ TaskInv /\ AloneInv)'
          /\ [TicketTalk!Next]_<<TicketSaid, TicketFirst, {}>>
          /\ [TaskTalk!Next]_<<TaskSaid, TaskFirst, TaskGone>>
  <2> SUFFICES ASSUME TicketInv, TaskInv, AloneInv, [BackOfficeNext]_backVars
               PROVE  /\ (TicketInv /\ TaskInv /\ AloneInv)'
                      /\ [TicketTalk!Next]_<<TicketSaid, TicketFirst, {}>>
                      /\ [TaskTalk!Next]_<<TaskSaid, TaskFirst, TaskGone>>
    OBVIOUS
  <2>1. TicketInv' /\ TaskInv'
    BY OnePartSteps, TicketStep, TaskStep
    DEF ticketVars, taskVars, TicketInv, TaskInv
  <2>2. /\ AloneInv'
        /\ TicketTalk!Next \/ TicketsSeenAlike
        /\ TaskTalk!Next \/ TasksSeenAlike
    BY BackOfficeTalks
  <2>3. QED
    BY <2>1, <2>2 DEF TicketsSeenAlike, TasksSeenAlike
<1>3. BackOfficeSpec => TicketTalk!Spec
  BY <1>1, <1>2, PTL
  DEF BackOfficeSpec, TicketTalk!Spec, TicketSaid, TicketFirst
<1>4. BackOfficeSpec => TaskTalk!Spec
  BY <1>1, <1>2, PTL
  DEF BackOfficeSpec, TaskTalk!Spec, TaskSaid, TaskFirst, TaskGone
<1>5. QED
  BY <1>3, <1>4 DEF ConversationsKept

=============================================================================
