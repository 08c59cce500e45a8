----------------------------- MODULE TaskBoard -----------------------------
(***************************************************************************)
(* task-service: an event's tasks, each with its comments in one JSON      *)
(* column.  Like tickets, tasks are loaded, changed and saved whole; but   *)
(* they can be removed, one by one or with their event, and the save of an *)
(* entity that was loaded before the removal inserts it again.             *)
(*                                                                         *)
(* A comment is the stamp of its createdAt.  Of the columns that PUT       *)
(* assigns the model keeps priority; title, dates and hours decide         *)
(* nothing.                                                                *)
(***************************************************************************)
EXTENDS Integers, Sequences, FiniteSets, TypeOrm

CONSTANTS
    TaskId,     \* primary keys of tasks
    Member,     \* slots for requests in progress: bounds the concurrency
    Assignee,   \* users a task can be assigned to
    MaxComment, \* bound on the comments written
    NewPriority     \* the priorities that requests give

ASSUME TaskBoardAssumption ==
    /\ MaxComment \in Nat
    /\ None \notin TaskId
    /\ None \notin Assignee
    /\ None \notin Nat

VARIABLES
    tasks,      \* [TaskId -> row or None]: the tasks of one event
    board,      \* [Member -> handler]: the requests in progress
    written,    \* the clock that dates comments
    taskKeys,   \* the keys the sequence has handed out
    eventGone   \* TRUE once the event has been deleted

taskVars == <<tasks, board, written, taskKeys, eventGone>>

TaskStatus == {"todo", "in_progress", "review", "done"}

TaskPriority == {"low", "medium", "high", "urgent"}

Comments == UNION {[1..n -> 1..MaxComment] : n \in 0..MaxComment}

TaskRow == [status: TaskStatus, priority: TaskPriority,
            assignedTo: Assignee \cup {None}, comments: Comments]

TaskColumn == {"status", "priority", "assignedTo", "comments"}

ASSUME TaskRowAssumption ==
    /\ None \notin TaskRow
    /\ None \notin Comments
    /\ NewPriority \subseteq TaskPriority

Board == INSTANCE SavedRows WITH Key <- TaskId, Hidden <- {},
                                 rows <- tasks, request <- board

TaskTypeOK ==
    /\ tasks \in [TaskId -> TaskRow \cup {None}]
    /\ board \in [Member -> Board!Handler(TaskRow, TaskColumn)]
    /\ written \in 0..MaxComment
    /\ taskKeys \subseteq TaskId
    /\ eventGone \in BOOLEAN

-----------------------------------------------------------------------------
NewTask(priority, person) ==
    [status |-> "todo", priority |-> priority, assignedTo |-> person,
     comments |-> <<>>]

TaskInit ==
    /\ tasks = [t \in TaskId |-> None]
    /\ board = [m \in Member |-> Board!Idle]
    /\ written = 0
    /\ taskKeys = {}
    /\ eventGone = FALSE

\* Where the related user was loaded with the row, save believes it, and not
\* the id that assign or update has set (see Tickets).
Reassigned(row, p) == [row EXCEPT !.assignedTo = IF @ = None THEN p ELSE @]

\* Mutant of Commented: only the newest comment is kept.
CommentedOver(row, c) == [row EXCEPT !.comments = <<c>>]

Commented(row, c) == [row EXCEPT !.comments = Append(@, c)]

SaveTask(m, t, entity) ==
    /\ Board!Take(m, t, entity)
    /\ UNCHANGED <<written, taskKeys, eventGone>>

-----------------------------------------------------------------------------
\* POST /tasks: the foreign key refuses a task for an event that is gone.
CreateTask(m, priority, person) ==
    /\ ~eventGone
    /\ \E t \in TaskId \ taskKeys :
          /\ Board!Insert(m, t, NewTask(priority, person))
          /\ taskKeys' = taskKeys \cup {t}
    /\ UNCHANGED <<written, eventGone>>

\* PUT /tasks/:id: Object.assign of whatever the body holds.
UpdateTask(m, t, priority, p) ==
    SaveTask(m, t, [Reassigned(tasks[t], p) EXCEPT !.priority = priority])

UpdateTaskStatus(m, t, status) ==
    SaveTask(m, t, [tasks[t] EXCEPT !.status = status])

AssignTask(m, t, p) == SaveTask(m, t, Reassigned(tasks[t], p))

AddComment(m, t) ==
    /\ written < MaxComment     \* bound
    /\ written' = written + 1
    /\ Board!Take(m, t, Commented(tasks[t], written'))
    /\ UNCHANGED <<taskKeys, eventGone>>

RemoveTask(m, t) ==
    /\ Board!TakeOut(m, t)
    /\ UNCHANGED <<written, taskKeys, eventGone>>

-----------------------------------------------------------------------------
ReloadTask(m) ==
    Board!Reload(m) /\ UNCHANGED <<written, taskKeys, eventGone>>

\* The INSERT of an entity that came back fails once the event is gone.
WriteTask(m) ==
    /\ ~(eventGone /\ board[m].pc = "insert")
    /\ Board!Write(m)
    /\ UNCHANGED <<written, taskKeys, eventGone>>

DeleteTask(m) ==
    Board!Delete(m, FALSE) /\ UNCHANGED <<written, taskKeys, eventGone>>

\* event-service deletes the event: ON DELETE CASCADE takes its tasks.
DeleteEvent ==
    /\ ~eventGone
    /\ eventGone' = TRUE
    /\ tasks' = [t \in TaskId |-> None]
    /\ UNCHANGED <<board, written, taskKeys>>

\* A query that rejects, or a crash: nothing of the handler is left.
TaskFails(m) ==
    /\ board[m] # Board!Idle
    /\ board' = [board EXCEPT ![m] = Board!Idle]
    /\ UNCHANGED <<tasks, written, taskKeys, eventGone>>

TaskNext ==
    \/ \E m \in Member :
          \/ \E priority \in NewPriority, p \in Assignee \cup {None} :
                CreateTask(m, priority, p)
          \/ \E t \in Board!Stored :
                \/ AddComment(m, t) \/ RemoveTask(m, t)
                \/ \E status \in TaskStatus : UpdateTaskStatus(m, t, status)
                \/ \E p \in Assignee :
                      \/ AssignTask(m, t, p)
                      \/ \E priority \in NewPriority :
                            UpdateTask(m, t, priority, p)
          \/ ReloadTask(m) \/ WriteTask(m) \/ DeleteTask(m)
          \/ TaskFails(m)
    \/ DeleteEvent

TaskSpec == TaskInit /\ [][TaskNext]_taskVars

-----------------------------------------------------------------------------
(* Properties                                                              *)

\* Members who overwrite each other lose comments and bring removed tasks
\* back, but a thread never shows a comment twice or out of order, and a
\* removed task comes back only while its event exists.
CommentsInOrder ==
    /\ \A t \in Board!Stored : \A i, j \in DOMAIN tasks[t].comments :
          i < j => tasks[t].comments[i] < tasks[t].comments[j]
    /\ eventGone => Board!Stored = {}

=============================================================================
