---------------------------- MODULE EventService ----------------------------
(***************************************************************************)
(* event-service: create, edit, publish, cancel and delete events.  Every  *)
(* handler but create loads the row, checks the status it sees, and then   *)
(* saves or removes the entity in further round trips.  A handler writes   *)
(* once, in its last step: cut short, it has done nothing.                 *)
(***************************************************************************)
EXTENDS Tables

CONSTANT Organizer      \* slots for organisers' requests in progress

VARIABLES
    edit,       \* [Organizer -> handler]: the requests in progress
    minted      \* the keys the events_id_seq sequence has handed out

vars == <<regs, events, edit, minted>>

EditHandler ==
    [pc: {"idle", "reload", "write", "insert", "delete"},
     event: Event \cup {None},
     entity: EventRow \cup {None},      \* the event held in memory
     cols: SUBSET EventColumn]          \* the columns save found changed

TypeOK ==
    /\ TablesTypeOK
    /\ edit \in [Organizer -> EditHandler]
    /\ minted \subseteq Event

-----------------------------------------------------------------------------
NoEdit == [pc |-> "idle", event |-> None, entity |-> None, cols |-> {}]

Exists(e) == events[e] # None

Init ==
    /\ regs = [r \in RegId |-> None]
    /\ events \in [Event -> EventAtStart \cup {None}]
    /\ edit = [o \in Organizer |-> NoEdit]
    /\ minted = {e \in Event : Exists(e)}

\* Mutant of MayPublish: a cancelled event may be published.
MayPublishUnlessPublished(row) == row.status # "published"

MayPublish(row) == row.status = "draft"

MayCancel(row) == row.status # "completed"

MayRemove(row) == row.status \notin {"published", "ongoing"}

\* Mutant of Referenced: the tables have no foreign key.
ReferencedByNobody(e) == FALSE

\* The foreign key of registrations holds on to event e.
Referenced(e) == \E r \in Registered : regs[r].event = e

CancelledEvent(row) == [row EXCEPT !.status = "cancelled"]

\* A handler of o that has loaded event e and will save entity.
Save(o, e, entity) ==
    /\ edit[o] = NoEdit
    /\ edit' = [edit EXCEPT ![o] = [NoEdit EXCEPT !.pc = "reload",
                                        !.event = e, !.entity = entity]]
    /\ UNCHANGED <<regs, events, minted>>

-----------------------------------------------------------------------------
\* POST /events: one INSERT, after a check that the event ends after it
\* starts.  New events are drafts: the body cannot set a status.
Create(o, start, end) ==
    /\ edit[o] = NoEdit
    /\ end > start
    /\ \E e \in Event \ minted :
          /\ events' = [events EXCEPT ![e] = [status |-> "draft",
                            startDate |-> start, endDate |-> end]]
          /\ minted' = minted \cup {e}
    /\ UNCHANGED <<regs, edit>>

\* PATCH /events/:id: the columns of the body are assigned unchecked.
Update(o, e, start, end) ==
    /\ Exists(e)
    /\ Save(o, e, [events[e] EXCEPT !.startDate = start, !.endDate = end])

Publish(o, e) ==
    /\ Exists(e)
    /\ MayPublish(events[e])
    /\ Save(o, e, [events[e] EXCEPT !.status = "published"])

Cancel(o, e) ==
    /\ Exists(e)
    /\ MayCancel(events[e])
    /\ Save(o, e, CancelledEvent(events[e]))

\* DELETE /events/:id, as far as the check of the status.
Remove(o, e) ==
    /\ edit[o] = NoEdit
    /\ Exists(e)
    /\ MayRemove(events[e])
    /\ edit' = [edit EXCEPT ![o] = [NoEdit EXCEPT !.pc = "delete",
                                                  !.event = e]]
    /\ UNCHANGED <<regs, events, minted>>

-----------------------------------------------------------------------------
\* The first round trip of save: an entity whose row is gone will be
\* inserted again, under its old key.
Reload(o) ==
    /\ edit[o].pc = "reload"
    /\ LET e == edit[o].event
       IN edit' = IF Exists(e)
                  THEN [edit EXCEPT ![o].pc = "write",
                            ![o].cols = Changed(events[e], edit[o].entity)]
                  ELSE [edit EXCEPT ![o].pc = "insert"]
    /\ UNCHANGED <<regs, events, minted>>

\* What save leaves of the row: the UPDATE finds nothing to change once the
\* row is gone, and the primary key refuses the INSERT once another handler
\* has put the row back.
Saved(handler, row) ==
    CASE handler.pc = "write" /\ row # None ->
            Patch(row, handler.entity, handler.cols)
      [] handler.pc = "insert" /\ row = None -> handler.entity
      [] OTHER -> row

\* The second round trip: the UPDATE of the changed columns, or the INSERT.
Write(o) ==
    /\ edit[o].pc \in {"write", "insert"}
    /\ events' = [events EXCEPT ![edit[o].event] = Saved(edit[o], @)]
    /\ edit' = [edit EXCEPT ![o] = NoEdit]
    /\ UNCHANGED <<regs, minted>>

\* The DELETE, by key: it asks for no status, but the foreign key of
\* registrations refuses it while somebody is registered.
Delete(o) ==
    /\ edit[o].pc = "delete"
    /\ events' = IF Referenced(edit[o].event)
                 THEN events
                 ELSE [events EXCEPT ![edit[o].event] = None]
    /\ edit' = [edit EXCEPT ![o] = NoEdit]
    /\ UNCHANGED <<regs, minted>>

-----------------------------------------------------------------------------
Next ==
    \E o \in Organizer :
        \/ \E start, end \in Day : Create(o, start, end)
        \/ \E e \in Event :
              \/ Publish(o, e) \/ Cancel(o, e) \/ Remove(o, e)
              \/ \E start, end \in Day : Update(o, e, start, end)
        \/ Reload(o)
        \/ Write(o)
        \/ Delete(o)

Spec == Init /\ [][Next]_vars

-----------------------------------------------------------------------------
(* Properties                                                              *)

\* EventService against EventLifecycle: a key the sequence has handed out and
\* that names no row belongs to a deleted event.
Life == INSTANCE EventLifecycle WITH
    status <- [e \in Event |-> IF Exists(e) THEN events[e].status
                              ELSE IF e \in minted THEN "deleted" ELSE None]

\* Events go through their lifecycle one way: published once, cancelled for
\* good, deleted only when not live, never back after a deletion.
FollowsLifecycle == Life!Spec

=============================================================================
