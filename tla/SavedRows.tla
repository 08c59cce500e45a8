----------------------------- MODULE SavedRows -----------------------------
(***************************************************************************)
(* A table whose rows the handlers of a service change in one way only:    *)
(* load the entity by its key, assign to it, save it.  The save takes two  *)
(* round trips (TypeOrm), so a handler passes through                      *)
(*                                                                         *)
(*   idle --Take--> reload --Reload--> write or insert --Write--> idle     *)
(*                                                                         *)
(* or idle --TakeOut--> delete --Delete--> idle, and other handlers run    *)
(* in between.  The modules of the services instantiate this one.          *)
(***************************************************************************)
EXTENDS TypeOrm

CONSTANTS
    Key,        \* primary keys
    Hidden      \* the columns a plain SELECT leaves out (select: false)

VARIABLES
    rows,       \* [Key -> row or None]: the table
    request     \* [slot -> handler]: the requests in progress

Idle == [pc |-> "idle", key |-> None, entity |-> None, cols |-> {}]

Handler(Entity, Column) ==
    [pc: {"idle", "reload", "write", "insert", "delete"},
     key: Key \cup {None},
     entity: Entity \cup {None},       \* the entity held in memory
     cols: SUBSET Column]           \* the columns save found changed

Stored == {k \in Key : rows[k] # None}

\* The entity that a plain SELECT makes of row k.
Loaded(k) == [c \in DOMAIN rows[k] |-> IF c \in Hidden THEN "undefined"
                                       ELSE rows[k][c]]

\* The columns whose properties the entity does not have.
Undefined(entity) == {c \in Hidden : entity[c] = "undefined"}

\* A request has loaded row k and will save entity.
Take(q, k, entity) ==
    /\ request[q] = Idle
    /\ request' = [request EXCEPT ![q] = [Idle EXCEPT !.pc = "reload",
                                              !.key = k, !.entity = entity]]
    /\ UNCHANGED rows

\* A request has loaded row k and will delete it.
TakeOut(q, k) ==
    /\ request[q] = Idle
    /\ request' = [request EXCEPT ![q] = [Idle EXCEPT !.pc = "delete",
                                                      !.key = k]]
    /\ UNCHANGED rows

\* An INSERT of a new row under key k, in one step.
Insert(q, k, row) ==
    /\ request[q] = Idle
    /\ rows[k] = None
    /\ rows' = [rows EXCEPT ![k] = row]
    /\ UNCHANGED request

\* save, first round trip: the SELECT and the comparison, which skips the
\* properties that the entity does not have.  An entity whose row is gone
\* will be inserted again, under its old key.
Reload(q) ==
    /\ request[q].pc = "reload"
    /\ LET k == request[q].key
       IN request' =
            IF rows[k] # None
            THEN [request EXCEPT ![q].pc = "write",
                    ![q].cols = Changed(rows[k], request[q].entity)
                                    \ Undefined(request[q].entity)]
            ELSE [request EXCEPT ![q].pc = "insert"]
    /\ UNCHANGED rows

\* What save leaves in the row.
Saved(handler, row) ==
    CASE handler.pc = "write" /\ row # None ->
            Patch(row, handler.entity, handler.cols)
      [] handler.pc = "insert" /\ row = None ->
            [c \in DOMAIN handler.entity |->
                IF c \in Undefined(handler.entity) THEN None
                ELSE handler.entity[c]]
      [] OTHER -> row

\* save, second round trip: the UPDATE, or the INSERT.
Write(q) ==
    /\ request[q].pc \in {"write", "insert"}
    /\ rows' = [rows EXCEPT ![request[q].key] = Saved(request[q], @)]
    /\ request' = [request EXCEPT ![q] = Idle]

\* DELETE by key; a foreign key of another table may refuse it.
Delete(q, refused) ==
    /\ request[q].pc = "delete"
    /\ rows' = IF refused THEN rows
               ELSE [rows EXCEPT ![request[q].key] = None]
    /\ request' = [request EXCEPT ![q] = Idle]

=============================================================================
