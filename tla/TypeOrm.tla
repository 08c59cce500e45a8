------------------------------ MODULE TypeOrm ------------------------------
(***************************************************************************)
(* What the services rely on from TypeORM's Repository.save, for an entity *)
(* that was loaded earlier in the same handler.  save                      *)
(*                                                                         *)
(*   1. SELECTs the row again by primary key,                              *)
(*   2. compares the WHOLE entity in memory with the row it just read,     *)
(*   3. UPDATEs exactly the columns that differ, whoever changed them.     *)
(*                                                                         *)
(* No version column and no lock is used anywhere in the repository, so    *)
(* step 3 may overwrite what another handler wrote after the entity was    *)
(* loaded, and steps 1 and 3 are two round trips to the database.          *)
(***************************************************************************)

CONSTANT None   \* SQL NULL / no such row / nothing loaded

\* The columns save will write: those in which the entity differs from the
\* row it has just reloaded.
Changed(row, entity) == {c \in DOMAIN row : row[c] # entity[c]}

\* The row after the UPDATE of the columns cols from the entity.
Patch(row, entity, cols) ==
    [c \in DOMAIN row |-> IF c \in cols THEN entity[c] ELSE row[c]]

=============================================================================
