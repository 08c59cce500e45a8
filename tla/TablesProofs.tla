---------------------------- MODULE TablesProofs ----------------------------
(***************************************************************************)
(* What a save does to a row of the registrations table, whatever the      *)
(* entity in memory and the columns it writes.                             *)
(***************************************************************************)
EXTENDS Tables, TLAPS

\* Patch returns a row of the table, each column of which comes from the
\* stored row or from the saved entity.
LEMMA PatchRow ==
    ASSUME NEW row \in RegistrationRow, NEW entity \in RegistrationRow, NEW cols
    PROVE  LET p == Patch(row, entity, cols)
           IN  /\ p \in RegistrationRow
               /\ p.event \in {row.event, entity.event}
               /\ p.user \in {row.user, entity.user}
               /\ p.amountPaid \in {row.amountPaid, entity.amountPaid}
               /\ p.status \in {row.status, entity.status}
               /\ p.intent \in {row.intent, entity.intent}
               /\ p.confirmedAt \in {row.confirmedAt, entity.confirmedAt}
               /\ "intent" \in cols => p.intent = entity.intent
               /\ "status" \in cols => p.status = entity.status
<1> DEFINE p == Patch(row, entity, cols)
<1>1. DOMAIN row = RegistrationColumn
  BY DEF RegistrationRow, RegistrationColumn
<1>2. p = [event |-> p.event, user |-> p.user, amountPaid |-> p.amountPaid,
           status |-> p.status, intent |-> p.intent,
           confirmedAt |-> p.confirmedAt, cancelledAt |-> p.cancelledAt]
  BY <1>1 DEF Patch, RegistrationColumn
<1>3. \A c \in RegistrationColumn :
          p[c] = IF c \in cols THEN entity[c] ELSE row[c]
  BY <1>1 DEF Patch
<1>4. QED
  BY <1>1, <1>2, <1>3 DEF RegistrationRow, RegistrationColumn

\* The column keeps a number, and never makes a charge of a free price.
LEMMA CentsOf ==
    ASSUME NEW p \in Price
    PROVE  /\ p \in Int
           /\ Cents(p) \in Amount
           /\ Cents(p) \in Int
           /\ p <= 0 => Cents(p) <= 0
<1>1. p \in Int
  BY TablesAssumption
<1>2. Cents(p) \in Amount
  BY DEF Amount
<1>3. QED
  BY <1>1, <1>2 DEF Cents

\* What rows are stored with are numbers.
LEMMA AmountInt == Amount \subseteq Int
BY CentsOf DEF Amount

\* Changed names columns of the table.
LEMMA ChangedColumns ==
    ASSUME NEW row \in RegistrationRow, NEW entity
    PROVE  Changed(row, entity) \subseteq RegistrationColumn
BY DEF Changed, RegistrationRow, RegistrationColumn

=============================================================================
