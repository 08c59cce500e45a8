---------------------------- MODULE FormBuilder ----------------------------
(***************************************************************************)
(* The form builder of registration-service: the questions of an event's   *)
(* sign-up form, rendered in the order of orderIndex.  update saves an     *)
(* entity (SavedRows); reorder sends one UPDATE per field, all at once,    *)
(* and answers when the last has come back.                                *)
(*                                                                         *)
(* What a question asks (label, type, options, rules) is one column, text. *)
(***************************************************************************)
EXTENDS Integers, Sequences, FiniteSets, SequencesExt, TypeOrm

CONSTANTS
    FieldId,    \* primary keys of form_fields
    FormEvent,  \* the events with a form
    Author,     \* slots for requests in progress
    Wording,    \* what a question may ask
    NewIndex,   \* the orderIndex that a request may set
    Asked       \* the lists of ids that reorder is sent

ASSUME FormAssumption ==
    /\ IsFiniteSet(FieldId)
    /\ 0 \in NewIndex
    /\ NewIndex \subseteq Nat
    /\ None \notin FieldId \cup Asked \cup Nat
    /\ \A list \in Asked : list \in Seq(FieldId) /\ IsInjective(list)

VARIABLES
    fields,     \* [FieldId -> row or None]: the form_fields table
    author,     \* [Author -> handler]: the updates in progress
    drag,       \* [Author -> the reorder in progress or None]
    fieldKeys,  \* the keys given out; keys are never given again
    settled,    \* the list of the last reorder, as long as no request has
                \* met another and none has begun since; or None
    page        \* the form as last rendered since settled was set, or None

formVars == <<fields, author, drag, fieldKeys, settled, page>>

FieldRow == [event: FormEvent, text: Wording, order: Nat]

FieldColumn == {"event", "text", "order"}

Editor == INSTANCE SavedRows WITH Key <- FieldId, Hidden <- {},
                                  rows <- fields, request <- author

\* A reorder: its list, the positions still to be written, and whether one of
\* its updates failed or another request was in progress since it began.
Drag == UNION {[list: {list}, left: SUBSET DOMAIN list, spoilt: BOOLEAN] :
                  list \in Asked}

ASSUME FieldRowAssumption == None \notin FieldRow \cup Drag

FormTypeOK ==
    /\ fields \in [FieldId -> FieldRow \cup {None}]
    /\ author \in [Author -> Editor!Handler(FieldRow, FieldColumn)]
    /\ drag \in [Author -> Drag \cup {None}]
    /\ fieldKeys \subseteq FieldId
    /\ settled \in Asked \cup {None}
    /\ page \in Seq(FieldId) \cup {None}

FormInit ==
    /\ fields = [f \in FieldId |-> None]
    /\ author = [a \in Author |-> Editor!Idle]
    /\ drag = [a \in Author |-> None]
    /\ fieldKeys = {}
    /\ settled = None
    /\ page = None

Unoccupied(a) == author[a] = Editor!Idle /\ drag[a] = None

\* A request begins in a slot: what was settled no longer is, and the
\* reorders in progress have met it.
Begins(a) ==
    /\ Unoccupied(a)
    /\ settled' = None
    /\ page' = None
    /\ drag' = [b \in Author |-> IF drag[b] = None THEN None
                                 ELSE [drag[b] EXCEPT !.spoilt = TRUE]]

-----------------------------------------------------------------------------
\* POST /form-fields.  The form in the dashboard sends no orderIndex, whose
\* default is 0.
CreateField(a, e, text, index) ==
    /\ Begins(a)
    /\ \E f \in FieldId \ fieldKeys :
          /\ Editor!Insert(a, f, [event |-> e, text |-> text, order |-> index])
          /\ fieldKeys' = fieldKeys \cup {f}

\* PUT /form-fields/:id: whatever the body holds, the event included.
UpdateField(a, f, changed) ==
    /\ Begins(a)
    /\ Editor!Take(a, f, changed)
    /\ UNCHANGED fieldKeys

\* DELETE /form-fields/:id, whether the field exists or not.
RemoveField(a, f) ==
    /\ Begins(a)
    /\ fields' = [fields EXCEPT ![f] = None]
    /\ UNCHANGED <<author, fieldKeys>>

\* POST /form-fields/event/:eventId/reorder: eventId is not looked at.
Reorder(a, list) ==
    /\ Unoccupied(a)
    /\ settled' = None
    /\ page' = None
    /\ drag' = [b \in Author |->
            IF b = a
            THEN [list |-> list, left |-> DOMAIN list,
                  spoilt |-> \E c \in Author \ {a} : ~Unoccupied(c)]
            ELSE IF drag[b] = None THEN None
            ELSE [drag[b] EXCEPT !.spoilt = TRUE]]
    /\ UNCHANGED <<fields, author, fieldKeys>>

\* One of the parallel UPDATEs, in any order; a field that is gone matches
\* no row.
UpdateOrder(a) ==
    /\ drag[a] # None
    /\ \E i \in drag[a].left :
          LET f == drag[a].list[i] IN
          /\ fields' = [fields EXCEPT ![f] =
                           IF @ = None THEN None
                           ELSE [@ EXCEPT !.order = i - 1]]
          /\ drag' = [drag EXCEPT ![a].left = @ \ {i}]
    /\ UNCHANGED <<author, fieldKeys, settled, page>>

\* One of them rejects, and with it Promise.all; the others run on.
OrderRejected(a) ==
    /\ drag[a] # None
    /\ \E i \in drag[a].left :
          drag' = [drag EXCEPT ![a].left = @ \ {i}, ![a].spoilt = TRUE]
    /\ UNCHANGED <<fields, author, fieldKeys, settled, page>>

\* Mutant of AllWritten: the answer does not wait for the updates.
AnyWritten(d) == d.left # DOMAIN d.list

AllWritten(d) == d.left = {}

\* Promise.all resolves.
Reordered(a) ==
    /\ drag[a] # None
    /\ AllWritten(drag[a])
    /\ settled' = IF drag[a].spoilt THEN None ELSE drag[a].list
    /\ page' = None
    /\ drag' = [drag EXCEPT ![a] = None]
    /\ UNCHANGED <<fields, author, fieldKeys>>

ReloadField(a) ==
    Editor!Reload(a) /\ UNCHANGED <<drag, fieldKeys, settled, page>>

WriteField(a) ==
    Editor!Write(a) /\ UNCHANGED <<drag, fieldKeys, settled, page>>

\* A query of update that rejects, or a crash: nothing of the handler is left,
\* and what a reorder has written stays.
FormFails(a) ==
    /\ ~Unoccupied(a)
    /\ author' = [author EXCEPT ![a] = Editor!Idle]
    /\ drag' = [drag EXCEPT ![a] = None]
    /\ UNCHANGED <<fields, fieldKeys, settled, page>>

FieldsOf(e) == {f \in Editor!Stored : fields[f].event = e}

\* ORDER BY orderIndex ASC leaves the order of equal ones open.
InOrder(list) ==
    \A i, j \in DOMAIN list :
        i < j => fields[list[i]].order <= fields[list[j]].order

\* GET /form-fields/event/:eventId, for the editor and for the sign-up form.
FindByEvent(e) ==
    /\ \E list \in SetToSeqs(FieldsOf(e)) : InOrder(list) /\ page' = list
    /\ UNCHANGED <<fields, author, drag, fieldKeys, settled>>

FormNext ==
    \/ \E a \in Author :
          \/ \E e \in FormEvent, text \in Wording, index \in NewIndex :
                CreateField(a, e, text, index)
          \/ \E f \in Editor!Stored :
                \/ \E text \in Wording :
                      UpdateField(a, f, [fields[f] EXCEPT !.text = text])
                \/ \E index \in NewIndex :
                      UpdateField(a, f, [fields[f] EXCEPT !.order = index])
                \/ \E e \in FormEvent :
                      UpdateField(a, f, [fields[f] EXCEPT !.event = e])
          \/ \E f \in FieldId : RemoveField(a, f)
          \/ \E list \in Asked : Reorder(a, list)
          \/ UpdateOrder(a) \/ OrderRejected(a) \/ Reordered(a)
          \/ ReloadField(a) \/ WriteField(a)
          \/ FormFails(a)
    \/ \E e \in FormEvent : FindByEvent(e)

FormSpec == FormInit /\ [][FormNext]_formVars

-----------------------------------------------------------------------------
(* Properties                                                              *)

\* The comment on reorder says that the order within the batch of parallel
\* updates does not matter: a reorder that met no other request is what every
\* later rendering of the form shows, until the form is changed again, and
\* whatever orderIndex the fields had before.
RenderedAsReordered ==
    settled # None /\ page # None =>
        \A i, j \in DOMAIN page : \A k, l \in DOMAIN settled :
            page[i] = settled[k] /\ page[j] = settled[l] /\ k < l => i < j

=============================================================================
