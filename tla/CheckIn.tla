------------------------------ MODULE CheckIn ------------------------------
(***************************************************************************)
(* checkin-service: QR scans at the door and manual check-ins.  A check-in *)
(* is a row in check_ins, then a save of the registration, then a message  *)
(* to the event's dashboard room, with an await between any two of them.   *)
(*                                                                         *)
(* The scan of one staff device runs in a slot s of Scanner.  A scan that  *)
(* the service rejects leaves the state alone: its guard is a conjunct.    *)
(***************************************************************************)
EXTENDS Tables, FiniteSets

CONSTANTS
    Scanner,    \* slots for scans in progress: bounds the concurrency
    CheckInId,  \* primary keys of check_ins
    Session,    \* the sessions of multi-session events
    ScanFaults  \* TRUE: a scan may be cut short at any await

ASSUME CheckInAssumption ==
    /\ ScanFaults \in BOOLEAN
    /\ None \notin CheckInId
    /\ None \notin Session

VARIABLES
    checkIns,   \* [CheckInId -> row or None]: the check_ins table
    scan,       \* [Scanner -> handler]: the scans in progress
    announced,  \* the check-ins sent to their event's room
    cutShort    \* history: recorded check-ins whose scan failed later

checkInVars == <<checkIns, scan, announced, cutShort>>

vars == <<regs, events, checkIns, scan, announced, cutShort>>

\* session = None is the main entry of a single-session event.
CheckInRow == [reg: RegId, session: Session \cup {None},
               method: {"qr_code", "manual"}]

ASSUME CheckInRowAssumption == None \notin CheckInRow

ScanHandler ==
    [pc: {"idle", "record", "reload", "write", "announce"},
     row: CheckInRow \cup {None},           \* the check-in to record
     id: CheckInId \cup {None},             \* its key, once recorded
     entity: RegistrationRow \cup {None},   \* the registration in memory
     cols: SUBSET RegistrationColumn]

TypeOK ==
    /\ TablesTypeOK
    /\ checkIns \in [CheckInId -> CheckInRow \cup {None}]
    /\ scan \in [Scanner -> ScanHandler]
    /\ announced \subseteq CheckInId
    /\ cutShort \subseteq CheckInId

-----------------------------------------------------------------------------
NoScan == [pc |-> "idle", row |-> None, id |-> None, entity |-> None,
           cols |-> {}]

\* Mutant of CheckedIn: the scan forgets to change the status.
CheckedInForgotten(row) == row

\* Mutant of CheckedIn: a status the enum does not have.
CheckedInMisspelt(row) == [row EXCEPT !.status = "checked-in"]

CheckedIn(row) == [row EXCEPT !.status = "checked_in"]

Recorded == {c \in CheckInId : checkIns[c] # None}

\* A registration before anybody came to the door, without a payment intent:
\* signed up at price p, and confirmed and cancelled any number of times since.
BeforeTheDoor ==
    {row \in RegistrationRow :
        /\ row.intent = None
        /\ \E p \in Price :
              /\ row.amountPaid = Cents(p)
              /\ \/ /\ row.status = "pending" /\ p > 0
                    /\ ~row.confirmedAt /\ ~row.cancelledAt
                 \/ /\ row.status = "confirmed"
                    /\ p > 0 \/ row.cancelledAt => row.confirmedAt
                 \/ row.status = "cancelled" /\ row.cancelledAt}

Init ==
    /\ regs \in [RegId -> BeforeTheDoor \cup {None}]
    /\ events \in [Event -> EventAtStart]
    /\ checkIns = [c \in CheckInId |-> None]
    /\ scan = [s \in Scanner |-> NoScan]
    /\ announced = {}
    /\ cutShort = {}

\* Bound: a scan starts only while the finite CheckInId has a key for it.
RoomToRecord ==
    Cardinality(Recorded)
        + Cardinality({s \in Scanner : scan[s].pc = "record"})
        < Cardinality(CheckInId)

\* Mutant of Start: the status is saved first, the check-in row never.
StartSavingFirst(s, r, session, method) ==
    scan' = [scan EXCEPT ![s] =
        [NoScan EXCEPT !.pc = "reload",
                       !.row = [reg |-> r, session |-> session,
                                method |-> method],
                       !.entity = CheckedIn(regs[r])]]

\* A slot takes up a check-in of row r, with the entity it has just loaded.
Start(s, r, session, method) ==
    scan' = [scan EXCEPT ![s] =
        [NoScan EXCEPT !.pc = "record",
                       !.row = [reg |-> r, session |-> session,
                                method |-> method],
                       !.entity = CheckedIn(regs[r])]]

-----------------------------------------------------------------------------
\* Mutant of MayEnter: forgets the repeated scan.
MayEnterAgain(row, session) == row.status # "cancelled"

\* Cancelled registrations stay out; a repeated scan needs a session.
MayEnter(row, session) ==
    /\ row.status # "cancelled"
    /\ row.status = "checked_in" => session # None

\* POST /checkin/qr.  The code names an event and a user; the lookup returns
\* one of their rows.
ScanQr(s, e, u, session) ==
    /\ scan[s] = NoScan
    /\ RoomToRecord
    /\ \E r \in RowsOf(e, u) :
          /\ MayEnter(regs[r], session)
          /\ Start(s, r, session, "qr_code")
    /\ UNCHANGED <<regs, events, checkIns, announced, cutShort>>

\* POST /checkin/manual takes a registration of any status.
ManualCheckIn(s, r) ==
    /\ scan[s] = NoScan
    /\ RoomToRecord
    /\ r \in Registered
    /\ Start(s, r, None, "manual")
    /\ UNCHANGED <<regs, events, checkIns, announced, cutShort>>

\* INSERT INTO check_ins.
Record(s) ==
    /\ scan[s].pc = "record"
    /\ \E c \in CheckInId \ Recorded :
          /\ checkIns' = [checkIns EXCEPT ![c] = scan[s].row]
          /\ scan' = [scan EXCEPT ![s].pc = "reload", ![s].id = c]
    /\ UNCHANGED <<regs, events, announced, cutShort>>

\* save(registration), in its two round trips.
ReloadRegistration(s) ==
    /\ scan[s].pc = "reload"
    /\ scan' = [scan EXCEPT ![s].pc = "write",
                            ![s].cols = Changed(regs[scan[s].row.reg],
                                                scan[s].entity)]
    /\ UNCHANGED <<regs, events, checkIns, announced, cutShort>>

WriteRegistration(s) ==
    /\ scan[s].pc = "write"
    /\ regs' = [regs EXCEPT ![scan[s].row.reg] =
                   Patch(@, scan[s].entity, scan[s].cols)]
    /\ scan' = [scan EXCEPT ![s].pc = "announce"]
    /\ UNCHANGED <<events, checkIns, announced, cutShort>>

\* Mutant of Announce: the scan ends without the broadcast.
AnnounceNothing(s) ==
    /\ scan[s].pc = "announce"
    /\ scan' = [scan EXCEPT ![s] = NoScan]
    /\ UNCHANGED <<regs, events, checkIns, announced, cutShort>>

\* emitCheckIn: the dashboard learns of the check-in, and the scan is over.
Announce(s) ==
    /\ scan[s].pc = "announce"
    /\ announced' = announced \cup {scan[s].id}
    /\ scan' = [scan EXCEPT ![s] = NoScan]
    /\ UNCHANGED <<regs, events, checkIns, cutShort>>

\* A database error or a crash between two awaits.
ScanFails(s) ==
    /\ ScanFaults
    /\ scan[s] # NoScan
    /\ scan' = [scan EXCEPT ![s] = NoScan]
    /\ cutShort' = cutShort \cup ({scan[s].id} \ {None})
    /\ UNCHANGED <<regs, events, checkIns, announced>>

-----------------------------------------------------------------------------
Arrive(s) ==
    \/ \E e \in Event, u \in User, session \in Session \cup {None} :
          ScanQr(s, e, u, session)
    \/ \E r \in RegId : ManualCheckIn(s, r)

Continue(s) ==
    \/ Record(s)
    \/ ReloadRegistration(s)
    \/ WriteRegistration(s)
    \/ Announce(s)

Next == \E s \in Scanner : Arrive(s) \/ Continue(s) \/ ScanFails(s)

Spec == Init /\ [][Next]_vars

\* The event loop runs a scan whose awaited call has been answered.
FairSpec == Spec /\ \A s \in Scanner : WF_vars(Continue(s))

-----------------------------------------------------------------------------
(* Properties                                                              *)

\* Whoever counts as checked in has a row in check_ins that says when and by
\* whom: the row is inserted before the status is saved, and no crash and no
\* stale save puts a status CHECKED_IN where nobody was scanned.
CheckedInHasRecord ==
    \A r \in Registered :
        regs[r].status = "checked_in" => \E c \in Recorded : checkIns[c].reg = r

\* What the guard is for: a QR code enters through the main door once.
OneEntryPerCode ==
    \A c, d \in Recorded :
        (/\ checkIns[c] = checkIns[d]
         /\ checkIns[c].method = "qr_code"
         /\ checkIns[c].session = None) => c = d

\* What the guard achieves with any number of devices: once the dashboard has
\* shown somebody's check-in, no device lets that person's code through the
\* main door again.
NoEntryOnceShown ==
    [][\A s \in Scanner :
          (/\ scan[s] = NoScan
           /\ scan'[s] # NoScan
           /\ scan'[s].row.method = "qr_code"
           /\ scan'[s].row.session = None)
          => \A c \in announced : checkIns[c].reg # scan'[s].row.reg]_vars

\* A recorded check-in reaches the dashboard, whatever else fails, unless its
\* own scan is cut short: the code has no other way to announce it.
RecordAnnounced ==
    \A c \in CheckInId : c \in Recorded ~> c \in announced \cup cutShort

\* The dashboard never shows somebody the attendance figures do not count:
\* when a check-in is announced its registration has been saved as checked in.
AnnouncedCheckedIn ==
    \A c \in announced :
        c \in Recorded /\ regs[checkIns[c].reg].status = "checked_in"

=============================================================================
