--------------------------- MODULE CheckInProofs ---------------------------
(***************************************************************************)
(* Theorems about CheckIn for any number of devices, check-ins, sessions   *)
(* and registrations, whether or not scans fail.                           *)
(*                                                                         *)
(* The argument: an entity a scan holds already says CHECKED_IN, but the   *)
(* scan saves it only after its check-in has been recorded, no check-in is *)
(* ever removed, and no scan takes a CHECKED_IN back.                      *)
(***************************************************************************)
EXTENDS CheckIn, TablesProofs

\* Row r counts as checked in.
IsIn(r) == regs[r].status = "checked_in"

\* What holds of a scan in progress: before the save its check-in has a row,
\* and after the save its registration says so, if the save did not write the
\* status then because it was there already.
ScanOK(sc) ==
    /\ sc.pc # "idle" =>
          /\ sc.row \in CheckInRow
          /\ sc.row.reg \in Registered
          /\ sc.entity \in RegistrationRow
          /\ sc.entity.status = "checked_in"
    /\ sc.pc \in {"reload", "write", "announce"} =>
          sc.id \in Recorded /\ checkIns[sc.id].reg = sc.row.reg
    /\ sc.pc = "write" => "status" \in sc.cols \/ IsIn(sc.row.reg)
    /\ sc.pc = "announce" => IsIn(sc.row.reg)

ScansOK == \A s \in Scanner : ScanOK(scan[s])

\* The inductive invariant.
CInv ==
    /\ TypeOK
    /\ CheckedInHasRecord
    /\ AnnouncedCheckedIn
    /\ ScansOK

-----------------------------------------------------------------------------
\* No step drops a registration or a check-in, or sends anybody out again.
Stays ==
    /\ \A r \in Registered : r \in Registered' /\ (IsIn(r) => IsIn(r)')
    /\ \A c \in Recorded : c \in Recorded' /\ checkIns'[c] = checkIns[c]

\* A scan that does not move stays in order.
LEMMA ScanStable ==
    ASSUME Stays, NEW sc, ScanOK(sc)
    PROVE  ScanOK(sc)'
BY DEF Stays, ScanOK

\* A step of one scan keeps the scans in order if it keeps that scan in order.
LEMMA ScansStep ==
    ASSUME CInv, Stays, NEW s \in Scanner, NEW sc,
           scan' = [scan EXCEPT ![s] = sc], ScanOK(sc)'
    PROVE  ScansOK'
<1> SUFFICES ASSUME NEW t \in Scanner
             PROVE  ScanOK(scan[t])'
  BY DEF ScansOK
<1>1. scan'[t] = IF t = s THEN sc ELSE scan[t]
  BY DEF CInv, TypeOK
<1>2. CASE t = s
  BY <1>1, <1>2
<1>3. CASE t # s
  <2>1. PICK tc : tc = scan[t]
    OBVIOUS
  <2>2. ScanOK(tc)'
    BY <2>1, ScanStable DEF CInv, ScansOK
  <2>3. QED
    BY <1>1, <1>3, <2>1, <2>2
<1>4. QED
  BY <1>2, <1>3

\* A step that leaves the tables and the dashboard alone keeps the invariant
\* if it keeps its own scan in order.
LEMMA QuietStep ==
    ASSUME CInv, NEW s \in Scanner, NEW sc \in ScanHandler,
           scan' = [scan EXCEPT ![s] = sc], ScanOK(sc)',
           regs' = regs, events' = events, checkIns' = checkIns,
           announced' = announced, cutShort' \subseteq CheckInId
    PROVE  CInv'
<1>1. Stays
  BY DEF Stays, Registered, Recorded, IsIn
<1>2. ScansOK'
  BY <1>1, ScansStep
<1>3. TypeOK'
  BY DEF CInv, TypeOK, TablesTypeOK
<1>4. CheckedInHasRecord' /\ AnnouncedCheckedIn'
  BY DEF CInv, CheckedInHasRecord, AnnouncedCheckedIn, Registered, Recorded
<1>5. QED
  BY <1>2, <1>3, <1>4 DEF CInv

\* A slot without a scan is in order.
LEMMA NoScanOK == NoScan \in ScanHandler /\ ScanOK(NoScan)'
BY DEF NoScan, ScanHandler, ScanOK

\* A scan that starts keeps the invariant.
LEMMA StartStep ==
    ASSUME CInv, NEW s \in Scanner, NEW r \in Registered,
           NEW session \in Session \cup {None},
           NEW method \in {"qr_code", "manual"},
           Start(s, r, session, method),
           regs' = regs, events' = events, checkIns' = checkIns,
           announced' = announced, cutShort' = cutShort
    PROVE  CInv'
<1>0. PICK row, sc :
          /\ row = [reg |-> r, session |-> session, method |-> method]
          /\ sc = [NoScan EXCEPT !.pc = "record", !.row = row,
                                 !.entity = CheckedIn(regs[r])]
  OBVIOUS
<1>1. r \in RegId /\ regs[r] \in RegistrationRow
  BY DEF Registered, CInv, TypeOK, TablesTypeOK
<1>2. /\ CheckedIn(regs[r]) \in RegistrationRow
      /\ CheckedIn(regs[r]).status = "checked_in"
  BY <1>1 DEF CheckedIn, RegistrationRow, RegistrationStatus
<1>3. row \in CheckInRow /\ row.reg = r
  BY <1>0, <1>1 DEF CheckInRow
<1>4. /\ sc \in ScanHandler /\ sc.pc = "record" /\ sc.row = row
      /\ sc.entity = CheckedIn(regs[r])
  BY <1>0, <1>2, <1>3 DEF ScanHandler, NoScan
<1>5. scan' = [scan EXCEPT ![s] = sc]
  BY <1>0 DEF Start
<1>6. r \in Registered'
  BY DEF Registered
<1>7. ScanOK(sc)'
  BY <1>2, <1>3, <1>4, <1>6 DEF ScanOK
<1>8. QED
  BY <1>4, <1>5, <1>7, QuietStep DEF CInv, TypeOK

\* Recording a check-in keeps the invariant.
LEMMA RecordStep ==
    ASSUME CInv, NEW s \in Scanner, Record(s)
    PROVE  CInv'
<1>1. /\ scan[s] \in ScanHandler /\ ScanOK(scan[s]) /\ scan[s].pc = "record"
      /\ checkIns \in [CheckInId -> CheckInRow \cup {None}]
      /\ regs' = regs /\ announced' = announced /\ events' = events
      /\ cutShort' = cutShort
  BY DEF CInv, TypeOK, ScansOK, Record
<1>2. PICK c \in CheckInId \ Recorded :
          /\ checkIns' = [checkIns EXCEPT ![c] = scan[s].row]
          /\ scan' = [scan EXCEPT ![s].pc = "reload", ![s].id = c]
  BY DEF Record
<1>3. /\ scan[s].row \in CheckInRow /\ scan[s].row # None
      /\ scan[s].row.reg \in Registered
  BY <1>1, CheckInRowAssumption DEF ScanOK
<1>4. /\ checkIns'[c] = scan[s].row /\ c \in Recorded'
      /\ \A d \in CheckInId \ {c} : checkIns'[d] = checkIns[d]
      /\ checkIns' \in [CheckInId -> CheckInRow \cup {None}]
  BY <1>1, <1>2, <1>3 DEF Recorded
<1>5. Stays
  BY <1>1, <1>2, <1>4 DEF Stays, Registered, Recorded, IsIn
<1>0. PICK sc : sc = [scan[s] EXCEPT !.pc = "reload", !.id = c]
  OBVIOUS
<1>6. /\ sc \in ScanHandler /\ sc.pc = "reload" /\ sc.id = c
      /\ sc.row = scan[s].row /\ sc.entity = scan[s].entity
  BY <1>0, <1>1, <1>2 DEF ScanHandler
<1>7. scan' = [scan EXCEPT ![s] = sc]
  BY <1>0, <1>2
<1>8. ScanOK(sc)'
  BY <1>1, <1>4, <1>5, <1>6 DEF ScanOK, Stays
<1>9. ScansOK'
  BY <1>5, <1>7, <1>8, ScansStep
<1>10. TypeOK'
  BY <1>1, <1>4, <1>6, <1>7 DEF CInv, TypeOK, TablesTypeOK
<1>11. CheckedInHasRecord'
  BY <1>1, <1>5 DEF CInv, CheckedInHasRecord, Stays, Registered
<1>12. AnnouncedCheckedIn'
  BY <1>1, <1>5 DEF CInv, AnnouncedCheckedIn, Stays
<1>13. QED
  BY <1>9, <1>10, <1>11, <1>12 DEF CInv

\* The first round trip of the save keeps the invariant.
LEMMA ReloadRegistrationStep ==
    ASSUME CInv, NEW s \in Scanner, ReloadRegistration(s)
    PROVE  CInv'
<1>0. PICK r, cols, sc :
          /\ r = scan[s].row.reg
          /\ cols = Changed(regs[r], scan[s].entity)
          /\ sc = [scan[s] EXCEPT !.pc = "write", !.cols = cols]
  OBVIOUS
<1>1. /\ scan[s] \in ScanHandler /\ ScanOK(scan[s]) /\ scan[s].pc = "reload"
      /\ scan' = [scan EXCEPT ![s] = sc]
  BY <1>0 DEF CInv, TypeOK, ScansOK, ReloadRegistration
<1>2. /\ r \in Registered /\ regs[r] \in RegistrationRow
      /\ scan[s].entity \in RegistrationRow
      /\ scan[s].entity.status = "checked_in"
  BY <1>0, <1>1 DEF ScanOK, CInv, TypeOK, TablesTypeOK, Registered
<1>3. cols \subseteq RegistrationColumn
  BY <1>0, <1>2, ChangedColumns
<1>4. "status" \in cols \/ IsIn(r)
  BY <1>0, <1>2 DEF Changed, RegistrationRow, IsIn
<1>5. /\ sc \in ScanHandler /\ sc.pc = "write" /\ sc.cols = cols
      /\ sc.row = scan[s].row /\ sc.entity = scan[s].entity
      /\ sc.id = scan[s].id
  BY <1>0, <1>1, <1>3 DEF ScanHandler
<1>6. /\ regs' = regs /\ events' = events /\ checkIns' = checkIns
      /\ announced' = announced /\ cutShort' \subseteq CheckInId
  BY DEF ReloadRegistration, CInv, TypeOK
<1>7. ScanOK(sc)'
  BY <1>0, <1>1, <1>4, <1>5, <1>6 DEF ScanOK, IsIn, Registered, Recorded
<1>8. QED
  BY <1>1, <1>5, <1>6, <1>7, QuietStep

\* The UPDATE keeps the invariant: it leaves the row CHECKED_IN.
LEMMA WriteRegistrationStep ==
    ASSUME CInv, NEW s \in Scanner, WriteRegistration(s)
    PROVE  CInv'
<1>0. PICK r, p, sc :
          /\ r = scan[s].row.reg
          /\ p = Patch(regs[r], scan[s].entity, scan[s].cols)
          /\ sc = [scan[s] EXCEPT !.pc = "announce"]
  OBVIOUS
<1>1. /\ scan[s] \in ScanHandler /\ ScanOK(scan[s]) /\ scan[s].pc = "write"
      /\ regs \in [RegId -> RegistrationRow \cup {None}]
      /\ regs' = [regs EXCEPT ![r] = p] /\ scan' = [scan EXCEPT ![s] = sc]
      /\ checkIns' = checkIns /\ announced' = announced /\ events' = events
      /\ cutShort' = cutShort
  BY <1>0 DEF CInv, TypeOK, TablesTypeOK, ScansOK, WriteRegistration
<1>2. /\ r \in Registered /\ r \in RegId /\ regs[r] \in RegistrationRow
      /\ scan[s].entity \in RegistrationRow
      /\ scan[s].entity.status = "checked_in"
  BY <1>0, <1>1 DEF ScanOK, Registered
<1>3. p \in RegistrationRow /\ p.status = "checked_in"
  <2>1. /\ p \in RegistrationRow
        /\ p.status \in {regs[r].status, scan[s].entity.status}
        /\ "status" \in scan[s].cols => p.status = scan[s].entity.status
    BY <1>0, <1>2, PatchRow
  <2>2. "status" \in scan[s].cols \/ regs[r].status = "checked_in"
    BY <1>0, <1>1 DEF ScanOK, IsIn
  <2>3. QED
    BY <1>2, <2>1, <2>2
<1>4. /\ sc \in ScanHandler /\ sc.pc = "announce" /\ sc.row = scan[s].row
      /\ sc.entity = scan[s].entity /\ sc.id = scan[s].id
  BY <1>0, <1>1 DEF ScanHandler
<1>5. /\ regs'[r] = p /\ \A t \in RegId \ {r} : regs'[t] = regs[t]
      /\ regs' \in [RegId -> RegistrationRow \cup {None}]
      /\ p # None
  BY <1>1, <1>2, <1>3, TablesAssumption
<1>6. Registered' = Registered /\ Recorded' = Recorded
  BY <1>1, <1>2, <1>5 DEF Registered, Recorded
<1>7. IsIn(r)' /\ Stays
  BY <1>1, <1>3, <1>5, <1>6 DEF IsIn, Stays, Registered
<1>8. ScanOK(sc)'
  BY <1>0, <1>1, <1>4, <1>6, <1>7 DEF ScanOK
<1>9. ScansOK'
  BY <1>1, <1>7, <1>8, ScansStep
<1>10. TypeOK'
  BY <1>1, <1>4, <1>5 DEF CInv, TypeOK, TablesTypeOK
<1>11. CheckedInHasRecord'
  <2>1. \E c \in Recorded : checkIns[c].reg = r
    BY <1>0, <1>1 DEF ScanOK
  <2>2. ASSUME NEW t \in Registered, t # r, regs'[t].status = "checked_in"
        PROVE  \E c \in Recorded : checkIns[c].reg = t
    BY <1>5, <2>2 DEF CInv, CheckedInHasRecord, Registered
  <2>3. QED
    BY <1>1, <1>6, <2>1, <2>2 DEF CheckedInHasRecord
<1>12. AnnouncedCheckedIn'
  <2> SUFFICES ASSUME NEW c \in announced
               PROVE  /\ c \in Recorded
                      /\ regs'[checkIns[c].reg].status = "checked_in"
    BY <1>1, <1>6 DEF AnnouncedCheckedIn
  <2>1. /\ c \in Recorded /\ regs[checkIns[c].reg].status = "checked_in"
        /\ checkIns[c].reg \in RegId
    BY DEF CInv, AnnouncedCheckedIn, TypeOK, Recorded, CheckInRow
  <2>2. QED
    BY <1>3, <1>5, <2>1
<1>13. QED
  BY <1>9, <1>10, <1>11, <1>12 DEF CInv

\* The broadcast keeps the invariant.
LEMMA AnnounceStep ==
    ASSUME CInv, NEW s \in Scanner, Announce(s)
    PROVE  CInv'
<1>1. /\ scan[s] \in ScanHandler /\ ScanOK(scan[s])
      /\ scan[s].pc = "announce"
      /\ regs' = regs /\ events' = events /\ checkIns' = checkIns
      /\ announced' = announced \cup {scan[s].id} /\ cutShort' = cutShort
      /\ scan' = [scan EXCEPT ![s] = NoScan]
  BY DEF CInv, TypeOK, ScansOK, Announce
<1>2. /\ scan[s].id \in Recorded /\ scan[s].id \in CheckInId
      /\ regs[checkIns[scan[s].id].reg].status = "checked_in"
  BY <1>1 DEF ScanOK, IsIn, Recorded
<1>3. Stays
  BY <1>1 DEF Stays, Registered, Recorded, IsIn
<1>4. ScansOK'
  BY <1>1, <1>3, NoScanOK, ScansStep
<1>5. TypeOK'
  BY <1>1, <1>2, NoScanOK DEF CInv, TypeOK, TablesTypeOK
<1>6. CheckedInHasRecord' /\ AnnouncedCheckedIn'
  BY <1>1, <1>2
     DEF CInv, CheckedInHasRecord, AnnouncedCheckedIn, Registered, Recorded
<1>7. QED
  BY <1>4, <1>5, <1>6 DEF CInv

-----------------------------------------------------------------------------
\* Before anybody comes to the door nobody is checked in.
LEMMA CheckInInit == Init => CInv
<1> SUFFICES ASSUME Init
             PROVE  CInv
  OBVIOUS
<1>1. TypeOK
  BY NoScanOK DEF Init, TypeOK, TablesTypeOK, BeforeTheDoor, EventAtStart
<1>2. CheckedInHasRecord
  BY DEF Init, CheckedInHasRecord, BeforeTheDoor, Registered
<1>3. AnnouncedCheckedIn
  BY DEF Init, AnnouncedCheckedIn
<1>4. ScansOK
  BY DEF Init, ScansOK, ScanOK, NoScan
<1>5. QED
  BY <1>1, <1>2, <1>3, <1>4 DEF CInv

\* Every step keeps the invariant.
LEMMA CheckInNext == CInv /\ [Next]_vars => CInv'
<1> SUFFICES ASSUME CInv, [Next]_vars
             PROVE  CInv'
  OBVIOUS
<1>1. ASSUME NEW s \in Scanner, NEW e \in Event, NEW u \in User,
             NEW session \in Session \cup {None}, ScanQr(s, e, u, session)
      PROVE  CInv'
  <2>1. PICK r \in RowsOf(e, u) : Start(s, r, session, "qr_code")
    BY <1>1 DEF ScanQr
  <2>2. r \in Registered
    BY DEF RowsOf
  <2>3. QED
    BY <1>1, <2>1, <2>2, StartStep DEF ScanQr
<1>2. ASSUME NEW s \in Scanner, NEW r \in RegId, ManualCheckIn(s, r)
      PROVE  CInv'
  BY <1>2, StartStep DEF ManualCheckIn
<1>3. ASSUME NEW s \in Scanner, Continue(s)
      PROVE  CInv'
  BY <1>3, RecordStep, ReloadRegistrationStep, WriteRegistrationStep,
     AnnounceStep DEF Continue
<1>4. ASSUME NEW s \in Scanner, ScanFails(s)
      PROVE  CInv'
  <2>1. cutShort' \subseteq CheckInId
    BY <1>4 DEF ScanFails, CInv, TypeOK, ScanHandler
  <2>2. QED
    BY <1>4, <2>1, NoScanOK, QuietStep DEF ScanFails
<1>5. CASE UNCHANGED vars
  BY <1>5 DEF vars, CInv, TypeOK, TablesTypeOK, CheckedInHasRecord,
     AnnouncedCheckedIn, ScansOK, ScanOK, IsIn, Registered, Recorded
<1>6. QED
  BY <1>1, <1>2, <1>3, <1>4, <1>5 DEF Next, Arrive

\* The invariant holds in every state checkin-service can reach.
THEOREM CheckInInvariance == Spec => []CInv
BY CheckInInit, CheckInNext, PTL DEF Spec

\* Every variable of CheckIn keeps its type.
THEOREM CheckInTypeCorrect == Spec => []TypeOK
<1>1. CInv => TypeOK
  BY DEF CInv
<1>2. QED
  BY <1>1, CheckInInvariance, PTL

\* However many devices scan, and wherever they crash, a registration says
\* CHECKED_IN only if a row of check_ins says when and by whom.
THEOREM CheckInsAreRecorded == Spec => []CheckedInHasRecord
<1>1. CInv => CheckedInHasRecord
  BY DEF CInv
<1>2. QED
  BY <1>1, CheckInInvariance, PTL

\* The dashboard is told only of people whose registration says CHECKED_IN.
THEOREM DashboardIsRight == Spec => []AnnouncedCheckedIn
<1>1. CInv => AnnouncedCheckedIn
  BY DEF CInv
<1>2. QED
  BY <1>1, CheckInInvariance, PTL

\* With any number of devices, nobody whose check-in the dashboard has shown
\* is let through the main door again on the code.
THEOREM ShownStaysOut == Spec => NoEntryOnceShown
<1> DEFINE StaysOut(s) ==
        (/\ scan[s] = NoScan
         /\ scan'[s] # NoScan
         /\ scan'[s].row.method = "qr_code"
         /\ scan'[s].row.session = None)
        => \A c \in announced : checkIns[c].reg # scan'[s].row.reg
<1>1. ASSUME CInv, NEW s \in Scanner, NEW e \in Event, NEW u \in User,
             NEW session \in Session \cup {None}, ScanQr(s, e, u, session)
      PROVE  StaysOut(s)
  <2>1. PICK r \in RowsOf(e, u) :
            MayEnter(regs[r], session) /\ Start(s, r, session, "qr_code")
    BY <1>1 DEF ScanQr
  <2>2. scan'[s].row = [reg |-> r, session |-> session, method |-> "qr_code"]
    BY <1>1, <2>1 DEF Start, CInv, TypeOK, NoScan
  <2>3. session = None => regs[r].status # "checked_in"
    BY <2>1 DEF MayEnter
  <2>4. \A c \in announced : regs[checkIns[c].reg].status = "checked_in"
    BY <1>1 DEF CInv, AnnouncedCheckedIn
  <2>5. QED
    BY <2>2, <2>3, <2>4
<1>2. ASSUME CInv, NEW s \in Scanner, NEW r \in RegId, ManualCheckIn(s, r)
      PROVE  StaysOut(s)
  <2>1. scan'[s].row = [reg |-> r, session |-> None, method |-> "manual"]
    BY <1>2 DEF ManualCheckIn, Start, CInv, TypeOK, NoScan
  <2>2. QED
    BY <2>1
<1>3. ASSUME CInv, NEW s \in Scanner, Continue(s) \/ ScanFails(s)
      PROVE  scan[s] # NoScan
  BY <1>3 DEF Continue, Record, ReloadRegistration, WriteRegistration,
     Announce, ScanFails, NoScan
<1>4. ASSUME CInv, NEW t \in Scanner, NEW s \in Scanner, s # t,
             Arrive(t) \/ Continue(t) \/ ScanFails(t)
      PROVE  scan'[s] = scan[s]
  <2>1. PICK sc : scan' = [scan EXCEPT ![t] = sc]
    BY <1>4 DEF Arrive, ScanQr, ManualCheckIn, Start, Continue, Record,
       ReloadRegistration, WriteRegistration, Announce, ScanFails
  <2>2. QED
    BY <1>4, <2>1 DEF CInv, TypeOK
<1>5. ASSUME CInv, [Next]_vars, NEW s \in Scanner
      PROVE  StaysOut(s)
  <2>1. CASE UNCHANGED vars
    BY <2>1 DEF vars
  <2>2. ASSUME NEW t \in Scanner, Arrive(t) \/ Continue(t) \/ ScanFails(t)
        PROVE  StaysOut(s)
    <3>1. CASE s # t
      BY <1>4, <1>5, <2>2, <3>1
    <3>2. CASE s = t /\ Arrive(s)
      <4> HIDE DEF StaysOut
      <4>1. QED
        BY <1>1, <1>2, <1>5, <3>2 DEF Arrive
    <3>3. CASE s = t /\ (Continue(s) \/ ScanFails(s))
      BY <1>3, <1>5, <3>3
    <3>4. QED
      BY <2>2, <3>1, <3>2, <3>3
  <2>3. QED
    BY <1>5, <2>1, <2>2 DEF Next
<1>6. CInv /\ [Next]_vars
          => [\A s \in Scanner :
                 (/\ scan[s] = NoScan
                  /\ scan'[s] # NoScan
                  /\ scan'[s].row.method = "qr_code"
                  /\ scan'[s].row.session = None)
                 => \A c \in announced :
                        checkIns[c].reg # scan'[s].row.reg]_vars
  BY <1>5
<1>7. QED
  BY <1>6, CheckInInvariance, PTL DEF Spec, NoEntryOnceShown

=============================================================================
