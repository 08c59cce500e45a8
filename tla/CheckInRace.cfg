\* Two staff devices, sessions, manual check-ins and failures.
\* The door falls silent once nobody is left to scan.
CHECK_DEADLOCK FALSE
SPECIFICATION FairSpec
CONSTANTS
    RegId = {r1}
    User = {u1}
    Event = {e1}
    Intent = {i1}
    Price = {0, 4, 100}
    Day = {1, 2}
    None = None
    Scanner = {s1, s2}
    CheckInId = {c1, c2, c3}
    Session = {main}
    ScanFaults = TRUE
INVARIANTS
    TypeOK
    CheckedInHasRecord
    AnnouncedCheckedIn
PROPERTIES
    NoEntryOnceShown
    RecordAnnounced

