\* The same code at two staff devices at once.
\* The door falls silent once nobody is left to scan.
CHECK_DEADLOCK FALSE
SPECIFICATION Spec
CONSTANTS
    RegId = {r1}
    User = {u1}
    Event = {e1}
    Intent = {i1}
    Price = {0}
    Day = {1, 2}
    None = None
    Scanner = {s1, s2}
    CheckInId = {c1, c2}
    Session = {}
    ScanFaults = FALSE
SYMMETRY Symmetry
INVARIANTS
    OneEntryPerCode
