\* One organiser at a time on events; two requests at once elsewhere.
\* Once every key is used nothing can happen.
CHECK_DEADLOCK FALSE
SPECIFICATION BackOfficeSpec
CONSTANTS
    RegId = {r1}
    User = {u1}
    Event = {k1, k2}
    Intent = {i1}
    Price = {10}
    Day = {1, 2, 3}
    None = None
    Organizer = {o1}
    UserId = {k1, k2}
    Email = {m1, m2}
    Role = {participant, organizer}
    Participant = participant
    Visitor = {v1}
    Clerk = {q1, q2}
    TicketId = {t1}
    Agent = {q1, q2}
    Supporter = {p1}
    MaxStamp = 3
    AskedPriority = {"medium"}
    TaskId = {k1, k2}
    Assignee = {p1}
    Member = {q1, q2}
    MaxComment = 2
    NewPriority = {"high"}
    Attendee = {k1, k2}
    Nobody = Nobody
    MaxMeeting = 2
    MaxBoot = 1
    MaxRequest = 4
SYMMETRY Symmetry
INVARIANTS
    BackOfficeTypeOK
    OneUserPerEmail
    RoleWasGranted
    MessagesInOrder
    LinesNameTheirMeeting
PROPERTIES
    FollowsLifecycle
    PasswordKept
    ConversationsKept
