\* Two pushes and a thread that appends, deletes and sweeps, in up to two sessions,
\* or a client that pages through the log while that thread changes it.
CONSTANTS
    Chat = {c1}
    Inbox = c0
    Client = {}
    Msg = {}
    Thread = {p1, p2, t1}
    NoChat = NoChat
    MaxEvents = 2
    MaxChats = 1
    EventTtl = 1
    DeletedTtl = 1
    DedupTtl = 1
    GcInterval = 0
    MaxClock = 2
    MaxSeq = 4
    MaxTailers = 0
    Push = {p1, p2}
    Pager = {q1}
    PageLimit = 2
    MaxSessions = 1
SPECIFICATION RelaySpec
SYMMETRY PushSymmetry
CONSTRAINT Scope
INVARIANTS PushNumberTrue PageIsWhole
PROPERTIES FailedPushSparesChat
