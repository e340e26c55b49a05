\* Two subscriptions of one client to one chat, one worker thread.
CONSTANTS
    Chat = {c1}
    Inbox = c0
    Client = {k1}
    Msg = {}
    Thread = {t1}
    NoChat = NoChat
    MaxEvents = 1
    MaxChats = 1
    EventTtl = 1
    DeletedTtl = 1
    DedupTtl = 1
    GcInterval = 0
    MaxClock = 0
    MaxSeq = 1
    MaxTailers = 2
    Sub = {s1, s2}
    NoClient = NoClient
    MaxLogs = 2
SPECIFICATION TailSafety
SYMMETRY SubSymmetry
INVARIANTS NoLostWakeup TailersExact
