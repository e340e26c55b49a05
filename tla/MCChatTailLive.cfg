\* One subscription under fairness, refined to EventStream; the chat may be
\* deleted, buried and made again under it.
CONSTANTS
    Chat = {c1}
    Inbox = c0
    Client = {k1}
    Msg = {}
    Thread = {t1}
    NoChat = NoChat
    MaxEvents = 1
    MaxChats = 1
    EventTtl = 1
    DeletedTtl = 1
    DedupTtl = 1
    GcInterval = 0
    MaxClock = 2
    MaxSeq = 2
    MaxTailers = 1
    Sub = {s1}
    NoClient = NoClient
    MaxLogs = 1
SPECIFICATION TailSpec
PROPERTIES StreamPromise
