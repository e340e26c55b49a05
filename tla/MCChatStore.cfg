\* Two callers that overlap on one chat, or one caller and three chats, the inbox
\* among them, that compete for one place.
CONSTANTS
    Chat = {c0, c1, c2}
    Inbox = c0
    Contended = c1
    Client = {}
    Msg = {m1}
    Thread = {t1, t2}
    NoChat = NoChat
    MaxEvents = 2
    MaxChats = 1
    EventTtl = 1
    DeletedTtl = 1
    DedupTtl = 1
    GcInterval = 0
    MaxClock = 2
    MaxSeq = 3
    MaxTailers = 1
SPECIFICATION Spec
SYMMETRY ThreadSymmetry
CONSTRAINT Scope
INVARIANTS WellFormedLog NoHoles DeletionAnnounced
PROPERTIES CursorsNeverRewind  GcBoundsChats GcSparesActive
