------------------------------ MODULE ChatStore ------------------------------
(***************************************************************************)
(* The SQLite chat log of the gateway: class ChatStateStore of             *)
(* chat_store.py.  The store is called from the event loop and from        *)
(* worker threads (asyncio.to_thread); one RLock serialises its            *)
(* transactions, so a transaction is one action here, and what a call      *)
(* does before it takes the lock or between two transactions is an action  *)
(* of its own.                                                             *)
(*                                                                         *)
(* Time is a counter of instants.  Payloads, titles, previews and byte     *)
(* sizes are abstracted away: an event is its sequence number, its kind    *)
(* as far as deletion goes, and the instant it is stamped with.            *)
(*                                                                         *)
(* Operators whose name starts with Bug are plausible mistakes in the      *)
(* definition that follows them.  Nothing refers to them: putting one in   *)
(* the place of that definition must break the property it is paired with. *)
(***************************************************************************)
EXTENDS Integers, FiniteSets

CONSTANTS
    Chat,        \* chat identifiers
    Inbox,       \* the chat exempt from the chat cap and the byte budget
    Client,      \* subscribers whose cursors are stored
    Msg,         \* client message identifiers known to inbound_dedup
    Thread,      \* callers that can be inside a store call at one time
    NoChat,      \* the chat of a thread that works on no single chat
    MaxEvents,   \* config.max_events_per_chat
    MaxChats,    \* config.max_chats
    EventTtl,    \* config.event_ttl_days, in instants
    DeletedTtl,  \* config.deleted_ttl_days, in instants
    DedupTtl,    \* config.dedup_ttl_seconds, in instants
    GcInterval,  \* config.gc_append_interval
    MaxClock,    \* bound: instants explored
    MaxSeq,      \* bound: no append to a log this long
    MaxTailers   \* bound: tailers attached to one chat

\* _env_int reads every limit as an integer no smaller than one.
ASSUME LimitsAssumption ==
    /\ MaxEvents \in Nat \ {0} /\ MaxChats \in Nat \ {0}
    /\ EventTtl \in Nat \ {0} /\ DeletedTtl \in Nat \ {0}
    /\ DedupTtl \in Nat \ {0} /\ GcInterval \in Nat
    /\ MaxClock \in Nat /\ MaxSeq \in Nat /\ MaxTailers \in Nat

ASSUME NoChatAssumption == NoChat \notin Chat

VARIABLES
    clock,      \* the current instant, time.time()
    row,        \* table chats
    events,     \* table chat_events
    acked,      \* table client_cursors, 0 for a client without a row
    dedup,      \* table inbound_dedup
    since,      \* _appends_since_sweep, counted up to GcInterval
    requested,  \* _sweep_requested
    tailers,    \* _tailers of the log object registered for the chat
    thread,     \* what each caller is doing
    notice      \* history: whether the chat's log got its chat.deleted
                \* event, or lost it between the two transactions of a
                \* deletion

durable == <<row, events, acked, dedup>>
vars == <<clock, row, events, acked, dedup, since, requested, tailers, thread, notice>>

-----------------------------------------------------------------------------
(* Types *)

Kind == {"event", "chat.deleted"}
Event == [seq : Nat \ {0}, kind : Kind, at : Nat]
Row == [status : {"absent", "live", "deleted"}, latest : Nat, floor : Nat,
        deletedAt : Nat, updatedAt : Nat]
Dedup == [chat : Chat, msg : Msg, expires : Nat]

Idle == [pc |-> "idle", kind |-> "event", chat |-> NoChat, ts |-> 0,
         active |-> {}]
ThreadState ==
    [pc : {"idle", "mark", "commit", "bump", "sweep", "gc", "bump_all",
           "check", "drop"},
     kind : Kind, chat : Chat \cup {NoChat}, ts : Nat, active : SUBSET Chat]

TypeOK ==
    /\ clock \in Nat
    /\ row \in [Chat -> Row]
    /\ events \in [Chat -> SUBSET Event]
    /\ acked \in [Chat -> [Client -> Nat]]
    /\ dedup \subseteq Dedup
    /\ since \in 0..GcInterval
    /\ requested \in BOOLEAN
    /\ tailers \in [Chat -> Nat]
    /\ thread \in [Thread -> ThreadState]
    /\ \A t \in Thread :
         thread[t].pc \in {"mark", "commit", "bump", "check", "drop"}
           => thread[t].chat \in Chat
    /\ notice \in [Chat -> {"none", "written", "lost"}]

NoRow == [status |-> "absent", latest |-> 0, floor |-> 0,
          deletedAt |-> 0, updatedAt |-> 0]
NewRow(now) == [NoRow EXCEPT !.status = "live", !.updatedAt = now]
NoCursors == [k \in Client |-> 0]

Present(c) == row[c].status # "absent"
Live(c) == row[c].status = "live"
Deleted(c) == row[c].status = "deleted"
Larger(m, n) == IF m >= n THEN m ELSE n

Init ==
    /\ clock = 0
    /\ row = [c \in Chat |-> NoRow]
    /\ events = [c \in Chat |-> {}]
    /\ acked = [c \in Chat |-> NoCursors]
    /\ dedup = {}
    /\ since = 0
    /\ requested = FALSE
    /\ tailers = [c \in Chat |-> 0]
    /\ thread = [t \in Thread |-> Idle]
    /\ notice = [c \in Chat |-> "none"]

Tick ==
    /\ clock < MaxClock
    /\ clock' = clock + 1
    /\ UNCHANGED <<row, events, acked, dedup, since, requested, tailers,
                   thread, notice>>

-----------------------------------------------------------------------------
(* Calls.  A call reads the clock first and takes the lock afterwards, so   *)
(* its transaction may run with an instant that has passed.                 *)

\* A sweep holds the lock from its scan of the tailers to its commit.
LockFree == \A t \in Thread : thread[t].pc # "gc"

Enter(t, pc, kind, c) ==
    /\ thread[t].pc = "idle"
    /\ thread' = [thread EXCEPT ![t] =
                    [Idle EXCEPT !.pc = pc, !.kind = kind, !.chat = c,
                                 !.ts = clock]]

BeginAppend(t, c) ==
    /\ Enter(t, "commit", "event", c)
    /\ UNCHANGED <<clock, durable, since, requested, tailers, notice>>

BeginDelete(t, c) ==
    /\ Enter(t, "mark", "chat.deleted", c)
    /\ UNCHANGED <<clock, durable, since, requested, tailers, notice>>

BugMarkWithoutEvent(t) ==
    /\ thread[t].pc = "mark"
    /\ LockFree
    /\ row' = [row EXCEPT ![thread[t].chat].status = "deleted"]
    /\ thread' = [thread EXCEPT ![t] = Idle]
    /\ UNCHANGED <<clock, events, acked, dedup, since, requested, tailers, notice>>

\* The first of mark_deleted's two transactions.
MarkDeleted(t) ==
    LET c == thread[t].chat
        ts == thread[t].ts
    IN  /\ thread[t].pc = "mark"
        /\ LockFree
        /\ row' = [row EXCEPT ![c].status = "deleted", ![c].deletedAt = ts,
                              ![c].updatedAt = ts]
        /\ thread' = [thread EXCEPT ![t].pc = "commit"]
        /\ UNCHANGED <<clock, events, acked, dedup, since, requested, tailers,
                       notice>>

Seqs(S) == {e.seq : e \in S}
MaxOf(S) == CHOOSE m \in S : \A n \in S : n <= m

BugNextSeqFromEvents(c) ==
    IF events[c] = {} THEN 1 ELSE MaxOf(Seqs(events[c])) + 1

NextSeq(c) == row[c].latest + 1

\* The transaction of append_event, which is also the second one of
\* mark_deleted, and of rename_chat, which differs in the title only.
Append(t) ==
    LET c == thread[t].chat
        ts == thread[t].ts
        base == IF Present(c) THEN row[c] ELSE NewRow(ts)
    IN  /\ thread[t].pc = "commit"
        /\ LockFree
        /\ row[c].latest < MaxSeq
        /\ events' = [events EXCEPT ![c] = @ \cup
                        {[seq |-> NextSeq(c), kind |-> thread[t].kind,
                          at |-> ts]}]
        /\ row' = [row EXCEPT ![c] = [base EXCEPT !.latest = NextSeq(c),
                                                  !.updatedAt = ts]]
        /\ since' = IF since < GcInterval THEN since + 1 ELSE since
        \* gc_bytes_interval may be reached by any event.
        /\ requested' \in {TRUE, requested \/ (GcInterval > 0 /\ since + 1 >= GcInterval)}
        /\ thread' = [thread EXCEPT ![t] = [Idle EXCEPT !.pc = "bump", !.chat = c]]
        /\ notice' = IF thread[t].kind = "chat.deleted"
                     THEN [notice EXCEPT ![c] = "written"] ELSE notice
        /\ UNCHANGED <<clock, acked, dedup, tailers>>

\* Deletions whose row is marked and whose event is still to be written.
Announcing(c, t) ==
    thread[t].pc = "commit" /\ thread[t].kind = "chat.deleted" /\ thread[t].chat = c

Lose(T) ==
    [c \in Chat |->
        IF /\ notice[c] = "none" /\ Deleted(c)
           /\ \E t \in T : Announcing(c, t)
        THEN "lost" ELSE notice[c]]

\* SQLite refuses the append (disk full, busy): rollback, and the error goes
\* to the caller.
AppendFails(t) ==
    /\ thread[t].pc = "commit"
    /\ LockFree
    /\ thread' = [thread EXCEPT ![t] = Idle]
    /\ notice' = Lose({t})
    /\ UNCHANGED <<clock, durable, since, requested, tailers>>

\* Waking the tailers comes after the lock is released; ChatTail refines it.
Bump(t) ==
    /\ thread[t].pc \in {"bump", "bump_all"}
    /\ thread' = [thread EXCEPT ![t] = Idle]
    /\ UNCHANGED <<clock, durable, since, requested, tailers, notice>>

-----------------------------------------------------------------------------
(* Garbage collection: sweep.                                              *)

Expired(c, ts) == {e \in events[c] : e.at < ts - EventTtl}
Unexpired(c, ts) == events[c] \ Expired(c, ts)

BugFloorUnmoved(c, ts) == row[c].floor

TtlFloor(c, ts) ==
    IF Expired(c, ts) = {} THEN row[c].floor
    ELSE Larger(row[c].floor, MaxOf(Seqs(Expired(c, ts))))

BugOverflow(c, ts) ==
    {s \in Seqs(Unexpired(c, ts)) :
        Cardinality({u \in Seqs(Unexpired(c, ts)) : u > s}) = MaxEvents}

\* LIMIT 1 OFFSET max_events_per_chat - 1, newest first: no row when the log
\* is shorter.
Overflow(c, ts) ==
    {s \in Seqs(Unexpired(c, ts)) :
        Cardinality({u \in Seqs(Unexpired(c, ts)) : u > s}) = MaxEvents - 1}

CapFloor(c, ts) ==
    IF Overflow(c, ts) = {} THEN 0 ELSE (CHOOSE s \in Overflow(c, ts) : TRUE) - 1

Trimmed(c, ts) == {e \in Unexpired(c, ts) : e.seq > CapFloor(c, ts)}

\* Rows of deleted chats past their time, with all that refers to them.
Buried(ts) == {c \in Chat : Deleted(c) /\ row[c].deletedAt < ts - DeletedTtl}

Countable == {c \in Chat : Live(c) /\ c # Inbox}

BugKeepers(K) ==
    K \subseteq Countable /\ Cardinality(K) <= MaxChats

\* The newest max_chats of them; updated_at ties go either way.
Keepers(K) ==
    /\ K \subseteq Countable
    /\ Cardinality(K) = (IF Cardinality(Countable) <= MaxChats
                         THEN Cardinality(Countable) ELSE MaxChats)
    /\ \A k \in K, c \in Countable \ K : row[c].updatedAt <= row[k].updatedAt

\* Chats given up to the byte budget, oldest first, as many as SQLite's free
\* pages turn out to require.
OldestOf(B, S) ==
    /\ B \subseteq S
    /\ \A b \in B, c \in S \ B : row[b].updatedAt <= row[c].updatedAt

Tombstone(c, ts) ==
    [seq |-> NextSeq(c), kind |-> "chat.deleted", at |-> ts]
TombstoneRow(c, ts) ==
    [status |-> "deleted", latest |-> NextSeq(c), floor |-> row[c].latest,
     deletedAt |-> ts, updatedAt |-> ts]
TrimmedRow(c, ts) ==
    [row[c] EXCEPT !.floor = Larger(TtlFloor(c, ts), CapFloor(c, ts))]

UnexpiredDedup(ts) == {d \in dedup : d.expires >= ts}

\* The transaction of a sweep that tombstones the chats in victims.
Collect(ts, victims, told) ==
    /\ row' = [c \in Chat |->
                 CASE c \in Buried(ts) -> NoRow
                   [] c \in victims    -> TombstoneRow(c, ts)
                   [] OTHER            -> TrimmedRow(c, ts)]
    /\ events' = [c \in Chat |->
                 CASE c \in Buried(ts) -> {}
                   [] c \in victims    -> {Tombstone(c, ts)}
                   [] OTHER            -> Trimmed(c, ts)]
    /\ acked' = [c \in Chat |-> IF c \in Buried(ts) THEN NoCursors ELSE acked[c]]
    /\ dedup' = {d \in UnexpiredDedup(ts) : d.chat \notin Buried(ts)}
    /\ notice' = [c \in Chat |->
                 CASE c \in Buried(ts) -> "none"
                   [] c \in victims    -> "written"
                   [] OTHER            -> told[c]]

BugSweepTxn(ts, active, told) ==
    \E K \in SUBSET Countable :
        Keepers(K) /\ Collect(ts, Countable \ K, told)

SweepTxn(ts, active, told) ==
    \E K \in SUBSET Countable :
        /\ Keepers(K)
        /\ LET over == Countable \ (K \cup active)
               rest == Countable \ (active \cup over)
           IN  \E B \in SUBSET rest :
                   /\ OldestOf(B, rest)
                   /\ Collect(ts, over \cup B, told)

BeginSweep(t) ==
    /\ Enter(t, "sweep", "event", NoChat)
    /\ UNCHANGED <<clock, durable, since, requested, tailers, notice>>

\* Under the lock, but tailers come and go on the event loop meanwhile: the
\* set of active chats is the one of this moment.
ScanTailers(t) ==
    /\ thread[t].pc = "sweep"
    /\ LockFree
    /\ thread' = [thread EXCEPT ![t].pc = "gc",
                                ![t].active = {c \in Chat : tailers[c] > 0}]
    /\ UNCHANGED <<clock, durable, since, requested, tailers, notice>>

Sweep(t) ==
    /\ thread[t].pc = "gc"
    /\ SweepTxn(thread[t].ts, thread[t].active, notice)
    /\ thread' = [thread EXCEPT ![t] = [Idle EXCEPT !.pc = "bump_all"]]
    /\ since' = 0
    /\ requested' = FALSE
    /\ UNCHANGED <<clock, tailers>>

SweepFails(t) ==
    /\ thread[t].pc = "gc"
    /\ thread' = [thread EXCEPT ![t] = Idle]
    /\ UNCHANGED <<clock, durable, since, requested, tailers, notice>>

ConsumeSweepRequested ==
    /\ LockFree
    /\ requested
    /\ requested' = FALSE
    /\ UNCHANGED <<clock, durable, since, tailers, thread, notice>>

-----------------------------------------------------------------------------
(* Cursors, deduplication, tailers, drop and restart.                       *)

\* A tailer acknowledges after sending, so the event may be gone by then, or
\* be one of an earlier life of the chat.  Without a chat row the foreign key
\* refuses the insert.
Acknowledge(c, k, s) ==
    /\ LockFree
    /\ Present(c)
    /\ acked' = [acked EXCEPT ![c][k] = Larger(@, s)]
    /\ UNCHANGED <<clock, row, events, dedup, since, requested, tailers,
                   thread, notice>>

DedupOf(c, m) == {d \in dedup : d.chat = c /\ d.msg = m}

DedupHit(c, m) == \E d \in DedupOf(c, m) : d.expires >= clock

DedupRecord(c, m) ==
    /\ LockFree
    /\ row' = IF Present(c) THEN row ELSE [row EXCEPT ![c] = NewRow(clock)]
    /\ dedup' = (dedup \ DedupOf(c, m)) \cup
                  {[chat |-> c, msg |-> m, expires |-> clock + DedupTtl]}
    /\ UNCHANGED <<clock, events, acked, since, requested, tailers, thread,
                   notice>>

DedupForget(c, m) ==
    /\ LockFree
    /\ DedupOf(c, m) # {}
    /\ dedup' = dedup \ DedupOf(c, m)
    /\ UNCHANGED <<clock, row, events, acked, since, requested, tailers,
                   thread, notice>>

Attach(c) ==
    /\ tailers[c] < MaxTailers
    /\ tailers' = [tailers EXCEPT ![c] = @ + 1]
    /\ UNCHANGED <<clock, durable, since, requested, thread, notice>>

Detach(c) ==
    /\ tailers[c] > 0
    /\ tailers' = [tailers EXCEPT ![c] = @ - 1]
    /\ UNCHANGED <<clock, durable, since, requested, thread, notice>>

\* The only caller of drop is a failed push to a chat that had no row when
\* the push began: it checks that the log is still empty, then drops it.
BeginDrop(t, c) ==
    /\ ~Present(c)
    /\ LockFree
    /\ thread[t].pc = "idle"
    /\ thread' = [thread EXCEPT ![t] = [Idle EXCEPT !.pc = "check", !.chat = c]]
    /\ UNCHANGED <<clock, durable, since, requested, tailers, notice>>

CheckEmpty(t) ==
    /\ thread[t].pc = "check"
    /\ LockFree
    /\ thread' = IF events[thread[t].chat] = {}
                 THEN [thread EXCEPT ![t].pc = "drop"]
                 ELSE [thread EXCEPT ![t] = Idle]
    /\ UNCHANGED <<clock, durable, since, requested, tailers, notice>>

\* Deletes the row, whatever it holds by now, and forgets the log object,
\* with its count of tailers.
Drop(t) ==
    LET c == thread[t].chat
    IN  /\ thread[t].pc = "drop"
        /\ LockFree
        /\ row' = [row EXCEPT ![c] = NoRow]
        /\ events' = [events EXCEPT ![c] = {}]
        /\ acked' = [acked EXCEPT ![c] = NoCursors]
        /\ dedup' = {d \in dedup : d.chat # c}
        /\ tailers' = [tailers EXCEPT ![c] = 0]
        /\ notice' = [notice EXCEPT ![c] = "none"]
        /\ thread' = [thread EXCEPT ![t] = Idle]
        /\ UNCHANGED <<clock, since, requested>>

Volatile ==
    /\ since' = 0
    /\ requested' = FALSE
    /\ tailers' = [c \in Chat |-> 0]
    /\ thread' = [t \in Thread |-> Idle]
    /\ UNCHANGED clock

\* The process dies and opens the database again, with or without the sweep
\* at startup.
Restart ==
    /\ Volatile
    /\ \/ UNCHANGED <<row, events, acked, dedup>> /\ notice' = Lose(Thread)
       \/ SweepTxn(clock, {}, Lose(Thread))

\* quick_check fails: the file is quarantined and an empty database made.
RestartAfterCorruption ==
    /\ Volatile
    /\ row' = [c \in Chat |-> NoRow]
    /\ events' = [c \in Chat |-> {}]
    /\ acked' = [c \in Chat |-> NoCursors]
    /\ dedup' = {}
    /\ notice' = [c \in Chat |-> "none"]

-----------------------------------------------------------------------------

Call(t, c) == BeginAppend(t, c) \/ BeginDelete(t, c) \/ BeginDrop(t, c)

ThreadStep(t) ==
    \/ MarkDeleted(t) \/ Append(t) \/ AppendFails(t)
    \/ BeginSweep(t) \/ ScanTailers(t) \/ Sweep(t) \/ SweepFails(t)
    \/ CheckEmpty(t) \/ Drop(t)

Next ==
    \/ Tick
    \/ \E t \in Thread : ThreadStep(t) \/ Bump(t) \/ \E c \in Chat : Call(t, c)
    \/ ConsumeSweepRequested
    \/ \E c \in Chat, k \in Client, s \in 1..(MaxSeq + 1) : Acknowledge(c, k, s)
    \/ \E c \in Chat, m \in Msg : DedupRecord(c, m) \/ DedupForget(c, m)
    \/ \E c \in Chat : Attach(c) \/ Detach(c)
    \/ Restart
    \/ RestartAfterCorruption

Spec == Init /\ [][Next]_vars

-----------------------------------------------------------------------------
(* Properties *)

\* Table constraints that no single transaction shows: sequence numbers stay
\* within the row's counters, one event each, and nothing refers to a chat
\* without a row (the foreign keys cascade).
WellFormedLog ==
    \A c \in Chat :
        /\ row[c].floor <= row[c].latest
        /\ \A e \in events[c] : e.seq <= row[c].latest
        /\ \A e, f \in events[c] : e.seq = f.seq => e = f
        /\ ~Present(c) => /\ row[c] = NoRow
                          /\ events[c] = {}
                          /\ acked[c] = NoCursors
                          /\ \A d \in dedup : d.chat # c

\* Replay from any cursor that replay_after does not refuse is complete: every
\* sequence number above the floor is retained, whatever order sweeps,
\* tombstones, late appends and clock readings came in.
NoHoles ==
    \A c \in Chat : row[c].floor + 1 .. row[c].latest \subseteq Seqs(events[c])

\* A chat marked deleted has its chat.deleted event, unless the event is
\* about to be written or was lost between mark_deleted's two transactions.
DeletionAnnounced ==
    \A c \in Chat :
        Deleted(c) => \/ notice[c] \in {"written", "lost"}
                      \/ \E t \in Thread : Announcing(c, t)

SameLife(c) == Present(c) /\ Present(c)'

\* While a chat's row lives its log never runs backwards: counters and
\* cursors do not decrease, what is added comes above the old end, what is
\* removed falls below the new floor, and a deleted chat is not revived.
LogMovesForward(c) ==
    SameLife(c) =>
        /\ row'[c].latest >= row[c].latest
        /\ row'[c].floor >= row[c].floor
        /\ \A k \in Client : acked'[c][k] >= acked[c][k]
        /\ \A e \in events'[c] \ events[c] : e.seq > row[c].latest
        /\ \A e \in events[c] \ events'[c] : e.seq <= row'[c].floor
        /\ Deleted(c) => Deleted(c)'

CursorsNeverRewind == [][\A c \in Chat : LogMovesForward(c)]_vars

Swept(t) == thread[t].pc = "gc" /\ thread'[t].pc = "bump_all"

\* A sweep leaves at most max_events_per_chat events in a log, and removes no
\* event that is both young enough and among the newest of its log, unless it
\* takes the whole chat; and it forgets no client message that a lookup would
\* still recognise, unless the chat goes too.
GcKeepsYoung ==
    [][\A t \in Thread, c \in Chat :
         Swept(t) =>
           /\ Cardinality(events'[c]) <= MaxEvents
           /\ row'[c].status = row[c].status =>
                \A e \in events[c] :
                  /\ e.at >= thread[t].ts - EventTtl
                  /\ Cardinality({f \in events[c] : f.seq > e.seq}) < MaxEvents
                  => e \in events'[c]
           /\ \A m \in Msg : DedupHit(c, m) /\ Present(c)' => DedupHit(c, m)']_vars

\* After a sweep the number of listed chats is within max_chats, but for the
\* chats that had tailers, and the chats given up to the cap are the oldest:
\* an idle chat survives only if all younger idle ones do.
GcBoundsChats ==
    [][\A t \in Thread :
         Swept(t) =>
           /\ Cardinality(Countable') <= MaxChats + Cardinality(thread[t].active)
           /\ \A c, d \in Countable \ thread[t].active :
                row[c].updatedAt < row[d].updatedAt /\ Live(c)' => Live(d)']_vars

\* A sweep never tombstones the inbox or a chat that had a tailer when it
\* looked, neither for the cap on chats nor for the byte budget.
GcSparesActive ==
    [][\A t \in Thread, c \in Chat :
         Swept(t) /\ Live(c) /\ Deleted(c)' =>
           c # Inbox /\ c \notin thread[t].active]_vars

=============================================================================
