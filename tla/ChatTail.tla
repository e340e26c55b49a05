------------------------------- MODULE ChatTail -------------------------------
(***************************************************************************)
(* Live subscriptions to a chat: ChatStateLog.tail_after and _bump of      *)
(* chat_store.py, driven by ChatCursorRelay._tail of chat_cursor.py.       *)
(*                                                                         *)
(* A subscription runs on the event loop but reads the store in a worker   *)
(* thread, so appends, sweeps, deletions and drops run between its steps.  *)
(* This module composes it with ChatStore: every step is a step of the     *)
(* store, of the log objects' wake-up machinery, or of a subscription.     *)
(***************************************************************************)
EXTENDS ChatStore

CONSTANTS
    Sub,      \* subscription tasks
    NoClient, \* the client of a task that is off
    MaxLogs   \* bound: log objects created for one chat in one process life

ASSUME NoClientAssumption == NoClient \notin Client
ASSUME MaxLogsAssumption == MaxLogs \in Nat \ {0}

VARIABLES
    gen,     \* how many log objects the chat has had
    logs,    \* chats with a log object registered in _logs
    queued,  \* log objects with call_soon_threadsafe(progressed.set) pending
    sub      \* the subscription tasks

tailVars == <<gen, logs, queued, sub>>
allVars == <<vars, tailVars>>

(***************************************************************************)
(* pc of a subscription: off; check, fetch, replay, deliver, ack, park,    *)
(* waiting follow tail_after and _tail; expired is about to send           *)
(* chat_resume_expired; ended has returned or was cancelled, its generator *)
(* not yet closed.                                                         *)
(*                                                                         *)
(* moved: the log's _version has changed since the task last read it;      *)
(* astray: history, the chat's row was removed under the task, so its      *)
(* cursor counts events of an earlier life of the chat.                    *)
(***************************************************************************)
Off == [pc |-> "off", chat |-> NoChat, client |-> NoClient, gen |-> 0,
        cursor |-> 0, batch |-> {}, moved |-> FALSE, astray |-> FALSE]

SubState ==
    [pc : {"off", "check", "fetch", "replay", "deliver", "ack", "park",
           "waiting", "expired", "ended"},
     chat : Chat \cup {NoChat}, client : Client \cup {NoClient}, gen : Nat,
     cursor : Nat, batch : SUBSET (Nat \ {0}), moved : BOOLEAN,
     astray : BOOLEAN]

TailTypeOK ==
    /\ TypeOK
    /\ gen \in [Chat -> 0..MaxLogs]
    /\ logs \subseteq Chat
    /\ queued \subseteq Chat \X (1..MaxLogs)
    /\ sub \in [Sub -> SubState]

TailInit ==
    /\ Init
    /\ gen = [c \in Chat |-> 0]
    /\ logs = {}
    /\ queued = {}
    /\ sub = [s \in Sub |-> Off]

Attached(s) == sub[s].pc # "off"
Goto(s, pc) == [sub EXCEPT ![s].pc = pc]

-----------------------------------------------------------------------------
(* Log objects *)

\* The generation of the object get_or_create(c) returns.
GenOf(c) == IF c \in logs THEN gen[c] ELSE gen[c] + 1

GetOrCreate(c) ==
    /\ logs' = logs \cup {c}
    /\ gen' = [gen EXCEPT ![c] = GenOf(c)]

\* _bump of the log objects in L: _version grows, which is all that its
\* readers compare, and the event is set later on the loop.
BumpLogs(L) ==
    /\ queued' = queued \cup L
    /\ sub' = [s \in Sub |->
                 IF <<sub[s].chat, sub[s].gen>> \in L
                 THEN [sub[s] EXCEPT !.moved = TRUE] ELSE sub[s]]

\* append_event and rename_chat wake the tailers of their chat.
BumpOne(t) ==
    LET c == thread[t].chat
    IN  /\ thread[t].pc = "bump"
        /\ Bump(t)
        /\ GetOrCreate(c)
        /\ BumpLogs({<<c, GenOf(c)>>})

\* sweep wakes those of every registered log.
BumpAll(t) ==
    /\ thread[t].pc = "bump_all"
    /\ Bump(t)
    /\ BumpLogs({<<c, gen[c]>> : c \in logs})
    /\ UNCHANGED <<gen, logs>>

\* progressed.set() runs on the loop and resolves every waiter of the object.
SetProgressed(l) ==
    /\ l \in queued
    /\ queued' = queued \ {l}
    /\ sub' = [s \in Sub |->
                 IF sub[s].pc = "waiting" /\ <<sub[s].chat, sub[s].gen>> = l
                 THEN [sub[s] EXCEPT !.pc = "fetch"] ELSE sub[s]]
    /\ UNCHANGED <<vars, gen, logs>>

-----------------------------------------------------------------------------
(* A subscription *)

\* handle_subscribe starts _tail, whose generator attaches to the log object
\* at its first step.  A client resumes from 0 or from a cursor of its own.
Subscribe(s, c, k, after) ==
    /\ sub[s].pc = "off"
    /\ LockFree
    /\ Attach(c)
    /\ GetOrCreate(c)
    /\ sub' = [sub EXCEPT ![s] = [Off EXCEPT !.pc = "check", !.chat = c,
                                    !.client = k, !.gen = GenOf(c),
                                    !.cursor = after]]
    /\ UNCHANGED queued

\* reject_future_cursor
CheckCursor(s) ==
    /\ sub[s].pc = "check"
    /\ LockFree
    /\ sub' = IF sub[s].cursor > row[sub[s].chat].latest
              THEN Goto(s, "expired") ELSE Goto(s, "fetch")
    /\ UNCHANGED <<vars, gen, logs, queued>>

ReadVersion(s) ==
    /\ sub[s].pc = "fetch"
    /\ sub' = [sub EXCEPT ![s].pc = "replay", ![s].moved = FALSE]
    /\ UNCHANGED <<vars, gen, logs, queued>>

BugReplayUnchecked(s) ==
    /\ sub[s].pc = "replay"
    /\ LockFree
    /\ sub' = [sub EXCEPT ![s].pc = "deliver", ![s].batch =
                  {n \in Seqs(events[sub[s].chat]) : n > sub[s].cursor}]
    /\ UNCHANGED <<vars, gen, logs, queued>>

\* replay_after in a worker thread; a chat without a row replays nothing.
ReplayAfter(c, cursor) == {n \in Seqs(events[c]) : n > cursor}

Replay(s) ==
    LET c == sub[s].chat
    IN  /\ sub[s].pc = "replay"
        /\ LockFree
        /\ sub' = IF sub[s].cursor < row[c].floor
                  THEN Goto(s, "expired")
                  ELSE [sub EXCEPT ![s].pc = "deliver",
                                   ![s].batch = ReplayAfter(c, sub[s].cursor)]
        /\ UNCHANGED <<vars, gen, logs, queued>>

NextOf(s) == CHOOSE n \in sub[s].batch : \A m \in sub[s].batch : n <= m

\* The generator yields the event and _tail sends it.
Deliver(s) ==
    /\ sub[s].pc = "deliver"
    /\ sub[s].batch # {}
    /\ sub' = [sub EXCEPT ![s].pc = "ack", ![s].cursor = NextOf(s),
                          ![s].batch = @ \ {NextOf(s)}]
    /\ UNCHANGED <<vars, gen, logs, queued>>

\* A failed send ends the task.
DeliverFails(s) ==
    /\ sub[s].pc \in {"deliver", "expired"}
    /\ sub' = Goto(s, "ended")
    /\ UNCHANGED <<vars, gen, logs, queued>>

AckDelivered(s) ==
    /\ sub[s].pc = "ack"
    /\ Acknowledge(sub[s].chat, sub[s].client, sub[s].cursor)
    /\ sub' = Goto(s, "deliver")
    /\ UNCHANGED <<gen, logs, queued>>

\* The row is gone: sqlite3.IntegrityError leaves _tail, which sends nothing.
AckRefused(s) ==
    /\ sub[s].pc = "ack"
    /\ LockFree
    /\ ~Present(sub[s].chat)
    /\ sub' = Goto(s, "ended")
    /\ UNCHANGED <<vars, gen, logs, queued>>

BatchDone(s) ==
    /\ sub[s].pc = "deliver"
    /\ sub[s].batch = {}
    /\ sub' = Goto(s, "park")
    /\ UNCHANGED <<vars, gen, logs, queued>>

BugParkUnchecked(s) ==
    /\ sub[s].pc = "park"
    /\ sub' = Goto(s, "waiting")
    /\ UNCHANGED <<vars, gen, logs, queued>>

\* clear(), the comparison of versions and the start of wait() are one step
\* of the event loop.
Park(s) ==
    /\ sub[s].pc = "park"
    /\ sub' = Goto(s, IF sub[s].moved THEN "fetch" ELSE "waiting")
    /\ UNCHANGED <<vars, gen, logs, queued>>

SendExpired(s) ==
    /\ sub[s].pc = "expired"
    /\ sub' = Goto(s, "ended")
    /\ UNCHANGED <<vars, gen, logs, queued>>

\* chat_unsubscribe, a resubscription under the same request id or the end
\* of the session.
Cancel(s) ==
    /\ sub[s].pc \notin {"off", "ended"}
    /\ sub' = Goto(s, "ended")
    /\ UNCHANGED <<vars, gen, logs, queued>>

BugEndByName(s) ==
    /\ sub[s].pc = "ended"
    /\ IF sub[s].chat \in logs THEN Detach(sub[s].chat) ELSE UNCHANGED vars
    /\ sub' = [sub EXCEPT ![s] = Off]
    /\ UNCHANGED <<gen, logs, queued>>

\* The generator's finally clause decrements the count of its own object,
\* which drop may have unregistered.
EndTail(s) ==
    LET c == sub[s].chat
    IN  /\ sub[s].pc = "ended"
        /\ IF c \in logs /\ sub[s].gen = gen[c] THEN Detach(c) ELSE UNCHANGED vars
        /\ sub' = [sub EXCEPT ![s] = Off]
        /\ UNCHANGED <<gen, logs, queued>>

-----------------------------------------------------------------------------
(* Composition with the store *)

\* Tasks whose chat loses its row in this step.
Stray ==
    sub' = [s \in Sub |->
              IF /\ Attached(s)
                 /\ Present(sub[s].chat)
                 /\ row'[sub[s].chat].status = "absent"
              THEN [sub[s] EXCEPT !.astray = TRUE] ELSE sub[s]]

QuietStep ==
    /\ \/ Tick
       \/ ConsumeSweepRequested
       \/ \E t \in Thread :
            \/ MarkDeleted(t) \/ Append(t) \/ AppendFails(t)
            \/ BeginSweep(t) \/ ScanTailers(t) \/ CheckEmpty(t)
            \/ \E c \in Chat : BeginAppend(t, c) \/ BeginDelete(t, c)
       \/ \E c \in Chat, m \in Msg : DedupRecord(c, m) \/ DedupForget(c, m)
    /\ Stray
    /\ UNCHANGED <<gen, logs, queued>>

SweepEnds(t) ==
    /\ Sweep(t) \/ SweepFails(t)
    /\ Stray
    /\ UNCHANGED <<gen, logs, queued>>

\* send_push creates the log object before it sends.
PushFails(t, c) ==
    /\ GenOf(c) < MaxLogs
    /\ BeginDrop(t, c)
    /\ GetOrCreate(c)
    /\ UNCHANGED <<queued, sub>>

\* bound: the last log object explored is not dropped.
DropLog(t) ==
    /\ Drop(t)
    /\ gen[thread[t].chat] < MaxLogs
    /\ logs' = logs \ {thread[t].chat}
    /\ Stray
    /\ UNCHANGED <<gen, queued>>

RestartProcess ==
    /\ Restart \/ RestartAfterCorruption
    /\ gen' = [c \in Chat |-> 0]
    /\ logs' = {}
    /\ queued' = {}
    /\ sub' = [s \in Sub |-> Off]

SubStep(s) ==
    \/ CheckCursor(s) \/ ReadVersion(s) \/ Replay(s) \/ Deliver(s)
    \/ AckDelivered(s) \/ AckRefused(s) \/ BatchDone(s) \/ Park(s)
    \/ SendExpired(s)

TailNext ==
    \/ QuietStep
    \/ \E t \in Thread : SweepEnds(t) \/ BumpOne(t) \/ BumpAll(t) \/ DropLog(t)
    \/ \E t \in Thread, c \in Chat : PushFails(t, c)
    \/ \E l \in Chat \X (1..MaxLogs) : SetProgressed(l)
    \/ \E s \in Sub : SubStep(s) \/ DeliverFails(s) \/ Cancel(s) \/ EndTail(s)
    \/ \E s \in Sub, c \in Chat, k \in Client, n \in 0..(MaxSeq + 1) :
          Subscribe(s, c, k, n)
    \/ RestartProcess

TailSafety == TailInit /\ [][TailNext]_allVars

(***************************************************************************)
(* asyncio runs every ready task and callback, a worker thread finishes    *)
(* its call, and a reader that keeps asking gets the store's lock (strong  *)
(* fairness: sweeps take it too, for a moment each).  Nothing obliges the  *)
(* agent to append or a client to subscribe.                               *)
(***************************************************************************)
TailFairness ==
    /\ \A s \in Sub : SF_allVars(SubStep(s)) /\ WF_allVars(EndTail(s))
    /\ \A t \in Thread : WF_allVars(SweepEnds(t) \/ BumpOne(t) \/ BumpAll(t))
    /\ \A l \in Chat \X (1..MaxLogs) : WF_allVars(SetProgressed(l))

TailSpec == TailSafety /\ TailFairness

-----------------------------------------------------------------------------
(* Properties *)

\* The task's log object is the one that appends and sweeps will wake.
Registered(s) == sub[s].chat \in logs /\ gen[sub[s].chat] = sub[s].gen

OutOfDate(s) ==
    LET c == sub[s].chat
    IN  sub[s].cursor < row[c].floor \/ ReplayAfter(c, sub[s].cursor) # {}

\* A task asleep on a registered log has nothing to read, unless the wake-up
\* is already under way: no order of replay, append, sweep, clear and wait
\* leaves an event behind a sleeping reader.
NoLostWakeup ==
    \A s \in Sub :
        sub[s].pc = "waiting" /\ Registered(s) /\ OutOfDate(s) =>
            \/ <<sub[s].chat, sub[s].gen>> \in queued
            \/ \E t \in Thread :
                 \/ thread[t].pc = "bump" /\ thread[t].chat = sub[s].chat
                 \/ thread[t].pc = "bump_all"

\* What sweep takes for an active chat is exact: the count of the registered
\* log object is the number of tasks attached to it, across cancellations,
\* late generator clean-up and drops.
TailersExact ==
    \A c \in Chat :
        tailers[c] =
            Cardinality({s \in Sub : sub[s].chat = c /\ Registered(s)})

\* The log of one chat as its readers see it (chats do not share state that
\* readers see, so one stands for all).
Watched == CHOOSE c \in Chat : TRUE
Following(s) == sub[s].chat = Watched /\ sub[s].pc \notin {"off", "ended"}
Sound(s) == Registered(s) /\ ~sub[s].astray

Stream == INSTANCE EventStream WITH
    Reader <- Sub,
    end    <- row[Watched].latest,
    floor  <- row[Watched].floor,
    state  <- [s \in Sub |-> IF ~Following(s) THEN "off"
                             ELSE IF Sound(s) THEN "reading" ELSE "astray"],
    pos    <- [s \in Sub |-> IF Following(s) /\ Sound(s)
                             THEN sub[s].cursor ELSE 0]

\* A subscription implements the abstract reader: it is sent the events one by
\* one, without gap or repetition, and an event above its cursor is eventually
\* sent to it, or it is told that its cursor has expired.
StreamPromise == Stream!Spec

=============================================================================
