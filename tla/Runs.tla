---------------------------------- MODULE Runs ----------------------------------
(***************************************************************************)
(* Agent runs: _create_run, _run_events, _stop_run, _run_approval and the  *)
(* sweeper of agent_runner.py, over the event logs of event_log.py.        *)
(*                                                                         *)
(* A run has a task on the event loop and a worker thread in which Hermes  *)
(* converses.  The thread hands everything to the loop as callbacks, in    *)
(* order, its result last, except that it writes waiting_for_approval into *)
(* the table of statuses itself.  Cancelling the task does not stop the    *)
(* thread.  A step on the loop is what a task does between two awaits.     *)
(* Run n is the n-th that is started.  Bug operators stand for mistakes in *)
(* the definition that follows.                                            *)
(***************************************************************************)
EXTENDS Integers, Sequences, FiniteSets

CONSTANTS
    Key,           \* idempotency keys
    NoKey,         \* a request without one
    Body,          \* request bodies, up to their fingerprint
    Reader,        \* requests for the events of a run
    MaxConcurrent, \* _MAX_CONCURRENT_RUNS
    MaxLogs,       \* max_logs of the registry
    LogTtl,        \* _RUN_STREAM_TTL, in ticks of the clock
    StatusTtl,     \* _RUN_STATUS_TTL and _IDEMPOTENCY_TTL
    MaxRuns,       \* bound: runs that are started
    MaxEvents,     \* bound: events of a worker per run
    MaxClock       \* bound: the clock

ASSUME BoundAssumption ==
    /\ MaxConcurrent \in Nat \ {0} /\ MaxLogs \in Nat \ {0}
    /\ LogTtl \in Nat /\ StatusTtl \in Nat
    /\ MaxRuns \in Nat /\ MaxEvents \in Nat /\ MaxClock \in Nat

ASSUME KeyAssumption == NoKey \notin Key

VARIABLES
    clock,
    origin,     \* key, body and time of each run: the _CachedRun made for it
    keys,       \* _idempotency_keys: the run cached for a key, or 0
    status,     \* _run_statuses: the status and its updated_at
    task,       \* the task of a run
    cancelling, \* tasks whose cancellation is under way
    tasks,      \* _active_run_tasks
    agents,     \* _active_run_agents
    approvals,  \* _run_approval_sessions
    worker,     \* the thread of a run
    posted,     \* call_soon_threadsafe: callbacks of the thread not yet run
    log,        \* the RetainedEventLog of a run
    registry,   \* EventLogRegistry._logs, least recently used first
    recording,  \* the run whose approval the loop is recording, or 0
    reader,     \* the tasks of the readers
    stopped     \* history: runs whose stop was accepted

runVars == <<origin, keys>>
taskVars == <<task, cancelling, tasks, agents, approvals>>
vars == <<clock, runVars, status, taskVars, worker, posted, log, registry, recording,
          reader, stopped>>

Run == 1..MaxRuns
started == Len(origin)
Terminal == {"run.completed", "run.failed", "run.cancelled"}
Kind == {"delta", "approval.request", "approval.responded"} \cup Terminal
Result == {"ok", "failed", "raised"}
Finished == {"completed", "failed", "cancelled"}
Status == {"none", "queued", "running", "waiting_for_approval", "stopping"}
          \cup Finished

EmptyLog == [events |-> <<>>, floor |-> 0, closed |-> FALSE, at |-> 0]
NoReader == [pc |-> "off", run |-> 0, after |-> 0, cursor |-> 0, upto |-> 0,
             seen |-> 0, got |-> {}]

TypeOK ==
    /\ clock \in 0..MaxClock
    /\ origin \in Seq([key : Key \cup {NoKey}, body : Body, at : 0..MaxClock])
    /\ started <= MaxRuns
    /\ keys \in [Key -> 0..MaxRuns]
    /\ status \in [Run -> [state : Status, at : 0..MaxClock]]
    /\ task \in [Run -> {"none", "created", "awaiting", "done"}]
    /\ {cancelling, tasks, agents, approvals, stopped} \subseteq SUBSET Run
    /\ worker \in [Run -> {"none", "queued", "running", "asking", "ended"}]
    /\ posted \in [Run -> Seq(Kind \cup Result)]
    /\ \A r \in Run :
         /\ log[r] \in [events : Seq(Kind), floor : Nat, closed : BOOLEAN,
                        at : 0..MaxClock]
         /\ log[r].floor <= Len(log[r].events)
    /\ registry \in Seq(Run)
    /\ recording \in 0..MaxRuns
    /\ reader \in [Reader ->
         [pc : {"off", "headers", "send", "wait", "expired", "closing", "closed", "gone"},
          run : 0..MaxRuns, after : Nat, cursor : Nat, upto : Nat, seen : Nat,
          got : SUBSET Nat]]

Init ==
    /\ clock = 0
    /\ origin = <<>>
    /\ keys = [k \in Key |-> 0]
    /\ status = [r \in Run |-> [state |-> "none", at |-> 0]]
    /\ task = [r \in Run |-> "none"]
    /\ cancelling = {} /\ tasks = {} /\ agents = {} /\ approvals = {} /\ stopped = {}
    /\ worker = [r \in Run |-> "none"]
    /\ posted = [r \in Run |-> <<>>]
    /\ log = [r \in Run |-> EmptyLog]
    /\ registry = <<>>
    /\ recording = 0
    /\ reader = [x \in Reader |-> NoReader]

-----------------------------------------------------------------------------
(* Tables and logs                                                          *)

SetStatus(r, s) == status' = [status EXCEPT ![r] = [state |-> s, at |-> clock]]

Unfinished(r) == task[r] \in {"created", "awaiting"}
Registered(r) == \E i \in DOMAIN registry : registry[i] = r

\* The runs of S in a list, in the order they have there.
Only(list, S) ==
    LET kept[i \in 0..Len(list)] ==
          IF i = 0 THEN <<>>
          ELSE IF list[i] \in S THEN Append(kept[i-1], list[i]) ELSE kept[i-1]
    IN  kept[Len(list)]

Without(S) == Only(registry, Run \ S)

\* EventLogRegistry.get
Touched(r) == IF Registered(r) THEN Append(Without({r}), r) ELSE registry

Tailed(r) == \E x \in Reader : reader[x].run = r /\ reader[x].pc \in {"send", "wait"}

\* EventLogRegistry.get_or_create of a new run, with _evict_logs
WithNewLog(n) ==
    LET logs == Append(registry, n)
        idle == Only(logs, {r \in Run : ~Tailed(r)})
        excess == Len(logs) - MaxLogs
        evicted == {idle[i] : i \in DOMAIN idle \cap 1..excess}
    IN  Only(logs, Run \ evicted)

\* _version: every append and the close raise it by one.
Version(l) == Len(l.events) + (IF l.closed THEN 1 ELSE 0)

\* append, when the event fits.  Older events may leave: the budgets count
\* events, bytes and age.  The new one stays.
Appended(l, kind) ==
    {[l EXCEPT !.events = Append(@, kind), !.floor = f, !.at = clock] :
        f \in l.floor..Len(l.events)}

Closed(l) == [l EXCEPT !.closed = TRUE, !.at = clock]

SetLog(r, l) == log' = [log EXCEPT ![r] = l]

-----------------------------------------------------------------------------
(* Creation                                                                 *)

Fresh(c) == clock - origin[c].at <= StatusTtl

\* The retry of a request is answered with the run it started.
Joins(k, b) ==
    /\ k # NoKey
    /\ keys[k] # 0
    /\ Fresh(keys[k])
    /\ origin[keys[k]].body = b
    /\ status[keys[k]].state # "none"

\* The answer with the id of the run has been sent, so that a client can ask
\* for the run.  The first step of its task comes before.
Known(r) == task[r] \notin {"none", "created"}

ActiveCount == Cardinality({r \in tasks : Unfinished(r)})

\* _create_run, when it starts a run
CreateRun(k, b) ==
    LET n == started + 1 IN
    /\ recording = 0
    /\ n <= MaxRuns
    /\ ~Joins(k, b)
    /\ ActiveCount < MaxConcurrent
    /\ origin' = Append(origin, [key |-> k, body |-> b, at |-> clock])
    /\ keys' = IF k = NoKey THEN keys ELSE [keys EXCEPT ![k] = n]
    /\ registry' = WithNewLog(n)
    /\ SetLog(n, [EmptyLog EXCEPT !.at = clock])
    /\ approvals' = approvals \cup {n}
    /\ SetStatus(n, "queued")
    /\ task' = [task EXCEPT ![n] = "created"]
    /\ tasks' = tasks \cup {n}
    /\ UNCHANGED <<clock, cancelling, agents, worker, posted, recording, reader,
                   stopped>>

\* _create_run, when the request is refused: a key that has expired is gone.
RefuseRun(k) ==
    /\ recording = 0
    /\ keys[k] # 0 /\ ~Fresh(keys[k])
    /\ keys' = [keys EXCEPT ![k] = 0]
    /\ UNCHANGED <<clock, origin, status, taskVars, worker, posted, log,
                   registry, recording, reader, stopped>>

-----------------------------------------------------------------------------
(* The task: run_and_close                                                  *)

\* The pops of the finally clause
Forget(r) ==
    /\ tasks' = tasks \ {r}
    /\ agents' = agents \ {r}
    /\ approvals' = approvals \ {r}

\* The status s and the log l are written, the log is closed, the tables are
\* left: no await lies between.
End(r, s, l) ==
    /\ SetStatus(r, s)
    /\ SetLog(r, Closed(l))
    /\ task' = [task EXCEPT ![r] = "done"]
    /\ Forget(r)

\* An exception ends the run as failed.  An error that is itself too large for
\* the log leaves it without a last event.
Fail(r) == \E l \in Appended(log[r], "run.failed") \cup {log[r]} : End(r, "failed", l)

\* The first step of the task, _run_agent_for_run up to its await.  It precedes
\* every request that knows the id (Known).
StartRun(r) ==
    /\ recording = 0
    /\ task[r] = "created"
    /\ \/ /\ SetStatus(r, "running")
          /\ agents' = agents \cup {r}
          /\ worker' = [worker EXCEPT ![r] = "queued"]
          /\ task' = [task EXCEPT ![r] = "awaiting"]
          /\ UNCHANGED <<tasks, approvals, log>>
       \/ Fail(r) /\ UNCHANGED worker
    /\ UNCHANGED <<clock, runVars, cancelling, posted, registry, recording, reader,
                   stopped>>

Returned(r, result) ==
    \/ /\ result = "ok"
       /\ \E l \in Appended(log[r], "run.completed") : End(r, "completed", l)
    \/ /\ result = "failed"
       /\ \E l \in Appended(log[r], "run.failed") : End(r, "failed", l)
    \/ Fail(r)

BugAwaitsResult(r) == task[r] = "awaiting"

\* A task whose cancellation is under way does not see the result.
AwaitsResult(r) == task[r] = "awaiting" /\ r \notin cancelling

\* The loop runs the next callback of the thread: append, whose event may be
\* too large and is then dropped, or the result for the awaiting task.
RunCallback(r) ==
    /\ recording = 0
    /\ posted[r] # <<>>
    /\ posted' = [posted EXCEPT ![r] = Tail(@)]
    /\ LET next == Head(posted[r]) IN
       \/ /\ next \in Kind
          /\ \E l \in Appended(log[r], next) \cup {log[r]} : SetLog(r, l)
          /\ UNCHANGED <<status, task, tasks, agents, approvals>>
       \/ /\ next \in Result
          /\ AwaitsResult(r)
          /\ Returned(r, next)
       \/ /\ next \in Result
          /\ ~AwaitsResult(r)
          /\ UNCHANGED <<status, task, tasks, agents, approvals, log>>
    /\ UNCHANGED <<clock, runVars, cancelling, worker, registry, recording, reader,
                   stopped>>

\* CancelledError: a thread that has not begun never will, one that has goes on.
Cancelled(r) ==
    /\ recording = 0
    /\ r \in cancelling
    /\ cancelling' = cancelling \ {r}
    /\ \E l \in Appended(log[r], "run.cancelled") : End(r, "cancelled", l)
    /\ worker' = [worker EXCEPT ![r] = IF @ = "queued" THEN "none" ELSE @]
    /\ UNCHANGED <<clock, runVars, posted, registry, recording, reader, stopped>>

-----------------------------------------------------------------------------
(* The thread: run_sync.  What it does is Hermes's affair.                  *)

BeginWork(r) ==
    /\ worker[r] = "queued"
    /\ worker' = [worker EXCEPT ![r] = "running"]
    /\ UNCHANGED <<clock, runVars, status, taskVars, posted, log, registry, recording,
                   reader, stopped>>

Busy(r) ==
    /\ worker[r] = "running"
    /\ Len(log[r].events) + Len(posted[r]) < MaxEvents

\* text_cb and event_cb
Emit(r) ==
    /\ Busy(r)
    /\ posted' = [posted EXCEPT ![r] = Append(@, "delta")]
    /\ UNCHANGED <<clock, runVars, status, taskVars, worker, log, registry, recording,
                   reader, stopped>>

\* approval_notify; then the thread waits for the answer.
Ask(r) ==
    /\ Busy(r)
    /\ SetStatus(r, "waiting_for_approval")
    /\ posted' = [posted EXCEPT ![r] = Append(@, "approval.request")]
    /\ worker' = [worker EXCEPT ![r] = "asking"]
    /\ UNCHANGED <<clock, runVars, taskVars, log, registry, recording, reader, stopped>>

\* No answer comes, or the agent is interrupted.
GiveUp(r) ==
    /\ worker[r] = "asking"
    /\ worker' = [worker EXCEPT ![r] = "running"]
    /\ UNCHANGED <<clock, runVars, status, taskVars, posted, log, registry, recording,
                   reader, stopped>>

Post(r, result) == posted' = [posted EXCEPT ![r] = Append(@, result)]

EndWork(r, result) ==
    /\ worker[r] = "running"
    /\ worker' = [worker EXCEPT ![r] = "ended"]
    /\ Post(r, result)
    /\ UNCHANGED <<clock, runVars, status, taskVars, log, registry, recording, reader,
                   stopped>>

-----------------------------------------------------------------------------
(* Stop and approval                                                        *)

BugStoppable(r) == status[r].state # "none"

Stoppable(r) == r \in agents \cup tasks

\* _stop_run
StopRun(r) ==
    /\ recording = 0
    /\ Known(r)
    /\ Stoppable(r)
    /\ SetStatus(r, "stopping")
    /\ cancelling' = IF r \in tasks /\ Unfinished(r) THEN cancelling \cup {r}
                     ELSE cancelling
    /\ stopped' = stopped \cup {r}
    /\ UNCHANGED <<clock, runVars, task, tasks, agents, approvals, worker, posted, log,
                   registry, recording, reader>>

\* _run_approval, up to the return of resolve_gateway_approval: from then on the
\* thread goes on beside the loop.
ResolveApproval(r) ==
    /\ recording = 0
    /\ status[r].state # "none"
    /\ r \in approvals
    /\ worker[r] = "asking"
    /\ worker' = [worker EXCEPT ![r] = "running"]
    /\ recording' = r
    /\ UNCHANGED <<clock, runVars, status, taskVars, posted, log, registry, reader,
                   stopped>>

\* _run_approval, the rest
RecordApproval ==
    LET r == recording IN
    /\ r # 0
    /\ recording' = 0
    /\ SetStatus(r, "running")
    /\ IF Registered(r)
       THEN \E l \in Appended(log[r], "approval.responded") : SetLog(r, l)
       ELSE UNCHANGED log
    /\ registry' = Touched(r)
    /\ UNCHANGED <<clock, runVars, taskVars, worker, posted, reader, stopped>>

-----------------------------------------------------------------------------
(* Time and the sweeper                                                     *)

Tick ==
    /\ recording = 0
    /\ clock < MaxClock
    /\ clock' = clock + 1
    /\ UNCHANGED <<runVars, status, taskVars, worker, posted, log, registry, recording,
                   reader, stopped>>

BugDroppable(r) == clock - log[r].at > LogTtl

Droppable(r) ==
    /\ clock - log[r].at > LogTtl
    /\ ~(r \in tasks /\ Unfinished(r))

BugForgettable(r) ==
    /\ status[r].state \in Finished
    /\ clock - status[r].at >= StatusTtl

Forgettable(r) ==
    /\ status[r].state \in Finished
    /\ clock - status[r].at > StatusTtl

\* _sweep_orphaned_runs_once
SweepOnce ==
    LET dropped == {r \in Run : Registered(r) /\ Droppable(r)} IN
    /\ recording = 0
    /\ started > 0
    /\ registry' = Without(dropped)
    /\ agents' = agents \ dropped
    /\ tasks' = tasks \ dropped
    /\ approvals' = approvals \ dropped
    /\ status' = [r \in Run |-> IF Forgettable(r) THEN [status[r] EXCEPT !.state = "none"]
                                ELSE status[r]]
    /\ keys' = [k \in Key |-> IF keys[k] # 0 /\ ~Fresh(keys[k]) THEN 0 ELSE keys[k]]
    /\ UNCHANGED <<clock, origin, task, cancelling, worker, posted, log,
                   recording, reader, stopped>>

-----------------------------------------------------------------------------
(* Readers: _run_events and RetainedEventLog.tail_after                     *)

SetReader(x, e) == reader' = [reader EXCEPT ![x] = e]

OpenEvents(x, r, after) ==
    /\ recording = 0
    /\ reader[x].pc = "off"
    /\ Registered(r) /\ Known(r)
    /\ SetReader(x, [NoReader EXCEPT !.pc = "headers", !.run = r, !.after = after,
                                     !.cursor = after])
    /\ registry' = Touched(r)
    /\ UNCHANGED <<clock, runVars, status, taskVars, worker, posted, log, recording,
                   stopped>>

BugAllSent(e) == log[e.run].closed

\* tail_after returns.
AllSent(e) == log[e.run].closed /\ e.cursor >= Len(log[e.run].events)

\* One turn of the loop of tail_after, up to its next await.  replay_after
\* drops events for their age first.
Replay(x, e) ==
    LET l == log[e.run]
        latest == Len(l.events)
        aged == IF clock - origin[e.run].at > LogTtl THEN l.floor..latest ELSE {l.floor}
    IN  \E f \in aged :
          /\ SetLog(e.run, [l EXCEPT !.floor = f])
          /\ SetReader(x,
               IF e.cursor < f THEN [e EXCEPT !.pc = "expired"]
               ELSE IF e.cursor < latest
               THEN [e EXCEPT !.pc = "send", !.upto = latest, !.seen = Version(l)]
               ELSE IF AllSent(e) THEN [e EXCEPT !.pc = "closing"]
               ELSE [e EXCEPT !.pc = "wait", !.seen = Version(l)])

\* The headers are sent.  A log dropped meanwhile ends the response.
BeginTail(x) ==
    LET r == reader[x].run IN
    /\ recording = 0
    /\ reader[x].pc = "headers"
    /\ registry' = Touched(r)
    /\ IF Registered(r) THEN Replay(x, reader[x])
       ELSE SetReader(x, [reader[x] EXCEPT !.pc = "gone"]) /\ UNCHANGED log
    /\ UNCHANGED <<clock, runVars, status, taskVars, worker, posted, recording, stopped>>

\* An event is sent; after the last of the batch, versions are compared.
SentEvent(x) ==
    LET e == [reader[x] EXCEPT !.cursor = @ + 1,
                               !.got = @ \cup {reader[x].cursor + 1}]
    IN
    /\ recording = 0
    /\ reader[x].pc = "send"
    /\ \/ /\ e.cursor < e.upto
          /\ SetReader(x, e) /\ UNCHANGED log
       \/ /\ e.cursor = e.upto /\ AllSent(e)
          /\ SetReader(x, [e EXCEPT !.pc = "closing"]) /\ UNCHANGED log
       \/ /\ e.cursor = e.upto /\ ~AllSent(e) /\ Version(log[e.run]) = e.seen
          /\ SetReader(x, [e EXCEPT !.pc = "wait"]) /\ UNCHANGED log
       \/ /\ e.cursor = e.upto /\ ~AllSent(e) /\ Version(log[e.run]) # e.seen
          /\ Replay(x, e)
    /\ UNCHANGED <<clock, runVars, status, taskVars, worker, posted, registry, recording,
                   stopped>>

\* The log progressed, or the keepalive interval is over.
WakeReader(x) ==
    /\ recording = 0
    /\ reader[x].pc = "wait"
    /\ Replay(x, reader[x])
    /\ UNCHANGED <<clock, runVars, status, taskVars, worker, posted, registry, recording,
                   stopped>>

\* ": stream closed" is sent.
SentClosed(x) ==
    /\ recording = 0
    /\ reader[x].pc = "closing"
    /\ SetReader(x, [reader[x] EXCEPT !.pc = "closed"])
    /\ UNCHANGED <<clock, runVars, status, taskVars, worker, posted, log, registry,
                   recording, stopped>>

\* The client goes away: a send fails or the task is cancelled.
LoseReader(x) ==
    /\ recording = 0
    /\ reader[x].pc \in {"headers", "send", "wait", "closing"}
    /\ SetReader(x, [reader[x] EXCEPT !.pc = "gone"])
    /\ UNCHANGED <<clock, runVars, status, taskVars, worker, posted, log, registry,
                   recording, stopped>>

-----------------------------------------------------------------------------
Next ==
    \/ \E k \in Key \cup {NoKey}, b \in Body : CreateRun(k, b)
    \/ \E k \in Key : RefuseRun(k)
    \/ \E r \in Run :
         \/ StartRun(r) \/ RunCallback(r) \/ Cancelled(r)
         \/ BeginWork(r) \/ Emit(r) \/ Ask(r) \/ GiveUp(r)
         \/ \E result \in Result : EndWork(r, result)
         \/ StopRun(r) \/ ResolveApproval(r)
    \/ RecordApproval
    \/ Tick
    \/ SweepOnce
    \/ \E x \in Reader :
         \/ \E r \in Run, after \in 0..MaxEvents : OpenEvents(x, r, after)
         \/ BeginTail(x) \/ SentEvent(x) \/ WakeReader(x) \/ SentClosed(x)
         \/ LoseReader(x)

Spec == Init /\ [][Next]_vars

-----------------------------------------------------------------------------
(* Properties                                                               *)

Endings(r) == {i \in DOMAIN log[r].events : log[r].events[i] \in Terminal}
EndsWith(r, kind) == \E i \in Endings(r) : log[r].events[i] = kind

\* The log of a run is closed when its task ends, with one terminal event at
\* most, which agrees with the status.  A result comes after everything the
\* thread reported, while run.cancelled may be followed by what a thread that was
\* not stopped still reports.  A run whose stop was accepted ends as cancelled,
\* whatever the thread had returned by then.  Only an error too large for the log
\* leaves it without a terminal event.
OneEnding ==
    \A r \in Run :
        /\ log[r].closed <=> task[r] = "done"
        /\ Cardinality(Endings(r)) <= 1
        /\ ~log[r].closed => Endings(r) = {}
        /\ EndsWith(r, "run.completed") \/ EndsWith(r, "run.failed")
             => Endings(r) = {Len(log[r].events)}
        /\ EndsWith(r, "run.completed") => status[r].state \in {"completed", "none"}
        /\ EndsWith(r, "run.failed") => status[r].state \in {"failed", "none"}
        /\ EndsWith(r, "run.cancelled")
             => status[r].state \in {"cancelled", "none", "waiting_for_approval"}
        /\ log[r].closed /\ Endings(r) = {} => status[r].state \in {"failed", "none"}
        /\ log[r].closed /\ r \in stopped => EndsWith(r, "run.cancelled")

\* A status that GET reports as completed or failed is the last one: a stop, an
\* approval or the thread does not overwrite it, and it disappears only when it
\* is old enough.  A cancelled run can be marked as waiting for an approval, by
\* the thread that goes on, and by nothing else.
StatusIsFinal ==
    [][\A r \in Run :
         /\ status[r].state \in {"completed", "failed"} =>
              \/ status'[r] = status[r]
              \/ status'[r].state = "none" /\ clock - status[r].at > StatusTtl
         /\ status[r].state = "cancelled" /\ status'[r].state \notin {"cancelled", "none"} =>
              status'[r].state = "waiting_for_approval" /\ worker'[r] = "asking"
      ]_vars

\* A run that is going on keeps its entries in the tables, however old its log
\* is: it can be stopped, its approvals can be answered, and it counts against
\* the limit of concurrent runs, which is never exceeded.
ActiveStaysReachable ==
    /\ \A r \in Run : /\ Unfinished(r) => r \in tasks \cap approvals
                      /\ task[r] = "awaiting" => r \in agents
    /\ Cardinality({r \in Run : Unfinished(r)}) <= MaxConcurrent

\* A reader that is told that the stream is closed has been sent every event
\* after its cursor, the last one included, although events are appended while
\* others are sent and old ones are dropped.
HasAll(x) ==
    LET l == log[reader[x].run] IN
    l.closed /\ reader[x].got = (reader[x].after + 1)..Len(l.events)

ClosedMeansAll ==
    [][\A x \in Reader :
         reader'[x].pc = "closing" /\ reader[x].pc # "closing" => HasAll(x)']_vars

\* The retry of a request within the lifetime of its key starts no second run,
\* whatever became of the first one, unless the key has been used for another
\* request in between.
IsNoRetry(r) ==
    LET same == {m \in DOMAIN origin : origin[m].key = r.key}
        last == CHOOSE m \in same : \A o \in same : o <= m
    IN  r.key # NoKey /\ same # {} =>
          origin[last].body # r.body \/ clock - origin[last].at > StatusTtl

Started(n) == n \in DOMAIN origin' \ DOMAIN origin

RetryJoins == [][\A n \in Run : Started(n) => IsNoRetry(origin'[n])]_vars

=============================================================================
