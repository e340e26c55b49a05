------------------------------- MODULE RunsProofs -------------------------------
(***************************************************************************)
(* Proofs about Runs, for any number of runs, requests and readers.  The   *)
(* invariant IInv is about the runs one by one; RetryInv adds the          *)
(* idempotency keys, ReadersInv what readers have been sent, RegistryInv   *)
(* the registry of logs and TypesInv what is left of the types.  What an   *)
(* eviction leaves of a list is computed element by element, so its facts  *)
(* are proved by induction over the positions (SetInduction).              *)
(***************************************************************************)
EXTENDS Runs, SequenceTheorems, FiniteSetTheorems, WellFoundedInduction, TLAPS

Reports == {"delta", "approval.request"}

Logs == [events : Seq(Kind), floor : Nat, closed : BOOLEAN, at : Nat]

Shape ==
    /\ clock \in Nat
    /\ origin \in Seq([key : Key \cup {NoKey}, body : Body, at : Nat])
    /\ status \in [Run -> [state : Status, at : Nat]]
    /\ task \in [Run -> {"none", "created", "awaiting", "done"}]
    /\ cancelling \in SUBSET Run /\ tasks \in SUBSET Run /\ agents \in SUBSET Run
    /\ approvals \in SUBSET Run /\ stopped \in SUBSET Run
    /\ worker \in [Run -> {"none", "queued", "running", "asking", "ended"}]
    /\ posted \in [Run -> Seq(Reports \cup Result)]
    /\ log \in [Run -> Logs]
    /\ recording \in 0..MaxRuns

\* The tables hold the runs whose task has not ended, and no others.
TableInv(r) ==
    /\ r \in cancelling \cup agents => task[r] = "awaiting"
    /\ r \in tasks \cup approvals => Unfinished(r)
    /\ Unfinished(r) => r \in tasks \cap approvals
    /\ task[r] = "awaiting" => r \in agents
    /\ recording = r => task[r] = "awaiting"
    /\ task[r] # "none" => r <= Len(origin)

Silent(r) == worker[r] \in {"none", "ended"} /\ posted[r] = <<>>

\* The result is the last thing a thread hands over.
ThreadInv(r) ==
    /\ task[r] \in {"none", "created"} => worker[r] = "none" /\ posted[r] = <<>>
    /\ \A i \in DOMAIN posted[r] :
         posted[r][i] \in Result => worker[r] = "ended" /\ i = Len(posted[r])

Last(r) == log[r].events[Len(log[r].events)]
NoEnding(l) == \A i \in DOMAIN l.events : l.events[i] \notin Terminal

\* How a log can have ended, and with which status.
EndInv(r) ==
    /\ log[r].closed <=> task[r] = "done"
    /\ status[r].state \in Finished => task[r] = "done"
    /\ ~log[r].closed => NoEnding(log[r])
    /\ \A i, j \in DOMAIN log[r].events :
         log[r].events[i] \in Terminal /\ log[r].events[j] \in Terminal => i = j
    /\ \A i \in DOMAIN log[r].events :
         /\ log[r].events[i] \in {"run.completed", "run.failed"} =>
              i = Len(log[r].events) /\ Silent(r)
         /\ log[r].events[i] = "run.completed" =>
              status[r].state \in {"completed", "none"}
         /\ log[r].events[i] = "run.failed" => status[r].state \in {"failed", "none"}
         /\ log[r].events[i] = "run.cancelled" =>
              status[r].state \in {"cancelled", "none", "waiting_for_approval"}
    /\ log[r].closed /\ NoEnding(log[r]) =>
         Silent(r) /\ status[r].state \in {"failed", "none"}
    /\ status[r].state \in {"completed", "failed"} => Silent(r)
    /\ r \in stopped =>
         \/ r \in cancelling
         \/ \E i \in DOMAIN log[r].events : log[r].events[i] = "run.cancelled"

RunInv(r) == TableInv(r) /\ ThreadInv(r) /\ EndInv(r)

IInv == Shape /\ \A r \in Run : RunInv(r)

-----------------------------------------------------------------------------
(* Lemmas                                                                   *)

\* An append puts the event after those that were there.
LEMMA AppendedIsLog ==
  ASSUME NEW l \in Logs, NEW kind \in Kind, clock \in Nat, NEW m \in Appended(l, kind)
  PROVE  /\ m \in Logs
         /\ m.events = Append(l.events, kind)
         /\ m.closed = l.closed
<1>1. Append(l.events, kind) \in Seq(Kind)
  BY DEF Logs
<1>2. PICK f \in l.floor..Len(l.events) :
        m = [l EXCEPT !.events = Append(@, kind), !.floor = f, !.at = clock]
  BY DEF Appended
<1>3. f \in Nat
  BY DEF Logs
<1> QED
  BY <1>1, <1>2, <1>3 DEF Logs

\* The positions of a sequence after an append.
LEMMA AppendPositions ==
  ASSUME NEW S, NEW s \in Seq(S), NEW e \in S
  PROVE  /\ DOMAIN s = 1..Len(s)
         /\ Len(s) \in Nat
         /\ Len(Append(s, e)) = Len(s) + 1
         /\ DOMAIN Append(s, e) = 1..(Len(s) + 1)
         /\ \A i \in 1..Len(s) : Append(s, e)[i] = s[i]
         /\ Append(s, e)[Len(s) + 1] = e
  BY AppendProperties

\* The positions of a sequence after its head is taken.
LEMMA TailPositions ==
  ASSUME NEW S, NEW s \in Seq(S), s # <<>>
  PROVE  /\ Head(s) \in S /\ Head(s) = s[1] /\ Tail(s) \in Seq(S)
         /\ Len(s) \in Nat /\ Len(s) > 0 /\ DOMAIN s = 1..Len(s)
         /\ Len(Tail(s)) = Len(s) - 1
         /\ DOMAIN Tail(s) = 1..(Len(s) - 1)
         /\ \A i \in 1..(Len(s) - 1) : Tail(s)[i] = s[i + 1]
<1>1. Len(s) \in Nat \ {0}
  BY EmptySeq
<1> QED
  BY <1>1, HeadTailProperties

\* What a step leaves of a run it is not about; a sweep may remove its status.
Kept(r) ==
    /\ task'[r] = task[r]
    /\ \/ status'[r].state = status[r].state
       \/ status[r].state \in Finished /\ status'[r].state = "none"
    /\ worker'[r] = worker[r] /\ posted'[r] = posted[r]
    /\ log'[r].events = log[r].events /\ log'[r].closed = log[r].closed
    /\ r \in cancelling' <=> r \in cancelling
    /\ r \in tasks' <=> r \in tasks
    /\ r \in agents' <=> r \in agents
    /\ r \in approvals' <=> r \in approvals
    /\ r \in stopped' <=> r \in stopped
    /\ recording' = r => recording = r
    /\ Len(origin') >= Len(origin)

\* It keeps its invariant.
LEMMA KeptRun ==
  ASSUME NEW r \in Run, Shape, RunInv(r), Kept(r),
         Len(origin) \in Nat, Len(origin') \in Nat
  PROVE  RunInv(r)'
<1>1. TableInv(r)'
  BY DEF Kept, RunInv, TableInv, Unfinished, Run, Shape
<1>2. ThreadInv(r)'
  BY DEF Kept, RunInv, ThreadInv
<1>3. EndInv(r)'
  BY DEF Kept, RunInv, EndInv, NoEnding, Silent, Finished
<1> QED
  BY <1>1, <1>2, <1>3 DEF RunInv

\* The initial state satisfies the invariant.
LEMMA InitIInv == Init => IInv
<1> SUFFICES ASSUME Init PROVE IInv
  OBVIOUS
<1>1. EmptyLog \in Logs
  BY DEF EmptyLog, Logs
<1>2. [state |-> "none", at |-> 0] \in [state : Status, at : Nat]
  BY DEF Status
<1>3. Shape
  BY <1>1, <1>2, BoundAssumption DEF Init, Shape
<1>4. ASSUME NEW r \in Run PROVE RunInv(r)
  BY <1>4 DEF Init, RunInv, TableInv, ThreadInv, EndInv, Silent, NoEnding, EmptyLog,
          Unfinished, Run, Finished
<1> QED
  BY <1>3, <1>4 DEF IInv

\* The event and the status a run ends with.
Agree(r, s, l) ==
    \/ s = "completed" /\ l.events = Append(log[r].events, "run.completed")
    \/ s = "failed" /\ l.events = Append(log[r].events, "run.failed")
    \/ s = "failed" /\ l.events = log[r].events
    \/ s = "cancelled" /\ l.events = Append(log[r].events, "run.cancelled")

\* A run ends once: nothing ended it before, and after a result nothing more
\* can come from its thread.
LEMMA EndKeepsRun ==
  ASSUME NEW r \in Run, Shape, RunInv(r), Unfinished(r), recording' = 0,
         NEW s \in Finished, NEW l \in Logs, End(r, s, l), Agree(r, s, l),
         r \notin cancelling', origin' = origin, ThreadInv(r)',
         s # "cancelled" => Silent(r)' /\ r \notin stopped'
  PROVE  RunInv(r)'
<1>1. /\ task'[r] = "done" /\ log'[r].closed /\ log'[r].events = l.events
      /\ status'[r].state = s
      /\ r \notin tasks' /\ r \notin agents' /\ r \notin approvals'
  BY DEF End, SetStatus, SetLog, Closed, Forget, Shape, Logs
<1>2. TableInv(r)'
  BY <1>1 DEF RunInv, TableInv, Unfinished, Run
<1>3. ~log[r].closed /\ NoEnding(log[r]) /\ log[r].events \in Seq(Kind)
  BY DEF RunInv, EndInv, Unfinished, Shape, Logs
<1>4. EndInv(r)'
  <2>1. CASE l.events = log[r].events
    BY <2>1, <1>1, <1>3 DEF EndInv, NoEnding, Agree, Terminal
  <2>2. ASSUME NEW k \in Terminal, l.events = Append(log[r].events, k),
               \/ k = "run.completed" /\ s = "completed"
               \/ k = "run.failed" /\ s = "failed"
               \/ k = "run.cancelled" /\ s = "cancelled"
        PROVE  EndInv(r)'
    <3>1. k \in Kind
      BY DEF Kind
    <3>2. /\ DOMAIN log[r].events = 1..Len(log[r].events)
          /\ Len(log[r].events) \in Nat
          /\ Len(l.events) = Len(log[r].events) + 1
          /\ DOMAIN l.events = 1..(Len(log[r].events) + 1)
          /\ \A i \in 1..Len(log[r].events) : l.events[i] = log[r].events[i]
          /\ l.events[Len(log[r].events) + 1] = k
      BY <1>3, <2>2, <3>1, AppendPositions
    <3> QED
      BY <1>1, <1>3, <2>2, <3>2 DEF EndInv, NoEnding, Terminal, Finished
  <2> QED
    BY <2>1, <2>2 DEF Agree, Terminal
<1> QED
  BY <1>2, <1>4 DEF RunInv

\* An event that does not end a run is appended while the thread has more to
\* say or the run goes on.
LEMMA AppendKeepsEnd ==
  ASSUME NEW r \in Run, Shape, EndInv(r), NEW k \in Kind \ Terminal,
         log'[r].events = Append(log[r].events, k), log'[r].closed = log[r].closed,
         task'[r] = task[r], ~Silent(r) \/ ~log[r].closed,
         \/ status'[r].state = status[r].state
         \/ (status'[r].state = "running" /\ ~log[r].closed),
         stopped' = stopped, cancelling' = cancelling
  PROVE  EndInv(r)'
<1>1. log[r].events \in Seq(Kind)
  BY DEF Shape, Logs
<1>2. /\ DOMAIN log[r].events = 1..Len(log[r].events)
      /\ Len(log[r].events) \in Nat
      /\ Len(log'[r].events) = Len(log[r].events) + 1
      /\ DOMAIN log'[r].events = 1..(Len(log[r].events) + 1)
      /\ \A i \in 1..Len(log[r].events) : log'[r].events[i] = log[r].events[i]
      /\ log'[r].events[Len(log[r].events) + 1] = k
  BY <1>1, AppendPositions
<1>3. \A i \in DOMAIN log'[r].events : log'[r].events[i] \in Terminal =>
        i \in DOMAIN log[r].events /\ log'[r].events[i] = log[r].events[i]
  BY <1>2
<1>4. NoEnding(log[r]) <=> NoEnding(log'[r])
  BY <1>2 DEF NoEnding
<1>5. \A c : (\E i \in DOMAIN log[r].events : log[r].events[i] = c) =>
             \E i \in DOMAIN log'[r].events : log'[r].events[i] = c
  BY <1>2
<1>6. CASE ~log[r].closed
  BY <1>3, <1>4, <1>5, <1>6 DEF EndInv, NoEnding, Terminal, Finished
<1>7. CASE ~Silent(r) /\ status'[r].state = status[r].state
  BY <1>3, <1>4, <1>5, <1>7 DEF EndInv, Terminal
<1> QED
  BY <1>6, <1>7

-----------------------------------------------------------------------------
(* The steps                                                                *)

\* Where only one run is concerned, the others keep their invariant.
LEMMA OneRunStep ==
  ASSUME IInv, NEW r \in Run, Shape', RunInv(r)', \A q \in Run \ {r} : Kept(q)
  PROVE  IInv'
<1>1. Len(origin) \in Nat /\ Len(origin') \in Nat
  BY DEF IInv, Shape
<1>2. \A q \in Run \ {r} : RunInv(q)'
  BY <1>1, KeptRun DEF IInv
<1> QED
  BY <1>2 DEF IInv

\* A new run comes after all others, and nothing is known of it before.
LEMMA CreateStep ==
  ASSUME IInv, NEW k \in Key \cup {NoKey}, NEW b \in Body, CreateRun(k, b)
  PROVE  IInv'
<1>0. PICK n \in Run : n = Len(origin) + 1
  BY DEF CreateRun, Run, IInv, Shape, started
<1>1. Len(origin) \in Nat /\ Len(origin') = n
  BY <1>0 DEF CreateRun, IInv, Shape
<1>2. RunInv(n) /\ task[n] = "none"
  BY <1>0, <1>1 DEF IInv, RunInv, TableInv, Run
<1>3. /\ tasks' = tasks \cup {n} /\ approvals' = approvals \cup {n}
      /\ task' = [task EXCEPT ![n] = "created"]
      /\ status' = [status EXCEPT ![n] = [state |-> "queued", at |-> clock]]
      /\ log' = [log EXCEPT ![n] = [EmptyLog EXCEPT !.at = clock]]
      /\ recording = 0 /\ recording' = 0
      /\ UNCHANGED <<clock, cancelling, agents, worker, posted, stopped>>
  BY <1>0 DEF CreateRun, SetStatus, SetLog, started
<1>4. /\ [EmptyLog EXCEPT !.at = clock] \in Logs
      /\ [EmptyLog EXCEPT !.at = clock].events = <<>>
      /\ [EmptyLog EXCEPT !.at = clock].closed = FALSE
  <2>1. EmptyLog \in Logs /\ EmptyLog.events = <<>> /\ EmptyLog.closed = FALSE
    BY DEF EmptyLog, Logs
  <2> QED
    BY <2>1 DEF Logs, IInv, Shape
<1>5. Shape'
  <2>1. origin' \in Seq([key : Key \cup {NoKey}, body : Body, at : Nat])
    BY DEF CreateRun, IInv, Shape
  <2>2. [state |-> "queued", at |-> clock] \in [state : Status, at : Nat]
    BY DEF IInv, Shape, Status
  <2> QED
    BY <1>3, <1>4, <2>1, <2>2 DEF IInv, Shape
<1>6. ASSUME NEW q \in Run \ {n} PROVE Kept(q)
  <2>1. task'[q] = task[q] /\ status'[q] = status[q] /\ log'[q] = log[q]
    BY <1>3 DEF IInv, Shape
  <2> QED
    BY <1>0, <1>1, <1>3, <2>1 DEF Kept
<1>7. RunInv(n)'
  <2>1. /\ task'[n] = "created" /\ status'[n].state = "queued"
        /\ log'[n].events = <<>> /\ log'[n].closed = FALSE
    BY <1>3, <1>4 DEF IInv, Shape
  <2>2. TableInv(n)'
    BY <1>1, <1>2, <1>3, <2>1 DEF RunInv, TableInv, Unfinished, Run
  <2>3. ThreadInv(n)'
    BY <1>2, <1>3, <2>1 DEF RunInv, ThreadInv
  <2>4. n \notin stopped
    BY <1>2 DEF RunInv, TableInv, EndInv, NoEnding, Terminal
  <2>5. EndInv(n)'
    BY <1>3, <2>1, <2>4 DEF EndInv, NoEnding, Silent, Finished
  <2> QED
    BY <2>2, <2>3, <2>5 DEF RunInv
<1> QED
  BY <1>5, <1>6, <1>7, OneRunStep

\* Refusals, the clock and the sweeper keep every run; the sweeper takes the
\* status of a finished run, and entries of the tables that are not there.
LEMMA QuietStep ==
  ASSUME IInv, (\E k \in Key : RefuseRun(k)) \/ Tick \/ SweepOnce
  PROVE  IInv'
<1>1. Shape'
  <2>1. CASE \E k \in Key : RefuseRun(k)
    BY <2>1 DEF RefuseRun, taskVars, IInv, Shape
  <2>2. CASE Tick
    BY <2>2 DEF Tick, taskVars, runVars, IInv, Shape
  <2>3. CASE SweepOnce
    <3>1. \A r \in Run : status'[r] \in [state : Status, at : Nat]
      BY <2>3 DEF SweepOnce, IInv, Shape, Status
    <3>2. status' \in [Run -> [state : Status, at : Nat]]
      BY <2>3, <3>1 DEF SweepOnce
    <3> QED
      BY <2>3, <3>2 DEF SweepOnce, IInv, Shape
  <2> QED
    BY <2>1, <2>2, <2>3
<1>2. ASSUME NEW q \in Run PROVE Kept(q)
  <2>1. CASE \E k \in Key : RefuseRun(k)
    BY <2>1 DEF RefuseRun, taskVars, Kept, IInv, Shape
  <2>2. CASE Tick
    BY <2>2 DEF Tick, taskVars, runVars, Kept, IInv, Shape
  <2>3. CASE SweepOnce
    <3>1. /\ UNCHANGED <<origin, task, cancelling, worker, posted, log, recording,
                         stopped>>
          /\ status'[q] = IF Forgettable(q) THEN [status[q] EXCEPT !.state = "none"]
                          ELSE status[q]
      BY <2>3 DEF SweepOnce
    <3>2. PICK D \in SUBSET Run :
            /\ \A r \in D : Droppable(r)
            /\ agents' = agents \ D /\ tasks' = tasks \ D /\ approvals' = approvals \ D
      BY <2>3 DEF SweepOnce
    <3>3. q \in D => q \notin agents /\ q \notin tasks /\ q \notin approvals
      BY <3>2 DEF Droppable, IInv, RunInv, TableInv, Unfinished
    <3> QED
      BY <3>1, <3>2, <3>3 DEF Kept, Forgettable, IInv, Shape
  <2> QED
    BY <2>1, <2>2, <2>3
<1>3. Len(origin) \in Nat /\ Len(origin') \in Nat
  BY <1>1 DEF IInv, Shape
<1> QED
  BY <1>1, <1>2, <1>3, KeptRun DEF IInv

\* Fail writes the failure, or nothing if it does not fit.
LEMMA FailIsEnd ==
  ASSUME Shape, NEW r \in Run, Fail(r)
  PROVE  \E l \in Logs : End(r, "failed", l) /\ Agree(r, "failed", l)
<1>1. PICK l \in Appended(log[r], "run.failed") \cup {log[r]} : End(r, "failed", l)
  BY DEF Fail
<1>2. log[r] \in Logs /\ "run.failed" \in Kind /\ clock \in Nat
  BY DEF Shape, Kind, Terminal
<1>3. l \in Logs /\ Agree(r, "failed", l)
  BY <1>1, <1>2, AppendedIsLog DEF Agree
<1> QED
  BY <1>1, <1>3

\* What End writes has its type.
LEMMA EndShape ==
  ASSUME Shape, NEW r \in Run, NEW s \in Finished, NEW l \in Logs, End(r, s, l),
         worker' \in [Run -> {"none", "queued", "running", "asking", "ended"}],
         posted' \in [Run -> Seq(Reports \cup Result)],
         cancelling' \subseteq cancelling,
         UNCHANGED <<clock, origin, recording, stopped>>
  PROVE  /\ Shape'
         /\ \A q \in Run \ {r} :
              /\ worker'[q] = worker[q] /\ posted'[q] = posted[q]
              /\ q \in cancelling' <=> q \in cancelling
              => Kept(q)
<1>1. Closed(l) \in Logs
  BY DEF Closed, Logs, Shape
<1>2. [state |-> s, at |-> clock] \in [state : Status, at : Nat]
  BY DEF Shape, Status
<1>3. Shape'
  BY <1>1, <1>2 DEF Shape, End, SetStatus, SetLog, Forget
<1>4. Len(origin') >= Len(origin)
  BY DEF Shape
<1>5. ASSUME NEW q \in Run \ {r}, worker'[q] = worker[q], posted'[q] = posted[q],
             q \in cancelling' <=> q \in cancelling
      PROVE  Kept(q)
  <2>1. task'[q] = task[q] /\ status'[q] = status[q] /\ log'[q] = log[q]
    BY DEF Shape, End, SetStatus, SetLog
  <2> QED
    BY <1>4, <1>5, <2>1 DEF Kept, End, Forget
<1> QED
  BY <1>3, <1>5

\* The first step of the task: the thread is queued, or the run has failed.
LEMMA StartStep ==
  ASSUME IInv, NEW r \in Run, StartRun(r)
  PROVE  IInv'
<1>1. /\ recording = 0 /\ task[r] = "created"
      /\ UNCHANGED <<clock, origin, cancelling, posted, recording, stopped>>
  BY DEF StartRun, runVars
<1>2. RunInv(r) /\ Shape /\ Unfinished(r)
  BY <1>1 DEF IInv, Unfinished
<1>3. CASE /\ SetStatus(r, "running") /\ agents' = agents \cup {r}
           /\ worker' = [worker EXCEPT ![r] = "queued"]
           /\ task' = [task EXCEPT ![r] = "awaiting"]
           /\ UNCHANGED <<tasks, approvals, log>>
  <2>1. [state |-> "running", at |-> clock] \in [state : Status, at : Nat]
    BY <1>2 DEF Shape, Status
  <2>2. Shape'
    BY <1>1, <1>2, <1>3, <2>1 DEF Shape, SetStatus
  <2>3. \A q \in Run \ {r} : Kept(q)
    BY <1>1, <1>2, <1>3 DEF Kept, SetStatus, Shape
  <2>4. /\ task'[r] = "awaiting" /\ worker'[r] = "queued"
        /\ status'[r].state = "running" /\ posted[r] = <<>>
    BY <1>1, <1>2, <1>3 DEF SetStatus, Shape, RunInv, ThreadInv
  <2>5. TableInv(r)'
    BY <1>1, <1>2, <1>3, <2>4 DEF RunInv, TableInv, Unfinished, Run
  <2>6. ThreadInv(r)'
    BY <1>1, <1>2, <2>4 DEF RunInv, ThreadInv
  <2>7. EndInv(r)'
    <3>1. ~log[r].closed /\ NoEnding(log[r])
      BY <1>1, <1>2 DEF RunInv, EndInv
    <3> QED
      BY <1>1, <1>2, <1>3, <2>4, <3>1
         DEF RunInv, EndInv, NoEnding, Terminal, Finished
  <2> QED
    BY <2>2, <2>3, <2>5, <2>6, <2>7, OneRunStep DEF RunInv
<1>4. CASE Fail(r) /\ UNCHANGED worker
  <2>1. PICK l \in Logs : End(r, "failed", l) /\ Agree(r, "failed", l)
    BY <1>2, <1>4, FailIsEnd
  <2>2. "failed" \in Finished
    BY DEF Finished
  <2>3. Shape' /\ \A q \in Run \ {r} : Kept(q)
    BY <1>1, <1>2, <1>4, <2>1, <2>2, EndShape DEF Shape
  <2>4. worker[r] = "none" /\ posted[r] = <<>> /\ r \notin cancelling
    BY <1>1, <1>2 DEF RunInv, ThreadInv, TableInv
  <2>5. r \notin stopped
    BY <1>1, <1>2, <2>4 DEF RunInv, EndInv, NoEnding, Terminal
  <2>6. ThreadInv(r)' /\ Silent(r)'
    BY <1>1, <1>4, <2>4 DEF ThreadInv, Silent
  <2>7. RunInv(r)'
    BY <1>1, <1>2, <2>1, <2>2, <2>4, <2>5, <2>6, EndKeepsRun
  <2> QED
    BY <2>3, <2>7, OneRunStep
<1> QED
  BY <1>3, <1>4 DEF StartRun

\* The cancellation is delivered; the thread may go on.
LEMMA CancelledStep ==
  ASSUME IInv, NEW r \in Run, Cancelled(r)
  PROVE  IInv'
<1>1. /\ recording = 0 /\ cancelling' = cancelling \ {r} /\ r \in cancelling
      /\ worker' = [worker EXCEPT ![r] = IF @ = "queued" THEN "none" ELSE @]
      /\ UNCHANGED <<clock, origin, posted, recording, stopped>>
  BY DEF Cancelled, runVars
<1>2. RunInv(r) /\ Shape /\ task[r] = "awaiting"
  BY <1>1 DEF IInv, RunInv, TableInv
<1>3. PICK l \in Appended(log[r], "run.cancelled") : End(r, "cancelled", l)
  BY DEF Cancelled
<1>4. l \in Logs /\ Agree(r, "cancelled", l) /\ "cancelled" \in Finished
  <2>1. log[r] \in Logs /\ "run.cancelled" \in Kind /\ clock \in Nat
    BY <1>2 DEF Shape, Kind, Terminal
  <2> QED
    BY <1>3, <2>1, AppendedIsLog DEF Agree, Finished
<1>5. worker' \in [Run -> {"none", "queued", "running", "asking", "ended"}]
  BY <1>1, <1>2 DEF Shape
<1>6. Shape' /\ \A q \in Run \ {r} : Kept(q)
  BY <1>1, <1>2, <1>3, <1>4, <1>5, EndShape DEF Shape
<1>7. task'[r] = "done"
  BY <1>2, <1>3 DEF End, Shape
<1>8. worker[r] = "ended" => worker'[r] = "ended"
  BY <1>1, <1>2 DEF Shape
<1>9. ThreadInv(r)'
  BY <1>1, <1>2, <1>7, <1>8 DEF RunInv, ThreadInv
<1>10. RunInv(r)'
  BY <1>1, <1>2, <1>3, <1>4, <1>9, EndKeepsRun DEF Unfinished
<1> QED
  BY <1>6, <1>10, OneRunStep

\* A result that returns ends the run, as completed or failed.
LEMMA ReturnedIsEnd ==
  ASSUME Shape, NEW r \in Run, NEW result \in Result, Returned(r, result)
  PROVE  \E s \in {"completed", "failed"}, l \in Logs : End(r, s, l) /\ Agree(r, s, l)
<1>1. log[r] \in Logs /\ clock \in Nat
  BY DEF Shape
<1>2. CASE \E l \in Appended(log[r], "run.completed") : End(r, "completed", l)
  BY <1>1, <1>2, AppendedIsLog DEF Agree, Kind, Terminal
<1>3. CASE \E l \in Appended(log[r], "run.failed") : End(r, "failed", l)
  BY <1>1, <1>3, AppendedIsLog DEF Agree, Kind, Terminal
<1>4. CASE Fail(r)
  BY <1>4, FailIsEnd
<1> QED
  BY <1>2, <1>3, <1>4 DEF Returned

\* A callback appends a report, or brings the result to the task that awaits
\* it; after the result there is nothing left.
LEMMA CallbackStep ==
  ASSUME IInv, NEW r \in Run, RunCallback(r)
  PROVE  IInv'
<1>0. PICK next : next = Head(posted[r])
  OBVIOUS
<1>1. /\ recording = 0 /\ posted[r] # <<>>
      /\ posted' = [posted EXCEPT ![r] = Tail(@)]
      /\ UNCHANGED <<clock, origin, cancelling, worker, recording, stopped>>
  BY DEF RunCallback, runVars
<1>2. RunInv(r) /\ Shape
  BY DEF IInv
<1>3. /\ next \in Reports \cup Result /\ next = posted[r][1]
      /\ posted'[r] \in Seq(Reports \cup Result)
      /\ Len(posted'[r]) = Len(posted[r]) - 1
      /\ Len(posted[r]) \in Nat /\ 1 \in DOMAIN posted[r]
      /\ DOMAIN posted'[r] = 1..(Len(posted[r]) - 1)
      /\ DOMAIN posted[r] = 1..Len(posted[r])
      /\ \A i \in DOMAIN posted'[r] : posted'[r][i] = posted[r][i + 1]
  <2>1. posted[r] \in Seq(Reports \cup Result) /\ posted'[r] = Tail(posted[r])
    BY <1>1, <1>2 DEF Shape
  <2>2. /\ Head(posted[r]) \in Reports \cup Result /\ Head(posted[r]) = posted[r][1]
        /\ Tail(posted[r]) \in Seq(Reports \cup Result)
        /\ Len(posted[r]) \in Nat /\ Len(posted[r]) > 0
        /\ DOMAIN posted[r] = 1..Len(posted[r])
        /\ Len(Tail(posted[r])) = Len(posted[r]) - 1
        /\ DOMAIN Tail(posted[r]) = 1..(Len(posted[r]) - 1)
        /\ \A i \in 1..(Len(posted[r]) - 1) : Tail(posted[r])[i] = posted[r][i + 1]
    BY <1>1, <2>1, TailPositions
  <2> QED
    BY <1>0, <2>1, <2>2
<1>4. posted' \in [Run -> Seq(Reports \cup Result)]
  BY <1>1, <1>2, <1>3 DEF Shape
<1>5. ~Silent(r)
  BY <1>1 DEF Silent
<1>6. task[r] \notin {"none", "created"}
  BY <1>1, <1>2 DEF RunInv, ThreadInv
<1>7. task'[r] = task[r] \/ task'[r] = "done" => ThreadInv(r)'
  BY <1>1, <1>2, <1>3, <1>6 DEF RunInv, ThreadInv
<1>8. CASE /\ next \in Kind
           /\ \E l \in Appended(log[r], next) \cup {log[r]} : SetLog(r, l)
           /\ UNCHANGED <<status, task, tasks, agents, approvals>>
  <2>1. next \in Kind \ Terminal
    BY <1>3, <1>8 DEF Reports, Result, Kind, Terminal
  <2>2. PICK l \in Appended(log[r], next) \cup {log[r]} : SetLog(r, l)
    BY <1>8
  <2>3. /\ l \in Logs /\ l.closed = log[r].closed
        /\ l.events = Append(log[r].events, next) \/ l = log[r]
    BY <1>2, <2>1, AppendedIsLog DEF Shape
  <2>4. Shape'
    BY <1>1, <1>2, <1>4, <1>8, <2>2, <2>3 DEF Shape, SetLog
  <2>5. \A q \in Run \ {r} : Kept(q)
    BY <1>1, <1>2, <1>8, <2>2 DEF Kept, Shape, SetLog
  <2>6. log'[r] = l
    BY <1>2, <2>2 DEF Shape, SetLog
  <2>7. EndInv(r)'
    <3>1. CASE l = log[r]
      BY <1>1, <1>2, <1>5, <1>8, <2>6, <3>1 DEF RunInv, EndInv, NoEnding
    <3>2. CASE l.events = Append(log[r].events, next)
      <4>1. EndInv(r) /\ (~Silent(r) \/ ~log[r].closed)
        BY <1>2, <1>5 DEF RunInv
      <4>2. /\ log'[r].events = Append(log[r].events, next)
            /\ log'[r].closed = log[r].closed
            /\ task'[r] = task[r]
            /\ \/ status'[r].state = status[r].state
               \/ status'[r].state = "running" /\ ~log[r].closed
            /\ stopped' = stopped /\ cancelling' = cancelling
        BY <1>1, <1>8, <2>3, <2>6, <3>2
      <4> QED
        BY <1>2, <2>1, <4>1, <4>2, AppendKeepsEnd
    <3> QED
      BY <2>3, <3>1, <3>2
  <2>8. TableInv(r)'
    BY <1>1, <1>2, <1>8 DEF RunInv, TableInv, Unfinished
  <2> QED
    BY <1>7, <1>8, <2>4, <2>5, <2>7, <2>8, OneRunStep DEF RunInv
<1>9. CASE next \in Result /\ AwaitsResult(r) /\ Returned(r, next)
  <2>1. PICK s \in {"completed", "failed"}, l \in Logs :
          End(r, s, l) /\ Agree(r, s, l)
    BY <1>2, <1>9, ReturnedIsEnd
  <2>2. s \in Finished /\ s # "cancelled"
    BY DEF Finished
  <2>3. Shape' /\ \A q \in Run \ {r} : Kept(q)
    BY <1>1, <1>2, <1>4, <2>1, <2>2, EndShape DEF Shape
  <2>4. task'[r] = "done"
    BY <1>2, <2>1 DEF End, Shape
  <2>5. Silent(r)'
    <3>1. worker[r] = "ended" /\ Len(posted[r]) = 1
      BY <1>2, <1>3, <1>9 DEF RunInv, ThreadInv
    <3>2. posted'[r] = <<>>
      BY <1>3, <3>1, EmptySeq
    <3> QED
      BY <1>1, <3>1, <3>2 DEF Silent
  <2>6. Unfinished(r) /\ r \notin cancelling
    BY <1>9 DEF AwaitsResult, Unfinished
  <2>7. r \notin stopped
    BY <1>2, <2>6 DEF RunInv, EndInv, NoEnding, Terminal, Unfinished
  <2>8. RunInv(r)'
    BY <1>1, <1>2, <1>7, <2>1, <2>2, <2>4, <2>5, <2>6, <2>7, EndKeepsRun
  <2> QED
    BY <2>3, <2>8, OneRunStep
<1>10. CASE /\ next \in Result /\ ~AwaitsResult(r)
            /\ UNCHANGED <<status, task, tasks, agents, approvals, log>>
  <2>1. Shape' /\ \A q \in Run \ {r} : Kept(q)
    BY <1>1, <1>2, <1>4, <1>10 DEF Kept, Shape
  <2>2. TableInv(r)' /\ EndInv(r)'
    BY <1>1, <1>2, <1>5, <1>10 DEF RunInv, TableInv, EndInv, NoEnding, Unfinished
  <2> QED
    BY <1>7, <1>10, <2>1, <2>2, OneRunStep DEF RunInv
<1> QED
  BY <1>0, <1>8, <1>9, <1>10 DEF RunCallback

\* What the thread does by itself; it is none of the ended ones.
LEMMA ThreadStep ==
  ASSUME IInv, NEW r \in Run,
         \/ BeginWork(r) \/ Emit(r) \/ Ask(r) \/ GiveUp(r)
         \/ \E result \in Result : EndWork(r, result)
  PROVE  IInv'
<1>1. RunInv(r) /\ Shape
  BY DEF IInv
<1>2. /\ worker[r] \in {"queued", "running", "asking"}
      /\ UNCHANGED <<clock, origin, task, cancelling, tasks, agents, approvals, log,
                     recording, stopped>>
  BY DEF BeginWork, Emit, Ask, GiveUp, EndWork, Busy, runVars, taskVars
<1>3. PICK w \in {"running", "asking", "ended"} : worker' = [worker EXCEPT ![r] = w]
  <2>1. Emit(r) => worker' = [worker EXCEPT ![r] = "running"]
    BY <1>1 DEF Emit, Busy, Shape
  <2> QED
    BY <2>1 DEF BeginWork, Ask, GiveUp, EndWork
<1>4. posted[r] \in Seq(Reports \cup Result)
  BY <1>1 DEF Shape
<1>5. \A i \in DOMAIN posted[r] : posted[r][i] \notin Result
  BY <1>1, <1>2 DEF RunInv, ThreadInv
<1>6. ~Silent(r)
  BY <1>2 DEF Silent
<1>7. /\ \/ posted' = posted /\ w # "ended"
         \/ \E e \in Reports : posted' = [posted EXCEPT ![r] = Append(@, e)] /\ w # "ended"
         \/ \E e \in Result : posted' = [posted EXCEPT ![r] = Append(@, e)] /\ w = "ended"
      /\ status' = status \/ SetStatus(r, "waiting_for_approval")
  <2>1. worker'[r] = w
    BY <1>1, <1>3 DEF Shape
  <2>2. CASE BeginWork(r) \/ GiveUp(r)
    BY <1>1, <2>1, <2>2 DEF BeginWork, GiveUp, Shape
  <2>3. CASE Emit(r)
    BY <1>1, <2>1, <2>3 DEF Emit, Busy, Reports, Shape
  <2>4. CASE Ask(r)
    BY <1>1, <2>1, <2>4 DEF Ask, Reports, Shape
  <2>5. CASE \E result \in Result : EndWork(r, result)
    BY <1>1, <2>1, <2>5 DEF EndWork, Post, Shape
  <2> QED
    BY <2>2, <2>3, <2>4, <2>5
<1>8. /\ posted'[r] \in Seq(Reports \cup Result)
      /\ \A i \in DOMAIN posted'[r] :
           posted'[r][i] \in Result => w = "ended" /\ i = Len(posted'[r])
      /\ \A q \in Run \ {r} : posted'[q] = posted[q]
      /\ posted' \in [Run -> Seq(Reports \cup Result)]
  <2>1. CASE posted' = posted
    BY <1>1, <1>5, <2>1 DEF Shape
  <2>2. ASSUME NEW e \in Reports \cup Result,
               posted' = [posted EXCEPT ![r] = Append(@, e)],
               (e \in Result) => (w = "ended")
        PROVE  /\ posted'[r] \in Seq(Reports \cup Result)
               /\ \A i \in DOMAIN posted'[r] :
                    posted'[r][i] \in Result => w = "ended" /\ i = Len(posted'[r])
               /\ \A q \in Run \ {r} : posted'[q] = posted[q]
               /\ posted' \in [Run -> Seq(Reports \cup Result)]
    <3>1. posted'[r] = Append(posted[r], e)
      BY <1>1, <2>2 DEF Shape
    <3>2. /\ posted'[r] \in Seq(Reports \cup Result)
          /\ Len(posted'[r]) = Len(posted[r]) + 1
          /\ DOMAIN posted'[r] = 1..(Len(posted[r]) + 1)
          /\ DOMAIN posted[r] = 1..Len(posted[r]) /\ Len(posted[r]) \in Nat
          /\ \A i \in 1..Len(posted[r]) : posted'[r][i] = posted[r][i]
          /\ posted'[r][Len(posted[r]) + 1] = e
      BY <1>4, <3>1, AppendPositions, AppendProperties
    <3>3. \A i \in DOMAIN posted'[r] :
            posted'[r][i] \in Result => w = "ended" /\ i = Len(posted'[r])
      BY <1>5, <2>2, <3>2
    <3> QED
      BY <1>1, <2>2, <3>2, <3>3 DEF Shape
  <2> QED
    BY <1>7, <2>1, <2>2 DEF Reports, Result
<1>9. Shape'
  <2>1. [state |-> "waiting_for_approval", at |-> clock] \in [state : Status, at : Nat]
    BY <1>1 DEF Shape, Status
  <2>2. status' \in [Run -> [state : Status, at : Nat]]
    BY <1>1, <1>7, <2>1 DEF Shape, SetStatus
  <2>3. worker' \in [Run -> {"none", "queued", "running", "asking", "ended"}]
    BY <1>1, <1>3 DEF Shape
  <2>4. posted' \in [Run -> Seq(Reports \cup Result)]
    BY <1>8
  <2> QED
    BY <1>1, <1>2, <2>2, <2>3, <2>4 DEF Shape
<1>10. \A q \in Run \ {r} : Kept(q)
  <2> SUFFICES ASSUME NEW q \in Run \ {r} PROVE Kept(q)
    OBVIOUS
  <2>1. worker'[q] = worker[q] /\ status'[q] = status[q]
    BY <1>1, <1>3, <1>7 DEF Shape, SetStatus
  <2> QED
    BY <1>1, <1>2, <1>8, <2>1 DEF Kept, Shape
<1>11. /\ worker'[r] = w
       /\ \/ status'[r].state = status[r].state
          \/ status'[r].state = "waiting_for_approval"
  BY <1>1, <1>3, <1>7 DEF Shape, SetStatus
<1>12. TableInv(r)'
  BY <1>1, <1>2 DEF RunInv, TableInv, Unfinished
<1>13. ThreadInv(r)'
  BY <1>1, <1>2, <1>8, <1>11 DEF RunInv, ThreadInv
<1>14. EndInv(r)'
  BY <1>1, <1>2, <1>6, <1>11 DEF RunInv, EndInv, NoEnding, Finished
<1> QED
  BY <1>9, <1>10, <1>12, <1>13, <1>14, OneRunStep DEF RunInv

\* A stop marks a run that is going on for cancellation.
LEMMA StopStep ==
  ASSUME IInv, NEW r \in Run, StopRun(r)
  PROVE  IInv'
<1>1. RunInv(r) /\ Shape
  BY DEF IInv
<1>2. /\ recording = 0 /\ r \in agents \cup tasks /\ stopped' = stopped \cup {r}
      /\ SetStatus(r, "stopping") /\ task[r] # "created"
      /\ UNCHANGED <<clock, origin, task, tasks, agents, approvals, worker, posted, log,
                     recording>>
  BY DEF StopRun, Stoppable, Known, runVars
<1>3. task[r] = "awaiting" /\ r \in tasks /\ ~log[r].closed
  BY <1>1, <1>2 DEF RunInv, TableInv, EndInv, Unfinished
<1>4. cancelling' = cancelling \cup {r}
  BY <1>3 DEF StopRun, Unfinished
<1>5. [state |-> "stopping", at |-> clock] \in [state : Status, at : Nat]
  BY <1>1 DEF Shape, Status
<1>6. Shape'
  BY <1>1, <1>2, <1>4, <1>5 DEF Shape, SetStatus
<1>7. \A q \in Run \ {r} : Kept(q)
  BY <1>1, <1>2, <1>4 DEF Kept, Shape, SetStatus
<1>8. status'[r].state = "stopping"
  BY <1>1, <1>2 DEF Shape, SetStatus
<1>9. TableInv(r)' /\ ThreadInv(r)'
  BY <1>1, <1>2, <1>3, <1>4 DEF RunInv, TableInv, ThreadInv, Unfinished
<1>10. EndInv(r)'
  BY <1>1, <1>2, <1>3, <1>4, <1>8 DEF RunInv, EndInv, NoEnding, Terminal, Finished
<1> QED
  BY <1>6, <1>7, <1>9, <1>10, OneRunStep DEF RunInv

\* The answer to an approval is recorded for a run whose thread waits for it.
LEMMA ResolveStep ==
  ASSUME IInv, NEW r \in Run, ResolveApproval(r)
  PROVE  IInv'
<1>1. /\ recording = 0 /\ recording' = r /\ r \in approvals /\ worker[r] = "asking"
      /\ worker' = [worker EXCEPT ![r] = "running"]
      /\ UNCHANGED <<clock, origin, status, task, cancelling, tasks, agents, approvals,
                     posted, log, stopped>>
  BY DEF ResolveApproval, runVars, taskVars
<1>2. RunInv(r) /\ Shape
  BY DEF IInv
<1>3. task[r] = "awaiting"
  BY <1>1, <1>2 DEF RunInv, TableInv, ThreadInv, Unfinished
<1>4. Shape'
  BY <1>1, <1>2 DEF Shape, Run
<1>5. \A q \in Run \ {r} : Kept(q)
  BY <1>1, <1>2 DEF Kept, Shape
<1>6. worker'[r] = "running"
  BY <1>1, <1>2 DEF Shape
<1>7. TableInv(r)'
  BY <1>1, <1>2, <1>3 DEF RunInv, TableInv, Unfinished
<1>8. ThreadInv(r)'
  BY <1>1, <1>2, <1>3, <1>6 DEF RunInv, ThreadInv
<1>9. ~Silent(r)
  BY <1>1 DEF Silent
<1>10. EndInv(r)'
  BY <1>1, <1>2, <1>9 DEF RunInv, EndInv, NoEnding
<1> QED
  BY <1>4, <1>5, <1>7, <1>8, <1>10, OneRunStep DEF RunInv

\* The rest of the request: the run still awaits its thread, so it has no
\* ending that the event could follow and no status that it could replace.
LEMMA RecordStep ==
  ASSUME IInv, RecordApproval
  PROVE  IInv'
<1>0. PICK r \in Run : r = recording
  BY DEF RecordApproval, IInv, Shape, Run
<1>1. RunInv(r) /\ Shape
  BY DEF IInv
<1>2. /\ r # 0 /\ recording' = 0
      /\ SetStatus(r, "running")
      /\ UNCHANGED <<clock, origin, task, cancelling, tasks, agents, approvals, worker,
                     posted, stopped>>
  BY <1>0 DEF RecordApproval, runVars, taskVars
<1>3. task[r] = "awaiting" /\ ~log[r].closed /\ status[r].state \notin Finished
  BY <1>0, <1>1 DEF RunInv, TableInv, EndInv
<1>4. "approval.responded" \in Kind \ Terminal
  BY DEF Kind, Terminal
<1>5. PICK l \in Logs :
        /\ log' = [log EXCEPT ![r] = l]
        /\ l.closed = log[r].closed
        /\ l.events = Append(log[r].events, "approval.responded") \/ l = log[r]
  <2>1. CASE log' = log
    BY <1>1, <2>1 DEF Shape
  <2>2. CASE \E l \in Appended(log[r], "approval.responded") : SetLog(r, l)
    BY <1>1, <1>4, <2>2, AppendedIsLog DEF Shape, SetLog
  <2> QED
    BY <1>0, <2>1, <2>2 DEF RecordApproval
<1>6. [state |-> "running", at |-> clock] \in [state : Status, at : Nat]
  BY <1>1 DEF Shape, Status
<1>7. Shape'
  <2>1. log' \in [Run -> Logs]
    BY <1>1, <1>5 DEF Shape
  <2>2. status' \in [Run -> [state : Status, at : Nat]]
    BY <1>1, <1>2, <1>6 DEF Shape, SetStatus
  <2>3. recording' \in 0..MaxRuns
    BY <1>2, BoundAssumption
  <2> QED
    BY <1>1, <1>2, <2>1, <2>2, <2>3 DEF Shape
<1>8. \A q \in Run \ {r} : Kept(q)
  <2> SUFFICES ASSUME NEW q \in Run \ {r} PROVE Kept(q)
    OBVIOUS
  <2>1. log'[q] = log[q] /\ status'[q] = status[q]
    BY <1>1, <1>2, <1>5 DEF Shape, SetStatus
  <2>2. recording' # q
    BY <1>2 DEF Run
  <2> QED
    BY <1>1, <1>2, <2>1, <2>2 DEF Kept, Shape
<1>9. log'[r] = l /\ status'[r].state = "running"
  BY <1>1, <1>2, <1>5 DEF Shape, SetStatus
<1>10. TableInv(r)' /\ ThreadInv(r)'
  BY <1>1, <1>2 DEF RunInv, TableInv, ThreadInv, Unfinished, Run
<1>11. EndInv(r)'
  <2>1. CASE l = log[r]
    BY <1>1, <1>2, <1>3, <1>9, <2>1 DEF RunInv, EndInv, NoEnding, Finished, Terminal
  <2>2. CASE l.events = Append(log[r].events, "approval.responded")
    <3>1. /\ EndInv(r)
          /\ log'[r].events = Append(log[r].events, "approval.responded")
          /\ log'[r].closed = log[r].closed
          /\ task'[r] = task[r] /\ stopped' = stopped /\ cancelling' = cancelling
      BY <1>1, <1>2, <1>5, <1>9, <2>2 DEF RunInv
    <3> QED
      BY <1>1, <1>3, <1>4, <1>9, <3>1, AppendKeepsEnd
  <2> QED
    BY <1>5, <2>1, <2>2
<1> QED
  BY <1>7, <1>8, <1>10, <1>11, OneRunStep DEF RunInv

\* A reader can have old events dropped, and changes nothing else of a run.
LEMMA ReplayLogs ==
  ASSUME Shape, NEW x, NEW e, Replay(x, e)
  PROVE  /\ log' \in [Run -> Logs]
         /\ \A r \in Run : /\ log'[r].events = log[r].events
                           /\ log'[r].closed = log[r].closed
<1>1. PICK f \in log[e.run].floor..Len(log[e.run].events) \cup {log[e.run].floor} :
        log' = [log EXCEPT ![e.run] = [log[e.run] EXCEPT !.floor = f]]
  BY DEF Replay, SetLog
<1>2. CASE e.run \in Run
  <2>1. log[e.run] \in Logs
    BY <1>2 DEF Shape
  <2>2. f \in Nat
    BY <2>1 DEF Logs
  <2>3. /\ [log[e.run] EXCEPT !.floor = f] \in Logs
        /\ [log[e.run] EXCEPT !.floor = f].events = log[e.run].events
        /\ [log[e.run] EXCEPT !.floor = f].closed = log[e.run].closed
    BY <2>1, <2>2 DEF Logs
  <2> QED
    BY <1>1, <1>2, <2>3 DEF Shape
<1>3. CASE e.run \notin Run
  BY <1>1, <1>3 DEF Shape
<1> QED
  BY <1>2, <1>3

\* What the steps of a reader leave alone.
LEMMA ReaderFrame ==
  ASSUME NEW x \in Reader,
         \/ \E r \in Run, after \in 0..MaxEvents : OpenEvents(x, r, after)
         \/ BeginTail(x) \/ SentEvent(x) \/ WakeReader(x) \/ SentClosed(x)
         \/ LoseReader(x)
  PROVE  /\ UNCHANGED <<clock, runVars, status, taskVars, worker, posted, recording,
                        stopped>>
         /\ UNCHANGED log \/ \E e : Replay(x, e)
<1>1. CASE \E r \in Run, after \in 0..MaxEvents : OpenEvents(x, r, after)
  BY <1>1 DEF OpenEvents
<1>2. CASE BeginTail(x)
  BY <1>2 DEF BeginTail
<1>3. CASE SentEvent(x)
  BY <1>3 DEF SentEvent
<1>4. CASE WakeReader(x)
  BY <1>4 DEF WakeReader
<1>5. CASE SentClosed(x) \/ LoseReader(x)
  BY <1>5 DEF SentClosed, LoseReader
<1> QED
  BY <1>1, <1>2, <1>3, <1>4, <1>5

\* Readers keep every run.
LEMMA ReaderStep ==
  ASSUME IInv, NEW x \in Reader,
         \/ \E r \in Run, after \in 0..MaxEvents : OpenEvents(x, r, after)
         \/ BeginTail(x) \/ SentEvent(x) \/ WakeReader(x) \/ SentClosed(x)
         \/ LoseReader(x)
  PROVE  IInv'
<1>1. /\ UNCHANGED <<clock, origin, status, task, cancelling, tasks, agents, approvals,
                     worker, posted, recording, stopped>>
      /\ UNCHANGED log \/ \E e : Replay(x, e)
  BY ReaderFrame DEF runVars, taskVars
<1>2. Shape
  BY DEF IInv
<1>3. /\ log' \in [Run -> Logs]
      /\ \A r \in Run : /\ log'[r].events = log[r].events
                        /\ log'[r].closed = log[r].closed
  <2>1. CASE UNCHANGED log
    BY <1>2, <2>1 DEF Shape
  <2>2. CASE \E e : Replay(x, e)
    BY <1>2, <2>2, ReplayLogs
  <2> QED
    BY <1>1, <2>1, <2>2
<1>4. Shape'
  BY <1>1, <1>2, <1>3 DEF Shape
<1>5. Len(origin) \in Nat /\ Len(origin') \in Nat
  BY <1>2, <1>4 DEF Shape
<1>6. \A r \in Run : Kept(r)
  BY <1>1, <1>3, <1>5 DEF Kept
<1> QED
  BY <1>2, <1>4, <1>5, <1>6, KeptRun DEF IInv

\* Every step keeps the invariant.
LEMMA NextKeepsIInv == IInv /\ [Next]_vars => IInv'
<1> SUFFICES ASSUME IInv, [Next]_vars PROVE IInv'
  OBVIOUS
<1>1. CASE \E k \in Key \cup {NoKey}, b \in Body : CreateRun(k, b)
  BY <1>1, CreateStep
<1>2. CASE (\E k \in Key : RefuseRun(k)) \/ Tick \/ SweepOnce
  BY <1>2, QuietStep
<1>3. ASSUME NEW r \in Run,
             \/ StartRun(r) \/ RunCallback(r) \/ Cancelled(r)
             \/ BeginWork(r) \/ Emit(r) \/ Ask(r) \/ GiveUp(r)
             \/ \E result \in Result : EndWork(r, result)
             \/ StopRun(r) \/ ResolveApproval(r)
      PROVE  IInv'
  BY <1>3, StartStep, CallbackStep, CancelledStep, ThreadStep, StopStep, ResolveStep
<1>4. CASE RecordApproval
  BY <1>4, RecordStep
<1>5. ASSUME NEW x \in Reader,
             \/ \E r \in Run, after \in 0..MaxEvents : OpenEvents(x, r, after)
             \/ BeginTail(x) \/ SentEvent(x) \/ WakeReader(x) \/ SentClosed(x)
             \/ LoseReader(x)
      PROVE  IInv'
  BY <1>5, ReaderStep
<1>6. CASE UNCHANGED vars
  <2>1. UNCHANGED <<clock, origin, status, task, cancelling, tasks, agents, approvals,
                    worker, posted, log, recording, stopped>>
    BY <1>6 DEF vars, runVars, taskVars
  <2>2. Shape /\ Shape'
    BY <2>1 DEF IInv, Shape
  <2>3. Len(origin) \in Nat /\ Len(origin') \in Nat
    BY <2>2 DEF Shape
  <2>4. \A r \in Run : Kept(r)
    BY <2>1, <2>3 DEF Kept
  <2> QED
    BY <2>2, <2>3, <2>4, KeptRun DEF IInv
<1> QED
  BY <1>1, <1>2, <1>3, <1>4, <1>5, <1>6 DEF Next

LEMMA Invariant == Spec => []IInv
  BY InitIInv, NextKeepsIInv, PTL DEF Spec

-----------------------------------------------------------------------------
(* The theorems                                                             *)

\* A set whose elements are all equal has at most one.
LEMMA AtMostOne ==
  ASSUME NEW S, \A i, j \in S : i = j
  PROVE  Cardinality(S) <= 1
<1>1. CASE S = {}
  BY <1>1, FS_EmptySet
<1>2. ASSUME NEW i \in S
      PROVE  Cardinality(S) <= 1
  <2>1. S = {i}
    BY <1>2
  <2>2. Cardinality({i}) = 1
    BY FS_Singleton
  <2> QED
    BY <2>1, <2>2
<1> QED
  BY <1>1, <1>2

\* Whatever stops, fails and answers arrive, and in whatever order, a run ends
\* once: its log is closed when its task ends, with one terminal event at most,
\* the last thing a thread that finished is heard of, in agreement with the
\* status; a stop that was accepted ends in run.cancelled (run_and_close,
\* _run_agent_for_run, _stop_run and RetainedEventLog.append).
THEOREM RunsEndOnce == Spec => []OneEnding
<1>1. IInv => OneEnding
  <2> SUFFICES ASSUME IInv, NEW r \in Run
               PROVE  /\ log[r].closed <=> task[r] = "done"
                      /\ Cardinality(Endings(r)) <= 1
                      /\ ~log[r].closed => Endings(r) = {}
                      /\ EndsWith(r, "run.completed") \/ EndsWith(r, "run.failed")
                           => Endings(r) = {Len(log[r].events)}
                      /\ EndsWith(r, "run.completed")
                           => status[r].state \in {"completed", "none"}
                      /\ EndsWith(r, "run.failed")
                           => status[r].state \in {"failed", "none"}
                      /\ EndsWith(r, "run.cancelled")
                           => status[r].state
                                \in {"cancelled", "none", "waiting_for_approval"}
                      /\ log[r].closed /\ Endings(r) = {}
                           => status[r].state \in {"failed", "none"}
                      /\ log[r].closed /\ r \in stopped
                           => EndsWith(r, "run.cancelled")
    BY DEF OneEnding
  <2>1. EndInv(r) /\ TableInv(r)
    BY DEF IInv, RunInv
  <2>2. Cardinality(Endings(r)) <= 1
    BY <2>1, AtMostOne DEF EndInv, Endings
  <2>3. NoEnding(log[r]) <=> Endings(r) = {}
    BY DEF NoEnding, Endings
  <2>4. EndsWith(r, "run.completed") \/ EndsWith(r, "run.failed")
          => Endings(r) = {Len(log[r].events)}
    BY <2>1 DEF EndInv, Endings, EndsWith
  <2>5. log[r].closed /\ r \in stopped => EndsWith(r, "run.cancelled")
    BY <2>1 DEF EndInv, TableInv, Endings, EndsWith, Terminal
  <2> QED
    BY <2>1, <2>2, <2>3, <2>4, <2>5 DEF EndInv, Endings, EndsWith
<1> QED
  BY <1>1, Invariant, PTL

\* What can change the status of a run whose task has ended: a thread that goes
\* on after a cancellation and asks, and the sweeper when the status is old.
LEMMA StatusFrame ==
  ASSUME IInv, [Next]_vars, NEW r \in Run, task[r] = "done"
  PROVE  \/ status'[r] = status[r]
         \/ Ask(r)
         \/ Forgettable(r) /\ status'[r].state = "none"
<1>1. RunInv(r) /\ Shape
  BY DEF IInv
<1>2. /\ r \notin cancelling /\ r \notin agents /\ r \notin tasks /\ recording # r
      /\ r <= Len(origin) /\ Len(origin) \in Nat
  BY <1>1 DEF RunInv, TableInv, Unfinished, Shape
<1>3. ASSUME NEW q, q # r, NEW s, SetStatus(q, s)
      PROVE  status'[r] = status[r]
  BY <1>1, <1>3 DEF SetStatus, Shape
<1>4. CASE \E k \in Key \cup {NoKey}, b \in Body : CreateRun(k, b)
  <2>1. SetStatus(Len(origin) + 1, "queued")
    BY <1>4 DEF CreateRun, started
  <2> QED
    BY <1>2, <1>3, <2>1 DEF Run
<1>5. CASE (\E k \in Key : RefuseRun(k)) \/ Tick
  BY <1>5 DEF RefuseRun, Tick
<1>6. CASE SweepOnce
  <2>1. status'[r] = IF Forgettable(r) THEN [status[r] EXCEPT !.state = "none"]
                     ELSE status[r]
    BY <1>6 DEF SweepOnce
  <2> QED
    BY <1>1, <2>1 DEF Shape
<1>7. ASSUME NEW q \in Run,
             \/ StartRun(q) \/ RunCallback(q) \/ Cancelled(q)
             \/ BeginWork(q) \/ Emit(q) \/ Ask(q) \/ GiveUp(q)
             \/ \E result \in Result : EndWork(q, result)
             \/ StopRun(q) \/ ResolveApproval(q)
      PROVE  status'[r] = status[r] \/ Ask(r)
  <2>1. CASE StartRun(q)
    BY <1>3, <2>1 DEF StartRun, Fail, End
  <2>2. CASE RunCallback(q)
    BY <1>3, <2>2 DEF RunCallback, Returned, Fail, End, AwaitsResult
  <2>3. CASE Cancelled(q)
    BY <1>2, <1>3, <2>3 DEF Cancelled, End
  <2>4. CASE Ask(q)
    BY <1>3, <2>4 DEF Ask
  <2>5. CASE StopRun(q)
    BY <1>2, <1>3, <2>5 DEF StopRun, Stoppable
  <2>6. CASE \/ BeginWork(q) \/ Emit(q) \/ GiveUp(q)
             \/ \E result \in Result : EndWork(q, result)
             \/ ResolveApproval(q)
    BY <2>6 DEF BeginWork, Emit, GiveUp, EndWork, ResolveApproval
  <2> QED
    BY <1>7, <2>1, <2>2, <2>3, <2>4, <2>5, <2>6
<1>8. CASE RecordApproval
  BY <1>2, <1>3, <1>8 DEF RecordApproval
<1>9. ASSUME NEW x \in Reader,
             \/ \E q \in Run, after \in 0..MaxEvents : OpenEvents(x, q, after)
             \/ BeginTail(x) \/ SentEvent(x) \/ WakeReader(x) \/ SentClosed(x)
             \/ LoseReader(x)
      PROVE  status'[r] = status[r]
  BY <1>9, ReaderFrame
<1>10. CASE UNCHANGED vars
  BY <1>10 DEF vars
<1> QED
  BY <1>4, <1>5, <1>6, <1>7, <1>8, <1>9, <1>10 DEF Next

\* A status completed or failed is the last one, until the sweeper forgets it
\* when it is old enough; after a cancellation the thread may still ask for an
\* approval, and nothing else replaces the status (_set_run_status and its
\* callers, _sweep_orphaned_runs_once).
THEOREM StatusesFinal == Spec => StatusIsFinal
<1> DEFINE Final(r) ==
      /\ status[r].state \in {"completed", "failed"} =>
           \/ status'[r] = status[r]
           \/ status'[r].state = "none" /\ clock - status[r].at > StatusTtl
      /\ status[r].state = "cancelled" /\ status'[r].state \notin {"cancelled", "none"} =>
           status'[r].state = "waiting_for_approval" /\ worker'[r] = "asking"
<1>1. ASSUME IInv, [Next]_vars, NEW r \in Run
      PROVE  Final(r)
  <2>1. RunInv(r) /\ Shape
    BY <1>1 DEF IInv
  <2>2. ASSUME status[r].state \in Finished, status'[r] # status[r]
        PROVE  Ask(r) \/ (Forgettable(r) /\ status'[r].state = "none")
    BY <1>1, <2>1, <2>2, StatusFrame DEF RunInv, EndInv
  <2>3. ASSUME Ask(r)
        PROVE  /\ status[r].state \notin {"completed", "failed"}
               /\ status'[r].state = "waiting_for_approval" /\ worker'[r] = "asking"
    BY <2>1, <2>3 DEF Ask, Busy, SetStatus, RunInv, EndInv, Silent, Shape
  <2> QED
    BY <2>2, <2>3 DEF Finished, Forgettable
<1> HIDE DEF Final
<1>2. IInv /\ [Next]_vars => [\A r \in Run : Final(r)]_vars
  BY <1>1
<1>3. Spec => [][\A r \in Run : Final(r)]_vars
  BY <1>2, Invariant, PTL DEF Spec
<1> QED
  BY <1>3 DEF StatusIsFinal, Final

Going == {r \in Run : Unfinished(r)}
Limit == Cardinality(Going) <= MaxConcurrent

\* Only a creation adds a run that is going on.
LEMMA GoingFrame ==
  ASSUME IInv, [Next]_vars, NEW r \in Run, Unfinished(r)', ~Unfinished(r)
  PROVE  \E k \in Key \cup {NoKey}, b \in Body : CreateRun(k, b)
<1>1. Shape /\ task'[r] # task[r]
  BY DEF Unfinished, IInv
<1>2. ASSUME NEW q \in Run, NEW s, NEW l, End(q, s, l)
      PROVE  FALSE
  BY <1>1, <1>2 DEF End, Shape, Unfinished
<1>3. ASSUME (\E k \in Key : RefuseRun(k)) \/ Tick \/ SweepOnce \/ RecordApproval
             \/ UNCHANGED vars
      PROVE  FALSE
  BY <1>1, <1>3 DEF RefuseRun, Tick, SweepOnce, RecordApproval, vars, taskVars
<1>4. ASSUME NEW q \in Run, StartRun(q) \/ RunCallback(q) \/ Cancelled(q)
      PROVE  FALSE
  <2>1. CASE StartRun(q)
    <3>1. task[q] = "created" /\ task' = [task EXCEPT ![q] = "awaiting"]
      BY <1>2, <2>1 DEF StartRun, Fail
    <3> QED
      BY <1>1, <3>1 DEF Shape, Unfinished
  <2>2. CASE RunCallback(q)
    BY <1>1, <1>2, <2>2 DEF RunCallback, Returned, Fail
  <2>3. CASE Cancelled(q)
    BY <1>2, <2>3 DEF Cancelled
  <2> QED
    BY <1>4, <2>1, <2>2, <2>3
<1>5. ASSUME NEW q \in Run,
             \/ BeginWork(q) \/ Emit(q) \/ Ask(q) \/ GiveUp(q)
             \/ \E result \in Result : EndWork(q, result)
             \/ StopRun(q) \/ ResolveApproval(q)
      PROVE  FALSE
  BY <1>1, <1>5 DEF BeginWork, Emit, Ask, GiveUp, EndWork, StopRun, ResolveApproval,
                    taskVars
<1>6. ASSUME NEW x \in Reader,
             \/ \E q \in Run, after \in 0..MaxEvents : OpenEvents(x, q, after)
             \/ BeginTail(x) \/ SentEvent(x) \/ WakeReader(x) \/ SentClosed(x)
             \/ LoseReader(x)
      PROVE  FALSE
  BY <1>1, <1>6, ReaderFrame DEF taskVars
<1> QED
  BY <1>3, <1>4, <1>5, <1>6 DEF Next

\* A creation adds one run, where there is room for it.
LEMMA LimitStep ==
  ASSUME IInv, Limit, [Next]_vars
  PROVE  Limit'
<1>1. IsFiniteSet(Run)
  BY FS_Interval, BoundAssumption DEF Run
<1>2. IsFiniteSet(Going)
  BY <1>1, FS_Subset DEF Going
<1>3. CASE \E k \in Key \cup {NoKey}, b \in Body : CreateRun(k, b)
  <2>0. PICK n \in Run : n = Len(origin) + 1
    BY <1>3 DEF CreateRun, Run, IInv, Shape, started
  <2>1. task' = [task EXCEPT ![n] = "created"] /\ ActiveCount < MaxConcurrent
    BY <1>3, <2>0 DEF CreateRun, started
  <2>2. {r \in tasks : Unfinished(r)} = Going
    BY DEF Going, IInv, RunInv, TableInv, Shape
  <2>3. Cardinality(Going) < MaxConcurrent
    BY <2>1, <2>2 DEF ActiveCount
  <2>4. task[n] = "none"
    BY <2>0 DEF IInv, RunInv, TableInv, Shape, Run
  <2>5. Going' = Going \cup {n}
    BY <2>1, <2>4 DEF Going, Unfinished, IInv, Shape
  <2>6. n \notin Going
    BY <2>4 DEF Going, Unfinished
  <2>7. Cardinality(Going') = Cardinality(Going) + 1 /\ Cardinality(Going) \in Nat
    BY <1>2, <2>5, <2>6, FS_AddElement, FS_CardinalityType
  <2> QED
    BY <2>3, <2>7, BoundAssumption DEF Limit
<1>4. CASE ~\E k \in Key \cup {NoKey}, b \in Body : CreateRun(k, b)
  <2>1. Going' \subseteq Going
    BY <1>4, GoingFrame DEF Going
  <2>2. IsFiniteSet(Going') /\ Cardinality(Going') <= Cardinality(Going)
    BY <1>2, <2>1, FS_Subset
  <2> QED
    BY <1>2, <2>2, FS_CardinalityType, BoundAssumption DEF Limit
<1> QED
  BY <1>3, <1>4

\* However old its log and however often the sweeper runs, a run that is going
\* on can be stopped and answered, and no more runs than the limit go on at once
\* (_create_run, run_and_close, _sweep_orphaned_runs_once).
THEOREM ActiveReachable == Spec => []ActiveStaysReachable
<1>1. Init => Limit
  <2> SUFFICES ASSUME Init PROVE Limit
    OBVIOUS
  <2>1. Going = {}
    BY DEF Init, Going, Unfinished
  <2> QED
    BY <2>1, FS_EmptySet, BoundAssumption DEF Limit
<1>2. IInv /\ Limit /\ [Next]_vars => Limit'
  BY LimitStep
<1>3. IInv /\ Limit => ActiveStaysReachable
  BY DEF ActiveStaysReachable, Limit, Going, IInv, RunInv, TableInv
<1>4. Spec => []Limit
  BY <1>1, <1>2, Invariant, PTL DEF Spec
<1> QED
  BY <1>3, <1>4, Invariant, PTL

-----------------------------------------------------------------------------
(* Retries                                                                  *)

Same(k) == {m \in DOMAIN origin : origin[m].key = k}
Tops(m, S) == m \in S /\ \A o \in S : o <= m
Old(m) == clock - origin[m].at > StatusTtl

\* A run is not younger than its status, and has one until it is old.
AgeInv ==
    \A m \in DOMAIN origin :
        /\ m \in Run /\ origin[m].at <= clock /\ origin[m].at <= status[m].at
        /\ status[m].state = "none" => Old(m)
        /\ \A o \in DOMAIN origin : o <= m => origin[o].at <= origin[m].at

\* The table has the newest run of a key, unless all its runs are old.
KeyInv(k) ==
    /\ Same(k) # {} => \E m \in Same(k) : Tops(m, Same(k))
    /\ keys[k] = 0 => \A m \in Same(k) : Old(m)
    /\ keys[k] # 0 => Tops(keys[k], Same(k))

RetryInv == AgeInv /\ keys = [k \in Key |-> keys[k]] /\ \A k \in Key : KeyInv(k)

LEMMA OriginFacts ==
  ASSUME Shape
  PROVE  /\ Len(origin) \in Nat /\ DOMAIN origin = 1..Len(origin) /\ clock \in Nat
         /\ \A m \in DOMAIN origin : origin[m].at \in Nat
         /\ \A r \in Run : status[r].at \in Nat
         /\ StatusTtl \in Nat
<1>1. /\ Len(origin) \in Nat /\ DOMAIN origin = 1..Len(origin) /\ clock \in Nat
  BY DEF Shape
<1>2. ASSUME NEW m \in DOMAIN origin PROVE origin[m].at \in Nat
  <2>1. origin[m] \in [key : Key \cup {NoKey}, body : Body, at : Nat]
    BY <1>1, ElementOfSeq DEF Shape
  <2> QED BY <2>1
<1>3. \A r \in Run : status[r].at \in Nat
  BY DEF Shape
<1> QED BY <1>1, <1>2, <1>3, BoundAssumption

\* A step that starts no run: time may pass, a key may leave the table when its
\* run is old, and a status when it is old.
LEMMA TableStep ==
  ASSUME Shape, RetryInv, UNCHANGED origin, clock' \in Nat, clock' >= clock,
         keys' = [k \in Key |-> keys'[k]],
         \A k \in Key : keys'[k] = keys[k] \/ (keys'[k] = 0 /\ keys[k] # 0 /\ Old(keys[k])),
         \A r \in Run :
           /\ status'[r].at \in {status[r].at, clock}
           /\ status'[r].state = "none" =>
                status[r].state = "none" \/ clock - status[r].at > StatusTtl
  PROVE  RetryInv'
<1>1. \A m \in DOMAIN origin : Old(m) => Old(m)'
  BY OriginFacts DEF Old
<1>2. AgeInv'
  <2> SUFFICES ASSUME NEW m \in DOMAIN origin
               PROVE  /\ m \in Run /\ origin[m].at <= clock' /\ origin[m].at <= status'[m].at
                      /\ status'[m].state = "none" => Old(m)'
                      /\ \A o \in DOMAIN origin : o <= m => origin[o].at <= origin[m].at
    BY DEF AgeInv
  <2>1. /\ m \in Run /\ origin[m].at <= clock /\ origin[m].at <= status[m].at
        /\ status[m].state = "none" => Old(m)
        /\ \A o \in DOMAIN origin : o <= m => origin[o].at <= origin[m].at
    BY DEF RetryInv, AgeInv
  <2>2. origin[m].at <= clock' /\ origin[m].at <= status'[m].at
    BY <2>1, OriginFacts
  <2>3. status'[m].state = "none" => Old(m)
    BY <2>1, OriginFacts DEF Old
  <2> QED BY <1>1, <2>1, <2>2, <2>3
<1>3. ASSUME NEW k \in Key PROVE KeyInv(k)'
  <2>1. KeyInv(k)
    BY DEF RetryInv
  <2>2. Same(k)' = Same(k)
    BY DEF Same
  <2>3. Same(k) \subseteq DOMAIN origin
    BY DEF Same
  <2>4. CASE keys'[k] = keys[k]
    <3>1. Same(k)' # {} => \E m \in Same(k)' : Tops(m, Same(k)')
      BY <2>1, <2>2 DEF KeyInv
    <3>2. keys'[k] = 0 => \A m \in Same(k)' : Old(m)'
      BY <1>1, <2>1, <2>2, <2>3, <2>4 DEF KeyInv
    <3>3. keys'[k] # 0 => Tops(keys'[k], Same(k)')
      BY <2>1, <2>2, <2>4 DEF KeyInv
    <3> QED BY <3>1, <3>2, <3>3 DEF KeyInv
  <2>5. CASE keys'[k] = 0 /\ keys[k] # 0 /\ Old(keys[k])
    <3>1. Tops(keys[k], Same(k))
      BY <2>1, <2>5 DEF KeyInv
    <3>2. ASSUME NEW m \in Same(k) PROVE Old(m)
      <4>1. m \in DOMAIN origin /\ keys[k] \in DOMAIN origin /\ m <= keys[k]
        BY <2>3, <3>1 DEF Tops
      <4>2. origin[m].at <= origin[keys[k]].at
        BY <4>1 DEF RetryInv, AgeInv
      <4> QED BY <2>5, <4>1, <4>2, OriginFacts DEF Old
    <3> QED BY <1>1, <2>1, <2>2, <2>3, <2>5, <3>2 DEF KeyInv
  <2> QED BY <2>4, <2>5
<1> QED BY <1>2, <1>3 DEF RetryInv

\* A run that is started is the newest of its key.
LEMMA CreateRetry ==
  ASSUME IInv, RetryInv, NEW k \in Key \cup {NoKey}, NEW b \in Body, CreateRun(k, b)
  PROVE  RetryInv'
<1> DEFINE n == Len(origin) + 1
<1>1. Shape /\ n \in Run /\ clock' = clock
  BY OriginFacts DEF IInv, CreateRun, started, Run
<1>2. /\ origin' = Append(origin, [key |-> k, body |-> b, at |-> clock])
      /\ status' = [status EXCEPT ![n] = [state |-> "queued", at |-> clock]]
      /\ keys' = IF k = NoKey THEN keys ELSE [keys EXCEPT ![k] = n]
  BY DEF CreateRun, SetStatus, started
<1>3. /\ DOMAIN origin = 1..Len(origin) /\ DOMAIN origin' = 1..n /\ Len(origin) \in Nat
      /\ \A m \in DOMAIN origin : origin'[m] = origin[m]
      /\ origin'[n].key = k /\ origin'[n].at = clock
  BY <1>1, <1>2 DEF Shape
<1>4. /\ \A m \in Run : m # n => status'[m] = status[m]
      /\ status'[n].state = "queued" /\ status'[n].at = clock
  BY <1>1, <1>2 DEF Shape
<1>5. AgeInv'
  <2> SUFFICES ASSUME NEW m \in DOMAIN origin'
               PROVE  /\ m \in Run /\ origin'[m].at <= clock /\ origin'[m].at <= status'[m].at
                      /\ status'[m].state = "none" => Old(m)'
                      /\ \A o \in DOMAIN origin' : o <= m => origin'[o].at <= origin'[m].at
    BY <1>1 DEF AgeInv
  <2>1. CASE m = n
    <3>1. \A o \in DOMAIN origin' : origin'[o].at <= clock
      BY <1>1, <1>3, OriginFacts DEF RetryInv, AgeInv
    <3> QED BY <1>1, <1>3, <1>4, <2>1, <3>1, OriginFacts
  <2>2. CASE m # n
    <3>1. m \in DOMAIN origin
      BY <1>3, <2>2
    <3>2. /\ m \in Run /\ origin[m].at <= clock /\ origin[m].at <= status[m].at
          /\ status[m].state = "none" => Old(m)
          /\ \A o \in DOMAIN origin : o <= m => origin[o].at <= origin[m].at
      BY <3>1 DEF RetryInv, AgeInv
    <3>3. Old(m)' <=> Old(m)
      BY <1>1, <1>3, <3>1 DEF Old
    <3>4. \A o \in DOMAIN origin' : o <= m => o \in DOMAIN origin
      BY <1>3, <3>1
    <3> QED BY <1>3, <1>4, <2>2, <3>1, <3>2, <3>3, <3>4
  <2> QED BY <2>1, <2>2
<1>6. keys' = [q \in Key |-> keys'[q]] /\ \A q \in Key : keys'[q] = IF q = k THEN n ELSE keys[q]
  BY <1>2, KeyAssumption DEF RetryInv
<1>7. ASSUME NEW q \in Key PROVE KeyInv(q)'
  <2>1. Same(q)' = Same(q) \cup (IF q = k THEN {n} ELSE {})
    BY <1>3 DEF Same
  <2>2. CASE q = k
    <3>1. Tops(n, Same(q)')
      BY <1>3, <2>1, <2>2 DEF Tops, Same
    <3>2. keys'[q] = n /\ n # 0
      BY <1>3, <1>6, <2>2
    <3>3. Tops(keys'[q], Same(q)')
      BY <3>1, <3>2
    <3>4. \E m \in Same(q)' : Tops(m, Same(q)')
      BY <3>1 DEF Tops
    <3> QED BY <3>2, <3>3, <3>4 DEF KeyInv
  <2>3. CASE q # k
    <3>1. KeyInv(q) /\ keys'[q] = keys[q] /\ Same(q)' = Same(q)
      BY <1>6, <2>1, <2>3 DEF RetryInv
    <3>3. \A m \in Same(q) : Old(m)' <=> Old(m)
      BY <1>1, <1>3 DEF Old, Same
    <3> QED BY <3>1, <3>3 DEF KeyInv
  <2> QED BY <2>2, <2>3
<1> QED BY <1>5, <1>6, <1>7 DEF RetryInv

\* What a step that starts no run does to keys and statuses.
LEMMA RetryFrame ==
  ASSUME IInv, RetryInv, [Next]_vars,
         ~\E k \in Key \cup {NoKey}, b \in Body : CreateRun(k, b)
  PROVE  /\ UNCHANGED origin /\ clock' \in Nat /\ clock' >= clock
         /\ keys' = [k \in Key |-> keys'[k]]
         /\ \A k \in Key : keys'[k] = keys[k] \/ (keys'[k] = 0 /\ keys[k] # 0 /\ Old(keys[k]))
         /\ \A r \in Run :
              /\ status'[r].at \in {status[r].at, clock}
              /\ status'[r].state = "none" =>
                   status[r].state = "none" \/ clock - status[r].at > StatusTtl
<1>1. Shape /\ keys = [k \in Key |-> keys[k]] /\ clock \in Nat
  BY DEF IInv, Shape, RetryInv
<1>2. ASSUME NEW s, NEW q, s # "none", SetStatus(q, s)
      PROVE  \A r \in Run : /\ status'[r].at \in {status[r].at, clock}
                            /\ status'[r].state = "none" => status[r].state = "none"
  BY <1>1, <1>2 DEF SetStatus, Shape
<1>3. ASSUME UNCHANGED <<clock, origin, keys>>,
             \/ UNCHANGED status
             \/ \E q, s : s # "none" /\ SetStatus(q, s)
      PROVE  /\ UNCHANGED origin /\ clock' \in Nat /\ clock' >= clock
             /\ keys' = [k \in Key |-> keys'[k]] /\ \A k \in Key : keys'[k] = keys[k]
             /\ \A r \in Run : /\ status'[r].at \in {status[r].at, clock}
                               /\ status'[r].state = "none" => status[r].state = "none"
  <2>1. clock' \in Nat /\ clock' >= clock
    BY <1>1, <1>3
  <2>2. \A r \in Run : /\ status'[r].at \in {status[r].at, clock}
                       /\ status'[r].state = "none" => status[r].state = "none"
    BY <1>2, <1>3
  <2> QED BY <1>1, <1>3, <2>1, <2>2
<1>4. ASSUME NEW k \in Key, RefuseRun(k)
      PROVE  /\ UNCHANGED <<clock, origin, status>>
             /\ keys' = [q \in Key |-> keys'[q]]
             /\ \A q \in Key : keys'[q] = keys[q] \/ (keys'[q] = 0 /\ keys[q] # 0 /\ Old(keys[q]))
  <2>1. keys[k] # 0 /\ ~Fresh(keys[k]) /\ keys' = [keys EXCEPT ![k] = 0]
        /\ UNCHANGED <<clock, origin, status>>
    BY <1>4 DEF RefuseRun
  <2>2. keys[k] \in DOMAIN origin
    BY <2>1 DEF RetryInv, KeyInv, Tops, Same
  <2>3. Old(keys[k])
    BY <1>1, <2>1, <2>2, OriginFacts DEF Fresh, Old
  <2> QED BY <1>1, <2>1, <2>3
<1>5. ASSUME SweepOnce
      PROVE  /\ UNCHANGED <<clock, origin>>
             /\ keys' = [q \in Key |-> keys'[q]]
             /\ \A q \in Key : keys'[q] = keys[q] \/ (keys'[q] = 0 /\ keys[q] # 0 /\ Old(keys[q]))
             /\ \A r \in Run : /\ status'[r].at = status[r].at
                               /\ status'[r].state = "none" =>
                                    status[r].state = "none" \/ clock - status[r].at > StatusTtl
  <2>1. /\ UNCHANGED <<clock, origin>>
        /\ keys' = [k \in Key |-> IF keys[k] # 0 /\ ~Fresh(keys[k]) THEN 0 ELSE keys[k]]
        /\ status' = [r \in Run |-> IF Forgettable(r) THEN [status[r] EXCEPT !.state = "none"]
                                    ELSE status[r]]
    BY <1>5 DEF SweepOnce
  <2>2. ASSUME NEW q \in Key, keys[q] # 0, ~Fresh(keys[q]) PROVE Old(keys[q])
    <3>1. keys[q] \in DOMAIN origin
      BY <2>2 DEF RetryInv, KeyInv, Tops, Same
    <3> QED BY <1>1, <2>2, <3>1, OriginFacts DEF Fresh, Old
  <2>3. ASSUME NEW r \in Run
        PROVE  /\ status'[r].at = status[r].at
               /\ status'[r].state = "none" =>
                    status[r].state = "none" \/ clock - status[r].at > StatusTtl
    BY <1>1, <2>1, <2>3 DEF Forgettable, Shape
  <2>4. \A q \in Key : keys'[q] = keys[q] \/ (keys'[q] = 0 /\ keys[q] # 0 /\ ~Fresh(keys[q]))
    BY <2>1
  <2> QED BY <2>1, <2>2, <2>3, <2>4
<1>6. CASE Tick
  BY <1>1, <1>6 DEF Tick, runVars
<1>7. ASSUME NEW q \in Run,
             \/ StartRun(q) \/ RunCallback(q) \/ Cancelled(q)
             \/ BeginWork(q) \/ Emit(q) \/ Ask(q) \/ GiveUp(q)
             \/ \E result \in Result : EndWork(q, result)
             \/ StopRun(q) \/ ResolveApproval(q)
      PROVE  /\ UNCHANGED <<clock, origin, keys>>
             /\ UNCHANGED status \/ \E p, s : s # "none" /\ SetStatus(p, s)
  <2>1. CASE StartRun(q)
    BY <2>1 DEF StartRun, Fail, End, runVars
  <2>2. CASE RunCallback(q)
    BY <2>2 DEF RunCallback, Returned, Fail, End, runVars
  <2>3. CASE Cancelled(q)
    BY <2>3 DEF Cancelled, End, runVars
  <2>4. CASE Ask(q) \/ StopRun(q)
    BY <2>4 DEF Ask, StopRun, runVars
  <2>5. CASE \/ BeginWork(q) \/ Emit(q) \/ GiveUp(q)
             \/ \E result \in Result : EndWork(q, result)
             \/ ResolveApproval(q)
    BY <2>5 DEF BeginWork, Emit, GiveUp, EndWork, ResolveApproval, runVars
  <2> QED BY <1>7, <2>1, <2>2, <2>3, <2>4, <2>5
<1>8. ASSUME RecordApproval
      PROVE  UNCHANGED <<clock, origin, keys>> /\ SetStatus(recording, "running")
  BY <1>8 DEF RecordApproval, runVars
<1>9. ASSUME NEW x \in Reader,
             \/ \E q \in Run, after \in 0..MaxEvents : OpenEvents(x, q, after)
             \/ BeginTail(x) \/ SentEvent(x) \/ WakeReader(x) \/ SentClosed(x)
             \/ LoseReader(x)
      PROVE  UNCHANGED <<clock, origin, keys, status>>
  BY <1>9, ReaderFrame DEF runVars
<1>10. UNCHANGED vars => UNCHANGED <<clock, origin, keys, status>>
  BY DEF vars, runVars
<1> QED
  BY <1>1, <1>3, <1>4, <1>5, <1>6, <1>7, <1>8, <1>9, <1>10 DEF Next

LEMMA RetryStep == ASSUME IInv, RetryInv, [Next]_vars PROVE RetryInv'
<1>1. CASE \E k \in Key \cup {NoKey}, b \in Body : CreateRun(k, b)
  BY <1>1, CreateRetry
<1>2. CASE ~\E k \in Key \cup {NoKey}, b \in Body : CreateRun(k, b)
  BY <1>2, RetryFrame, TableStep DEF IInv
<1> QED BY <1>1, <1>2

LEMMA RetryInit == ASSUME Init PROVE RetryInv
<1>1. origin = <<>> /\ keys = [k \in Key |-> 0] /\ DOMAIN origin = {}
  BY DEF Init
<1> QED BY <1>1 DEF RetryInv, AgeInv, KeyInv, Same

\* A run that is started is not the retry of a request whose key is fresh
\* (_create_run and its caches, against _sweep_orphaned_runs_once).
THEOREM RetriesJoin == Spec => RetryJoins
<1>1. ASSUME IInv, RetryInv, [Next]_vars, NEW n, Started(n)
      PROVE  IsNoRetry(origin'[n])
  <2>1. PICK k \in Key \cup {NoKey}, b \in Body : CreateRun(k, b)
    BY <1>1, RetryFrame DEF Started
  <2>2. /\ origin' = Append(origin, [key |-> k, body |-> b, at |-> clock])
        /\ origin \in Seq([key : Key \cup {NoKey}, body : Body, at : Nat])
        /\ ~Joins(k, b)
    BY <1>1, <2>1 DEF CreateRun, IInv, Shape
  <2>3. n = Len(origin) + 1 /\ origin'[n].key = k /\ origin'[n].body = b
    BY <1>1, <2>2 DEF Started
  <2> SUFFICES ASSUME k # NoKey, Same(k) # {},
                      NEW last, last = CHOOSE m \in Same(k) : \A o \in Same(k) : o <= m
               PROVE  origin[last].body # b \/ Old(last)
    BY <2>3 DEF IsNoRetry, Same, Old
  <2>4. KeyInv(k) /\ AgeInv
    BY <1>1 DEF RetryInv
  <2>5. Tops(last, Same(k))
    BY <2>4 DEF KeyInv, Tops
  <2>6. CASE keys[k] = 0
    BY <2>4, <2>5, <2>6 DEF KeyInv, Tops
  <2>7. CASE keys[k] # 0
    <3>1. Tops(keys[k], Same(k))
      BY <2>4, <2>7 DEF KeyInv
    <3>2. /\ last \in DOMAIN origin /\ keys[k] \in DOMAIN origin
          /\ last <= keys[k] /\ keys[k] <= last
      BY <2>5, <3>1 DEF Tops, Same
    <3>3. last = keys[k]
      BY <1>1, <3>2, OriginFacts DEF IInv
    <3>4. \/ ~Fresh(last) \/ origin[last].body # b \/ status[last].state = "none"
      BY <2>2, <2>7, <3>3 DEF Joins
    <3>5. last \in DOMAIN origin
      BY <2>5 DEF Tops, Same
    <3>6. ~Fresh(last) => Old(last)
      BY <1>1, <3>5, OriginFacts DEF IInv, Fresh, Old
    <3> QED BY <2>4, <3>4, <3>5, <3>6 DEF AgeInv
  <2> QED BY <2>6, <2>7
<1>2. IInv /\ RetryInv /\ [Next]_vars
        => [\A n \in Run : Started(n) => IsNoRetry(origin'[n])]_vars
  BY <1>1
<1>3. Init => RetryInv
  BY RetryInit
<1>4. IInv /\ RetryInv /\ [Next]_vars => RetryInv'
  BY RetryStep
<1> QED
  BY <1>2, <1>3, <1>4, Invariant, PTL DEF Spec, RetryJoins

-----------------------------------------------------------------------------
(* Readers                                                                  *)

ReaderFields == {"pc", "run", "after", "cursor", "upto", "seen", "got"}

\* What a reader has been sent is what follows its `after' up to its cursor.
\* A client may name an `after' that is not in the log yet.
Reads(e) ==
    /\ e.after \in Nat /\ e.cursor \in Nat /\ e.after <= e.cursor
    /\ e.got = (e.after + 1)..e.cursor
    /\ e.cursor = e.after \/ e.cursor <= Len(log[e.run].events)

Batch(e) == e.upto \in Nat /\ e.cursor < e.upto /\ e.upto <= Len(log[e.run].events)

ReadInv(e) ==
    /\ DOMAIN e = ReaderFields
    /\ e.pc # "off" => e.run \in Run /\ e.run <= Len(origin)
    /\ e.pc \in {"headers", "send", "wait"} => Reads(e)
    /\ e.pc = "send" => Batch(e)

ReadersInv == reader = [x \in Reader |-> reader[x]] /\ \A x \in Reader : ReadInv(reader[x])

\* What a log has it keeps, while its run is one that was started.
Grown(r) == /\ Len(log[r].events) \in Nat /\ Len(log'[r].events) \in Nat
            /\ Len(log'[r].events) >= Len(log[r].events)

LEMMA LogLengths ==
  ASSUME Shape, NEW r \in Run
  PROVE  log[r] \in Logs /\ log[r].events \in Seq(Kind) /\ Len(log[r].events) \in Nat
  BY DEF Shape, Logs

\* A reader keeps its place when logs grow.
LEMMA KeptReader ==
  ASSUME NEW x \in Reader, ReadInv(reader[x]), reader'[x] = reader[x],
         Len(origin) \in Nat, Len(origin') \in Nat, Len(origin') >= Len(origin),
         \A r \in Run : r <= Len(origin) => Grown(r)
  PROVE  ReadInv(reader[x])'
<1> DEFINE e == reader[x]
<1>1. CASE e.pc = "off"
  BY <1>1 DEF ReadInv
<1>2. CASE e.pc # "off"
  <2>1. e.run \in Run /\ e.run <= Len(origin) /\ e.run \in Nat
    BY <1>2 DEF ReadInv, Run
  <2>2. Grown(e.run)
    BY <2>1
  <2>3. e.run <= Len(origin')
    BY <2>1
  <2>4. Reads(e) => Reads(e)'
    BY <2>2 DEF Reads, Grown
  <2>5. Batch(e) => Batch(e)'
    BY <2>2 DEF Reads, Batch, Grown
  <2>6. e.pc = "send" => e.cursor \in Nat
    BY DEF ReadInv, Reads
  <2> QED BY <2>1, <2>3, <2>4, <2>5 DEF ReadInv
<1> QED BY <1>1, <1>2

LEMMA KeptReaders ==
  ASSUME Shape, Shape', ReadersInv, UNCHANGED reader, Len(origin') >= Len(origin),
         \A r \in Run : r <= Len(origin) => Grown(r)
  PROVE  ReadersInv'
<1>1. Len(origin) \in Nat /\ Len(origin') \in Nat
  BY DEF Shape
<1>2. \A x \in Reader : ReadInv(reader[x])'
  BY <1>1, KeptReader DEF ReadersInv
<1> QED BY <1>2 DEF ReadersInv

\* Logs only grow, and an append or an end leaves those of other runs alone.
LEMMA GrowingLogs ==
  ASSUME Shape, NEW r \in Run,
         \/ UNCHANGED log
         \/ \E l, k : /\ k \in Kind /\ l \in Appended(log[r], k) \cup {log[r]}
                      /\ SetLog(r, l) \/ SetLog(r, Closed(l))
  PROVE  \A q \in Run : Grown(q)
<1>1. CASE UNCHANGED log
  BY <1>1, LogLengths DEF Grown
<1>2. ASSUME NEW k \in Kind, NEW l \in Appended(log[r], k) \cup {log[r]},
             SetLog(r, l) \/ SetLog(r, Closed(l))
      PROVE  \A q \in Run : Grown(q)
  <2>1. log[r] \in Logs /\ clock \in Nat
    BY LogLengths DEF Shape
  <2>2. l.events = log[r].events \/ l.events = Append(log[r].events, k)
    BY <2>1, AppendedIsLog
  <2>3. l \in Logs
    BY <2>1, AppendedIsLog
  <2>4. Closed(l).events = l.events
    BY <2>3 DEF Closed, Logs
  <2>5. log'[r].events = l.events /\ \A q \in Run : q # r => log'[q] = log[q]
    BY <1>2, <2>4 DEF Shape, SetLog
  <2>6. Len(Append(log[r].events, k)) = Len(log[r].events) + 1
    BY <2>1, LogLengths
  <2>7. Grown(r)
    BY <2>2, <2>5, <2>6, LogLengths DEF Grown
  <2> QED BY <2>5, <2>7, LogLengths DEF Grown
<1> QED BY <1>1, <1>2

\* What the steps that are not of a reader do to logs and readers.
LEMMA LogsFrame ==
  ASSUME IInv, [Next]_vars,
         ~\E x \in Reader :
            \/ \E q \in Run, after \in 0..MaxEvents : OpenEvents(x, q, after)
            \/ BeginTail(x) \/ SentEvent(x) \/ WakeReader(x) \/ SentClosed(x)
            \/ LoseReader(x)
  PROVE  /\ UNCHANGED reader /\ Len(origin') >= Len(origin)
         /\ \A r \in Run : r <= Len(origin) => Grown(r)
<1>1. Shape /\ Len(origin) \in Nat
  BY DEF IInv, Shape
<1>2. ASSUME UNCHANGED log PROVE \A r \in Run : Grown(r)
  BY <1>1, <1>2, LogLengths DEF Grown
<1>3. Terminal \subseteq Kind /\ "approval.responded" \in Kind
  BY DEF Kind
<1>4. ASSUME NEW r \in Run, NEW s, NEW k \in Kind,
             \E l \in Appended(log[r], k) \cup {log[r]} : End(r, s, l)
      PROVE  \A q \in Run : Grown(q)
  BY <1>1, <1>4, GrowingLogs DEF End
<1>5. ASSUME NEW r \in Run, Fail(r) PROVE \A q \in Run : Grown(q)
  BY <1>4, <1>5 DEF Fail, Kind, Terminal
<1>6. ASSUME NEW k \in Key \cup {NoKey}, NEW b \in Body, CreateRun(k, b)
      PROVE  /\ UNCHANGED reader /\ Len(origin') >= Len(origin)
             /\ \A r \in Run : r <= Len(origin) => Grown(r)
  <2>1. /\ UNCHANGED reader
        /\ origin' = Append(origin, [key |-> k, body |-> b, at |-> clock])
        /\ log' = [log EXCEPT ![Len(origin) + 1] = [EmptyLog EXCEPT !.at = clock]]
    BY <1>6 DEF CreateRun, SetLog, started
  <2>2. Len(origin') = Len(origin) + 1
    BY <1>1, <2>1 DEF Shape
  <2>3. \A r \in Run : r <= Len(origin) => log'[r] = log[r]
    BY <1>1, <2>1 DEF Shape, Run
  <2> QED BY <1>1, <2>1, <2>2, <2>3, LogLengths DEF Grown
<1>7. CASE (\E k \in Key : RefuseRun(k)) \/ Tick \/ SweepOnce
  BY <1>1, <1>2, <1>7 DEF RefuseRun, Tick, SweepOnce, runVars
<1>8. ASSUME NEW r \in Run,
             \/ StartRun(r) \/ RunCallback(r) \/ Cancelled(r)
             \/ BeginWork(r) \/ Emit(r) \/ Ask(r) \/ GiveUp(r)
             \/ \E result \in Result : EndWork(r, result)
             \/ StopRun(r) \/ ResolveApproval(r)
      PROVE  UNCHANGED <<reader, origin>> /\ \A q \in Run : Grown(q)
  <2>1. CASE StartRun(r)
    BY <1>2, <1>5, <2>1 DEF StartRun, runVars
  <2>2. CASE RunCallback(r)
    <3>1. UNCHANGED <<reader, origin>>
      BY <2>2 DEF RunCallback, runVars
    <3>2. \/ \E k \in Kind : \E l \in Appended(log[r], k) \cup {log[r]} : SetLog(r, l)
          \/ \E k \in Kind : \E s : \E l \in Appended(log[r], k) \cup {log[r]} : End(r, s, l)
          \/ Fail(r)
          \/ UNCHANGED log
      BY <2>2 DEF RunCallback, Returned, Kind, Terminal
    <3>3. ASSUME NEW k \in Kind, \E l \in Appended(log[r], k) \cup {log[r]} : SetLog(r, l)
          PROVE  \A q \in Run : Grown(q)
      BY <1>1, <3>3, GrowingLogs
    <3> QED BY <1>2, <1>4, <1>5, <3>1, <3>2, <3>3
  <2>3. CASE Cancelled(r)
    <3>1. UNCHANGED <<reader, origin>>
          /\ \E l \in Appended(log[r], "run.cancelled") : End(r, "cancelled", l)
      BY <2>3 DEF Cancelled, runVars
    <3> QED BY <1>4, <3>1 DEF Kind, Terminal
  <2>4. CASE \/ BeginWork(r) \/ Emit(r) \/ Ask(r) \/ GiveUp(r)
             \/ \E result \in Result : EndWork(r, result)
             \/ StopRun(r) \/ ResolveApproval(r)
    BY <1>2, <2>4 DEF BeginWork, Emit, Ask, GiveUp, EndWork, StopRun, ResolveApproval,
                      runVars
  <2> QED BY <1>8, <2>1, <2>2, <2>3, <2>4
<1>9. CASE RecordApproval
  <2>1. recording \in Run /\ UNCHANGED <<reader, origin>>
    BY <1>1, <1>9 DEF RecordApproval, runVars, Shape, Run
  <2>2. UNCHANGED log \/ \E l \in Appended(log[recording], "approval.responded") :
                           SetLog(recording, l)
    BY <1>9 DEF RecordApproval
  <2>3. \A q \in Run : Grown(q)
    BY <1>1, <1>3, <2>1, <2>2, GrowingLogs
  <2> QED BY <1>1, <2>1, <2>3
<1>10. CASE UNCHANGED vars
  BY <1>1, <1>2, <1>10 DEF vars, runVars
<1> QED
  BY <1>1, <1>6, <1>7, <1>8, <1>9, <1>10 DEF Next


\* A turn of tail_after: the reader goes on from where it is, and is told the end
\* only when nothing follows.
LEMMA ReplayReads ==
  ASSUME Shape, NEW x \in Reader, reader = [y \in Reader |-> reader[y]], NEW e,
         DOMAIN e = ReaderFields, Reads(e), e.run \in Run, e.run <= Len(origin),
         UNCHANGED origin, Replay(x, e)
  PROVE  /\ reader' = [reader EXCEPT ![x] = reader'[x]]
         /\ ReadInv(reader[x])'
         /\ reader'[x].pc = "closing" => HasAll(x)'
<1> DEFINE latest == Len(log[e.run].events)
           v      == Version(log[e.run])
<1>1. /\ latest \in Nat /\ log'[e.run].events = log[e.run].events
      /\ log'[e.run].closed = log[e.run].closed
  BY LogLengths, ReplayLogs
<1>2. \/ SetReader(x, [e EXCEPT !.pc = "expired"])
      \/ e.cursor < latest /\ SetReader(x, [e EXCEPT !.pc = "send", !.upto = latest, !.seen = v])
      \/ e.cursor >= latest /\ log[e.run].closed /\ SetReader(x, [e EXCEPT !.pc = "closing"])
      \/ SetReader(x, [e EXCEPT !.pc = "wait", !.seen = v])
  BY DEF Replay, AllSent
<1> HIDE DEF v, latest
<1> DEFINE Goes(f) ==
      /\ SetReader(x, f) /\ f.run = e.run /\ f.after = e.after
      /\ f.cursor = e.cursor /\ f.got = e.got /\ DOMAIN f = ReaderFields
      /\ f.pc \in {"expired", "send", "closing", "wait"}
      /\ f.pc = "send" => f.upto = latest /\ e.cursor < latest
      /\ f.pc = "closing" => e.cursor >= latest /\ log[e.run].closed
<1>3. PICK f : Goes(f)
  <2>1. ASSUME SetReader(x, [e EXCEPT !.pc = "expired"])
        PROVE  Goes([e EXCEPT !.pc = "expired"])
    BY <2>1 DEF ReaderFields
  <2>2. ASSUME e.cursor < latest,
               SetReader(x, [e EXCEPT !.pc = "send", !.upto = latest, !.seen = v])
        PROVE  Goes([e EXCEPT !.pc = "send", !.upto = latest, !.seen = v])
    BY <2>2 DEF ReaderFields
  <2>3. ASSUME e.cursor >= latest, log[e.run].closed,
               SetReader(x, [e EXCEPT !.pc = "closing"])
        PROVE  Goes([e EXCEPT !.pc = "closing"])
    BY <2>3 DEF ReaderFields
  <2>4. ASSUME SetReader(x, [e EXCEPT !.pc = "wait", !.seen = v])
        PROVE  Goes([e EXCEPT !.pc = "wait", !.seen = v])
    BY <2>4 DEF ReaderFields
  <2> HIDE DEF Goes
  <2> QED BY <1>2, <2>1, <2>2, <2>3, <2>4
<1>4. reader'[x] = f /\ reader' = [reader EXCEPT ![x] = f]
  BY <1>3 DEF SetReader
<1>5. latest' = latest
  BY <1>1 DEF latest
<1>6. Reads(f)'
  BY <1>1, <1>3, <1>5 DEF Reads, latest
<1>7. f.pc = "send" => Batch(f)'
  BY <1>1, <1>3, <1>5 DEF Batch, Reads, latest
<1>8. ReadInv(f)'
  BY <1>3, <1>6, <1>7 DEF ReadInv
<1>9. f.pc = "closing" => HasAll(x)'
  <2> SUFFICES ASSUME f.pc = "closing"
               PROVE  e.got = (e.after + 1)..latest
    BY <1>1, <1>3, <1>4 DEF HasAll, latest
  <2>1. e.cursor \in Nat /\ e.after \in Nat /\ e.cursor >= latest
        /\ e.got = (e.after + 1)..e.cursor /\ (e.cursor = e.after \/ e.cursor <= latest)
    BY <1>3 DEF Reads, latest
  <2> QED BY <1>1, <2>1
<1> QED BY <1>4, <1>8, <1>9 DEF ReadInv, Reads, Batch

LEMMA SentReads ==
  ASSUME NEW e, ReadInv(e), e.pc = "send", Shape,
         NEW f, f = [e EXCEPT !.cursor = @ + 1, !.got = @ \cup {e.cursor + 1}]
  PROVE  /\ DOMAIN f = ReaderFields /\ Reads(f) /\ f.run \in Run /\ f.run <= Len(origin)
         /\ f.upto = e.upto /\ f.upto \in Nat /\ f.upto <= Len(log[f.run].events) /\ f.pc = "send"
<1>1. /\ DOMAIN f = ReaderFields /\ f.run = e.run /\ f.after = e.after /\ f.upto = e.upto
      /\ f.cursor = e.cursor + 1 /\ f.got = e.got \cup {e.cursor + 1} /\ f.pc = "send"
  BY DEF ReadInv, ReaderFields
<1>2. /\ e.run \in Run /\ e.run <= Len(origin) /\ e.after \in Nat /\ e.cursor \in Nat
      /\ e.after <= e.cursor /\ e.got = (e.after + 1)..e.cursor
      /\ e.upto \in Nat /\ e.cursor < e.upto /\ e.upto <= Len(log[e.run].events)
  BY DEF ReadInv, Reads, Batch
<1>3. Len(log[e.run].events) \in Nat
  BY <1>2, LogLengths
<1>4. f.got = (f.after + 1)..f.cursor
  BY <1>1, <1>2
<1>5. f.cursor \in Nat /\ f.after <= f.cursor /\ f.cursor <= Len(log[f.run].events)
  BY <1>1, <1>2, <1>3
<1> QED BY <1>1, <1>2, <1>4, <1>5 DEF Reads

\* The steps of a reader keep what it and the others have been sent.
LEMMA ReaderReads ==
  ASSUME IInv, ReadersInv, NEW x \in Reader,
         \/ \E r \in Run, after \in 0..MaxEvents : OpenEvents(x, r, after)
         \/ BeginTail(x) \/ SentEvent(x) \/ WakeReader(x) \/ SentClosed(x)
         \/ LoseReader(x)
  PROVE  /\ reader' = [reader EXCEPT ![x] = reader'[x]]
         /\ ReadInv(reader[x])'
         /\ reader'[x].pc = "closing" => HasAll(x)'
<1>1. /\ Shape /\ reader = [y \in Reader |-> reader[y]] /\ ReadInv(reader[x])
      /\ UNCHANGED origin
  BY ReaderFrame DEF IInv, ReadersInv, runVars
<1>2. PICK e : e = reader[x]
  OBVIOUS
<1>3. ReadInv(e)
  BY <1>1, <1>2
<1>4. ASSUME NEW f, SetReader(x, f)
      PROVE  reader'[x] = f /\ reader' = [reader EXCEPT ![x] = f]
  BY <1>1, <1>4 DEF SetReader
<1>5. ASSUME NEW f, SetReader(x, f), DOMAIN f = ReaderFields, f.run \in Run,
             f.run <= Len(origin), f.pc \notin {"headers", "send", "wait", "closing"}
      PROVE  ReadInv(reader[x])' /\ reader'[x].pc # "closing"
  BY <1>1, <1>4, <1>5 DEF ReadInv
<1>6. ASSUME e.pc # "off", NEW s \in {"gone", "closed"}, SetReader(x, [e EXCEPT !.pc = s])
      PROVE  ReadInv(reader[x])' /\ reader'[x].pc # "closing"
  <2>1. /\ DOMAIN [e EXCEPT !.pc = s] = ReaderFields /\ [e EXCEPT !.pc = s].run = e.run
        /\ [e EXCEPT !.pc = s].pc = s
    BY <1>3 DEF ReadInv, ReaderFields
  <2> QED BY <1>3, <1>5, <1>6, <2>1 DEF ReadInv
<1>7. ASSUME NEW r \in Run, NEW after \in 0..MaxEvents, OpenEvents(x, r, after)
      PROVE  /\ reader' = [reader EXCEPT ![x] = reader'[x]]
             /\ ReadInv(reader[x])' /\ reader'[x].pc # "closing"
  <2> DEFINE f == [NoReader EXCEPT !.pc = "headers", !.run = r, !.after = after,
                                   !.cursor = after]
  <2>1. SetReader(x, f) /\ task[r] # "none"
    BY <1>7 DEF OpenEvents, Known
  <2>2. /\ f.pc = "headers" /\ f.run = r /\ f.after = after /\ f.cursor = after
        /\ f.got = {} /\ DOMAIN f = ReaderFields
    BY DEF NoReader, ReaderFields
  <2>3. r <= Len(origin)
    BY <2>1 DEF IInv, RunInv, TableInv
  <2> HIDE DEF f
  <2>4. after \in Nat /\ (after + 1)..after = {}
    BY BoundAssumption
  <2>5. reader'[x] = f /\ reader' = [reader EXCEPT ![x] = f]
    BY <1>4, <2>1
  <2>6. Reads(reader[x])'
    <3>1. reader'[x].got = (reader'[x].after + 1)..reader'[x].cursor
      BY <2>2, <2>4, <2>5
    <3>2. /\ reader'[x].after \in Nat /\ reader'[x].cursor = reader'[x].after
          /\ reader'[x].after <= reader'[x].cursor
      BY <2>2, <2>4, <2>5
    <3> QED BY <3>1, <3>2 DEF Reads
  <2>7. ReadInv(reader[x])'
    BY <1>1, <2>2, <2>3, <2>5, <2>6 DEF ReadInv
  <2> QED BY <2>2, <2>5, <2>7
<1>8. CASE BeginTail(x)
  <2>1. e.pc = "headers"
    BY <1>2, <1>8 DEF BeginTail
  <2>2. Reads(e) /\ e.run \in Run /\ e.run <= Len(origin) /\ DOMAIN e = ReaderFields
    BY <1>3, <2>1 DEF ReadInv
  <2>3. CASE Replay(x, e)
    BY <1>1, <2>2, <2>3, ReplayReads
  <2>4. CASE SetReader(x, [e EXCEPT !.pc = "gone"])
    BY <1>4, <1>6, <2>1, <2>4
  <2> QED BY <1>2, <1>8, <2>3, <2>4 DEF BeginTail
<1>9. CASE WakeReader(x)
  <2>1. e.pc = "wait" /\ Replay(x, e)
    BY <1>2, <1>9 DEF WakeReader
  <2> QED BY <1>1, <1>3, <2>1, ReplayReads DEF ReadInv
<1>10. CASE SentClosed(x) \/ LoseReader(x)
  <2>1. e.pc # "off" /\ \E s \in {"gone", "closed"} : SetReader(x, [e EXCEPT !.pc = s])
    BY <1>2, <1>10 DEF SentClosed, LoseReader
  <2> QED BY <1>4, <1>6, <2>1
<1>11. CASE SentEvent(x)
  <2>1. PICK f : f = [e EXCEPT !.cursor = @ + 1, !.got = @ \cup {e.cursor + 1}]
    OBVIOUS
  <2>2. /\ e.pc = "send"
        /\ \/ f.cursor < f.upto /\ SetReader(x, f) /\ UNCHANGED log
           \/ f.cursor = f.upto /\ AllSent(f) /\ SetReader(x, [f EXCEPT !.pc = "closing"])
              /\ UNCHANGED log
           \/ f.cursor = f.upto /\ SetReader(x, [f EXCEPT !.pc = "wait"]) /\ UNCHANGED log
           \/ Replay(x, f)
    BY <1>2, <1>11, <2>1 DEF SentEvent
  <2>3. /\ DOMAIN f = ReaderFields /\ Reads(f) /\ f.run \in Run /\ f.run <= Len(origin)
        /\ f.upto \in Nat /\ f.upto <= Len(log[f.run].events) /\ f.pc = "send"
    BY <1>1, <1>3, <2>1, <2>2, SentReads
  <2>4. CASE f.cursor < f.upto /\ SetReader(x, f) /\ UNCHANGED log
    BY <1>1, <1>4, <2>3, <2>4 DEF ReadInv, Reads, Batch
  <2>5. ASSUME f.cursor = f.upto, AllSent(f), SetReader(x, [f EXCEPT !.pc = "closing"]),
               UNCHANGED log
        PROVE  /\ reader' = [reader EXCEPT ![x] = reader'[x]]
               /\ ReadInv(reader[x])' /\ HasAll(x)'
    <3> DEFINE g == [f EXCEPT !.pc = "closing"]
    <3>1. /\ g.pc = "closing" /\ g.run = f.run /\ g.after = f.after /\ g.got = f.got
          /\ DOMAIN g = ReaderFields
      BY <2>3 DEF ReaderFields
    <3>2. SetReader(x, g)
      BY <2>5
    <3> HIDE DEF g
    <3>3. reader'[x] = g /\ reader' = [reader EXCEPT ![x] = g]
      BY <1>4, <3>2
    <3>4. ReadInv(reader[x])'
      BY <1>1, <2>3, <3>1, <3>3 DEF ReadInv
    <3>5. log[f.run].closed /\ f.cursor = Len(log[f.run].events)
      BY <1>1, <2>3, <2>5, LogLengths DEF AllSent, Reads
    <3>6. HasAll(x)'
      BY <2>3, <2>5, <3>1, <3>3, <3>5 DEF HasAll, Reads
    <3> QED BY <3>3, <3>4, <3>6
  <2>6. ASSUME SetReader(x, [f EXCEPT !.pc = "wait"]), UNCHANGED log
        PROVE  /\ reader' = [reader EXCEPT ![x] = reader'[x]]
               /\ ReadInv(reader[x])' /\ reader'[x].pc # "closing"
    <3> DEFINE g == [f EXCEPT !.pc = "wait"]
    <3>1. /\ g.pc = "wait" /\ g.run = f.run /\ g.after = f.after /\ g.got = f.got
          /\ g.cursor = f.cursor /\ DOMAIN g = ReaderFields
      BY <2>3 DEF ReaderFields
    <3>2. SetReader(x, g)
      BY <2>6
    <3> HIDE DEF g
    <3>3. reader'[x] = g /\ reader' = [reader EXCEPT ![x] = g]
      BY <1>4, <3>2
    <3> QED BY <1>1, <2>3, <2>6, <3>1, <3>3 DEF ReadInv, Reads
  <2>7. CASE Replay(x, f)
    BY <1>1, <2>3, <2>7, ReplayReads
  <2> QED BY <2>2, <2>4, <2>5, <2>6, <2>7
<1> QED BY <1>7, <1>8, <1>9, <1>10, <1>11

LEMMA ReadersStep ==
  ASSUME IInv, ReadersInv, [Next]_vars
  PROVE  /\ ReadersInv'
         /\ \A x \in Reader : reader'[x].pc = "closing" /\ reader[x].pc # "closing" => HasAll(x)'
<1>1. Shape /\ Shape'
  BY NextKeepsIInv DEF IInv
<1>2. ASSUME NEW x \in Reader,
             \/ \E q \in Run, after \in 0..MaxEvents : OpenEvents(x, q, after)
             \/ BeginTail(x) \/ SentEvent(x) \/ WakeReader(x) \/ SentClosed(x)
             \/ LoseReader(x)
      PROVE  /\ ReadersInv'
             /\ \A y \in Reader :
                  reader'[y].pc = "closing" /\ reader[y].pc # "closing" => HasAll(y)'
  <2>1. /\ reader' = [reader EXCEPT ![x] = reader'[x]]
        /\ ReadInv(reader[x])'
        /\ reader'[x].pc = "closing" => HasAll(x)'
    BY <1>2, ReaderReads
  <2>2. UNCHANGED origin /\ (UNCHANGED log \/ \E e : Replay(x, e))
    BY <1>2, ReaderFrame DEF runVars
  <2>3. \A r \in Run : log'[r].events = log[r].events
    BY <1>1, <2>2, ReplayLogs
  <2>4. \A r \in Run : Grown(r)
    BY <1>1, <2>3, LogLengths DEF Grown
  <2>5. \A y \in Reader \ {x} : reader'[y] = reader[y]
    BY <2>1 DEF ReadersInv
  <2>6. Len(origin) \in Nat /\ Len(origin') \in Nat /\ Len(origin') >= Len(origin)
    BY <1>1, <2>2 DEF Shape
  <2>7. \A y \in Reader \ {x} : ReadInv(reader[y])'
    BY <2>4, <2>5, <2>6, KeptReader DEF ReadersInv
  <2>8. reader' = [y \in Reader |-> reader'[y]]
    BY <2>1 DEF ReadersInv
  <2> QED BY <2>1, <2>5, <2>7, <2>8 DEF ReadersInv
<1>3. CASE ~\E x \in Reader :
             \/ \E q \in Run, after \in 0..MaxEvents : OpenEvents(x, q, after)
             \/ BeginTail(x) \/ SentEvent(x) \/ WakeReader(x) \/ SentClosed(x)
             \/ LoseReader(x)
  BY <1>1, <1>3, LogsFrame, KeptReaders
<1> QED BY <1>2, <1>3

LEMMA ReadersInit == ASSUME Init PROVE ReadersInv
<1>1. DOMAIN NoReader = ReaderFields /\ NoReader.pc = "off"
  BY DEF NoReader, ReaderFields
<1> QED BY <1>1 DEF Init, ReadersInv, ReadInv

\* A reader that is told the end of the stream has been sent all that followed
\* its cursor (RetainedEventLog.tail_after, _run_events).
THEOREM ClosedReadersHaveAll == Spec => ClosedMeansAll
<1>1. Init => ReadersInv
  BY ReadersInit
<1>2. IInv /\ ReadersInv /\ [Next]_vars => ReadersInv'
  BY ReadersStep
<1>3. IInv /\ ReadersInv /\ [Next]_vars =>
        [\A x \in Reader :
           reader'[x].pc = "closing" /\ reader[x].pc # "closing" => HasAll(x)']_vars
  BY ReadersStep
<1> QED
  BY <1>1, <1>2, <1>3, Invariant, PTL DEF Spec, ClosedMeansAll

-----------------------------------------------------------------------------
(* The registry of logs                                                     *)

Has(list, r) == \E i \in DOMAIN list : list[i] = r
Once(list) == \A i, j \in DOMAIN list : list[i] = list[j] => i = j
Places(list, S, k) == {i \in 1..k : list[i] \in S}

\* A set of naturals that contains zero and is closed under successors has them
\* all.
LEMMA SetInduction ==
  ASSUME NEW S, 0 \in S, \A n \in Nat : n \in S => n + 1 \in S
  PROVE  \A n \in Nat : n \in S
<1> DEFINE T == Nat \ S
           R == OpToRel(<, Nat)
<1> SUFFICES ASSUME T # {} PROVE FALSE
  OBVIOUS
<1>1. PICK m \in T : \A k \in T : ~(<<k, m>> \in R)
  <2>1. IsWellFoundedOn(R, Nat)
    BY NatLessThanWellFounded
  <2> HIDE DEF R
  <2> QED BY <2>1, WFMin
<1>2. m - 1 \in T /\ m - 1 < m
  OBVIOUS
<1>3. <<m - 1, m>> \in R
  BY <1>2 DEF OpToRel
<1> QED BY <1>1, <1>2, <1>3

\* One element after the other is taken over or left out.
LEMMA OnlySteps ==
  ASSUME NEW list, Len(list) \in Nat, NEW S
  PROVE  \E f : /\ Only(list, S) = f[Len(list)]
                /\ f[0] = <<>>
                /\ \A i \in 1..Len(list) :
                     f[i] = IF list[i] \in S THEN Append(f[i-1], list[i]) ELSE f[i-1]
<1> DEFINE n == Len(list)
           Step(f, i) == IF i = 0 THEN <<>>
                         ELSE IF list[i] \in S THEN Append(f[i-1], list[i]) ELSE f[i-1]
           IsRec(f, k) == f = [i \in 0..k |-> Step(f, i)]
           Rec(f, k) == /\ f = [i \in 0..k |-> f[i]]
                        /\ \A i \in 0..k : f[i] = Step(f, i)
           N == {k \in Nat : \E f : Rec(f, k)}
<1>1. n \in Nat
  OBVIOUS
<1>2. 0 \in N
  <2> DEFINE f0 == [i \in 0..0 |-> <<>>]
  <2>1. f0 = [i \in 0..0 |-> f0[i]] /\ \A i \in 0..0 : i = 0 /\ f0[i] = <<>>
    OBVIOUS
  <2> HIDE DEF f0
  <2>2. Rec(f0, 0)
    BY <2>1
  <2> QED BY <2>2
<1>3. ASSUME NEW k \in Nat, k \in N PROVE k + 1 \in N
  <2>1. PICK f : Rec(f, k)
    BY <1>3
  <2> DEFINE h == [i \in 0..(k+1) |-> IF i \in 0..k THEN f[i] ELSE Step(f, i)]
  <2>2. \A i \in 0..k : h[i] = f[i] /\ f[i] = Step(f, i)
    <3>1. \A i \in 0..k : f[i] = Step(f, i)
      BY <2>1
    <3>2. \A i \in 0..k : h[i] = f[i]
      <4> HIDE DEF Step
      <4> QED OBVIOUS
    <3> QED BY <3>1, <3>2
  <2>3. h[k+1] = Step(f, k+1)
    <3> HIDE DEF Step
    <3> QED OBVIOUS
  <2>4. \A i \in 0..(k+1) : i # 0 => h[i-1] = f[i-1]
    <3>1. \A i \in 0..(k+1) : i # 0 => i - 1 \in 0..k
      OBVIOUS
    <3> HIDE DEF h, Rec
    <3> QED BY <2>2, <3>1
  <2>5. \A i \in 0..(k+1) : Step(h, i) = Step(f, i)
    <3> HIDE DEF h
    <3> QED BY <2>4
  <2>6. \A i \in 0..(k+1) : h[i] = Step(f, i)
    <3>1. \A i \in 0..(k+1) : i \in 0..k \/ i = k + 1
      OBVIOUS
    <3> HIDE DEF h, Step
    <3> QED BY <2>2, <2>3, <3>1
  <2>7. h = [i \in 0..(k+1) |-> h[i]]
    BY Zenon
  <2>8. Rec(h, k+1)
    <3> HIDE DEF h, Step
    <3> QED BY <2>5, <2>6, <2>7
  <2> QED
    <3> HIDE DEF h, Rec
    <3> QED BY <2>8
<1>4. n \in N
  <2> HIDE DEF N
  <2> QED BY <1>1, <1>2, <1>3, SetInduction
<1>5. PICK f0 : IsRec(f0, n)
  <2>1. PICK f0 : Rec(f0, n)
    BY <1>4
  <2>2. \A i \in 0..n : f0[i] = Step(f0, i)
    BY <2>1
  <2>3. [i \in 0..n |-> f0[i]] = [i \in 0..n |-> Step(f0, i)]
    <3> HIDE DEF Step
    <3> QED BY <2>2, Zenon
  <2>4. IsRec(f0, n)
    BY <2>1, <2>3, Zenon
  <2> QED BY <2>4
<1> DEFINE c == CHOOSE f : IsRec(f, n)
<1>6. IsRec(c, n)
  <2> HIDE DEF IsRec
  <2> QED BY <1>5
<1>7. Only(list, S) = c[n]
  BY DEF Only
<1>8. \A i \in 0..n : c[i] = Step(c, i)
  <2> HIDE DEF c, Step
  <2> QED BY <1>6, Zenon
<1>9. c[0] = <<>>
  <2> HIDE DEF c
  <2>1. 0 \in 0..n
    BY <1>1
  <2> QED BY <1>8, <2>1
<1>10. \A i \in 1..n : c[i] = IF list[i] \in S THEN Append(c[i-1], list[i]) ELSE c[i-1]
  <2> HIDE DEF c
  <2>1. \A i \in 1..n : i \in 0..n /\ i # 0
    BY <1>1
  <2>2. \A i \in 1..n : c[i] = Step(c, i)
    BY <1>8, <2>1
  <2> QED BY <2>1, <2>2, Zenon
<1> QED
  <2> HIDE DEF c
  <2> QED BY <1>7, <1>9, <1>10

\* An append adds one run to those that a list has.
LEMMA AppendHas ==
  ASSUME NEW T, NEW s \in Seq(T), NEW e \in T
  PROVE  /\ Append(s, e) \in Seq(T) /\ Len(Append(s, e)) = Len(s) + 1
         /\ \A r : Has(Append(s, e), r) <=> Has(s, r) \/ r = e
         /\ Once(s) /\ ~Has(s, e) => Once(Append(s, e))
<1> DEFINE h == Append(s, e)
<1>1. /\ DOMAIN s = 1..Len(s) /\ Len(s) \in Nat /\ DOMAIN h = 1..(Len(s) + 1)
      /\ \A i \in 1..Len(s) : h[i] = s[i]
      /\ h[Len(s) + 1] = e /\ Len(h) = Len(s) + 1 /\ h \in Seq(T)
  BY AppendProperties
<1>2. \A i : i \in 1..(Len(s) + 1) <=> i \in 1..Len(s) \/ i = Len(s) + 1
  BY <1>1
<1> HIDE DEF h
<1>3. \A r : Has(h, r) <=> Has(s, r) \/ r = e
  BY <1>1, <1>2 DEF Has
<1>4. Once(s) /\ ~Has(s, e) => Once(h)
  BY <1>1, <1>2 DEF Once, Has
<1> QED BY <1>1, <1>3, <1>4 DEF h

\* The list keeps the runs of the set, each as often as it had it, and no others.
LEMMA OnlyFacts ==
  ASSUME NEW T, NEW list \in Seq(T), NEW S
  PROVE  /\ Only(list, S) \in Seq(T)
         /\ \A r : Has(Only(list, S), r) <=> Has(list, r) /\ r \in S
         /\ Once(list) => Once(Only(list, S))
         /\ Len(Only(list, S)) = Cardinality(Places(list, S, Len(list)))
<1> DEFINE n == Len(list)
<1>1. n \in Nat /\ DOMAIN list = 1..n /\ \A i \in 1..n : list[i] \in T
  OBVIOUS
<1>2. PICK f : /\ Only(list, S) = f[n] /\ f[0] = <<>>
               /\ \A i \in 1..n :
                    f[i] = IF list[i] \in S THEN Append(f[i-1], list[i]) ELSE f[i-1]
  BY <1>1, OnlySteps
<1> HIDE DEF n
<1> DEFINE Good(k) ==
      /\ f[k] \in Seq(T)
      /\ \A r : Has(f[k], r) <=> \E i \in 1..k : list[i] = r /\ r \in S
      /\ Once(list) => Once(f[k])
      /\ IsFiniteSet(Places(list, S, k)) /\ Len(f[k]) = Cardinality(Places(list, S, k))
    N == {k \in Nat : k \in 0..n => Good(k)}
<1>3. 0 \in N
  <2>1. Places(list, S, 0) = {} /\ DOMAIN f[0] = {} /\ Len(f[0]) = 0 /\ f[0] \in Seq(T)
    BY <1>2 DEF Places
  <2>2. \A r : ~Has(f[0], r) /\ ~(\E i \in 1..0 : list[i] = r /\ r \in S)
    BY <2>1 DEF Has
  <2>3. Once(f[0])
    BY <2>1 DEF Once
  <2>4. IsFiniteSet(Places(list, S, 0)) /\ Cardinality(Places(list, S, 0)) = 0
    BY <2>1, FS_EmptySet
  <2>5. Good(0)
    BY <2>1, <2>2, <2>3, <2>4
  <2> HIDE DEF Good
  <2> QED BY <2>5
<1>4. ASSUME NEW k \in Nat, k \in N PROVE k + 1 \in N
  <2> SUFFICES ASSUME k + 1 \in 0..n PROVE Good(k + 1)
    OBVIOUS
  <2>1. Good(k) /\ k + 1 \in 1..n /\ list[k + 1] \in T
    BY <1>1, <1>4
  <2>2. f[k + 1] = IF list[k + 1] \in S THEN Append(f[k], list[k + 1]) ELSE f[k]
    <3>1. (k + 1) - 1 = k
      OBVIOUS
    <3> QED BY <1>2, <2>1, <3>1
  <2>3. \A i : i \in 1..(k + 1) <=> i \in 1..k \/ i = k + 1
    OBVIOUS
  <2>4. CASE list[k + 1] \notin S
    <3>1. f[k + 1] = f[k]
      BY <2>2, <2>4
    <3>2. Places(list, S, k + 1) = Places(list, S, k)
      BY <2>3, <2>4 DEF Places
    <3>3. \A r : Has(f[k + 1], r) <=> \E i \in 1..(k + 1) : list[i] = r /\ r \in S
      BY <2>1, <2>3, <2>4, <3>1
    <3> QED BY <2>1, <3>1, <3>2, <3>3
  <2>5. CASE list[k + 1] \in S
    <3> DEFINE e == list[k + 1]
               g == f[k]
               h == f[k + 1]
    <3>1. h = Append(g, e) /\ g \in Seq(T) /\ e \in T
      BY <2>1, <2>2, <2>5
    <3>2. /\ h \in Seq(T) /\ Len(h) = Len(g) + 1
          /\ \A r : Has(h, r) <=> Has(g, r) \/ r = e
          /\ Once(g) /\ ~Has(g, e) => Once(h)
      <4> HIDE DEF e, g, h
      <4> QED BY <3>1, AppendHas
    <3>3. \A r : Has(g, r) <=> \E i \in 1..k : list[i] = r /\ r \in S
      BY <2>1
    <3> HIDE DEF g, h
    <3>6. \A r : Has(h, r) <=> \E i \in 1..(k + 1) : list[i] = r /\ r \in S
      BY <2>3, <2>5, <3>2, <3>3
    <3>7. ASSUME Once(list) PROVE Once(h)
      <4>1. ~Has(g, e)
        <5>1. \A i \in 1..k : i \in 1..n /\ i # k + 1
          BY <1>1, <2>1
        <5>2. \A i \in 1..k : list[i] # list[k + 1]
          BY <1>1, <2>1, <3>7, <5>1 DEF Once
        <5> QED BY <3>3, <5>2
      <4>2. Once(g)
        BY <2>1, <3>7 DEF g
      <4> HIDE DEF e
      <4> QED BY <3>2, <4>1, <4>2
    <3>8. Places(list, S, k + 1) = Places(list, S, k) \cup {k + 1} /\ k + 1 \notin Places(list, S, k)
      BY <2>3, <2>5 DEF Places
    <3>9. /\ IsFiniteSet(Places(list, S, k + 1))
          /\ Cardinality(Places(list, S, k + 1)) = Cardinality(Places(list, S, k)) + 1
      BY <2>1, <3>8, FS_AddElement
    <3>10. Len(g) = Cardinality(Places(list, S, k))
      BY <2>1 DEF g
    <3> QED BY <3>2, <3>6, <3>7, <3>9, <3>10 DEF h
  <2> QED BY <2>4, <2>5
<1>5. Good(n)
  <2>1. n \in N
    <3> HIDE DEF N
    <3> QED BY <1>1, <1>3, <1>4, SetInduction
  <2> HIDE DEF Good
  <2> QED BY <1>1, <2>1
<1>6. \A r : Has(Only(list, S), r) <=> Has(list, r) /\ r \in S
  BY <1>1, <1>2, <1>5 DEF Has
<1> QED BY <1>2, <1>5, <1>6 DEF n

\* The numbers up to m.
LEMMA UpTo ==
  ASSUME NEW m \in Nat
  PROVE  IsFiniteSet(1..m) /\ Cardinality(1..m) = m
<1>1. IsFiniteSet(1..m) /\ Cardinality(1..m) = IF 1 > m THEN 0 ELSE m - 1 + 1
  BY FS_Interval
<1> QED BY <1>1

\* Taking a run out and putting it at the end changes the order alone.
LEMMA TouchedFacts ==
  ASSUME NEW r, registry \in Seq(Run), Once(registry)
  PROVE  /\ Touched(r) \in Seq(Run)
         /\ Once(Touched(r))
         /\ \A q : Has(Touched(r), q) <=> Has(registry, q)
         /\ Len(Touched(r)) <= Len(registry)
<1> DEFINE W == Without({r})
           P == Places(registry, Run \ {r}, Len(registry))
<1>1. /\ W \in Seq(Run) /\ Once(W) /\ \A q : Has(W, q) <=> Has(registry, q) /\ q \in Run \ {r}
      /\ Len(W) = Cardinality(P)
  BY OnlyFacts DEF Without
<1>2. \A q : Has(registry, q) => q \in Run
  BY DEF Has
<1>3. CASE ~Registered(r)
  BY <1>3 DEF Touched
<1>4. CASE Registered(r)
  <2>1. Touched(r) = Append(W, r)
    BY <1>4 DEF Touched
  <2>2. ~Has(W, r) /\ Has(registry, r) /\ r \in Run
    BY <1>1, <1>2, <1>4 DEF Registered, Has
  <2>3. PICK p \in 1..Len(registry) : registry[p] = r
    BY <2>2 DEF Has
  <2>4. IsFiniteSet(1..Len(registry)) /\ Cardinality(1..Len(registry)) = Len(registry)
    BY UpTo
  <2>5. P \subseteq 1..Len(registry) /\ p \notin P
    BY <2>3 DEF Places
  <2> DEFINE Rest == (1..Len(registry)) \ {p}
  <2>6. P \in SUBSET Rest
    BY <2>5
  <2>7. IsFiniteSet(Rest) /\ Cardinality(Rest) = Len(registry) - 1
    BY <2>3, <2>4, FS_RemoveElement
  <2>8. IsFiniteSet(P) /\ Cardinality(P) <= Len(registry) - 1
    <3> HIDE DEF P, Rest
    <3> QED BY <2>6, <2>7, FS_Subset
  <2> HIDE DEF W, P
  <2>9. /\ Append(W, r) \in Seq(Run) /\ Once(Append(W, r)) /\ Len(Append(W, r)) = Len(W) + 1
        /\ \A q : Has(Append(W, r), q) <=> Has(W, q) \/ q = r
    BY <1>1, <2>2, AppendHas
  <2>10. Len(Append(W, r)) <= Len(registry)
    BY <1>1, <2>8, <2>9, FS_CardinalityType
  <2> QED
    BY <1>1, <1>2, <2>1, <2>2, <2>9, <2>10
<1> QED BY <1>3, <1>4

\* The logs that a sweep drops leave, the others stay.
LEMMA WithoutFacts ==
  ASSUME NEW S, registry \in Seq(Run), Once(registry)
  PROVE  /\ Without(S) \in Seq(Run)
         /\ Once(Without(S))
         /\ \A q : Has(Without(S), q) <=> Has(registry, q) /\ q \notin S
         /\ Len(Without(S)) <= Len(registry)
<1> DEFINE P == Places(registry, Run \ S, Len(registry))
<1>1. /\ Without(S) \in Seq(Run) /\ Once(Without(S)) /\ Len(Without(S)) = Cardinality(P)
      /\ \A q : Has(Without(S), q) <=> Has(registry, q) /\ q \in Run \ S
  BY OnlyFacts DEF Without
<1>2. \A q : Has(registry, q) => q \in Run
  BY DEF Has
<1>3. P \in SUBSET (1..Len(registry))
  BY DEF Places
<1>4. IsFiniteSet(1..Len(registry)) /\ Cardinality(1..Len(registry)) = Len(registry)
  BY UpTo
<1>5. Cardinality(P) <= Len(registry)
  BY <1>3, <1>4, FS_Subset
<1> QED BY <1>1, <1>2, <1>5

\* A new log displaces idle ones, the least recently used first, and only when the
\* registry is full; where no more than its limit is left, or nothing idle.
LEMMA NewLogFacts ==
  ASSUME NEW n \in Run, registry \in Seq(Run), Once(registry), ~Has(registry, n)
  PROVE  /\ WithNewLog(n) \in Seq(Run)
         /\ Once(WithNewLog(n))
         /\ \A q : Has(WithNewLog(n), q) => Has(registry, q) \/ q = n
         /\ \A q : Has(registry, q) /\ ~Has(WithNewLog(n), q) =>
              ~Tailed(q) /\ Len(registry) >= MaxLogs
         /\ Len(WithNewLog(n)) <= MaxLogs \/ \A q : Has(WithNewLog(n), q) => Tailed(q)
<1> DEFINE Idle == {r \in Run : ~Tailed(r)}
           logs == Append(registry, n)
           idle == Only(logs, Idle)
           excess == Len(logs) - MaxLogs
           evicted == {idle[i] : i \in DOMAIN idle \cap 1..excess}
           new == Only(logs, Run \ evicted)
           size == Len(logs)
<1>1. WithNewLog(n) = new
  BY DEF WithNewLog
<1>2. /\ logs \in Seq(Run) /\ Once(logs) /\ size = Len(registry) + 1
      /\ \A q : Has(logs, q) <=> Has(registry, q) \/ q = n
  BY AppendHas
<1>3. \A q : Has(logs, q) => q \in Run
  BY <1>2 DEF Has
<1>4. MaxLogs \in Nat \ {0} /\ Len(registry) \in Nat
  BY BoundAssumption
<1> HIDE DEF logs
<1>5. size \in Nat /\ DOMAIN logs = 1..size /\ excess \in Int
  BY <1>2, <1>4
<1>6. idle \in Seq(Run) /\ Once(idle) /\ \A q : Has(idle, q) <=> Has(logs, q) /\ q \in Idle
  <2> HIDE DEF Idle
  <2> QED BY <1>2, OnlyFacts
<1>7. /\ new \in Seq(Run) /\ Once(new) /\ \A q : Has(new, q) <=> Has(logs, q) /\ q \in Run \ evicted
      /\ Len(new) = Cardinality(Places(logs, Run \ evicted, size))
  <2> HIDE DEF evicted
  <2> QED BY <1>2, OnlyFacts
<1> HIDE DEF idle, new
<1>8. \A q \in evicted : q \in Idle /\ Has(logs, q) /\ excess > 0
  <2> SUFFICES ASSUME NEW i \in DOMAIN idle, i \in 1..excess
               PROVE  idle[i] \in Idle /\ Has(logs, idle[i]) /\ excess > 0
    OBVIOUS
  <2>1. Has(idle, idle[i])
    BY DEF Has
  <2>2. excess > 0
    BY <1>5
  <2> HIDE DEF Idle, excess
  <2> QED BY <1>6, <2>1, <2>2
<1>9. \A q : Has(registry, q) /\ ~Has(new, q) => q \in evicted
  <2> HIDE DEF evicted
  <2> QED BY <1>2, <1>3, <1>7
<1>10. \A q : Has(registry, q) /\ ~Has(new, q) => ~Tailed(q) /\ Len(registry) >= MaxLogs
  <2>1. excess > 0 => Len(registry) >= MaxLogs
    BY <1>2, <1>4
  <2> HIDE DEF evicted, excess
  <2> QED BY <1>8, <1>9, <2>1
<1>11. IsFiniteSet(1..size) /\ Cardinality(1..size) = size
  BY <1>5, UpTo
<1>12. CASE excess <= 0
  <2> DEFINE P == Places(logs, Run \ evicted, size)
  <2>1. P \in SUBSET (1..size)
    BY DEF Places
  <2>2. Cardinality(P) <= size
    BY <1>11, <2>1, FS_Subset
  <2>3. Len(new) <= MaxLogs
    BY <1>4, <1>5, <1>7, <1>12, <2>2
  <2> QED BY <1>1, <1>2, <1>7, <1>10, <2>3
<1>13. CASE excess > Len(idle)
  <2>1. \A i \in DOMAIN idle : i \in 1..excess
    BY <1>5, <1>6, <1>13
  <2>2. \A q : Has(idle, q) => q \in evicted
    BY <2>1 DEF Has
  <2>3. \A q : Has(new, q) => Tailed(q)
    <3> SUFFICES ASSUME NEW q, Has(new, q), ~Tailed(q) PROVE FALSE
      OBVIOUS
    <3>1. Has(logs, q) /\ q \in Run /\ q \notin evicted
      BY <1>7
    <3>2. Has(idle, q)
      BY <1>6, <3>1
    <3> QED BY <2>2, <3>1, <3>2
  <2> QED BY <1>1, <1>2, <1>7, <1>10, <2>3
<1>14. CASE excess > 0 /\ excess <= Len(idle)
  <2> DEFINE Gone == Places(logs, evicted, size)
             place == [i \in 1..excess |-> CHOOSE p \in 1..size : logs[p] = idle[i]]
  <2>1. \A i \in 1..excess : i \in DOMAIN idle /\ idle[i] \in evicted
    BY <1>5, <1>6, <1>14
  <2>2. \A i \in 1..excess : \E p \in 1..size : logs[p] = idle[i]
    <3> SUFFICES ASSUME NEW i \in 1..excess PROVE \E p \in 1..size : logs[p] = idle[i]
      OBVIOUS
    <3>1. Has(logs, idle[i])
      BY <1>8, <2>1
    <3> QED BY <1>5, <3>1 DEF Has
  <2>3. \A i \in 1..excess : place[i] \in 1..size /\ logs[place[i]] = idle[i]
    <3> HIDE DEF excess, size
    <3> QED BY <2>2
  <2>4. place \in [1..excess -> Gone]
    <3>1. \A i \in 1..excess : place[i] \in Gone
      <4> HIDE DEF excess, size, evicted, place
      <4> QED BY <2>1, <2>3 DEF Places
    <3>2. place = [i \in 1..excess |-> place[i]]
      <4> HIDE DEF excess, size
      <4> QED OBVIOUS
    <3> HIDE DEF place, Gone, excess
    <3> QED BY <3>1, <3>2
  <2>5. \A i, j \in 1..excess : place[i] = place[j] => i = j
    <3> HIDE DEF excess, size, evicted, place
    <3> QED BY <1>6, <2>1, <2>3 DEF Once
  <2>6. place \in Injection(1..excess, Gone)
    <3> HIDE DEF place, Gone, excess
    <3> QED BY <2>4, <2>5 DEF Injection, IsInjective
  <2>7. Gone \in SUBSET (1..size)
    BY DEF Places
  <2>8. IsFiniteSet(Gone) /\ Cardinality(Gone) \in Nat
    BY <1>11, <2>7, FS_Subset, FS_CardinalityType
  <2>9. Cardinality(1..excess) <= Cardinality(Gone) /\ Cardinality(1..excess) = excess
    <3>1. Cardinality(1..excess) = excess
      BY <1>5, <1>14, FS_Interval
    <3> HIDE DEF place, Gone, excess
    <3> QED BY <2>6, <2>8, <3>1, FS_Injection
  <2>10. Places(logs, Run \ evicted, size) = (1..size) \ Gone
    <3>1. \A p \in 1..size : logs[p] \in Run
      BY <1>2, <1>5
    <3> HIDE DEF evicted, size
    <3> QED BY <3>1 DEF Places
  <2>11. (1..size) \cap Gone = Gone
    BY <2>7
  <2>12. Cardinality((1..size) \ Gone) = size - Cardinality(Gone)
    <3> DEFINE all == 1..size
    <3>1. IsFiniteSet(all) /\ Cardinality(all) = size /\ all \cap Gone = Gone
      BY <1>11, <2>11
    <3>2. Cardinality(all \ Gone) = size - Cardinality(Gone)
      <4> HIDE DEF all, Gone, size
      <4>1. Cardinality(all \ Gone) = Cardinality(all) - Cardinality(all \cap Gone)
        BY <3>1, FS_Difference, Zenon
      <4> QED BY <3>1, <4>1, Zenon
    <3> QED BY <3>2
  <2>13. Len(new) <= MaxLogs
    <3>1. Len(new) = size - Cardinality(Gone)
      BY <1>7, <2>10, <2>12
    <3> HIDE DEF Gone
    <3> QED BY <1>4, <1>5, <2>8, <2>9, <3>1
  <2> QED BY <1>1, <1>2, <1>7, <1>10, <2>13
<1> QED
  <2>1. Len(idle) \in Nat
    BY <1>6
  <2> HIDE DEF excess
  <2> QED BY <1>5, <1>12, <1>13, <1>14, <2>1

\* Each log is registered once, from the creation of its run on.
RegistryInv ==
    /\ registry \in Seq(Run)
    /\ Once(registry)
    /\ \A r : Has(registry, r) => r <= Len(origin)

\* What a step does to the registry.
LEMMA RegistryFrame ==
  ASSUME IInv, [Next]_vars
  PROVE  \/ UNCHANGED <<registry, origin>>
         \/ UNCHANGED origin /\ \E r : registry' = Touched(r)
         \/ UNCHANGED origin /\ SweepOnce
         \/ \E k \in Key \cup {NoKey}, b \in Body : CreateRun(k, b)
<1>1. CASE \E k \in Key : RefuseRun(k)
  BY <1>1 DEF RefuseRun
<1>2. ASSUME NEW r \in Run,
             \/ StartRun(r) \/ RunCallback(r) \/ Cancelled(r)
             \/ BeginWork(r) \/ Emit(r) \/ Ask(r) \/ GiveUp(r)
             \/ \E result \in Result : EndWork(r, result)
             \/ StopRun(r) \/ ResolveApproval(r)
      PROVE  UNCHANGED <<registry, origin>>
  <2>1. CASE StartRun(r) \/ RunCallback(r) \/ Cancelled(r)
    BY Zenon, <2>1 DEF StartRun, RunCallback, Cancelled, runVars
  <2>2. CASE \/ BeginWork(r) \/ Emit(r) \/ Ask(r) \/ GiveUp(r)
             \/ \E result \in Result : EndWork(r, result)
             \/ StopRun(r) \/ ResolveApproval(r)
    BY Zenon, <2>2 DEF BeginWork, Emit, Ask, GiveUp, EndWork, StopRun, ResolveApproval,
                       runVars
  <2> QED BY <1>2, <2>1, <2>2
<1>3. CASE RecordApproval
  BY Zenon, <1>3 DEF RecordApproval, runVars
<1>4. CASE Tick
  BY <1>4 DEF Tick, runVars
<1>5. CASE SweepOnce
  BY <1>5 DEF SweepOnce
<1>6. ASSUME NEW x \in Reader,
             \/ \E r \in Run, after \in 0..MaxEvents : OpenEvents(x, r, after)
             \/ BeginTail(x) \/ SentEvent(x) \/ WakeReader(x) \/ SentClosed(x)
             \/ LoseReader(x)
      PROVE  UNCHANGED origin /\ (UNCHANGED registry \/ \E r : registry' = Touched(r))
  <2>1. CASE \E r \in Run, after \in 0..MaxEvents : OpenEvents(x, r, after)
    BY Zenon, <2>1 DEF OpenEvents, runVars
  <2>2. CASE BeginTail(x)
    BY Zenon, <2>2 DEF BeginTail, runVars
  <2>3. CASE SentEvent(x) \/ WakeReader(x) \/ SentClosed(x) \/ LoseReader(x)
    BY Zenon, <2>3 DEF SentEvent, WakeReader, SentClosed, LoseReader, runVars
  <2> QED BY <1>6, <2>1, <2>2, <2>3
<1>7. CASE UNCHANGED vars
  BY <1>7 DEF vars, runVars
<1> QED
  BY <1>1, <1>2, <1>3, <1>4, <1>5, <1>6, <1>7 DEF Next

\* How a log leaves the registry: a sweep takes it, being old and without a run
\* that goes on, or the log of a new run displaces it, while nobody reads it and
\* the registry is full.
LeavesRightly(r) ==
    \/ SweepOnce /\ Droppable(r)
    \/ started' > started /\ ~Tailed(r) /\ Len(registry) >= MaxLogs

\* How far it grows: to its limit, or beyond it when every log is being read.
GrowsRightly ==
    Len(registry') > Len(registry) =>
        Len(registry') <= MaxLogs \/ \A r \in Run : Registered(r)' => Tailed(r)

\* One step.
LEMMA RegistryStep ==
  ASSUME IInv, RegistryInv, [Next]_vars
  PROVE  /\ RegistryInv'
         /\ \A r : Has(registry, r) /\ ~Has(registry', r) => LeavesRightly(r)
         /\ GrowsRightly
<1>1. registry \in Seq(Run) /\ Once(registry) /\ Shape /\ Len(registry) \in Nat
  BY DEF RegistryInv, IInv
<1>2. Len(origin) \in Nat
  BY <1>1 DEF Shape
<1>3. CASE UNCHANGED <<registry, origin>>
  BY <1>1, <1>3 DEF RegistryInv, GrowsRightly
<1>4. ASSUME UNCHANGED origin, NEW r, registry' = Touched(r)
      PROVE  /\ RegistryInv'
             /\ \A q : Has(registry, q) /\ ~Has(registry', q) => LeavesRightly(q)
             /\ GrowsRightly
  <2>1. /\ registry' \in Seq(Run) /\ Once(registry')
        /\ \A q : Has(registry', q) <=> Has(registry, q)
        /\ Len(registry') <= Len(registry)
    BY <1>1, <1>4, TouchedFacts
  <2>2. ~(Len(registry') > Len(registry))
    BY <1>1, <2>1
  <2> QED BY <1>4, <2>1, <2>2 DEF RegistryInv, GrowsRightly
<1>5. ASSUME UNCHANGED origin, SweepOnce
      PROVE  /\ RegistryInv'
             /\ \A q : Has(registry, q) /\ ~Has(registry', q) => LeavesRightly(q)
             /\ GrowsRightly
  <2> DEFINE dropped == {r \in Run : Registered(r) /\ Droppable(r)}
  <2>1. registry' = Without(dropped)
    BY Zenon, <1>5 DEF SweepOnce
  <2>2. \A q \in dropped : Droppable(q)
    OBVIOUS
  <2> HIDE DEF dropped
  <2>3. /\ registry' \in Seq(Run) /\ Once(registry')
        /\ \A q : Has(registry', q) <=> Has(registry, q) /\ q \notin dropped
        /\ Len(registry') <= Len(registry)
    BY <1>1, <2>1, WithoutFacts
  <2>4. ~(Len(registry') > Len(registry))
    BY <1>1, <2>3
  <2>5. \A q : Has(registry, q) /\ ~Has(registry', q) => LeavesRightly(q)
    BY <1>5, <2>2, <2>3 DEF LeavesRightly
  <2> QED BY <1>5, <2>3, <2>4, <2>5 DEF RegistryInv, GrowsRightly
<1>6. ASSUME NEW k \in Key \cup {NoKey}, NEW b \in Body, CreateRun(k, b)
      PROVE  /\ RegistryInv'
             /\ \A q : Has(registry, q) /\ ~Has(registry', q) => LeavesRightly(q)
             /\ GrowsRightly
  <2> DEFINE n == Len(origin) + 1
  <2>1. /\ n <= MaxRuns /\ registry' = WithNewLog(n)
        /\ origin' = Append(origin, [key |-> k, body |-> b, at |-> clock])
    BY Zenon, <1>6 DEF CreateRun, started
  <2>2. n \in Run /\ Len(origin') = n
    BY <1>1, <1>2, <2>1 DEF Shape, Run
  <2>3. ~Has(registry, n)
    BY <1>2 DEF RegistryInv
  <2>4. \A r : Has(registry, r) => r \in Nat /\ r <= n
    <3>1. \A r : Has(registry, r) => r \in Run
      BY <1>1 DEF Has
    <3> QED BY <1>2, <3>1 DEF RegistryInv, Run
  <2> HIDE DEF n
  <2>5. /\ registry' \in Seq(Run) /\ Once(registry')
        /\ \A q : Has(registry', q) => Has(registry, q) \/ q = n
        /\ \A q : Has(registry, q) /\ ~Has(registry', q) =>
             ~Tailed(q) /\ Len(registry) >= MaxLogs
        /\ Len(registry') <= MaxLogs \/ \A q : Has(registry', q) => Tailed(q)
    BY <1>1, <2>1, <2>2, <2>3, NewLogFacts, Zenon
  <2>6. RegistryInv'
    BY <2>2, <2>4, <2>5 DEF RegistryInv, Run
  <2>7. Len(origin') > Len(origin)
    BY <1>2, <2>2 DEF n
  <2>8. \A q : Has(registry, q) /\ ~Has(registry', q) => LeavesRightly(q)
    BY <2>5, <2>7 DEF LeavesRightly, started
  <2>9. \A r \in Run : Registered(r)' <=> Has(registry', r)
    BY DEF Registered, Has
  <2>10. GrowsRightly
    BY <2>5, <2>9 DEF GrowsRightly
  <2> QED BY <2>6, <2>8, <2>10
<1> QED
  BY <1>3, <1>4, <1>5, <1>6, RegistryFrame

\* It holds from the start.
LEMMA RegistryInvariant == Spec => []RegistryInv
<1>1. Init => RegistryInv
  BY DEF Init, RegistryInv, Once, Has
<1>2. IInv /\ RegistryInv /\ [Next]_vars => RegistryInv'
  BY RegistryStep
<1> QED
  BY <1>1, <1>2, Invariant, PTL DEF Spec

\* _evict_logs takes no log that somebody reads, and none while there is room; the
\* sweeper takes none of a run that goes on.
THEOREM LogsLeave ==
  Spec => [][\A r \in Run : Registered(r) /\ ~Registered(r)' => LeavesRightly(r)]_vars
<1>1. IInv /\ RegistryInv /\ [Next]_vars =>
        [\A r \in Run : Registered(r) /\ ~Registered(r)' => LeavesRightly(r)]_vars
  <2> SUFFICES ASSUME IInv, RegistryInv, [Next]_vars, NEW r \in Run,
                      Registered(r), ~Registered(r)'
               PROVE  LeavesRightly(r)
    OBVIOUS
  <2>1. Has(registry, r) /\ ~Has(registry', r)
    BY DEF Registered, Has
  <2> QED BY <2>1, RegistryStep
<1> QED
  BY <1>1, Invariant, RegistryInvariant, PTL DEF Spec

\* The registry grows beyond max_logs only when every log in it is being read.
THEOREM RegistryStaysBounded == Spec => [][GrowsRightly]_vars
<1>1. IInv /\ RegistryInv /\ [Next]_vars => [GrowsRightly]_vars
  BY RegistryStep
<1> QED
  BY <1>1, Invariant, RegistryInvariant, PTL DEF Spec

-----------------------------------------------------------------------------
(* Types                                                                    *)

ReaderRecord ==
    [pc : {"off", "headers", "send", "wait", "expired", "closing", "closed", "gone"},
     run : 0..MaxRuns, after : Nat, cursor : Nat, upto : Nat, seen : Nat,
     got : SUBSET Nat]

LogTyped(l) == l.at <= MaxClock /\ l.floor <= Len(l.events)

\* What the invariants above do not say: times are bounded, a log does not begin
\* after its end, and readers have their fields.
TypesInv ==
    /\ clock <= MaxClock
    /\ \A r \in Run : status[r].at <= MaxClock /\ LogTyped(log[r])
    /\ reader \in [Reader -> ReaderRecord]

\* Only a tick moves the clock.
LEMMA ClockStep ==
  ASSUME [Next]_vars
  PROVE  UNCHANGED clock \/ (clock < MaxClock /\ clock' = clock + 1)
<1>1. ASSUME NEW r \in Run,
             \/ StartRun(r) \/ RunCallback(r) \/ Cancelled(r)
             \/ BeginWork(r) \/ Emit(r) \/ Ask(r) \/ GiveUp(r)
             \/ \E result \in Result : EndWork(r, result)
             \/ StopRun(r) \/ ResolveApproval(r)
      PROVE  UNCHANGED clock
  BY Zenon, <1>1 DEF StartRun, RunCallback, Cancelled, BeginWork, Emit, Ask, GiveUp, EndWork,
                     StopRun, ResolveApproval
<1>2. ASSUME NEW x \in Reader,
             \/ \E r \in Run, after \in 0..MaxEvents : OpenEvents(x, r, after)
             \/ BeginTail(x) \/ SentEvent(x) \/ WakeReader(x) \/ SentClosed(x)
             \/ LoseReader(x)
      PROVE  UNCHANGED clock
  BY <1>2, ReaderFrame
<1>3. ASSUME \/ \E k \in Key \cup {NoKey}, b \in Body : CreateRun(k, b)
             \/ \E k \in Key : RefuseRun(k)
             \/ RecordApproval \/ SweepOnce
      PROVE  UNCHANGED clock
  BY Zenon, <1>3 DEF CreateRun, RefuseRun, RecordApproval, SweepOnce
<1>4. CASE Tick
  BY <1>4 DEF Tick
<1>5. CASE UNCHANGED vars
  BY <1>5 DEF vars
<1> QED
  BY <1>1, <1>2, <1>3, <1>4, <1>5 DEF Next

\* A step that is not of a reader appends to one log, closes it or creates one.
LEMMA LogChange ==
  ASSUME IInv, [Next]_vars,
         ~\E x \in Reader :
            \/ \E q \in Run, after \in 0..MaxEvents : OpenEvents(x, q, after)
            \/ BeginTail(x) \/ SentEvent(x) \/ WakeReader(x) \/ SentClosed(x)
            \/ LoseReader(x)
  PROVE  /\ UNCHANGED reader
         /\ \/ UNCHANGED log
            \/ \E r \in Run, k \in Kind : \E l \in Appended(log[r], k) \cup {log[r]} :
                 SetLog(r, l) \/ SetLog(r, Closed(l))
            \/ \E n : SetLog(n, [EmptyLog EXCEPT !.at = clock])
<1>1. Terminal \subseteq Kind /\ "approval.responded" \in Kind
  BY DEF Kind
<1>2. "run.completed" \in Kind /\ "run.failed" \in Kind /\ "run.cancelled" \in Kind
  BY DEF Kind, Terminal
<1>3. ASSUME NEW r \in Run, NEW s, NEW k \in Kind,
             \E l \in Appended(log[r], k) \cup {log[r]} : End(r, s, l)
      PROVE  \E q \in Run, j \in Kind : \E l \in Appended(log[q], j) \cup {log[q]} :
               SetLog(q, l) \/ SetLog(q, Closed(l))
  BY Zenon, <1>3 DEF End
<1>4. ASSUME NEW r \in Run, Fail(r)
      PROVE  \E q \in Run, j \in Kind : \E l \in Appended(log[q], j) \cup {log[q]} :
               SetLog(q, l) \/ SetLog(q, Closed(l))
  BY <1>2, <1>3, <1>4 DEF Fail
<1>5. CASE \E k \in Key \cup {NoKey}, b \in Body : CreateRun(k, b)
  BY Zenon, <1>5 DEF CreateRun
<1>6. CASE (\E k \in Key : RefuseRun(k)) \/ Tick \/ SweepOnce
  BY Zenon, <1>6 DEF RefuseRun, Tick, SweepOnce
<1>7. ASSUME NEW r \in Run,
             \/ StartRun(r) \/ RunCallback(r) \/ Cancelled(r)
             \/ BeginWork(r) \/ Emit(r) \/ Ask(r) \/ GiveUp(r)
             \/ \E result \in Result : EndWork(r, result)
             \/ StopRun(r) \/ ResolveApproval(r)
      PROVE  /\ UNCHANGED reader
             /\ \/ UNCHANGED log
                \/ \E q \in Run, k \in Kind : \E l \in Appended(log[q], k) \cup {log[q]} :
                     SetLog(q, l) \/ SetLog(q, Closed(l))
  <2>1. CASE StartRun(r)
    <3>1. UNCHANGED reader /\ (UNCHANGED log \/ Fail(r))
      BY Zenon, <2>1 DEF StartRun
    <3> QED BY <1>4, <3>1
  <2>2. CASE RunCallback(r)
    <3>1. /\ UNCHANGED reader
          /\ \/ \E k \in Kind : \E l \in Appended(log[r], k) \cup {log[r]} : SetLog(r, l)
             \/ \E k \in Result : Returned(r, k)
             \/ UNCHANGED log
      BY Zenon, <2>2 DEF RunCallback
    <3>2. ASSUME NEW k \in Result, Returned(r, k)
          PROVE  \/ \E j \in Kind : \E s : \E l \in Appended(log[r], j) \cup {log[r]} : End(r, s, l)
                 \/ Fail(r)
      BY <1>2, <3>2 DEF Returned
    <3> QED BY <1>3, <1>4, <3>1, <3>2
  <2>3. CASE Cancelled(r)
    <3>1. UNCHANGED reader /\ \E l \in Appended(log[r], "run.cancelled") : End(r, "cancelled", l)
      BY Zenon, <2>3 DEF Cancelled
    <3> QED BY <1>2, <1>3, <3>1
  <2>4. CASE \/ BeginWork(r) \/ Emit(r) \/ Ask(r) \/ GiveUp(r)
             \/ \E result \in Result : EndWork(r, result)
             \/ StopRun(r) \/ ResolveApproval(r)
    BY Zenon, <2>4 DEF BeginWork, Emit, Ask, GiveUp, EndWork, StopRun, ResolveApproval
  <2> QED BY <1>7, <2>1, <2>2, <2>3, <2>4
<1>8. CASE RecordApproval
  <2>1. recording \in Run
    BY <1>8 DEF RecordApproval, IInv, Shape, Run
  <2>2. /\ UNCHANGED reader
        /\ \/ UNCHANGED log
           \/ \E l \in Appended(log[recording], "approval.responded") : SetLog(recording, l)
    BY <1>8 DEF RecordApproval
  <2> QED BY <1>1, <2>1, <2>2
<1>9. CASE UNCHANGED vars
  BY <1>9 DEF vars
<1> QED
  BY <1>5, <1>6, <1>7, <1>8, <1>9 DEF Next

\* A turn of tail_after moves the beginning of a log no further than its end.
LEMMA ReplayTypes ==
  ASSUME Shape, TypesInv, NEW x \in Reader, NEW e \in ReaderRecord, e.run \in Run, Replay(x, e)
  PROVE  /\ \A r \in Run : LogTyped(log'[r])
         /\ reader' \in [Reader -> ReaderRecord]
<1>1. log[e.run] \in Logs /\ LogTyped(log[e.run]) /\ Len(log[e.run].events) \in Nat
  BY LogLengths DEF TypesInv
<1> DEFINE l == log[e.run]
           latest == Len(l.events)
<1>2. PICK f \in (l.floor..latest) \cup {l.floor} : SetLog(e.run, [l EXCEPT !.floor = f])
  BY Zenon DEF Replay
<1>3. f \in Nat /\ f <= latest
  BY <1>1 DEF Logs, LogTyped
<1>4. LogTyped([l EXCEPT !.floor = f])
  <2>1. /\ [l EXCEPT !.floor = f].at = l.at /\ [l EXCEPT !.floor = f].floor = f
        /\ [l EXCEPT !.floor = f].events = l.events
    BY <1>1 DEF Logs
  <2> QED BY <1>1, <1>3, <2>1 DEF LogTyped
<1>5. \A r \in Run : LogTyped(log'[r])
  <2>1. \A r \in Run : log'[r] = IF r = e.run THEN [l EXCEPT !.floor = f] ELSE log[r]
    BY <1>2 DEF SetLog, Shape
  <2> HIDE DEF l
  <2> QED BY <1>4, <2>1 DEF TypesInv
<1>6. Version(l) \in Nat
  <2>1. Version(l) \in {latest + 1, latest + 0}
    BY Zenon DEF Version
  <2> HIDE DEF latest
  <2>2. latest \in Nat
    BY <1>1 DEF latest
  <2> QED BY <2>1, <2>2
<1>7. \/ SetReader(x, [e EXCEPT !.pc = "expired"])
      \/ SetReader(x, [e EXCEPT !.pc = "send", !.upto = latest, !.seen = Version(l)])
      \/ SetReader(x, [e EXCEPT !.pc = "closing"])
      \/ SetReader(x, [e EXCEPT !.pc = "wait", !.seen = Version(l)])
  BY Zenon DEF Replay
<1>8. latest \in Nat
  BY <1>1
<1> HIDE DEF latest
<1>9. \A v \in Nat : /\ [e EXCEPT !.pc = "expired"] \in ReaderRecord
                     /\ [e EXCEPT !.pc = "send", !.upto = latest, !.seen = v] \in ReaderRecord
                     /\ [e EXCEPT !.pc = "closing"] \in ReaderRecord
                     /\ [e EXCEPT !.pc = "wait", !.seen = v] \in ReaderRecord
  BY <1>8 DEF ReaderRecord
<1>10. \E e2 \in ReaderRecord : SetReader(x, e2)
  <2> HIDE DEF l
  <2> QED BY Zenon, <1>6, <1>7, <1>9
<1>11. reader' \in [Reader -> ReaderRecord]
  BY <1>10 DEF SetReader, TypesInv
<1> QED BY <1>5, <1>11

\* The steps of a reader.
LEMMA ReaderTypes ==
  ASSUME IInv, ReadersInv, TypesInv, NEW x \in Reader,
         \/ \E r \in Run, after \in 0..MaxEvents : OpenEvents(x, r, after)
         \/ BeginTail(x) \/ SentEvent(x) \/ WakeReader(x) \/ SentClosed(x)
         \/ LoseReader(x)
  PROVE  /\ \A r \in Run : LogTyped(log'[r])
         /\ reader' \in [Reader -> ReaderRecord]
<1> DEFINE e == reader[x]
<1>1. e \in ReaderRecord /\ Shape /\ (e.pc # "off" => e.run \in Run)
  BY DEF TypesInv, IInv, ReadersInv, ReadInv
<1>2. ASSUME NEW f \in ReaderRecord, SetReader(x, f), UNCHANGED log
      PROVE  /\ \A r \in Run : LogTyped(log'[r])
             /\ reader' \in [Reader -> ReaderRecord]
  BY <1>2 DEF SetReader, TypesInv
<1>3. \A s \in {"gone", "closed", "wait", "closing"} : [e EXCEPT !.pc = s] \in ReaderRecord
  BY <1>1 DEF ReaderRecord
<1>4. ASSUME NEW r \in Run, NEW after \in 0..MaxEvents, OpenEvents(x, r, after)
      PROVE  /\ \A q \in Run : LogTyped(log'[q])
             /\ reader' \in [Reader -> ReaderRecord]
  <2> DEFINE f == [NoReader EXCEPT !.pc = "headers", !.run = r, !.after = after, !.cursor = after]
  <2>1. SetReader(x, f) /\ UNCHANGED log
    BY Zenon, <1>4 DEF OpenEvents
  <2>2. f \in ReaderRecord
    <3>1. r \in 0..MaxRuns /\ after \in Nat
      BY BoundAssumption DEF Run
    <3>2. NoReader \in ReaderRecord
      BY BoundAssumption DEF NoReader, ReaderRecord
    <3> QED BY <3>1, <3>2 DEF ReaderRecord
  <2> QED BY <1>2, <2>1, <2>2, Zenon
<1>5. CASE BeginTail(x)
  <2>1. e.pc = "headers"
    BY Zenon, <1>5 DEF BeginTail
  <2>2. Replay(x, e) \/ (SetReader(x, [e EXCEPT !.pc = "gone"]) /\ UNCHANGED log)
    BY Zenon, <1>5 DEF BeginTail
  <2> HIDE DEF e
  <2> QED BY <1>1, <1>2, <1>3, <2>1, <2>2, ReplayTypes
<1>6. CASE WakeReader(x)
  <2>1. e.pc = "wait" /\ Replay(x, e)
    BY Zenon, <1>6 DEF WakeReader
  <2> HIDE DEF e
  <2> QED BY <1>1, <2>1, ReplayTypes
<1>7. CASE SentClosed(x) \/ LoseReader(x)
  <2>1. UNCHANGED log /\ \E s \in {"gone", "closed"} : SetReader(x, [e EXCEPT !.pc = s])
    BY Zenon, <1>7 DEF SentClosed, LoseReader
  <2> HIDE DEF e
  <2> QED BY <1>2, <1>3, <2>1
<1>8. CASE SentEvent(x)
  <2> DEFINE f == [e EXCEPT !.cursor = @ + 1, !.got = @ \cup {e.cursor + 1}]
  <2>1. /\ e.pc = "send"
        /\ \/ SetReader(x, f) /\ UNCHANGED log
           \/ SetReader(x, [f EXCEPT !.pc = "closing"]) /\ UNCHANGED log
           \/ SetReader(x, [f EXCEPT !.pc = "wait"]) /\ UNCHANGED log
           \/ Replay(x, f)
    BY Zenon, <1>8 DEF SentEvent
  <2>2. f \in ReaderRecord /\ f.run = e.run
    <3>1. e.cursor + 1 \in Nat /\ e.got \cup {e.cursor + 1} \in SUBSET Nat
      BY <1>1 DEF ReaderRecord
    <3> HIDE DEF e
    <3>2. ASSUME NEW c \in Nat, NEW g \in SUBSET Nat
          PROVE  /\ [e EXCEPT !.cursor = c, !.got = g] \in ReaderRecord
                 /\ [e EXCEPT !.cursor = c, !.got = g].run = e.run
      BY <1>1 DEF ReaderRecord
    <3> QED BY Zenon, <3>1, <3>2
  <2> HIDE DEF f
  <2>3. [f EXCEPT !.pc = "closing"] \in ReaderRecord /\ [f EXCEPT !.pc = "wait"] \in ReaderRecord
    BY <2>2 DEF ReaderRecord
  <2>4. f.run \in Run
    BY <1>1, <2>1, <2>2
  <2> HIDE DEF e
  <2> QED BY <1>1, <1>2, <2>1, <2>2, <2>3, <2>4, ReplayTypes
<1> QED BY <1>4, <1>5, <1>6, <1>7, <1>8

\* An append ends a log at the present time.
LEMMA AppendTypes ==
  ASSUME NEW l \in Logs, LogTyped(l), NEW k \in Kind, clock \in Nat, clock <= MaxClock,
         NEW m \in Appended(l, k) \cup {l}
  PROVE  LogTyped(m) /\ LogTyped(Closed(m))
<1>1. CASE m = l
  <2>1. /\ Closed(l).at = clock /\ Closed(l).floor = l.floor /\ Closed(l).events = l.events
    BY DEF Closed, Logs
  <2> QED BY <1>1, <2>1 DEF LogTyped
<1>2. CASE m \in Appended(l, k)
  <2>1. PICK f \in l.floor..Len(l.events) :
          m = [l EXCEPT !.events = Append(@, k), !.floor = f, !.at = clock]
    BY Zenon, <1>2 DEF Appended
  <2>2. m.at = clock /\ m.floor = f /\ m.events = Append(l.events, k)
    BY <2>1 DEF Logs
  <2>3. l.events \in Seq(Kind) /\ Len(l.events) \in Nat
    BY DEF Logs
  <2>4. Len(m.events) = Len(l.events) + 1 /\ f \in Int /\ f <= Len(l.events)
    BY <2>1, <2>2, <2>3 DEF Logs
  <2>5. Closed(m).at = clock /\ Closed(m).floor = f /\ Closed(m).events = m.events
    BY <2>1, <2>2 DEF Closed, Logs
  <2>6. f <= Len(m.events)
    BY <2>3, <2>4
  <2> QED BY <2>2, <2>5, <2>6 DEF LogTyped
<1> QED BY <1>1, <1>2

\* A sequence of one set whose elements are in another.
LEMMA RestrictedSeq ==
  ASSUME NEW S, NEW T, NEW s \in Seq(S), \A i \in 1..Len(s) : s[i] \in T
  PROVE  s \in Seq(T)
<1>1. Len(s) \in Nat /\ s = [i \in 1..Len(s) |-> s[i]]
  OBVIOUS
<1>2. s \in [1..Len(s) -> T]
  BY <1>1
<1> QED BY <1>1, <1>2

\* Every step keeps the types.
LEMMA TypesStep ==
  ASSUME IInv, RetryInv, ReadersInv, TypesInv, [Next]_vars
  PROVE  TypesInv'
<1> DEFINE ReaderMoves == \E x \in Reader :
             \/ \E q \in Run, after \in 0..MaxEvents : OpenEvents(x, q, after)
             \/ BeginTail(x) \/ SentEvent(x) \/ WakeReader(x) \/ SentClosed(x)
             \/ LoseReader(x)
<1>1. Shape /\ clock \in Nat /\ MaxClock \in Nat /\ clock <= MaxClock
  BY BoundAssumption DEF IInv, Shape, TypesInv
<1>2. clock' <= MaxClock
  BY <1>1, ClockStep
<1>3. \A r \in Run : status'[r].at <= MaxClock
  <2>1. CASE \E k \in Key \cup {NoKey}, b \in Body : CreateRun(k, b)
    <3>1. \E n : SetStatus(n, "queued")
      BY Zenon, <2>1 DEF CreateRun
    <3> QED BY <1>1, <3>1 DEF SetStatus, Shape, TypesInv
  <2>2. CASE ~\E k \in Key \cup {NoKey}, b \in Body : CreateRun(k, b)
    <3>1. \A r \in Run : status'[r].at \in {status[r].at, clock}
      BY <2>2, RetryFrame
    <3> QED BY <1>1, <3>1 DEF TypesInv
  <2> QED BY <2>1, <2>2
<1>4. CASE ReaderMoves
  BY <1>2, <1>3, <1>4, ReaderTypes DEF TypesInv
<1>5. CASE ~ReaderMoves
  <2>1. /\ UNCHANGED reader
        /\ \/ UNCHANGED log
           \/ \E r \in Run, k \in Kind : \E l \in Appended(log[r], k) \cup {log[r]} :
                SetLog(r, l) \/ SetLog(r, Closed(l))
           \/ \E n : SetLog(n, [EmptyLog EXCEPT !.at = clock])
    BY <1>5, LogChange
  <2>2. \A r \in Run : LogTyped(log[r]) /\ log[r] \in Logs
    BY <1>1, LogLengths DEF TypesInv
  <2>3. ASSUME NEW q, NEW m, LogTyped(m), SetLog(q, m)
        PROVE  \A r \in Run : LogTyped(log'[r])
    BY <1>1, <2>2, <2>3 DEF SetLog, Shape
  <2>4. ASSUME NEW r \in Run, NEW k \in Kind, NEW l \in Appended(log[r], k) \cup {log[r]},
               SetLog(r, l) \/ SetLog(r, Closed(l))
        PROVE  \A q \in Run : LogTyped(log'[q])
    <3>1. LogTyped(l) /\ LogTyped(Closed(l))
      BY <1>1, <2>2, AppendTypes
    <3> QED BY <2>3, <2>4, <3>1
  <2>5. LogTyped([EmptyLog EXCEPT !.at = clock])
    BY <1>1 DEF EmptyLog, LogTyped
  <2>6. \A r \in Run : LogTyped(log'[r])
    BY <2>1, <2>2, <2>3, <2>4, <2>5
  <2> QED BY <1>2, <1>3, <2>1, <2>6 DEF TypesInv
<1> QED BY <1>4, <1>5

\* The types of the tables, of the logs and of the registry of agent_runner.py and
\* event_log.py.
THEOREM RunsTypeCorrect == Spec => []TypeOK
<1>1. Init => TypesInv
  <2>1. NoReader \in ReaderRecord
    BY BoundAssumption DEF NoReader, ReaderRecord
  <2>2. LogTyped(EmptyLog) /\ 0 <= MaxClock
    BY BoundAssumption DEF EmptyLog, LogTyped
  <2> QED BY <2>1, <2>2 DEF Init, TypesInv
<1>2. IInv /\ RetryInv /\ ReadersInv /\ TypesInv /\ [Next]_vars => TypesInv'
  BY TypesStep
<1>3. IInv /\ RetryInv /\ RegistryInv /\ TypesInv => TypeOK
  <2> SUFFICES ASSUME IInv, RetryInv, RegistryInv, TypesInv PROVE TypeOK
    OBVIOUS
  <2>1. Shape /\ MaxClock \in Nat /\ MaxRuns \in Nat
    BY BoundAssumption DEF IInv
  <2>2. clock \in 0..MaxClock
    BY <2>1 DEF Shape, TypesInv
  <2>3. started <= MaxRuns
    <3>1. Len(origin) \in Nat /\ DOMAIN origin = 1..Len(origin)
      BY <2>1 DEF Shape
    <3>2. CASE Len(origin) = 0
      BY <2>1, <3>2 DEF started
    <3>3. CASE Len(origin) # 0
      <4>1. Len(origin) \in DOMAIN origin
        BY <3>1, <3>3
      <4> QED BY <4>1 DEF RetryInv, AgeInv, Run, started
    <3> QED BY <3>2, <3>3
  <2>4. origin \in Seq([key : Key \cup {NoKey}, body : Body, at : 0..MaxClock])
    <3>1. Len(origin) \in Nat /\ DOMAIN origin = 1..Len(origin) /\ clock \in Nat
          /\ origin \in Seq([key : Key \cup {NoKey}, body : Body, at : Nat])
      BY <2>1 DEF Shape
    <3>2. ASSUME NEW m \in 1..Len(origin)
          PROVE  origin[m] \in [key : Key \cup {NoKey}, body : Body, at : 0..MaxClock]
      <4>1. origin[m] \in [key : Key \cup {NoKey}, body : Body, at : Nat]
        BY <3>1, ElementOfSeq
      <4>2. origin[m].at <= clock
        BY <3>1 DEF RetryInv, AgeInv
      <4>3. origin[m].at \in 0..MaxClock
        BY <2>1, <3>1, <4>1, <4>2 DEF TypesInv
      <4> QED BY <4>1, <4>3
    <3> QED BY <3>1, <3>2, RestrictedSeq
  <2>5. keys \in [Key -> 0..MaxRuns]
    <3>1. ASSUME NEW k \in Key PROVE keys[k] \in 0..MaxRuns
      <4>1. keys[k] # 0 => keys[k] \in DOMAIN origin
        BY DEF RetryInv, KeyInv, Tops, Same
      <4>2. keys[k] # 0 => keys[k] \in Run
        BY <4>1 DEF RetryInv, AgeInv
      <4> QED BY <2>1, <4>2 DEF Run
    <3> QED BY <3>1 DEF RetryInv
  <2>6. status \in [Run -> [state : Status, at : 0..MaxClock]]
    BY <2>1 DEF Shape, TypesInv
  <2>7. posted \in [Run -> Seq(Kind \cup Result)]
    <3>1. Reports \cup Result \subseteq Kind \cup Result
      BY DEF Reports, Kind
    <3>2. Seq(Reports \cup Result) \subseteq Seq(Kind \cup Result)
      BY <3>1
    <3> QED BY <2>1, <3>2 DEF Shape
  <2>8. ASSUME NEW r \in Run
        PROVE  /\ log[r] \in [events : Seq(Kind), floor : Nat, closed : BOOLEAN,
                              at : 0..MaxClock]
               /\ log[r].floor <= Len(log[r].events)
    <3>1. log[r] \in Logs /\ LogTyped(log[r])
      BY <2>1 DEF Shape, TypesInv
    <3> QED BY <2>1, <3>1 DEF Logs, LogTyped
  <2>9. reader \in [Reader ->
         [pc : {"off", "headers", "send", "wait", "expired", "closing", "closed", "gone"},
          run : 0..MaxRuns, after : Nat, cursor : Nat, upto : Nat, seen : Nat,
          got : SUBSET Nat]]
    BY DEF TypesInv, ReaderRecord
  <2>10. {cancelling, tasks, agents, approvals, stopped} \subseteq SUBSET Run
    BY <2>1 DEF Shape
  <2> QED
    BY <2>1, <2>2, <2>3, <2>4, <2>5, <2>6, <2>7, <2>8, <2>9, <2>10
    DEF TypeOK, Shape, RegistryInv
<1>4. Spec => []RetryInv
  BY Invariant, RetryInit, RetryStep, PTL DEF Spec
<1>5. Spec => []ReadersInv
  BY Invariant, ReadersInit, ReadersStep, PTL DEF Spec
<1> QED
  BY <1>1, <1>2, <1>3, <1>4, <1>5, Invariant, RegistryInvariant, PTL DEF Spec

=============================================================================
