------------------------------- MODULE Turns -------------------------------
(***************************************************************************)
(* The turns of one chat (adapter.py): a message of a client becomes a     *)
(* turn, is stored, recorded against retries, given to Hermes or queued    *)
(* behind the running turn; the turn runs in a session of Hermes, ends, or *)
(* is cancelled by a client.                                               *)
(*                                                                         *)
(* The client's frames are handled one at a time, so there is one handler, *)
(* `frame', which is cut at its awaits.  It interleaves with the session   *)
(* of Hermes, which calls back into the adapter.  Hermes is external.      *)
(***************************************************************************)
EXTENDS Naturals, Sequences, SequencesExt, FiniteSets

CONSTANTS
  Msgs,       \* client_message_ids
  Via,        \* how the client sends each: "chat", "queue" or "steer"
  MaxTurns,   \* bound: turns that are made
  MaxFaults   \* bound: failures and crashes

Intents == {"chat", "queue", "steer"}
Turn    == 1..MaxTurns
None    == 0

ASSUME TurnsAssumption ==
  /\ Via \in [Msgs -> Intents]
  /\ MaxTurns \in Nat \ {0} /\ MaxFaults \in Nat

VARIABLES
  made,       \* turns made so far; turn n is the n-th
  msg,        \* the message each was made for
  frame,      \* the handler of the frame in progress
  accepted,   \* the turn recorded for each message (memory and database)
  active,     \* _active_turns_by_chat
  requested,  \* turns whose entry there carries cancel_requested
  cancelled,  \* _cancelled_turns
  slot,       \* _pending_messages
  overflow,   \* _queued_events
  byId,       \* _queued_events_by_message_id
  runner,     \* whether Hermes has a runner with a queue of its own; constant
  stack,      \* the session: the turn it runs, and the queued turns its runner
              \* started inside it
  phase,      \* how far the innermost of them is
  kind,       \* the ending the outermost is about to have
  saved,      \* previous_active of the turns the runner started
  \* history
  given,      \* turns handed to Hermes or put in its queue
  endings,    \* the terminal events of each turn in the chat log
  raced,      \* turns cancelled when they had ended, or whose end ignores it
  spoiled,    \* turns a failure took out of their course
  unrecorded, \* messages given to Hermes whose record failed
  faults      \* failures so far

store   == <<made, msg, accepted>>
lives   == <<active, requested, cancelled>>
queue   == <<slot, overflow, byId>>
session == <<stack, phase, kind, saved>>
history == <<given, endings, raced, spoiled, unrecorded>>
vars    == <<store, frame, lives, queue, session, history, faults, runner>>

Kinds  == {"completed", "failed", "cancelled"}
Steps  == {"create", "record", "enqueue", "ack", "handover", "steer",
           "stop", "mark", "cancel", "clean"}
Idle   == [todo |-> <<>>, m |-> CHOOSE m \in Msgs : TRUE, t |-> None,
           queued |-> FALSE, before |-> None]
Busy(step) == frame.todo # <<>> /\ frame.todo[1] = step
Proceed    == frame' = [frame EXCEPT !.todo = Tail(frame.todo)]
Leave      == frame' = Idle
Fault      == faults < MaxFaults /\ faults' = faults + 1 /\ runner' = runner

TypeOK ==
  /\ made \in 0..MaxTurns
  /\ msg \in [Turn -> Msgs]
  /\ frame \in [todo : Seq(Steps), m : Msgs, t : Turn \cup {None},
                queued : BOOLEAN, before : Turn \cup {None}]
  /\ accepted \in [Msgs -> Turn \cup {None}]
  /\ active \in Turn \cup {None}
  /\ requested \subseteq Turn
  /\ cancelled \subseteq Turn
  /\ slot \in Turn \cup {None}
  /\ overflow \in Seq(Turn)
  /\ byId \subseteq Turn
  /\ runner \in BOOLEAN
  /\ stack \in Seq(Turn)
  /\ phase \in {"running", "ending", "ended", "over"}
  /\ kind \in Kinds
  /\ saved \in [Turn -> Turn \cup {None}]
  /\ given \subseteq Turn
  /\ endings \in [Turn -> Seq(Kinds)]
  /\ raced \subseteq Turn
  /\ spoiled \subseteq Turn
  /\ unrecorded \subseteq Msgs
  /\ faults \in 0..MaxFaults

Init ==
  /\ made = 0
  /\ msg \in {[t \in Turn |-> Idle.m]}
  /\ frame = Idle
  /\ accepted = [m \in Msgs |-> None]
  /\ active = None /\ requested = {} /\ cancelled = {}
  /\ slot = None /\ overflow = <<>> /\ byId = {}
  /\ runner \in BOOLEAN
  /\ stack = <<>> /\ phase = "over" /\ kind = "completed"
  /\ saved = [t \in Turn |-> None]
  /\ given = {}
  /\ endings = [t \in Turn |-> <<>>]
  /\ raced = {} /\ spoiled = {} /\ unrecorded = {}
  /\ faults = 0

-----------------------------------------------------------------------------
(* Accepting a message.                                                    *)

\* Mutant: looks at the turns of clients only.
BugShouldQueue == active # None

\* _should_queue_new_message
ShouldQueue == active # None \/ stack # <<>>

(* What a handler still has to do, one entry for each stretch between      *)
(* awaits.  chat_message records the message before Hermes gets it,        *)
(* message.queue and message.steer after.                                  *)
Path(intent, queued) ==
  CASE intent = "chat" /\ queued   -> <<"create", "record", "enqueue", "ack">>
    [] intent = "chat" /\ ~queued  -> <<"create", "record", "ack", "handover">>
    [] intent = "steer" /\ queued  -> <<"create", "steer", "record", "ack">>
    [] intent = "queue" /\ queued  -> <<"create", "enqueue", "record", "ack">>
    [] intent # "chat" /\ ~queued  -> <<"create", "handover", "record", "ack">>

(* The step that is about to end makes the turn active.                    *)
Activates == ~frame.queued /\ Len(frame.todo) > 1 /\ frame.t # None
             /\ frame.todo[1] = IF Via[frame.m] = "chat" THEN "record" ELSE "create"

\* Mutant: the lookup of repeated messages is missing.
BugReceive(m) ==
  /\ frame = Idle /\ made < MaxTurns
  /\ made' = made + 1
  /\ msg' = [msg EXCEPT ![made + 1] = m]
  /\ frame' = [todo |-> Path(Via[m], ShouldQueue), m |-> m, t |-> made + 1,
               queued |-> ShouldQueue, before |-> None]
  /\ UNCHANGED <<accepted, lives, queue, session, history, faults, runner>>

(* A frame that repeats a recorded message is only acknowledged again.     *)
Receive(m) ==
  /\ frame = Idle /\ accepted[m] = None /\ made < MaxTurns
  /\ made' = made + 1
  /\ msg' = [msg EXCEPT ![made + 1] = m]
  /\ frame' = [todo |-> Path(Via[m], ShouldQueue), m |-> m, t |-> made + 1,
               queued |-> ShouldQueue, before |-> None]
  /\ UNCHANGED <<accepted, lives, queue, session, history, faults, runner>>

(* message.created is in the log.                                          *)
Create ==
  /\ Busy("create")
  /\ active' = IF Activates THEN frame.t ELSE active
  /\ frame' = [frame EXCEPT !.todo = Tail(@),
                            !.before = IF frame.todo[2] = "steer" THEN slot ELSE None]
  /\ UNCHANGED <<store, requested, cancelled, queue, session, history, faults, runner>>

CreateFails ==
  /\ Fault
  /\ Busy("create")
  /\ Leave
  /\ UNCHANGED <<store, lives, queue, session, history>>

Record ==
  /\ Busy("record")
  /\ accepted' = [accepted EXCEPT ![frame.m] = frame.t]
  /\ active' = IF Activates THEN frame.t ELSE active
  /\ Proceed
  /\ UNCHANGED <<made, msg, requested, cancelled, queue, session, history, faults, runner>>

(* chat_message forgets what it may have recorded; the others have already *)
(* given the message to Hermes and answer with an error.                   *)
RecordFails ==
  /\ Fault
  /\ Busy("record")
  /\ Leave
  /\ unrecorded' = IF Via[frame.m] = "chat" THEN unrecorded
                   ELSE unrecorded \cup {frame.m}
  /\ UNCHANGED <<store, lives, queue, session, given, endings, raced, spoiled>>

(* _enqueue_message_event: Hermes's own queue behaves in the same way.     *)
Enqueue(first, t) ==
  /\ byId' = byId \cup {t}
  /\ IF first = None
     THEN slot' = t /\ overflow' = overflow
     ELSE slot' = first /\ overflow' = Append(overflow, t)
  /\ given' = given \cup {t}

(* turn.queued is in the log; the event goes into the queue.  Nobody will  *)
(* take it when the session has ended since the handler looked.            *)
Queue ==
  /\ Busy("enqueue")
  /\ Enqueue(slot, frame.t)
  /\ Proceed
  /\ spoiled' = IF stack = <<>> THEN spoiled \cup {frame.t} ELSE spoiled
  /\ UNCHANGED <<store, lives, session, endings, raced, unrecorded, faults, runner>>

(* The append of turn.queued raises and ends the connection.               *)
QueueFails ==
  /\ Fault
  /\ Busy("enqueue")
  /\ Leave
  /\ spoiled' = spoiled \cup {frame.t}
  /\ UNCHANGED <<store, lives, queue, session, given, endings, raced, unrecorded>>

(* Hermes steers its running turn by the text.                             *)
Steer ==
  /\ Busy("steer")
  /\ Proceed
  /\ UNCHANGED <<store, lives, queue, session, history, faults, runner>>

(* Hermes puts a copy of the text into the slot instead.  The handler      *)
(* takes it out again: it restores what was there before and queues its    *)
(* own event.                                                              *)
SteerFallsBack ==
  /\ Busy("steer")
  /\ Enqueue(frame.before, frame.t)
  /\ Proceed
  /\ spoiled' = spoiled \cup (IF stack = <<>> THEN {frame.t} ELSE {})
                        \cup (IF frame.before # slot THEN {frame.before, slot} \ {None} ELSE {})
  /\ UNCHANGED <<store, lives, session, endings, raced, unrecorded, faults, runner>>

SteerFails ==
  /\ Fault
  /\ Busy("steer")
  /\ Leave
  /\ UNCHANGED <<store, lives, queue, session, history>>

Acknowledge ==
  /\ Busy("ack")
  /\ IF Len(frame.todo) = 1 THEN Leave ELSE Proceed
  /\ UNCHANGED <<store, lives, queue, session, given, endings,
                 raced, spoiled, unrecorded, faults, runner>>

(* The socket is gone: the handler raises, and with it the connection      *)
(* ends.  A message that was not handed over yet never is, but the chat    *)
(* keeps it as its active turn.                                            *)
AcknowledgeFails ==
  /\ Fault
  /\ Busy("ack")
  /\ Leave
  /\ spoiled' = IF Len(frame.todo) > 1 THEN spoiled \cup {frame.t} ELSE spoiled
  /\ UNCHANGED <<store, lives, queue, session, given, endings, raced, unrecorded>>

(* on_processing_start, and the same in _start_runner_drained_queued_turn. *)
MakeActive(t) ==
  /\ active' = t
  /\ requested' = IF active = t THEN requested ELSE requested \ {t}

(* _cleanup_cancelled_turn *)
Cleanup(t) ==
  /\ cancelled' = cancelled \ {t}
  /\ active' = IF active = t THEN None ELSE active
  /\ UNCHANGED requested

(* _process_chat_message.  The task begins while the handler that made it  *)
(* sleeps or writes its record.  Hermes starts a session, or interrupts    *)
(* the one that runs and keeps the event for later.                        *)
HandOver ==
  /\ Busy("handover")
  /\ IF Len(frame.todo) = 1 THEN Leave ELSE Proceed
  /\ IF frame.t \in cancelled
     THEN Cleanup(frame.t) /\ UNCHANGED <<queue, session, given>>
     ELSE /\ given' = given \cup {frame.t}
          /\ IF stack = <<>>
             THEN /\ stack' = <<frame.t>>
                  /\ phase' = "running"
                  /\ MakeActive(frame.t)
                  /\ byId' = byId \ {frame.t}
                  /\ UNCHANGED <<cancelled, slot, overflow, kind, saved>>
             ELSE slot' = frame.t /\ UNCHANGED <<lives, overflow, byId, session>>
  /\ UNCHANGED <<store, endings, raced, spoiled, unrecorded, faults, runner>>

(* handle_message raises: the turn has failed, but stays active.           *)
HandOverFails ==
  /\ Fault
  /\ Busy("handover") /\ frame.t \notin cancelled
  /\ IF Len(frame.todo) = 1 THEN Leave ELSE Proceed
  /\ given' = given \cup {frame.t}
  /\ endings' = [endings EXCEPT ![frame.t] = Append(@, "failed")]
  /\ spoiled' = spoiled \cup {frame.t}
  /\ UNCHANGED <<store, lives, queue, session, raced, unrecorded>>

-----------------------------------------------------------------------------
(* turn.cancel                                                             *)

AskCancel ==
  /\ frame = Idle /\ active # None
  /\ requested' = requested \cup {active}
  /\ frame' = [Idle EXCEPT !.todo = <<"stop", "cancel", "clean">>, !.t = active]
  /\ UNCHANGED <<store, active, cancelled, queue, session, history, faults, runner>>

(* The turn turn.cancel found active before it awaited the stop.           *)
Target == frame.t

(* A cancellation that comes now does not keep the turn from ending        *)
(* otherwise: it has, it is about to, or its end does not look.            *)
TooLate(t) ==
  \/ endings[t] # <<>>
  \/ Len(stack) = 1 /\ stack[1] = t /\ phase \in {"ending", "ended"}
  \/ \E i \in 2..Len(stack) : stack[i] = t

(* Hermes took the /stop, whether or not it has an effect.  In             *)
(* _cancel_active_turn a turn is cancelled once.                           *)
Stopped ==
  /\ Busy("stop")
  /\ IF Target \in cancelled
     THEN Leave /\ UNCHANGED <<cancelled, raced>>
     ELSE /\ Proceed
          /\ cancelled' = cancelled \cup {Target}
          /\ raced' = IF TooLate(Target) THEN raced \cup {Target} ELSE raced
  /\ UNCHANGED <<store, active, requested, queue, session, given, endings,
                 spoiled, unrecorded, faults, runner>>

(* The stop raised: the turn is active as before, unless its session ended *)
(* meanwhile and left the rest to this handler.                            *)
StopFails ==
  /\ Fault
  /\ Busy("stop")
  /\ requested' = requested \ {Target}
  /\ Leave
  /\ spoiled' = IF Contains(stack, Target) /\ phase # "over" THEN spoiled ELSE spoiled \cup {Target}
  /\ UNCHANGED <<store, active, cancelled, queue, session, given, endings,
                 raced, unrecorded>>

(* turn.cancelled is in the log.                                           *)
Cancel ==
  /\ Busy("cancel")
  /\ endings' = [endings EXCEPT ![Target] = Append(@, "cancelled")]
  /\ Proceed
  /\ UNCHANGED <<store, lives, queue, session, given, raced,
                 spoiled, unrecorded, faults, runner>>

\* Mutant: leaves the turn active, for the session to remove.
BugCancelDone ==
  /\ Busy("clean")
  /\ Leave
  /\ UNCHANGED <<store, lives, queue, session, history, faults, runner>>

(* Messages and activities of the turn have been marked.                   *)
CancelDone ==
  /\ Busy("clean")
  /\ active' = IF active = Target THEN None ELSE active
  /\ Leave
  /\ UNCHANGED <<store, requested, cancelled, queue, session, history, faults, runner>>

(* One of these appends raises.                                            *)
CancelFails ==
  /\ Fault
  /\ Busy("cancel") \/ Busy("clean")
  /\ Leave
  /\ spoiled' = spoiled \cup {Target}
  /\ UNCHANGED <<store, lives, queue, session, given, endings, raced, unrecorded>>

-----------------------------------------------------------------------------
(* The session of Hermes and its calls of the adapter.                     *)

Outer  == stack[1]
Inner  == Last(stack)
Nested == Len(stack) > 1

(* The next queued event leaves the slot; a runner moves its queue up.     *)
TakeSlot ==
  IF runner /\ overflow # <<>>
  THEN slot' = Head(overflow) /\ overflow' = Tail(overflow)
  ELSE slot' = None /\ overflow' = overflow

(* wrapped_run_agent: the runner goes on with a queued event inside the    *)
(* turn that is ending.                                                    *)
RunnerDrains ==
  /\ runner /\ stack # <<>> /\ phase = "running"
  /\ slot # None /\ slot \in byId
  /\ saved' = [saved EXCEPT ![slot] = active]
  /\ MakeActive(slot)
  /\ byId' = byId \ {slot}
  /\ TakeSlot
  /\ stack' = Append(stack, slot)
  /\ UNCHANGED <<store, frame, cancelled, phase, kind, given, endings, raced, spoiled, unrecorded, faults, runner>>

(* _complete_runner_drained_queued_turn has stored the ending.             *)
DrainedEnds(k) ==
  /\ Nested /\ phase = "running"
  /\ endings' = [endings EXCEPT ![Inner] = Append(@, k)]
  /\ phase' = "ended"
  /\ UNCHANGED <<store, frame, lives, queue, stack, kind, saved, given, raced, spoiled, unrecorded, faults, runner>>

(* The end of wrapped_run_agent puts back the turn that was active before; *)
(* Returns is its last step, also when the session is cancelled inside.    *)
Returns(now) ==
  /\ active' = IF saved[Inner] \notin {None, Inner} THEN saved[Inner] ELSE now
  /\ stack' = Front(stack)
  /\ phase' = "running"
  /\ saved' = [saved EXCEPT ![Inner] = None]
  /\ UNCHANGED <<store, frame, requested, cancelled, queue, kind, given, endings, raced,
                 unrecorded>>

DrainedReturns ==
  /\ Nested /\ phase = "ended"
  /\ Returns(IF active = Inner THEN None ELSE active)
  /\ UNCHANGED <<spoiled, faults, runner>>

DrainedIsKilled ==
  /\ Fault
  /\ Nested /\ phase = "running"
  /\ Returns(active)
  /\ spoiled' = spoiled \cup {Inner}

(* on_processing_complete up to its first await.                           *)
CompleteCancelled ==
  /\ Len(stack) = 1 /\ phase = "running" /\ Outer \in cancelled
  /\ Cleanup(Outer)
  /\ phase' = "over"
  /\ UNCHANGED <<store, frame, queue, stack, kind, saved, history, faults, runner>>

\* Mutant: leaves the ending to turn.cancel without asking whether one is under way.
BugCompleteStopped ==
  /\ Len(stack) = 1 /\ phase = "running" /\ Outer \notin cancelled
  /\ active = Outer
  /\ phase' = "over"
  /\ UNCHANGED <<store, frame, lives, queue, stack, kind, saved, history, faults, runner>>

\* Mutant: does not look whether the turn was cancelled.
BugComplete(k) ==
  /\ Len(stack) = 1 /\ phase = "running"
  /\ k = "cancelled" => ~(active = Outer /\ Outer \in requested)
  /\ kind' = k
  /\ phase' = "ending"
  /\ UNCHANGED <<store, frame, lives, queue, stack, saved, history, faults, runner>>

(* turn.cancel is under way and will store the ending.                     *)
CompleteStopped ==
  /\ Len(stack) = 1 /\ phase = "running" /\ Outer \notin cancelled
  /\ active = Outer /\ Outer \in requested
  /\ phase' = "over"
  /\ UNCHANGED <<store, frame, lives, queue, stack, kind, saved, history, faults, runner>>

Complete(k) ==
  /\ Len(stack) = 1 /\ phase = "running" /\ Outer \notin cancelled
  /\ k = "cancelled" => ~(active = Outer /\ Outer \in requested)
  /\ kind' = k
  /\ phase' = "ending"
  /\ UNCHANGED <<store, frame, lives, queue, stack, saved, history, faults, runner>>

StoreEnding ==
  /\ phase = "ending"
  /\ endings' = [endings EXCEPT ![Outer] = Append(@, kind)]
  /\ phase' = "ended"
  /\ UNCHANGED <<store, frame, lives, queue, stack, kind, saved, given, raced, spoiled, unrecorded, faults, runner>>

(* The append raises; Hermes goes on.                                      *)
StoreEndingFails ==
  /\ Fault
  /\ phase = "ending"
  /\ phase' = "over" /\ kind' = "completed"
  /\ spoiled' = spoiled \cup {Outer}
  /\ UNCHANGED <<store, frame, lives, queue, stack, saved, given, endings, raced, unrecorded>>

(* The rest of on_processing_complete, with _promote_local_queued_event.   *)
Finalize ==
  /\ phase = "ended" /\ Len(stack) = 1
  /\ active' = IF active = Outer THEN None ELSE active
  /\ IF ~runner /\ slot = None /\ overflow # <<>>
     THEN slot' = Head(overflow) /\ overflow' = Tail(overflow)
     ELSE UNCHANGED <<slot, overflow>>
  /\ phase' = "over" /\ kind' = "completed"
  /\ UNCHANGED <<store, frame, requested, cancelled, byId, stack, saved, history, faults, runner>>

(* The session takes the queued event, or ends.                            *)
SessionGoesOn ==
  /\ stack # <<>> /\ phase = "over" /\ slot # None
  /\ stack' = <<slot>>
  /\ phase' = "running"
  /\ MakeActive(slot)
  /\ byId' = byId \ {slot}
  /\ TakeSlot
  /\ UNCHANGED <<store, frame, cancelled, kind, saved, given, endings, raced,
                 spoiled, unrecorded, faults, runner>>

(* What is left in the local overflow, after a turn whose end did not      *)
(* promote, waits for somebody else's session.                             *)
SessionEnds ==
  /\ stack # <<>> /\ phase = "over" /\ slot = None
  /\ stack' = <<>>
  /\ spoiled' = spoiled \cup ToSet(overflow)
  /\ UNCHANGED <<store, frame, lives, queue, phase, kind, saved, given, endings, raced, unrecorded, faults, runner>>

(* The process dies and starts again with what the database holds.         *)
Crash ==
  /\ Fault
  /\ Leave
  /\ active' = None /\ requested' = {} /\ cancelled' = {}
  /\ slot' = None /\ overflow' = <<>> /\ byId' = {}
  /\ stack' = <<>> /\ phase' = "over"
  /\ spoiled' = spoiled \cup 1..made
  /\ unrecorded' = IF frame.t \in given /\ accepted[frame.m] = None
                   THEN unrecorded \cup {frame.m} ELSE unrecorded
  /\ kind' = "completed" /\ saved' = [t \in Turn |-> None]
  /\ UNCHANGED <<store, given, endings, raced>>

-----------------------------------------------------------------------------
Handler ==
  \/ Create \/ CreateFails \/ Record \/ RecordFails \/ Queue \/ QueueFails
  \/ Steer \/ SteerFallsBack \/ SteerFails
  \/ Acknowledge \/ AcknowledgeFails \/ HandOver \/ HandOverFails
  \/ Stopped \/ StopFails \/ Cancel \/ CancelDone \/ CancelFails

Session ==
  \/ RunnerDrains \/ DrainedReturns \/ DrainedIsKilled
  \/ CompleteCancelled \/ CompleteStopped
  \/ \E k \in {"completed", "failed"} : DrainedEnds(k)
  \/ \E k \in Kinds : Complete(k)
  \/ StoreEnding \/ StoreEndingFails \/ Finalize \/ SessionGoesOn \/ SessionEnds

Next ==
  \/ \E m \in Msgs : Receive(m)
  \/ AskCancel
  \/ Handler
  \/ Session
  \/ Crash

Spec == Init /\ [][Next]_vars

-----------------------------------------------------------------------------
(* Properties.                                                             *)

(* A client may repeat a message as often as it likes: Hermes gets it once.*)
(* Excepted are the actions message.queue and message.steer that failed or *)
(* crashed between giving the message to Hermes and recording it.          *)
OneTurnPerMessage ==
  \A t, u \in given :
    msg[t] = msg[u] => t = u \/ (Via[msg[t]] # "chat" /\ msg[t] \in unrecorded)

(* A message never interrupts the turn that runs: it is handed over only   *)
(* when Hermes has no session for the chat, though the handler looked      *)
(* several awaits earlier.                                                 *)
NeverInterrupts == Busy("handover") => stack = <<>>

(* The turn that keeps others waiting is one that somebody is going to     *)
(* end: the handler that accepts or cancels it, or the session that runs   *)
(* it, or one that a failure left there.                                   *)
ActiveHasFuture ==
  active # None => \/ active = frame.t
                   \/ Contains(stack, active)
                   \/ active \in spoiled

(* A turn ends once, unless it was cancelled when it had ended or was      *)
(* ending, or was a queued one that Hermes's runner had started.           *)
EndsOnce ==
  \A t \in Turn : Len(endings[t]) <= 1 \/ t \in raced \cup spoiled

(* When nothing is under way, every message that was given to Hermes or    *)
(* queued for it has had its ending, unless a failure befell the turn.     *)
QuietMeansEnded ==
  frame = Idle /\ stack = <<>> =>
    \A t \in given : endings[t] # <<>> \/ t \in spoiled
=============================================================================
