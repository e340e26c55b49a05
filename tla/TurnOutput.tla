----------------------------- MODULE TurnOutput -----------------------------
(***************************************************************************)
(* What one turn shows of itself (adapter.py): the messages and the tool   *)
(* activities Hermes sends while it works, and what becomes of them when   *)
(* the turn completes or is cancelled.                                     *)
(*                                                                         *)
(* Three parties interleave at the awaits of the adapter: calls of Hermes  *)
(* (`call'), the frame handler that cancels the turn (`canc'), and         *)
(* on_processing_complete (`session').  An append takes a while: a call    *)
(* decides what to write, the write lands in the log in another step, and  *)
(* only then the call goes on.  Turns.tla has the turns among each other.  *)
(***************************************************************************)
EXTENDS Naturals, Sequences, SequencesExt, FiniteSets

CONSTANTS
  Message,    \* ids of assistant messages
  Activity,   \* ids of tool activities
  Reports,    \* the lists of activities a report of progress may hold
  Scripts,    \* bound: the calls Hermes may make, in their order
  MaxFaults   \* bound: failures

Nobody == "nobody"

ASSUME TurnAssumption ==
  /\ Reports \subseteq Seq(Activity) \ {<<>>}
  /\ Scripts \subseteq Seq(STRING) /\ MaxFaults \in Nat
  /\ Nobody \notin Message \cup Activity

VARIABLES
  shown,      \* the status of each message in the chat log
  tools,      \* the status of each activity in the chat log
  endings,    \* the terminal events of the turn there
  owned,      \* _assistant_messages_by_turn
  turnOf,     \* _assistant_turn_by_message
  host,       \* _activity_message_by_turn
  ids,        \* _activity_ids_by_turn
  known,      \* _activity_payloads_by_id: the activities it holds
  status,     \* _activity_status_by_id
  active,     \* the turn in _active_turns_by_chat: this, another or none
  requested,  \* its cancel_requested
  mark,       \* the turn is in _cancelled_turns
  session,    \* how far the session of Hermes has brought the turn
  kind,       \* the ending it is about to have
  acts,       \* on_processing_complete: activities still to end
  msgs,       \* on_processing_complete: messages still to mark
  call,       \* the calls of Hermes in progress
  canc,       \* the cancellation in progress
  \* history
  late,       \* output of calls that an ending overtook, that came after it, or
              \* that failed
  stop,       \* whether a client cancelled the turn: "no"; it "cut" the turn; it
              \* came "late", when the turn had ended or was ending; or what it
              \* had to mark was "lost", as the session cleaned up before
  spoiled,    \* an ending failed half way
  calls,      \* the kinds of the calls so far
  faults      \* failures so far

output  == <<shown, tools, endings>>
tables  == <<owned, turnOf, host, ids, known, status>>
lives   == <<active, requested, mark>>
ending  == <<session, kind, acts, msgs>>
turnVars == <<output, tables, lives, ending, call, canc, late, stop, spoiled, calls, faults>>

Absent   == "absent"
Closed   == {"completed", "failed"}
Kinds    == Closed \cup {"cancelled"}
Statuses == {Absent, "running"} \cup Kinds

(* The session's own task calls, and others on its behalf, like the        *)
(* consumer of a stream of deltas.                                         *)
Caller == {"task", "stream"}
Quiet  == [op |-> "none", m |-> Nobody, to |-> Absent, a |-> Nobody,
           items |-> <<>>, seen |-> <<>>, anew |-> {}, late |-> FALSE]
Free   == [step |-> "free", m |-> Nobody, left |-> {}, base |-> {}, held |-> FALSE,
           acts |-> {}, broke |-> FALSE]
Ops    == {"none", "send", "edit", "tool", "torn"}

TurnTypeOK ==
  /\ shown \in [Message -> Statuses]
  /\ tools \in [Activity -> Statuses]
  /\ endings \in Seq(Kinds)
  /\ owned \subseteq Message /\ turnOf \subseteq Message
  /\ host \in Message \cup {Nobody}
  /\ ids \subseteq Activity /\ known \subseteq Activity
  /\ status \in [Activity -> {Absent, "running"} \cup Closed]
  /\ active \in {"this", "other", "none"}
  /\ requested \in BOOLEAN /\ mark \in BOOLEAN
  /\ session \in {"running", "ending", "tools", "messages", "over"}
  /\ kind \in Kinds
  /\ acts \subseteq Activity /\ msgs \subseteq Message
  /\ call \in [Caller -> [op : Ops, m : Message \cup {Nobody}, to : Statuses,
                          a : Activity \cup {Nobody}, items : Seq(Activity),
                          seen : Seq(Activity), anew : SUBSET Activity, late : BOOLEAN]]
  /\ canc \in [step : {"free", "stop", "append", "place", "marks", "tools"},
               m : Message \cup {Nobody}, left : SUBSET Message, base : SUBSET Message,
               held : BOOLEAN, acts : SUBSET Activity, broke : BOOLEAN]
  /\ late \subseteq Message \cup Activity
  /\ stop \in {"no", "cut", "late", "lost"} /\ spoiled \in BOOLEAN
  /\ \E s \in Scripts : IsPrefix(calls, s)
  /\ faults \in 0..MaxFaults

(* The turn has begun.                                                     *)
TurnInit ==
  /\ shown = [m \in Message |-> Absent] /\ tools = [a \in Activity |-> Absent]
  /\ endings = <<>>
  /\ owned = {} /\ turnOf = {} /\ host = Nobody
  /\ ids = {} /\ known = {} /\ status = [a \in Activity |-> Absent]
  /\ active = "this" /\ requested = FALSE /\ mark = FALSE
  /\ session = "running" /\ kind = "completed" /\ acts = {} /\ msgs = {}
  /\ call = [w \in Caller |-> Quiet] /\ canc = Free
  /\ late = {} /\ stop = "no" /\ spoiled = FALSE
  /\ calls = <<>> /\ faults = 0

Fault == faults < MaxFaults /\ faults' = faults + 1

-----------------------------------------------------------------------------
(* Calls of Hermes.                                                        *)

Output(c)   == {c.m, c.a} \ {Nobody}
Calls(what) == calls' = Append(calls, what) /\ \E s \in Scripts : IsPrefix(calls', s)

(* A call that begins now belongs to this turn: it comes from its task, or *)
(* the turn is the active one.  The code asks the same of all of them.     *)
Attributed(w) == IF w = "task" THEN session = "running" ELSE active = "this"

(* A message id that nobody has used.                                      *)
Unused   == {m \in Message : shown[m] = Absent /\ m \notin turnOf
                              /\ \A w \in Caller : call[w].m # m}
Fresh(m) == Unused # {} /\ m = CHOOSE n \in Unused : TRUE

(* An ending has begun: output of a call that starts now comes after it.   *)
Overdue == session # "running" \/ endings # <<>>

Begin(w, c) == call' = [call EXCEPT ![w] = [c EXCEPT !.late = Overdue]]

(* send, and send_image_file, which never takes the activities' message.   *)
Send(w, m) ==
  /\ call[w] = Quiet /\ Calls("send") /\ Attributed(w) /\ ~mark
  /\ \/ m = host /\ host' = Nobody
     \/ host = Nobody /\ Fresh(m) /\ UNCHANGED host
  /\ Begin(w, [Quiet EXCEPT !.op = "send", !.m = m, !.to = "running"])
  /\ UNCHANGED <<output, owned, turnOf, ids, known, status, lives, ending,
                 canc, late, stop, spoiled, faults>>

\* Mutant: an edit does not ask whether the turn was cancelled.
BugEdit(w, m, to) ==
  /\ call[w] = Quiet /\ Calls("edit") /\ shown[m] # Absent
  /\ w = "task" => session = "running"
  /\ Begin(w, [Quiet EXCEPT !.op = "edit", !.m = m, !.to = to])
  /\ UNCHANGED <<output, tables, lives, ending, canc, late, stop, spoiled, faults>>

(* edit_message of a text; the last edit of a message completes it.        *)
Edit(w, m, to) ==
  /\ call[w] = Quiet /\ Calls("edit") /\ shown[m] # Absent
  /\ w = "task" => session = "running"
  /\ m \in turnOf => ~mark
  /\ Begin(w, [Quiet EXCEPT !.op = "edit", !.m = m, !.to = to])
  /\ UNCHANGED <<output, tables, lives, ending, canc, late, stop, spoiled, faults>>

(* Where the first member of S is in a sequence: at one place, or nowhere. *)
First(s, S) == {i \in DOMAIN s : s[i] \in S /\ \A j \in 1..(i - 1) : s[j] \notin S}

Writes(w, c, a, to) == call' = [call EXCEPT ![w] = [c EXCEPT !.op = "tool", !.m = Nobody,
                                                           !.a = a, !.to = to]]

(* _emit_tool_progress up to its next append: start or update the next     *)
(* activity of the list that is not known as it is, or complete the next   *)
(* one before the last that still runs.                                    *)
GoOn(w, c) ==
  LET unlike == {a \in Activity : a \notin known \/ a \in c.anew}
      done   == {a \in Activity : status[a] = "running" /\ a # Last(c.seen)}
  IN  \/ \E i \in First(c.items, unlike) :
           LET a == c.items[i] IN
           /\ known' = known \cup {a} /\ ids' = ids \cup {a}
           /\ status' = [status EXCEPT ![a] = "running"]
           /\ Writes(w, [c EXCEPT !.items = SubSeq(@, i + 1, Len(@))], a, "running")
      \/ /\ First(c.items, unlike) = {}
         /\ \E i \in First(c.seen, done) :
              LET a == c.seen[i] IN
              /\ status' = [status EXCEPT ![a] = "completed"]
              /\ Writes(w, [c EXCEPT !.items = <<>>, !.seen = SubSeq(@, i + 1, Len(@))],
                        a, "completed")
         /\ UNCHANGED <<known, ids>>
      \/ /\ First(c.items, unlike) = {} /\ First(c.seen, done) = {}
         /\ call' = [call EXCEPT ![w] = Quiet] /\ UNCHANGED <<known, ids, status>>

(* Tool progress, by send or edit_message, up to the first append.  `anew' *)
(* are the activities whose label has changed since they became known.     *)
(* Hermes reports its progress from one place, a report at a time.         *)
Progress(w, list, anew) ==
  LET c == [Quiet EXCEPT !.op = "tool", !.items = list, !.seen = list,
                         !.anew = anew, !.late = Overdue]
  IN  /\ call[w] = Quiet /\ Calls("progress")
      /\ Attributed(w) /\ ~mark
      /\ anew \subseteq ToSet(list)
      /\ \A v \in Caller : call[v].items = <<>> /\ call[v].a = Nobody
      /\ \/ /\ host # Nobody \/ owned # {}          \* _ensure_activity_message
            /\ host' \in IF host # Nobody THEN {host} ELSE owned
            /\ GoOn(w, c)
            /\ UNCHANGED <<owned, turnOf>>
         \/ \E m \in Message :
              /\ host = Nobody /\ owned = {} /\ Fresh(m)
              /\ host' = m /\ turnOf' = turnOf \cup {m} /\ owned' = {m}
              /\ call' = [call EXCEPT ![w] = [c EXCEPT !.m = m, !.to = "running"]]
              /\ UNCHANGED <<ids, known, status>>
      /\ UNCHANGED <<output, lives, ending, canc, late, stop, spoiled, faults>>

(* The append of a call lands in the log, and the call goes on: send       *)
(* registers its message only now.                                         *)
Land(w) ==
  LET c == call[w]
  IN  /\ c # Quiet
      /\ IF c.m # Nobody
         THEN shown' = [shown EXCEPT ![c.m] = c.to] /\ UNCHANGED tools
         ELSE tools' = [tools EXCEPT ![c.a] = c.to] /\ UNCHANGED shown
      /\ late' = IF c.late THEN late \cup Output(c) ELSE late
      /\ IF c.op = "send"
         THEN turnOf' = turnOf \cup {c.m} /\ owned' = owned \cup {c.m}
         ELSE UNCHANGED <<turnOf, owned>>
      /\ IF c.op = "tool"
         THEN GoOn(w, c)
         ELSE call' = [call EXCEPT ![w] = Quiet] /\ UNCHANGED <<known, ids, status>>
      /\ UNCHANGED <<endings, host, lives, ending, canc, stop, spoiled, faults, calls>>

(* The append raises, and the call with it.                                *)
CallFails(w) ==
  /\ Fault
  /\ call[w] # Quiet
  /\ call' = [call EXCEPT ![w] = Quiet]
  /\ late' = late \cup Output(call[w])
  /\ UNCHANGED <<output, tables, lives, ending, canc, stop, spoiled, calls>>

-----------------------------------------------------------------------------
(* turn.cancel and _cancel_active_turn.                                    *)

(* The calls in progress when an ending begins.                            *)
Overtaken == [w \in Caller |-> IF call[w] = Quiet THEN Quiet ELSE [call[w] EXCEPT !.late = TRUE]]

(* turn.cancel marks its wish and has Hermes stop.                         *)
AskCancel ==
  /\ canc.step = "free" /\ active = "this"
  /\ requested' = TRUE
  /\ canc' = [Free EXCEPT !.step = "stop"]
  /\ UNCHANGED <<output, tables, active, mark, ending, call, late, stop, spoiled, faults, calls>>

(* The beginning of _cancel_active_turn: a turn is cancelled once.         *)
Cancel ==
  IF mark THEN canc' = Free /\ UNCHANGED <<mark, call, stop>>
  ELSE /\ mark' = TRUE
       /\ canc' = [Free EXCEPT !.step = "append"]
       /\ call' = Overtaken
       /\ stop' = CASE stop = "lost" -> "lost"
                    [] stop # "lost" /\ (endings # <<>> \/ session \in {"ending", "tools", "messages"})
                         -> "late"
                    [] OTHER -> "cut"

Stopped ==
  /\ canc.step = "stop"
  /\ Cancel
  /\ UNCHANGED <<output, tables, active, requested, ending, late, spoiled, faults, calls>>

StopFails ==
  /\ Fault
  /\ canc.step = "stop"
  /\ requested' = FALSE
  /\ canc' = [Free EXCEPT !.broke = TRUE]
  /\ spoiled' = TRUE
  /\ UNCHANGED <<output, tables, active, mark, ending, call, late, stop, calls>>

(* The activities are taken out of the table, to be ended one by one.      *)
TurnToActivities == canc' = [Free EXCEPT !.step = "tools", !.acts = ids] /\ ids' = {}

(* turn.cancelled is in the log.  The handler goes over the very set to    *)
(* which calls of Hermes add.                                              *)
AppendCancelled ==
  /\ canc.step = "append"
  /\ endings' = Append(endings, "cancelled")
  /\ IF owned = {}
     THEN \E m \in Message :
            /\ Fresh(m)
            /\ turnOf' = turnOf \cup {m} /\ owned' = {m}
            /\ canc' = [canc EXCEPT !.step = "place", !.m = m]
     ELSE /\ canc' = [canc EXCEPT !.step = "marks", !.left = owned, !.base = owned, !.held = TRUE]
          /\ UNCHANGED <<turnOf, owned>>
  /\ UNCHANGED <<shown, tools, host, ids, known, status, lives, ending, call,
                 late, stop, spoiled, faults, calls>>

(* The empty message that shows the cancellation is in the log.            *)
Place ==
  /\ canc.step = "place"
  /\ shown' = [shown EXCEPT ![canc.m] = "cancelled"]
  /\ TurnToActivities
  /\ UNCHANGED <<tools, endings, owned, turnOf, host, known, status, lives, ending, call,
                 late, stop, spoiled, faults, calls>>

(* A message is marked.  If the set has grown meanwhile, the loop raises.  *)
MarkMessage(m) ==
  /\ canc.step = "marks" /\ m \in canc.left
  /\ shown' = [shown EXCEPT ![m] = "cancelled"]
  /\ IF canc.held /\ owned # canc.base
     THEN canc' = [Free EXCEPT !.broke = TRUE] /\ spoiled' = TRUE /\ ids' = ids
     ELSE /\ IF canc.left = {m} THEN TurnToActivities
             ELSE canc' = [canc EXCEPT !.left = @ \ {m}] /\ ids' = ids
          /\ spoiled' = spoiled
  /\ UNCHANGED <<tools, endings, owned, turnOf, host, known, status, lives, ending, call,
                 late, stop, faults, calls>>

(* An activity is ended, unless it has, and forgotten.                     *)
EndActivity(a, to) ==
  /\ tools' = IF status[a] \in Closed THEN tools ELSE [tools EXCEPT ![a] = to]
  /\ known' = known \ {a}
  /\ status' = [status EXCEPT ![a] = Absent]

CancelActivity(a) ==
  /\ canc.step = "tools" /\ a \in canc.acts
  /\ EndActivity(a, "failed")
  /\ canc' = [canc EXCEPT !.acts = @ \ {a}]
  /\ UNCHANGED <<shown, endings, owned, turnOf, host, ids, lives, ending, call,
                 late, stop, spoiled, faults, calls>>

CancelDone ==
  /\ canc.step = "tools" /\ canc.acts = {}
  /\ active' = IF active = "this" THEN "none" ELSE active
  /\ canc' = Free
  /\ UNCHANGED <<output, tables, requested, mark, ending, call, late, stop, spoiled, faults, calls>>

(* One of these appends raises.                                            *)
CancelFails ==
  /\ Fault
  /\ canc.step \in {"append", "place", "marks", "tools"}
  /\ canc' = [Free EXCEPT !.broke = TRUE]
  /\ spoiled' = TRUE
  /\ UNCHANGED <<output, tables, lives, ending, call, late, stop, calls>>

-----------------------------------------------------------------------------
(* on_processing_complete.                                                 *)

(* The session's task is in a call when it is cancelled: the thread that   *)
(* writes goes on, or has not begun and never will.                        *)
Torn == late' = late \cup Output(call["task"])

TornCalls == {[call EXCEPT !["task"] = IF @ = Quiet THEN @ ELSE [@ EXCEPT !.op = "torn"]],
              [call EXCEPT !["task"] = Quiet]}

(* The set a cancellation goes over is no longer the turn's.               *)
LetGo == [canc EXCEPT !.held = FALSE]

(* _cleanup_cancelled_turn                                                 *)
CompleteCancelled ==
  /\ session = "running" /\ mark
  /\ session' = "over"
  /\ call' \in TornCalls
  /\ turnOf' = turnOf \ owned /\ owned' = {}
  /\ known' = known \ ids /\ ids' = {}
  /\ status' = [a \in Activity |-> IF a \in ids THEN Absent ELSE status[a]]
  /\ mark' = FALSE
  /\ active' = IF active = "this" THEN "none" ELSE active
  /\ canc' = LetGo
  /\ stop' = IF canc.step \in {"append", "place", "marks"} THEN "lost" ELSE stop
  /\ Torn
  /\ UNCHANGED <<output, host, requested, kind, acts, msgs, spoiled, faults, calls>>

(* turn.cancel is under way and will store the ending.                     *)
CompleteStopped ==
  /\ session = "running" /\ ~mark
  /\ active = "this" /\ requested
  /\ session' = "over"
  /\ call' \in TornCalls /\ Torn
  /\ UNCHANGED <<output, tables, lives, kind, acts, msgs, canc, stop, spoiled, faults, calls>>

Complete(k) ==
  /\ session = "running" /\ ~mark
  /\ k = "cancelled" => ~(active = "this" /\ requested)
  /\ session' = "ending" /\ kind' = k
  /\ \E torn \in IF k = "cancelled" THEN TornCalls ELSE {call} :
       /\ torn["task"].op \in {"none", "torn"}
       /\ call' = [w \in Caller |-> IF torn[w] = Quiet THEN Quiet
                                    ELSE [torn[w] EXCEPT !.late = TRUE]]
  /\ Torn
  /\ UNCHANGED <<output, tables, lives, acts, msgs, canc, stop, spoiled, faults, calls>>

(* The turn's ending is in the log.                                        *)
StoreEnding ==
  /\ session = "ending"
  /\ endings' = Append(endings, kind)
  /\ session' = "tools" /\ acts' = ids /\ ids' = {}
  /\ UNCHANGED <<shown, tools, owned, turnOf, host, known, status, lives, kind, msgs, call,
                 canc, late, stop, spoiled, faults, calls>>

\* Mutant: leaves the activities of a failed turn as they are.
BugCompleteActivity(a) ==
  /\ session = "tools" /\ a \in acts
  /\ IF kind = "failed" THEN UNCHANGED <<tools, known, status>> ELSE EndActivity(a, "completed")
  /\ acts' = acts \ {a}
  /\ UNCHANGED <<shown, endings, owned, turnOf, host, ids, lives, session, kind, msgs, call,
                 canc, late, stop, spoiled, faults, calls>>

CompleteActivity(a) ==
  /\ session = "tools" /\ a \in acts
  /\ EndActivity(a, IF kind = "failed" THEN "failed" ELSE "completed")
  /\ acts' = acts \ {a}
  /\ UNCHANGED <<shown, endings, owned, turnOf, host, ids, lives, session, kind, msgs, call,
                 canc, late, stop, spoiled, faults, calls>>

TakeMessages ==
  /\ session = "tools" /\ acts = {}
  /\ session' = "messages" /\ msgs' = owned /\ owned' = {}
  /\ canc' = LetGo
  /\ UNCHANGED <<output, turnOf, host, ids, known, status, lives, kind, acts, call,
                 late, stop, spoiled, faults, calls>>

CompleteMessage(m) ==
  /\ session = "messages" /\ m \in msgs
  /\ shown' = [shown EXCEPT ![m] = kind]
  /\ msgs' = msgs \ {m}
  /\ UNCHANGED <<tools, endings, tables, lives, session, kind, acts, call, canc,
                 late, stop, spoiled, faults, calls>>

Finalize ==
  /\ session = "messages" /\ msgs = {}
  /\ session' = "over" /\ kind' = "completed"
  /\ active' = IF active = "this" THEN "none" ELSE active
  /\ UNCHANGED <<output, tables, requested, mark, acts, msgs, call, canc,
                 late, stop, spoiled, faults, calls>>

(* One of these appends raises; Hermes goes on.                            *)
CompleteFails ==
  /\ Fault
  /\ session \in {"ending", "tools", "messages"}
  /\ session' = "over" /\ kind' = "completed" /\ acts' = {} /\ msgs' = {}
  /\ spoiled' = TRUE
  /\ UNCHANGED <<output, tables, lives, call, canc, late, stop, calls>>

(* Another turn of the chat begins, or ends.                               *)
OtherTurn ==
  /\ session = "over" /\ active \in {"none", "other"}
  /\ active' = IF active = "none" THEN "other" ELSE "none"
  /\ UNCHANGED <<output, tables, requested, mark, ending, call, canc, late, stop, spoiled, faults, calls>>

-----------------------------------------------------------------------------
HermesCalls ==
  \E w \in Caller :
    \/ \E m \in Message : Send(w, m)
    \/ \E m \in Message, to \in {"running", "completed"} : Edit(w, m, to)
    \/ \E list \in Reports, anew \in SUBSET known : Progress(w, list, anew)
    \/ Land(w)
    \/ CallFails(w)

Cancelling ==
  \/ Stopped \/ StopFails \/ AppendCancelled \/ Place \/ CancelDone \/ CancelFails
  \/ \E m \in Message : MarkMessage(m)
  \/ \E a \in Activity : CancelActivity(a)

Completing ==
  \/ CompleteCancelled \/ CompleteStopped \/ StoreEnding \/ TakeMessages
  \/ Finalize \/ CompleteFails
  \/ \E k \in Kinds : Complete(k)
  \/ \E a \in Activity : CompleteActivity(a)
  \/ \E m \in Message : CompleteMessage(m)

TurnSteps == HermesCalls \/ Cancelling \/ Completing \/ OtherTurn

TurnNext == TurnSteps \/ AskCancel

TurnSpec == TurnInit /\ [][TurnNext]_turnVars

-----------------------------------------------------------------------------
(* Properties.                                                             *)

AtRest == session = "over" /\ canc.step = "free" /\ endings # <<>> /\ ~spoiled
          /\ \A w \in Caller : call[w] = Quiet

(* When the turn is over, its messages show the ending it had and none of  *)
(* its activities runs on, but for output of calls that failed, that an    *)
(* ending overtook or that came later, and for a cancellation whose output *)
(* the session cleaned away before it was marked.  A turn that a client    *)
(* cut short always shows it on at least one message: where it had none,   *)
(* on an empty one.                                                        *)
OutputFollowsTurn ==
  AtRest =>
    /\ stop # "lost" =>
         /\ \A m \in Message \ late : shown[m] \in {Absent} \cup ToSet(endings)
         /\ \A a \in Activity \ late : tools[a] \in {Absent} \cup Closed
    /\ stop \in {"cut", "lost"} =>
         \E m \in Message : shown[m] = "cancelled" \/ m \in late

(* A message that shows the cancellation shows no progress again: edits    *)
(* are refused, except those that were in flight when the turn was         *)
(* cancelled or that come when its session is gone.  Only a completion     *)
(* that was under way too may mark it otherwise.                           *)
CancelledStays ==
  [][\A m \in Message :
       shown[m] = "cancelled" /\ shown'[m] # "cancelled" =>
         m \in late' \/ session = "messages"]_shown
=============================================================================
