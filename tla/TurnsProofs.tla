----------------------------- MODULE TurnsProofs -----------------------------
(***************************************************************************)
(* Proofs about Turns, for any messages, however each is sent, and any     *)
(* number of turns and failures: Hermes gets a message once, a message     *)
(* never interrupts the session that runs, the turn that keeps the others  *)
(* waiting is in somebody's hands, a turn ends once, no turn that Hermes   *)
(* got is left without an ending, and every variable keeps its type.       *)
(***************************************************************************)
EXTENDS Turns, SequenceTheorems, TLAPS

(* What is left of a handler's path.  A chat_message is recorded and then  *)
(* given to Hermes; the other two are given and then recorded.             *)
RestingPath(s)   == s \in {<<>>, <<"stop", "cancel", "clean">>, <<"cancel", "clean">>,
                           <<"clean">>}
AcceptingPath(s) == s \in {<<"create", "record", "enqueue", "ack">>,
                           <<"record", "enqueue", "ack">>,
                           <<"create", "record", "ack", "handover">>,
                           <<"record", "ack", "handover">>}
AcceptedPath(s)  == s \in {<<"enqueue", "ack">>, <<"ack", "handover">>, <<"handover">>}
GivingPath(s)    == s \in {<<"create", "steer", "record", "ack">>,
                           <<"steer", "record", "ack">>,
                           <<"create", "enqueue", "record", "ack">>,
                           <<"enqueue", "record", "ack">>,
                           <<"create", "handover", "record", "ack">>,
                           <<"handover", "record", "ack">>}
RecordingPath(s) == s = <<"record", "ack">>
AnsweringPath(s) == s = <<"ack">>

(* The paths of a message that is yet to be handed over.                   *)
HandingPath(s) == s \in {<<"create", "record", "ack", "handover">>,
                         <<"record", "ack", "handover">>, <<"ack", "handover">>,
                         <<"handover">>, <<"create", "handover", "record", "ack">>,
                         <<"handover", "record", "ack">>}

Fields == frame = [todo |-> frame.todo, m |-> frame.m, t |-> frame.t,
                   queued |-> frame.queued, before |-> frame.before]

Shape ==
  /\ made \in 0..MaxTurns
  /\ msg \in [Turn -> Msgs \cup {Idle.m}]
  /\ accepted \in [Msgs -> Turn \cup {None}]
  /\ given \subseteq 1..made
  /\ Fields

(* The frame is that of the youngest turn.                                 *)
OfTurn == /\ made \in Turn /\ frame.t = made
          /\ frame.m \in Msgs /\ msg[made] = frame.m
Chat   == Via[frame.m] = "chat"

Resting   == RestingPath(frame.todo)
Accepting == OfTurn /\ Chat /\ AcceptingPath(frame.todo)
Accepted  == OfTurn /\ Chat /\ AcceptedPath(frame.todo)
Giving    == OfTurn /\ ~Chat /\ GivingPath(frame.todo)
Recording == OfTurn /\ ~Chat /\ RecordingPath(frame.todo)
Answering == AnsweringPath(frame.todo)

FrameInv ==
  /\ Resting \/ Accepting \/ Accepted \/ Giving \/ Recording \/ Answering
  /\ Accepting \/ Giving \/ Recording => accepted[frame.m] = None
  /\ Accepted => accepted[frame.m] = made
  /\ Accepting \/ Accepted \/ Giving => made \notin given

(* A turn that Hermes has is the one recorded for its message, or is about *)
(* to be recorded, or the record of its message failed.                    *)
GivenInv ==
  \A t \in given :
    /\ msg[t] \in Msgs
    /\ \/ accepted[msg[t]] = t
       \/ Recording /\ t = made
       \/ Via[msg[t]] # "chat" /\ msg[t] \in unrecorded

(* A message that is to be handed over found no session, and none begins.  *)
HandInv == HandingPath(frame.todo) => stack = <<>>

IInv == Shape /\ FrameInv /\ GivenInv /\ HandInv

-----------------------------------------------------------------------------
(* Lemmas about the paths.                                                 *)

LEMMA PathHeads ==
  ASSUME NEW s
  PROVE  /\ RestingPath(s)   => s = <<>> \/ s[1] \in {"stop", "cancel", "clean"}
         /\ AcceptingPath(s) => s # <<>> /\ s[1] \in {"create", "record"}
         /\ AcceptedPath(s)  => s # <<>> /\ s[1] \in {"enqueue", "ack", "handover"}
         /\ GivingPath(s)    => s # <<>> /\ s[1] \in {"create", "steer", "enqueue", "handover"}
         /\ RecordingPath(s) => s # <<>> /\ s[1] = "record"
         /\ AnsweringPath(s) => s # <<>> /\ s[1] = "ack"
<1>1. RestingPath(s) => s = <<>> \/ s[1] \in {"stop", "cancel", "clean"}
  BY DEF RestingPath
<1>2. AcceptingPath(s) => s # <<>> /\ s[1] \in {"create", "record"}
  BY DEF AcceptingPath
<1>3. AcceptedPath(s)  => s # <<>> /\ s[1] \in {"enqueue", "ack", "handover"}
  BY DEF AcceptedPath
<1>4. GivingPath(s)    => s # <<>> /\ s[1] \in {"create", "steer", "enqueue", "handover"}
  BY DEF GivingPath
<1>5. RecordingPath(s) => s # <<>> /\ s[1] = "record"
  BY DEF RecordingPath
<1>6. AnsweringPath(s) => s # <<>> /\ s[1] = "ack"
  BY DEF AnsweringPath
<1> QED BY <1>1, <1>2, <1>3, <1>4, <1>5, <1>6

LEMMA RestingTails ==
  ASSUME NEW s, RestingPath(s)
  PROVE  /\ s # <<>> => RestingPath(Tail(s))
         /\ ~HandingPath(s)
<1>1. CASE s = <<>>
  BY <1>1 DEF HandingPath
<1>2. CASE s = <<"stop", "cancel", "clean">>
  <2>1. Tail(s) = <<"cancel", "clean">> /\ s[1] = "stop" /\ Len(s) = 3
    BY <1>2
  <2>2. s # <<>> => RestingPath(Tail(s))
    BY <1>2, <2>1 DEF HandingPath, RestingPath
  <2>3. ~HandingPath(s)
    BY <1>2, <2>1 DEF HandingPath, RestingPath
  <2> QED BY <2>2, <2>3
<1>3. CASE s = <<"cancel", "clean">>
  <2>1. Tail(s) = <<"clean">> /\ s[1] = "cancel" /\ Len(s) = 2
    BY <1>3
  <2>2. s # <<>> => RestingPath(Tail(s))
    BY <1>3, <2>1 DEF HandingPath, RestingPath
  <2>3. ~HandingPath(s)
    BY <1>3, <2>1 DEF HandingPath, RestingPath
  <2> QED BY <2>2, <2>3
<1>4. CASE s = <<"clean">>
  <2>1. Tail(s) = <<>> /\ s[1] = "clean" /\ Len(s) = 1
    BY <1>4
  <2>2. s # <<>> => RestingPath(Tail(s))
    BY <1>4, <2>1 DEF HandingPath, RestingPath
  <2>3. ~HandingPath(s)
    BY <1>4, <2>1 DEF HandingPath, RestingPath
  <2> QED BY <2>2, <2>3
<1> QED BY <1>1, <1>2, <1>3, <1>4 DEF RestingPath

LEMMA AcceptingTails ==
  ASSUME NEW s, AcceptingPath(s)
  PROVE  /\ s[1] = "create" => AcceptingPath(Tail(s))
         /\ s[1] = "record" => AcceptedPath(Tail(s))
         /\ HandingPath(Tail(s)) => HandingPath(s)
<1>1. CASE s = <<"create", "record", "enqueue", "ack">>
  <2>1. Tail(s) = <<"record", "enqueue", "ack">> /\ s[1] = "create" /\ Len(s) = 4
    BY <1>1
  <2>2. s[1] = "create" => AcceptingPath(Tail(s))
    BY <1>1, <2>1 DEF HandingPath, AcceptingPath, AcceptedPath
  <2>3. s[1] = "record" => AcceptedPath(Tail(s))
    BY <1>1, <2>1 DEF HandingPath, AcceptingPath, AcceptedPath
  <2>4. HandingPath(Tail(s)) => HandingPath(s)
    BY <1>1, <2>1 DEF HandingPath, AcceptingPath, AcceptedPath
  <2> QED BY <2>2, <2>3, <2>4
<1>2. CASE s = <<"record", "enqueue", "ack">>
  <2>1. Tail(s) = <<"enqueue", "ack">> /\ s[1] = "record" /\ Len(s) = 3
    BY <1>2
  <2>2. s[1] = "create" => AcceptingPath(Tail(s))
    BY <1>2, <2>1 DEF HandingPath, AcceptingPath, AcceptedPath
  <2>3. s[1] = "record" => AcceptedPath(Tail(s))
    BY <1>2, <2>1 DEF HandingPath, AcceptingPath, AcceptedPath
  <2>4. HandingPath(Tail(s)) => HandingPath(s)
    BY <1>2, <2>1 DEF HandingPath, AcceptingPath, AcceptedPath
  <2> QED BY <2>2, <2>3, <2>4
<1>3. CASE s = <<"create", "record", "ack", "handover">>
  <2>1. Tail(s) = <<"record", "ack", "handover">> /\ s[1] = "create" /\ Len(s) = 4
    BY <1>3
  <2>2. s[1] = "create" => AcceptingPath(Tail(s))
    BY <1>3, <2>1 DEF HandingPath, AcceptingPath, AcceptedPath
  <2>3. s[1] = "record" => AcceptedPath(Tail(s))
    BY <1>3, <2>1 DEF HandingPath, AcceptingPath, AcceptedPath
  <2>4. HandingPath(Tail(s)) => HandingPath(s)
    BY <1>3, <2>1 DEF HandingPath, AcceptingPath, AcceptedPath
  <2> QED BY <2>2, <2>3, <2>4
<1>4. CASE s = <<"record", "ack", "handover">>
  <2>1. Tail(s) = <<"ack", "handover">> /\ s[1] = "record" /\ Len(s) = 3
    BY <1>4
  <2>2. s[1] = "create" => AcceptingPath(Tail(s))
    BY <1>4, <2>1 DEF HandingPath, AcceptingPath, AcceptedPath
  <2>3. s[1] = "record" => AcceptedPath(Tail(s))
    BY <1>4, <2>1 DEF HandingPath, AcceptingPath, AcceptedPath
  <2>4. HandingPath(Tail(s)) => HandingPath(s)
    BY <1>4, <2>1 DEF HandingPath, AcceptingPath, AcceptedPath
  <2> QED BY <2>2, <2>3, <2>4
<1> QED BY <1>1, <1>2, <1>3, <1>4 DEF AcceptingPath

LEMMA AcceptedTails ==
  ASSUME NEW s, AcceptedPath(s)
  PROVE  /\ s[1] = "enqueue" => AnsweringPath(Tail(s))
         /\ s[1] = "ack" => Len(s) # 1 /\ AcceptedPath(Tail(s))
         /\ s[1] = "handover" => Len(s) = 1
         /\ s[1] # "handover" /\ HandingPath(Tail(s)) => HandingPath(s)
         /\ s[1] = "handover" => HandingPath(s)
<1>1. CASE s = <<"enqueue", "ack">>
  <2>1. Tail(s) = <<"ack">> /\ s[1] = "enqueue" /\ Len(s) = 2
    BY <1>1
  <2>2. s[1] = "enqueue" => AnsweringPath(Tail(s))
    BY <1>1, <2>1 DEF HandingPath, AcceptedPath, AnsweringPath
  <2>3. s[1] = "ack" => Len(s) # 1 /\ AcceptedPath(Tail(s))
    BY <1>1, <2>1 DEF HandingPath, AcceptedPath, AnsweringPath
  <2>4. s[1] = "handover" => Len(s) = 1
    BY <1>1, <2>1 DEF HandingPath, AcceptedPath, AnsweringPath
  <2>5. s[1] # "handover" /\ HandingPath(Tail(s)) => HandingPath(s)
    BY <1>1, <2>1 DEF HandingPath, AcceptedPath, AnsweringPath
  <2>6. s[1] = "handover" => HandingPath(s)
    BY <1>1, <2>1 DEF HandingPath, AcceptedPath, AnsweringPath
  <2> QED BY <2>2, <2>3, <2>4, <2>5, <2>6
<1>2. CASE s = <<"ack", "handover">>
  <2>1. Tail(s) = <<"handover">> /\ s[1] = "ack" /\ Len(s) = 2
    BY <1>2
  <2>2. s[1] = "enqueue" => AnsweringPath(Tail(s))
    BY <1>2, <2>1 DEF HandingPath, AcceptedPath, AnsweringPath
  <2>3. s[1] = "ack" => Len(s) # 1 /\ AcceptedPath(Tail(s))
    BY <1>2, <2>1 DEF HandingPath, AcceptedPath, AnsweringPath
  <2>4. s[1] = "handover" => Len(s) = 1
    BY <1>2, <2>1 DEF HandingPath, AcceptedPath, AnsweringPath
  <2>5. s[1] # "handover" /\ HandingPath(Tail(s)) => HandingPath(s)
    BY <1>2, <2>1 DEF HandingPath, AcceptedPath, AnsweringPath
  <2>6. s[1] = "handover" => HandingPath(s)
    BY <1>2, <2>1 DEF HandingPath, AcceptedPath, AnsweringPath
  <2> QED BY <2>2, <2>3, <2>4, <2>5, <2>6
<1>3. CASE s = <<"handover">>
  <2>1. Tail(s) = <<>> /\ s[1] = "handover" /\ Len(s) = 1
    BY <1>3
  <2>2. s[1] = "enqueue" => AnsweringPath(Tail(s))
    BY <1>3, <2>1 DEF HandingPath, AcceptedPath, AnsweringPath
  <2>3. s[1] = "ack" => Len(s) # 1 /\ AcceptedPath(Tail(s))
    BY <1>3, <2>1 DEF HandingPath, AcceptedPath, AnsweringPath
  <2>4. s[1] = "handover" => Len(s) = 1
    BY <1>3, <2>1 DEF HandingPath, AcceptedPath, AnsweringPath
  <2>5. s[1] # "handover" /\ HandingPath(Tail(s)) => HandingPath(s)
    BY <1>3, <2>1 DEF HandingPath, AcceptedPath, AnsweringPath
  <2>6. s[1] = "handover" => HandingPath(s)
    BY <1>3, <2>1 DEF HandingPath, AcceptedPath, AnsweringPath
  <2> QED BY <2>2, <2>3, <2>4, <2>5, <2>6
<1> QED BY <1>1, <1>2, <1>3 DEF AcceptedPath

LEMMA GivingTails ==
  ASSUME NEW s, GivingPath(s)
  PROVE  /\ s[1] = "create" => GivingPath(Tail(s))
         /\ s[1] # "create" => Len(s) # 1 /\ RecordingPath(Tail(s))
         /\ HandingPath(Tail(s)) => HandingPath(s)
         /\ s[1] = "handover" => HandingPath(s)
<1>1. CASE s = <<"create", "steer", "record", "ack">>
  <2>1. Tail(s) = <<"steer", "record", "ack">> /\ s[1] = "create" /\ Len(s) = 4
    BY <1>1
  <2>2. s[1] = "create" => GivingPath(Tail(s))
    BY <1>1, <2>1 DEF HandingPath, GivingPath, RecordingPath
  <2>3. s[1] # "create" => Len(s) # 1 /\ RecordingPath(Tail(s))
    BY <1>1, <2>1 DEF HandingPath, GivingPath, RecordingPath
  <2>4. HandingPath(Tail(s)) => HandingPath(s)
    BY <1>1, <2>1 DEF HandingPath, GivingPath, RecordingPath
  <2>5. s[1] = "handover" => HandingPath(s)
    BY <1>1, <2>1 DEF HandingPath, GivingPath, RecordingPath
  <2> QED BY <2>2, <2>3, <2>4, <2>5
<1>2. CASE s = <<"steer", "record", "ack">>
  <2>1. Tail(s) = <<"record", "ack">> /\ s[1] = "steer" /\ Len(s) = 3
    BY <1>2
  <2>2. s[1] = "create" => GivingPath(Tail(s))
    BY <1>2, <2>1 DEF HandingPath, GivingPath, RecordingPath
  <2>3. s[1] # "create" => Len(s) # 1 /\ RecordingPath(Tail(s))
    BY <1>2, <2>1 DEF HandingPath, GivingPath, RecordingPath
  <2>4. HandingPath(Tail(s)) => HandingPath(s)
    BY <1>2, <2>1 DEF HandingPath, GivingPath, RecordingPath
  <2>5. s[1] = "handover" => HandingPath(s)
    BY <1>2, <2>1 DEF HandingPath, GivingPath, RecordingPath
  <2> QED BY <2>2, <2>3, <2>4, <2>5
<1>3. CASE s = <<"create", "enqueue", "record", "ack">>
  <2>1. Tail(s) = <<"enqueue", "record", "ack">> /\ s[1] = "create" /\ Len(s) = 4
    BY <1>3
  <2>2. s[1] = "create" => GivingPath(Tail(s))
    BY <1>3, <2>1 DEF HandingPath, GivingPath, RecordingPath
  <2>3. s[1] # "create" => Len(s) # 1 /\ RecordingPath(Tail(s))
    BY <1>3, <2>1 DEF HandingPath, GivingPath, RecordingPath
  <2>4. HandingPath(Tail(s)) => HandingPath(s)
    BY <1>3, <2>1 DEF HandingPath, GivingPath, RecordingPath
  <2>5. s[1] = "handover" => HandingPath(s)
    BY <1>3, <2>1 DEF HandingPath, GivingPath, RecordingPath
  <2> QED BY <2>2, <2>3, <2>4, <2>5
<1>4. CASE s = <<"enqueue", "record", "ack">>
  <2>1. Tail(s) = <<"record", "ack">> /\ s[1] = "enqueue" /\ Len(s) = 3
    BY <1>4
  <2>2. s[1] = "create" => GivingPath(Tail(s))
    BY <1>4, <2>1 DEF HandingPath, GivingPath, RecordingPath
  <2>3. s[1] # "create" => Len(s) # 1 /\ RecordingPath(Tail(s))
    BY <1>4, <2>1 DEF HandingPath, GivingPath, RecordingPath
  <2>4. HandingPath(Tail(s)) => HandingPath(s)
    BY <1>4, <2>1 DEF HandingPath, GivingPath, RecordingPath
  <2>5. s[1] = "handover" => HandingPath(s)
    BY <1>4, <2>1 DEF HandingPath, GivingPath, RecordingPath
  <2> QED BY <2>2, <2>3, <2>4, <2>5
<1>5. CASE s = <<"create", "handover", "record", "ack">>
  <2>1. Tail(s) = <<"handover", "record", "ack">> /\ s[1] = "create" /\ Len(s) = 4
    BY <1>5
  <2>2. s[1] = "create" => GivingPath(Tail(s))
    BY <1>5, <2>1 DEF HandingPath, GivingPath, RecordingPath
  <2>3. s[1] # "create" => Len(s) # 1 /\ RecordingPath(Tail(s))
    BY <1>5, <2>1 DEF HandingPath, GivingPath, RecordingPath
  <2>4. HandingPath(Tail(s)) => HandingPath(s)
    BY <1>5, <2>1 DEF HandingPath, GivingPath, RecordingPath
  <2>5. s[1] = "handover" => HandingPath(s)
    BY <1>5, <2>1 DEF HandingPath, GivingPath, RecordingPath
  <2> QED BY <2>2, <2>3, <2>4, <2>5
<1>6. CASE s = <<"handover", "record", "ack">>
  <2>1. Tail(s) = <<"record", "ack">> /\ s[1] = "handover" /\ Len(s) = 3
    BY <1>6
  <2>2. s[1] = "create" => GivingPath(Tail(s))
    BY <1>6, <2>1 DEF HandingPath, GivingPath, RecordingPath
  <2>3. s[1] # "create" => Len(s) # 1 /\ RecordingPath(Tail(s))
    BY <1>6, <2>1 DEF HandingPath, GivingPath, RecordingPath
  <2>4. HandingPath(Tail(s)) => HandingPath(s)
    BY <1>6, <2>1 DEF HandingPath, GivingPath, RecordingPath
  <2>5. s[1] = "handover" => HandingPath(s)
    BY <1>6, <2>1 DEF HandingPath, GivingPath, RecordingPath
  <2> QED BY <2>2, <2>3, <2>4, <2>5
<1> QED BY <1>1, <1>2, <1>3, <1>4, <1>5, <1>6 DEF GivingPath

LEMMA EndTails ==
  ASSUME NEW s
  PROVE  /\ RecordingPath(s) => AnsweringPath(Tail(s))
         /\ AnsweringPath(s) => Len(s) = 1
         /\ RecordingPath(s) \/ AnsweringPath(s) => ~HandingPath(s)
<1>1. RecordingPath(s) => AnsweringPath(Tail(s))
  BY DEF RecordingPath, AnsweringPath
<1>2. AnsweringPath(s) => Len(s) = 1
  BY DEF AnsweringPath
<1>3. RecordingPath(s) => ~HandingPath(s)
  BY DEF RecordingPath, HandingPath
<1>4. AnsweringPath(s) => ~HandingPath(s)
  BY DEF AnsweringPath, HandingPath
<1> QED BY <1>1, <1>2, <1>3, <1>4
LEMMA Apart ==
  ASSUME NEW s
  PROVE  /\ RestingPath(s) \/ AnsweringPath(s) =>
              ~AcceptingPath(s) /\ ~AcceptedPath(s) /\ ~GivingPath(s) /\ ~RecordingPath(s)
         /\ AcceptingPath(s) => ~AcceptedPath(s)
         /\ GivingPath(s) => ~RecordingPath(s)
<1>1. RestingPath(s) => ~AcceptingPath(s) /\ ~AcceptedPath(s) /\ ~GivingPath(s)
                        /\ ~RecordingPath(s)
  <2>1. CASE s = <<>>
    BY <2>1, PathHeads
  <2>2. CASE s # <<>>
    BY <2>2, PathHeads
  <2> QED BY <2>1, <2>2
<1>2. AnsweringPath(s) => ~AcceptingPath(s) /\ ~GivingPath(s) /\ ~RecordingPath(s)
  BY PathHeads
<1>3. AnsweringPath(s) => ~AcceptedPath(s)
  BY PathHeads, EndTails, AcceptedTails
<1>4. AcceptingPath(s) => ~AcceptedPath(s)
  BY PathHeads
<1>5. GivingPath(s) => ~RecordingPath(s)
  BY PathHeads
<1> QED BY <1>1, <1>2, <1>3, <1>4, <1>5

LEMMA NewPaths ==
  ASSUME NEW m, NEW queued \in BOOLEAN, Via[m] \in Intents
  PROVE  LET s == Path(Via[m], queued) IN
         /\ Via[m] = "chat" => AcceptingPath(s)
         /\ Via[m] # "chat" => GivingPath(s)
         /\ queued => ~HandingPath(s)
<1> DEFINE s == Path(Via[m], queued)
<1>1. CASE Via[m] = "chat" /\ queued
  <2>1. s = <<"create", "record", "enqueue", "ack">>
    BY <1>1 DEF Path
  <2>2. AcceptingPath(<<"create", "record", "enqueue", "ack">>)
    BY DEF AcceptingPath
  <2>3. ~HandingPath(<<"create", "record", "enqueue", "ack">>)
    BY DEF HandingPath
  <2> QED BY <1>1, <2>1, <2>2, <2>3
<1>2. CASE Via[m] = "chat" /\ ~queued
  <2>1. s = <<"create", "record", "ack", "handover">>
    BY <1>2 DEF Path
  <2> QED BY <1>2, <2>1 DEF AcceptingPath
<1>3. CASE Via[m] = "steer" /\ queued
  <2>1. s = <<"create", "steer", "record", "ack">>
    BY <1>3 DEF Path
  <2>2. GivingPath(<<"create", "steer", "record", "ack">>)
    BY DEF GivingPath
  <2>3. ~HandingPath(<<"create", "steer", "record", "ack">>)
    BY DEF HandingPath
  <2> QED BY <1>3, <2>1, <2>2, <2>3
<1>4. CASE Via[m] = "queue" /\ queued
  <2>1. s = <<"create", "enqueue", "record", "ack">>
    BY <1>4 DEF Path
  <2>2. GivingPath(<<"create", "enqueue", "record", "ack">>)
    BY DEF GivingPath
  <2>3. ~HandingPath(<<"create", "enqueue", "record", "ack">>)
    BY DEF HandingPath
  <2> QED BY <1>4, <2>1, <2>2, <2>3
<1>5. CASE Via[m] # "chat" /\ ~queued
  <2>1. s = <<"create", "handover", "record", "ack">>
    BY <1>5 DEF Path
  <2> QED BY <1>5, <2>1 DEF GivingPath
<1> QED BY <1>1, <1>2, <1>3, <1>4, <1>5 DEF Intents

(* Where the handler is when it is about to do a step.                     *)
LEMMA Whereabouts ==
  ASSUME FrameInv
  PROVE  /\ Busy("create") => Accepting \/ Giving
         /\ Busy("record") => Accepting \/ Recording
         /\ Busy("enqueue") => Accepted \/ Giving
         /\ Busy("steer") => Giving
         /\ Busy("ack") => Accepted \/ Answering
         /\ Busy("handover") => Accepted \/ Giving
         /\ Busy("stop") \/ Busy("cancel") \/ Busy("clean") => Resting
<1> DEFINE s == frame.todo
<1>1. /\ RestingPath(s)   => s = <<>> \/ s[1] \in {"stop", "cancel", "clean"}
      /\ AcceptingPath(s) => s # <<>> /\ s[1] \in {"create", "record"}
      /\ AcceptedPath(s)  => s # <<>> /\ s[1] \in {"enqueue", "ack", "handover"}
      /\ GivingPath(s)    => s # <<>> /\ s[1] \in {"create", "steer", "enqueue", "handover"}
      /\ RecordingPath(s) => s # <<>> /\ s[1] = "record"
      /\ AnsweringPath(s) => s # <<>> /\ s[1] = "ack"
  BY PathHeads
<1> QED
  BY <1>1 DEF FrameInv, Busy, Resting, Accepting, Accepted, Giving, Recording, Answering

LEMMA HandoverPaths ==
  ASSUME FrameInv, Busy("handover")
  PROVE  HandingPath(frame.todo)
<1>1. Accepted \/ Giving
  BY Whereabouts
<1> QED BY <1>1, AcceptedTails, GivingTails DEF Accepted, Giving, Busy

LEMMA IdleFrame == Idle.todo = <<>> /\ RestingPath(Idle.todo) /\ ~HandingPath(Idle.todo)
<1>1. Idle.todo = <<>>
  BY DEF Idle
<1>2. RestingPath(<<>>)
  BY DEF RestingPath
<1> QED BY <1>1, <1>2, RestingTails

-----------------------------------------------------------------------------
(* The handlers and sessions that leave the messages alone.                *)

(* A handler that rests, or ends for whatever reason, keeps the invariant  *)
(* if the message that Hermes has and nobody recorded counts as such.      *)
LEMMA Rests ==
  ASSUME IInv, Fields', RestingPath(frame'.todo),
         UNCHANGED <<made, msg, accepted, given>>,
         unrecorded \subseteq unrecorded',
         Recording /\ made \in given => frame.m \in unrecorded'
  PROVE  IInv'
<1>1. Shape'
  BY DEF IInv, Shape, Fields, Turn, None
<1>2. Resting' /\ ~Accepting' /\ ~Accepted' /\ ~Giving' /\ ~Recording'
  BY Apart DEF Resting, Accepting, Accepted, Giving, Recording
<1>3. FrameInv'
  BY <1>2 DEF FrameInv
<1>4. GivenInv'
  <2> SUFFICES ASSUME NEW t \in given
               PROVE  /\ msg[t] \in Msgs
                      /\ accepted[msg[t]] = t \/ (Via[msg[t]] # "chat" /\ msg[t] \in unrecorded')
    BY DEF GivenInv
  <2>1. CASE Recording /\ t = made
    BY <2>1 DEF Recording, OfTurn, Chat
  <2>2. CASE ~(Recording /\ t = made)
    BY <2>2 DEF IInv, GivenInv
  <2> QED BY <2>1, <2>2
<1>5. HandInv'
  BY RestingTails DEF HandInv
<1> QED BY <1>1, <1>3, <1>4, <1>5 DEF IInv

LEMMA Leaves ==
  ASSUME IInv, Leave, UNCHANGED <<made, msg, accepted, given>>,
         unrecorded \subseteq unrecorded',
         Recording /\ made \in given => frame.m \in unrecorded'
  PROVE  IInv'
<1>1. Fields' /\ RestingPath(frame'.todo)
  BY IdleFrame DEF Leave, Fields, Idle
<1> QED BY <1>1, Rests

(* So does a session that begins none.                                     *)
LEMMA SessionKeeps ==
  ASSUME IInv, UNCHANGED <<store, frame, given, unrecorded>>,
         stack = <<>> => stack' = <<>>
  PROVE  IInv'
<1> USE DEF store
<1>1. Shape'
  BY DEF IInv, Shape, Fields
<1>2. FrameInv'
  BY DEF IInv, FrameInv, Resting, Accepting, Accepted, Giving, Recording, Answering, OfTurn, Chat
<1>3. GivenInv'
  BY DEF IInv, GivenInv, Recording, OfTurn, Chat
<1>4. HandInv'
  BY DEF IInv, HandInv
<1> QED BY <1>1, <1>2, <1>3, <1>4 DEF IInv

-----------------------------------------------------------------------------
(* Init and the steps of a handler that takes a message.                   *)

LEMMA InitInv == ASSUME Init PROVE IInv
<1>1. frame = Idle /\ made = 0 /\ given = {} /\ accepted = [m \in Msgs |-> None]
      /\ msg = [t \in Turn |-> Idle.m]
  BY DEF Init
<1>2. Shape
  <2>1. Fields
    BY <1>1 DEF Fields, Idle
  <2>2. made \in 0..MaxTurns
    BY <1>1, TurnsAssumption
  <2> QED BY <1>1, <2>1, <2>2 DEF Shape
<1>3. RestingPath(frame.todo) /\ ~HandingPath(frame.todo)
  BY <1>1, IdleFrame
<1>4. FrameInv
  BY <1>3, Apart DEF FrameInv, Resting, Accepting, Accepted, Giving, Recording
<1>5. GivenInv /\ HandInv
  BY <1>1, <1>3 DEF GivenInv, HandInv
<1> QED BY <1>2, <1>4, <1>5 DEF IInv

LEMMA ReceiveInv == ASSUME IInv, NEW m \in Msgs, Receive(m) PROVE IInv'
<1> DEFINE path == Path(Via[m], ShouldQueue)
<1>1. /\ frame = Idle /\ accepted[m] = None /\ made < MaxTurns
      /\ made' = made + 1
      /\ msg' = [msg EXCEPT ![made + 1] = m]
      /\ frame' = [todo |-> path, m |-> m, t |-> made + 1,
                   queued |-> ShouldQueue, before |-> None]
      /\ UNCHANGED <<accepted, given, unrecorded, stack>>
  BY DEF Receive, history, session
<1>2. /\ made \in Nat /\ made + 1 \in Turn /\ given \subseteq 1..made
      /\ made + 1 \notin given /\ (\A t \in given : t \in Turn /\ t # made + 1)
  BY <1>1, TurnsAssumption DEF IInv, Shape, Turn
<1>3. /\ msg'[made'] = m /\ frame'.todo = path /\ frame'.m = m /\ frame'.t = made'
      /\ \A t \in given : msg'[t] = msg[t]
  BY <1>1, <1>2 DEF IInv, Shape
<1>4. ShouldQueue \in BOOLEAN /\ (~ShouldQueue => stack = <<>>)
  BY DEF ShouldQueue
<1>5. /\ Via[m] = "chat" => AcceptingPath(path)
      /\ Via[m] # "chat" => GivingPath(path)
      /\ ShouldQueue => ~HandingPath(path)
  BY <1>4, NewPaths, TurnsAssumption
<1>6. OfTurn' /\ (Accepting' \/ Giving') /\ ~Accepted'
  BY <1>1, <1>2, <1>3, <1>5, Apart DEF OfTurn, Accepting, Giving, Accepted, Chat
<1>7. Shape'
  <2>1. Fields'
    BY <1>1 DEF Fields
  <2>2. made' \in 0..MaxTurns /\ given' \subseteq 1..made'
    BY <1>1, <1>2, TurnsAssumption DEF Turn
  <2>3. msg' \in [Turn -> Msgs \cup {Idle.m}]
    BY <1>1, <1>2 DEF IInv, Shape
  <2> QED BY <1>1, <2>1, <2>2, <2>3 DEF IInv, Shape
<1>8. FrameInv'
  <2>1. accepted'[frame'.m] = None /\ made' \notin given'
    BY <1>1, <1>2, <1>3
  <2> QED BY <1>6, <2>1 DEF FrameInv
<1>9. GivenInv'
  <2>1. ~Recording
    BY <1>1, IdleFrame, Apart DEF Recording
  <2> QED BY <1>1, <1>3, <2>1 DEF IInv, GivenInv
<1>10. HandInv'
  BY <1>1, <1>3, <1>4, <1>5 DEF HandInv
<1> QED BY <1>7, <1>8, <1>9, <1>10 DEF IInv

(* What becomes of the fields of a frame that proceeds.                    *)
LEMMA FieldsProceed ==
  ASSUME Fields, NEW before,
         frame' = [frame EXCEPT !.todo = Tail(frame.todo)]
         \/ frame' = [frame EXCEPT !.todo = Tail(@), !.before = before]
  PROVE  /\ Fields'
         /\ frame'.todo = Tail(frame.todo)
         /\ frame'.m = frame.m /\ frame'.t = frame.t
  BY DEF Fields

LEMMA CreateInv == ASSUME IInv, Create PROVE IInv'
<1>1. Busy("create") /\ frame.todo # <<>> /\ frame.todo[1] = "create"
  BY DEF Create, Busy
<1>2. UNCHANGED <<made, msg, accepted, given, unrecorded, stack>>
  BY DEF Create, store, session, history
<1>3. Fields' /\ frame'.todo = Tail(frame.todo) /\ frame'.m = frame.m /\ frame'.t = frame.t
  BY FieldsProceed DEF Create, IInv, Shape
<1>4. /\ Accepting => Accepting' /\ ~Accepted'
      /\ Giving => Giving' /\ ~Recording' /\ ~Accepted'
      /\ Accepting \/ Giving => (HandingPath(frame'.todo) => HandingPath(frame.todo))
  BY <1>1, <1>2, <1>3, AcceptingTails, GivingTails, Apart
  DEF Accepting, Accepted, Giving, Recording, OfTurn, Chat
<1>5. Accepting \/ Giving
  BY <1>1, Whereabouts DEF IInv
<1>6. ~Recording
  BY <1>5, Apart DEF Accepting, Giving, Recording, Chat
<1>7. Shape'
  BY <1>2, <1>3 DEF IInv, Shape
<1>8. FrameInv'
  BY <1>2, <1>3, <1>4, <1>5 DEF IInv, FrameInv
<1>9. GivenInv'
  BY <1>2, <1>6 DEF IInv, GivenInv
<1>10. HandInv'
  BY <1>2, <1>4, <1>5 DEF IInv, HandInv
<1> QED BY <1>7, <1>8, <1>9, <1>10 DEF IInv

LEMMA RecordInv == ASSUME IInv, Record PROVE IInv'
<1>1. Busy("record") /\ frame.todo # <<>> /\ frame.todo[1] = "record"
  BY DEF Record, Busy
<1>2. /\ accepted' = [accepted EXCEPT ![frame.m] = frame.t]
      /\ UNCHANGED <<made, msg, given, unrecorded, stack>>
  BY DEF Record, session, history
<1>3. Fields' /\ frame'.todo = Tail(frame.todo) /\ frame'.m = frame.m /\ frame'.t = frame.t
  BY FieldsProceed DEF Record, Proceed, IInv, Shape
<1>4. /\ Accepting => Accepted' /\ ~Accepting'
      /\ Recording => Answering'
      /\ Accepting => (HandingPath(frame'.todo) => HandingPath(frame.todo))
      /\ Recording => ~HandingPath(frame'.todo)
  BY <1>1, <1>2, <1>3, AcceptingTails, EndTails, Apart
  DEF Accepting, Accepted, Recording, Answering, OfTurn, Chat
<1>5. (Accepting \/ Recording) /\ OfTurn /\ accepted[frame.m] = None
  BY <1>1, Whereabouts DEF IInv, FrameInv, Accepting, Recording
<1>6. accepted' \in [Msgs -> Turn \cup {None}] /\ accepted'[frame.m] = made
  BY <1>2, <1>5 DEF IInv, Shape, OfTurn
<1>7. Shape'
  BY <1>2, <1>3, <1>6 DEF IInv, Shape
<1>8. FrameInv'
  <2>1. CASE Accepting
    <3>1. Accepted' /\ ~Accepting' /\ ~Giving' /\ ~Recording'
      BY <1>4, <2>1 DEF Accepted, Giving, Recording
    <3> QED BY <1>2, <1>3, <1>6, <2>1, <3>1 DEF IInv, FrameInv
  <2>2. CASE Recording
    <3>1. Answering' /\ ~Accepting' /\ ~Accepted' /\ ~Giving' /\ ~Recording'
      BY <1>4, <2>2, Apart DEF Answering, Accepting, Accepted, Giving, Recording
    <3> QED BY <3>1 DEF FrameInv
  <2> QED BY <1>5, <2>1, <2>2
<1>9. GivenInv'
  <2> SUFFICES ASSUME NEW t \in given
               PROVE  /\ msg[t] \in Msgs
                      /\ accepted'[msg[t]] = t \/ (Via[msg[t]] # "chat" /\ msg[t] \in unrecorded)
    BY <1>2 DEF GivenInv
  <2>1. t # None
    BY DEF IInv, Shape, None
  <2>2. CASE accepted[msg[t]] = t /\ msg[t] \in Msgs
    <3>1. msg[t] # frame.m
      BY <1>5, <2>1, <2>2
    <3> QED BY <1>2, <2>2, <3>1 DEF IInv, Shape
  <2>3. CASE Recording /\ t = made
    BY <1>6, <2>3 DEF Recording, OfTurn
  <2> QED BY <2>2, <2>3 DEF IInv, GivenInv
<1>10. HandInv'
  BY <1>2, <1>4, <1>5 DEF IInv, HandInv
<1> QED BY <1>7, <1>8, <1>9, <1>10 DEF IInv

(* A message that is given to Hermes: one of chat_message is recorded, one *)
(* of the other two is about to be.                                        *)
LEMMA GivenNow ==
  ASSUME IInv, OfTurn, UNCHANGED <<made, msg, accepted, unrecorded>>,
         given' \subseteq given \cup {made},
         Accepted \/ Giving,
         Giving => Recording',
         Accepted /\ made \in given' => accepted[frame.m] = made
  PROVE  GivenInv'
<1>1. ~Recording
  BY Apart DEF Accepted, Giving, Recording, Chat
<1> SUFFICES ASSUME NEW t \in given'
             PROVE  /\ msg[t] \in Msgs
                    /\ \/ accepted[msg[t]] = t
                       \/ Recording' /\ t = made
                       \/ Via[msg[t]] # "chat" /\ msg[t] \in unrecorded
  BY DEF GivenInv
<1>2. CASE t \in given
  BY <1>1, <1>2 DEF IInv, GivenInv
<1>3. CASE t = made
  BY <1>3 DEF OfTurn
<1> QED BY <1>2, <1>3

(* The steps that give a message to Hermes, or do not when it was          *)
(* cancelled: the frame goes on, or ends, and Hermes has the message.      *)
LEMMA GivesInv ==
  ASSUME IInv, Busy("enqueue") \/ Busy("steer") \/ Busy("handover"),
         UNCHANGED <<made, msg, accepted, unrecorded>>,
         given' \in {given, given \cup {frame.t}},
         \/ Len(frame.todo) = 1 /\ Leave
         \/ Len(frame.todo) # 1 /\ Proceed,
         Busy("handover") \/ UNCHANGED stack
  PROVE  IInv'
<1>1. frame.todo # <<>> /\ frame.todo[1] \in {"enqueue", "steer", "handover"}
  BY DEF Busy
<1>2. Accepted \/ Giving
  BY Whereabouts DEF IInv
<1>3. OfTurn /\ frame.t = made /\ ~(Accepted /\ Giving) /\ (Accepted => accepted[frame.m] = made)
  BY <1>2 DEF IInv, FrameInv, Accepted, Giving, OfTurn
<1>4. CASE Accepted
  <2>1. Fields' /\ (RestingPath(frame'.todo) \/ AnsweringPath(frame'.todo))
    <3>1. CASE Leave
      BY <3>1, IdleFrame DEF Leave, Fields, Idle
    <3>2. CASE Proceed /\ Len(frame.todo) # 1
      <4>1. Fields' /\ frame'.todo = Tail(frame.todo)
        BY <3>2, FieldsProceed DEF Proceed, IInv, Shape
      <4>2. frame.todo[1] = "enqueue"
        BY <1>1, <1>4, <3>2, PathHeads, AcceptedTails DEF Accepted
      <4> QED BY <1>4, <4>1, <4>2, AcceptedTails DEF Accepted
    <3> QED BY <3>1, <3>2
  <2>2. (Resting' \/ Answering') /\ ~Accepting' /\ ~Accepted' /\ ~Giving' /\ ~Recording'
    BY <2>1, Apart DEF Resting, Answering, Accepting, Accepted, Giving, Recording
  <2>3. FrameInv'
    BY <2>2 DEF FrameInv
  <2>4. GivenInv'
    BY <1>3, <1>4, GivenNow
  <2>5. HandInv'
    BY <2>1, RestingTails, EndTails DEF HandInv
  <2>6. Shape'
    BY <1>3, <2>1 DEF IInv, Shape, OfTurn, Turn
  <2> QED BY <2>3, <2>4, <2>5, <2>6 DEF IInv
<1>5. CASE Giving
  <2>1. Len(frame.todo) # 1 /\ RecordingPath(Tail(frame.todo))
    BY <1>1, <1>5, GivingTails DEF Giving
  <2>2. Fields' /\ frame'.todo = Tail(frame.todo) /\ frame'.m = frame.m /\ frame'.t = frame.t
    BY <2>1, FieldsProceed DEF Proceed, IInv, Shape
  <2>3. Recording' /\ ~Accepting' /\ ~Accepted' /\ ~Giving'
    BY <1>5, <2>1, <2>2, Apart DEF Giving, Accepting, Accepted, Recording, OfTurn, Chat
  <2>4. accepted'[frame'.m] = None
    BY <1>5, <2>2 DEF IInv, FrameInv
  <2>5. FrameInv'
    BY <2>3, <2>4 DEF FrameInv
  <2>6. GivenInv'
    BY <1>3, <1>5, <2>3, GivenNow
  <2>7. HandInv'
    BY <2>1, <2>2, EndTails DEF HandInv
  <2>8. Shape'
    BY <1>3, <2>2 DEF IInv, Shape, OfTurn, Turn
  <2> QED BY <2>5, <2>6, <2>7, <2>8 DEF IInv
<1> QED BY <1>2, <1>4, <1>5

LEMMA AcknowledgeInv == ASSUME IInv, Acknowledge PROVE IInv'
<1>1. Busy("ack") /\ frame.todo # <<>> /\ frame.todo[1] = "ack"
      /\ UNCHANGED <<made, msg, accepted, given, unrecorded, stack>>
  BY DEF Acknowledge, Busy, store, session
<1>2. Accepted \/ Answering
  BY <1>1, Whereabouts DEF IInv
<1>3. ~Recording
  BY <1>2, Apart DEF Accepted, Answering, Recording, Chat
<1>4. CASE Answering
  BY <1>1, <1>3, <1>4, EndTails, Leaves DEF Acknowledge, Answering
<1>5. CASE Accepted
  <2>1. Proceed /\ AcceptedPath(Tail(frame.todo))
    BY <1>1, <1>5, AcceptedTails DEF Accepted, Acknowledge
  <2>2. Fields' /\ frame'.todo = Tail(frame.todo) /\ frame'.m = frame.m /\ frame'.t = frame.t
    BY <2>1, FieldsProceed DEF Proceed, IInv, Shape
  <2>3. Accepted' /\ ~Accepting' /\ ~Giving' /\ ~Recording'
    BY <1>1, <1>5, <2>1, <2>2, Apart
    DEF Accepted, Accepting, Giving, Recording, OfTurn, Chat
  <2>4. FrameInv'
    BY <1>1, <1>5, <2>2, <2>3 DEF IInv, FrameInv
  <2>5. GivenInv'
    BY <1>1, <1>3 DEF IInv, GivenInv
  <2>6. HandInv'
    BY <1>1, <1>5, <2>2, AcceptedTails DEF IInv, HandInv, Accepted
  <2>7. Shape'
    BY <1>1, <2>2 DEF IInv, Shape
  <2> QED BY <2>4, <2>5, <2>6, <2>7 DEF IInv
<1> QED BY <1>2, <1>4, <1>5

(* The steps that give a message to Hermes, or hand it over in vain.       *)
LEMMA GivingSteps ==
  ASSUME IInv, Queue \/ Steer \/ SteerFallsBack \/ HandOver \/ HandOverFails
  PROVE  IInv'
<1>1. \/ Busy("handover")
      \/ (Busy("enqueue") \/ Busy("steer")) /\ UNCHANGED stack /\ Proceed
  BY DEF Queue, Steer, SteerFallsBack, HandOver, HandOverFails, session
<1>2. UNCHANGED <<made, msg, accepted, unrecorded>>
      /\ given' \in {given, given \cup {frame.t}}
  BY DEF Queue, Steer, SteerFallsBack, HandOver, HandOverFails, Enqueue, store, history
<1>3. \/ Len(frame.todo) = 1 /\ Leave
      \/ Len(frame.todo) # 1 /\ Proceed
  <2>1. CASE Busy("handover")
    BY <2>1, <1>1 DEF HandOver, HandOverFails, Queue, Steer, SteerFallsBack, Busy
  <2>2. CASE (Busy("enqueue") \/ Busy("steer")) /\ Proceed
    <3>1. Accepted \/ Giving
      BY <2>2, Whereabouts DEF IInv
    <3>2. CASE Giving
      BY <2>2, <3>2, GivingTails DEF Giving, Busy
    <3>3. CASE Accepted
      <4>1. frame.todo[1] = "enqueue"
        BY <2>2, <3>3, PathHeads DEF Accepted, Busy
      <4>2. Len(frame.todo) # 1
        BY <3>3, <4>1 DEF Accepted, AcceptedPath
      <4> QED BY <2>2, <4>2
    <3> QED BY <3>1, <3>2, <3>3
  <2> QED BY <1>1, <2>1, <2>2
<1> QED BY <1>1, <1>2, <1>3, GivesInv

(* A handler that fails, or whose process dies, leaves a message that      *)
(* Hermes has and nobody recorded as unrecorded.                           *)
LEMMA FailingSteps ==
  ASSUME IInv,
         \/ CreateFails \/ RecordFails \/ QueueFails \/ SteerFails
         \/ AcknowledgeFails \/ StopFails \/ CancelFails \/ Crash
  PROVE  IInv'
<1>1. Leave /\ UNCHANGED <<made, msg, accepted, given>>
  BY DEF CreateFails, RecordFails, QueueFails, SteerFails, AcknowledgeFails, StopFails,
         CancelFails, Crash, store, history
<1>2. unrecorded \subseteq unrecorded'
  BY DEF CreateFails, RecordFails, QueueFails, SteerFails, AcknowledgeFails, StopFails,
         CancelFails, Crash, history
<1>3. ASSUME Recording, made \in given PROVE frame.m \in unrecorded'
  <2>1. frame.todo # <<>> /\ frame.todo[1] = "record"
    BY <1>3, PathHeads DEF Recording
  <2>2. RecordFails \/ Crash
    BY <2>1 DEF CreateFails, RecordFails, QueueFails, SteerFails, AcknowledgeFails,
                StopFails, CancelFails, Crash, Busy
  <2>3. CASE RecordFails
    BY <1>3, <2>3 DEF RecordFails, Recording, Chat
  <2>4. CASE Crash
    BY <1>3, <2>4 DEF Crash, Recording, OfTurn, IInv, FrameInv
  <2> QED BY <2>2, <2>3, <2>4
<1> QED BY <1>1, <1>2, <1>3, Leaves

LEMMA CancellingSteps ==
  ASSUME IInv, AskCancel \/ Stopped \/ Cancel \/ CancelDone
  PROVE  IInv'
<1>1. UNCHANGED <<made, msg, accepted, given, unrecorded>>
  BY DEF AskCancel, Stopped, Cancel, CancelDone, store, history
<1>2. RestingPath(frame.todo)
  BY IdleFrame, Whereabouts DEF AskCancel, Stopped, Cancel, CancelDone, IInv, Resting
<1>3. ~Recording
  BY <1>2, Apart DEF Recording
<1>4. Fields' /\ RestingPath(frame'.todo)
  <2>1. CASE AskCancel
    <3>1. frame' = [Idle EXCEPT !.todo = <<"stop", "cancel", "clean">>, !.t = active]
      BY <2>1 DEF AskCancel
    <3>2. Fields' /\ frame'.todo = <<"stop", "cancel", "clean">>
      BY <3>1 DEF Fields, Idle
    <3> QED BY <3>2 DEF RestingPath
  <2>2. CASE Leave
    BY <2>2, IdleFrame DEF Leave, Fields, Idle
  <2>3. CASE Proceed /\ frame.todo # <<>>
    <3>1. Fields' /\ frame'.todo = Tail(frame.todo)
      BY <2>3, FieldsProceed DEF Proceed, IInv, Shape
    <3> QED BY <1>2, <2>3, <3>1, RestingTails
  <2> QED BY <2>1, <2>2, <2>3 DEF Stopped, Cancel, CancelDone, Busy
<1> QED BY <1>1, <1>3, <1>4, Rests

LEMMA SessionSteps == ASSUME IInv, Session PROVE IInv'
<1>1. UNCHANGED <<store, frame, given, unrecorded>>
  BY DEF Session, RunnerDrains, DrainedReturns, DrainedIsKilled, Returns,
         CompleteCancelled, CompleteStopped, DrainedEnds, Complete, StoreEnding,
         StoreEndingFails, Finalize, SessionGoesOn, SessionEnds, history
<1>2. ASSUME stack = <<>> PROVE stack' = <<>>
  <2>1. Len(stack) = 0
    BY <1>2
  <2> QED BY <1>2, <2>1
      DEF Session, RunnerDrains, DrainedReturns, DrainedIsKilled, Nested,
          CompleteCancelled, CompleteStopped, DrainedEnds, Complete, StoreEnding,
          StoreEndingFails, Finalize, SessionGoesOn, SessionEnds
<1> QED BY <1>1, <1>2, SessionKeeps

LEMMA StepInv == ASSUME IInv, [Next]_vars PROVE IInv'
<1>1. CASE \E m \in Msgs : Receive(m)
  BY <1>1, ReceiveInv
<1>2. CASE AskCancel
  BY <1>2, CancellingSteps
<1>3. CASE Handler
  BY <1>3, CreateInv, RecordInv, AcknowledgeInv, GivingSteps, FailingSteps, CancellingSteps
  DEF Handler
<1>4. CASE Session
  BY <1>4, SessionSteps
<1>5. CASE Crash
  BY <1>5, FailingSteps
<1>6. CASE UNCHANGED vars
  BY <1>6, SessionKeeps DEF vars, history, session
<1> QED BY <1>1, <1>2, <1>3, <1>4, <1>5, <1>6 DEF Next

-----------------------------------------------------------------------------
(* The invariant holds in every state.                                     *)
THEOREM Invariance == Spec => []IInv
<1>1. Init => IInv
  BY InitInv
<1>2. IInv /\ [Next]_vars => IInv'
  BY StepInv
<1> QED BY <1>1, <1>2, PTL DEF Spec

(* However many awaits lie between the moment the handler looked for a     *)
(* session and the moment it hands the message over, none has begun.       *)
THEOREM HandsOverToNone == Spec => []NeverInterrupts
<1>1. IInv => NeverInterrupts
  BY HandoverPaths DEF IInv, HandInv, NeverInterrupts
<1> QED BY <1>1, Invariance, PTL

(* However often a client repeats a message, and whatever fails, Hermes    *)
(* gets it as one turn, unless an action failed to record what it gave.    *)
THEOREM GivenOnce == Spec => []OneTurnPerMessage
<1>1. IInv => OneTurnPerMessage
  <2> SUFFICES ASSUME IInv, NEW t \in given, NEW u \in given, msg[t] = msg[u],
                      ~(Via[msg[t]] # "chat" /\ msg[t] \in unrecorded)
               PROVE  t = u
    BY DEF OneTurnPerMessage
  <2>1. t # None /\ u # None
    BY DEF IInv, Shape, None
  <2>2. accepted[msg[t]] = t \/ (Recording /\ t = made)
    BY DEF IInv, GivenInv
  <2>3. accepted[msg[u]] = u \/ (Recording /\ u = made)
    BY DEF IInv, GivenInv
  <2>4. Recording => accepted[msg[made]] = None
    BY DEF IInv, FrameInv, Recording, OfTurn
  <2> QED BY <2>1, <2>2, <2>3, <2>4
<1> QED BY <1>1, Invariance, PTL

-----------------------------------------------------------------------------
(* The life of a turn: who is going to end it, and who has.                *)
(*                                                                         *)
(* LInv, on top of IInv, says where each turn is (in the queue, in the     *)
(* session, with the handler, or nowhere), what the active turn waits for, *)
(* what the turns of a runner put back, and how endings and cancellations  *)
(* fit those places.  None of the three properties below is inductive      *)
(* without the others.                                                     *)

Queued(t) == t = slot \/ Contains(overflow, t)

(* The handler of turn.cancel, before and after it looked at the turn.     *)
Stopping(t)   == frame.t = t /\ frame.todo = <<"stop", "cancel", "clean">>
Ending(t)     == frame.t = t /\ frame.todo = <<"cancel", "clean">>
Cancelling(t) == Stopping(t) \/ Ending(t) \/ (frame.t = t /\ frame.todo = <<"clean">>)

(* The handler of a message has made its turn the active one.              *)
HandedPath(s) == s \in {<<"ack", "handover">>, <<"handover">>, <<"handover", "record", "ack">>}
Handing(t)    == frame.t = t /\ HandedPath(frame.todo)

(* Its turn is not known to anybody else yet.                              *)
Begun == Accepting \/ Accepted \/ Giving

Places ==
  /\ slot \in given \cup {None}
  /\ overflow \in Seq(given)
  /\ stack \in Seq(given)
  /\ frame.before \in given \cup {None}
  /\ frame.t \in 0..made
  /\ active \in 0..made
  /\ saved \in [Turn -> 0..made]
  /\ requested \subseteq 1..made /\ cancelled \subseteq 1..made
  /\ endings \in [Turn -> Seq(Kinds)]
  /\ kind \in Kinds
  /\ frame.queued \in BOOLEAN

Phases ==
  /\ phase \in {"running", "ending", "ended", "over"}
  /\ phase = "over" => Len(stack) <= 1
  /\ phase = "ending" => Len(stack) = 1
  /\ stack = <<>> => phase = "over"

(* Nobody has touched a turn that is still to be made, or to be given.     *)
Untouched ==
  \A t \in Turn :
    t > made \/ (t = made /\ Begun) =>
      t \notin requested /\ t \notin cancelled /\ endings[t] = <<>>

(* A path that is not to end in the queue leads to Hermes.                 *)
Ways == Accepting \/ Giving => frame.queued \/ HandingPath(frame.todo)

(* A turn is in one place, unless a failure took it out of its course.     *)
OnePlace ==
  /\ \A i, j \in 1..Len(stack) : stack[i] = stack[j] => i = j \/ stack[i] \in spoiled
  /\ \A i, j \in 1..Len(overflow) :
       overflow[i] = overflow[j] => i = j \/ overflow[i] \in spoiled
  /\ Contains(overflow, slot) => slot \in spoiled
  /\ \A t \in Turn : Contains(stack, t) /\ Queued(t) => t \in spoiled

Future ==
  active # None =>
    \/ active \in spoiled
    \/ Contains(stack, active)
    \/ stack = <<>> /\ (Cancelling(active) \/ Handing(active))

(* What a turn of the runner puts back is below it.                        *)
Below ==
  \A i \in 1..Len(stack) :
    \/ i = 1
    \/ \E j \in i + 1 .. Len(stack) : stack[j] = stack[i]
    \/ saved[stack[i]] \in {None, stack[i]} \cup spoiled
    \/ \E j \in 1 .. i - 1 : stack[j] = saved[stack[i]]

(* A session over whose turn is active leaves it to turn.cancel.           *)
Over ==
  phase = "over" /\ active # None /\ Contains(stack, active) =>
    active \in spoiled \/ Cancelling(active)

Requested ==
  \A t \in requested :
    Contains(stack, t) => \/ t \in cancelled \/ t \in spoiled \/ Stopping(t)
                    \/ (phase = "over" /\ active # t)

(* A turn that is cancelled twice is still in the hands of its session.    *)
Again ==
  \A t \in cancelled :
    Stopping(t) /\ active = t => t \in spoiled \/ (Contains(stack, t) /\ phase # "over")

(* What is cancelled waits in no queue.                                    *)
CancelInv ==
  \A t : Cancelling(t) => t \in 1..made /\ (t \in spoiled \/ ~Queued(t))

FutureInv == Future /\ Below /\ Over /\ Requested /\ Again

(* Endings.                                                                *)
Excused(t) == t \in raced \cup spoiled

Alone(t) == Len(stack) = 1 /\ stack[1] = t

EndInv ==
  \A t \in Turn : Excused(t) \/
    /\ Len(endings[t]) <= 1
    /\ Contains(stack, t) /\ endings[t] # <<>> =>
         \/ t \in cancelled
         \/ phase = "over"
         \/ phase = "ended" /\ stack[Len(stack)] = t
    /\ Queued(t) => endings[t] = <<>> /\ t \notin cancelled
    /\ Ending(t) => endings[t] = <<>> /\ (Contains(stack, t) => t \in cancelled \/ phase = "over")
    /\ \A i \in 2..Len(stack) : stack[i] = t => t \notin cancelled
    /\ phase = "ending" /\ stack[1] = t => t \notin cancelled

QuietInv ==
  /\ \A t \in cancelled : endings[t] # <<>> \/ t \in spoiled \/ Ending(t)
  /\ phase = "ended" => endings[stack[Len(stack)]] # <<>>
  /\ stack = <<>> => \A t \in Turn : Queued(t) => t \in spoiled
  /\ \A t \in given : \/ endings[t] # <<>> \/ t \in spoiled
                      \/ Stopping(t) \/ Ending(t) \/ Queued(t)
                      \/ Contains(stack, t) /\ phase # "over"

LInv == Places /\ Phases /\ Untouched /\ Ways /\ OnePlace /\ FutureInv /\ CancelInv
        /\ EndInv /\ QuietInv

-----------------------------------------------------------------------------
(* More about the paths.                                                   *)

LEMMA HandedPaths ==
  ASSUME NEW s
  PROVE  /\ GivingPath(s) /\ HandingPath(s) /\ s[1] = "create" =>
              HandingPath(Tail(s)) /\ HandedPath(Tail(s))
         /\ AcceptingPath(s) /\ HandingPath(s) /\ s[1] = "create" => HandingPath(Tail(s))
         /\ AcceptingPath(s) /\ HandingPath(s) /\ s[1] = "record" => HandedPath(Tail(s))
         /\ HandedPath(s) => /\ s # <<>> /\ s[1] \in {"ack", "handover"}
                             /\ s[1] = "ack" => Len(s) # 1 /\ HandedPath(Tail(s))
<1>1. CASE s = <<"create", "record", "enqueue", "ack">>
  <2>1. s[1] = "create" /\ Len(s) = 4
    BY <1>1
  <2> QED BY <1>1, <2>1 DEF GivingPath, HandingPath, HandedPath
<1>2. CASE s = <<"record", "enqueue", "ack">>
  <2>1. s[1] = "record" /\ Len(s) = 3 /\ s[2] = "enqueue"
    BY <1>2
  <2> QED BY <1>2, <2>1 DEF GivingPath, HandingPath, HandedPath
<1>3. CASE s = <<"create", "record", "ack", "handover">>
  <2>1. s[1] = "create" /\ Len(s) = 4 /\ Tail(s) = <<"record", "ack", "handover">>
    BY <1>3
  <2> QED BY <1>3, <2>1 DEF GivingPath, HandingPath, HandedPath
<1>4. CASE s = <<"record", "ack", "handover">>
  <2>1. s[1] = "record" /\ Len(s) = 3 /\ Tail(s) = <<"ack", "handover">>
    BY <1>4
  <2> QED BY <1>4, <2>1 DEF GivingPath, HandingPath, HandedPath
<1>5. CASE s = <<"create", "handover", "record", "ack">>
  <2>1. s[1] = "create" /\ Len(s) = 4 /\ Tail(s) = <<"handover", "record", "ack">>
    BY <1>5
  <2> QED BY <1>5, <2>1 DEF AcceptingPath, HandingPath, HandedPath
<1>6. CASE s = <<"handover", "record", "ack">>
  <2>1. s[1] = "handover" /\ Len(s) = 3
    BY <1>6
  <2> QED BY <1>6, <2>1 DEF AcceptingPath, HandingPath, HandedPath
<1>7. CASE s = <<"ack", "handover">>
  <2>1. s[1] = "ack" /\ Len(s) = 2 /\ Tail(s) = <<"handover">>
    BY <1>7
  <2> QED BY <1>7, <2>1 DEF GivingPath, AcceptingPath, HandingPath, HandedPath
<1>8. CASE s = <<"handover">>
  <2>1. s[1] = "handover" /\ Len(s) = 1
    BY <1>8
  <2> QED BY <1>8, <2>1 DEF GivingPath, AcceptingPath, HandingPath, HandedPath
<1> QED
  BY <1>1, <1>2, <1>3, <1>4, <1>5, <1>6, <1>7, <1>8
  DEF GivingPath, AcceptingPath, HandingPath, HandedPath

LEMMA LastTail ==
  ASSUME NEW s
  PROVE  /\ AcceptedPath(s) /\ s[1] = "handover" => Tail(s) = <<>>
         /\ AnsweringPath(s) => Tail(s) = <<>>
<1>1. ASSUME NEW x, s = <<x>> PROVE Tail(s) = <<>>
  BY <1>1
<1>2. ASSUME s \in {<<"enqueue", "ack">>, <<"ack", "handover">>} PROVE s[1] # "handover"
  BY <1>2
<1> QED BY <1>1, <1>2 DEF AcceptedPath, AnsweringPath

LEMMA RestingHeads ==
  ASSUME NEW s, RecordingPath(s) \/ AnsweringPath(s)
  PROVE  ~AcceptingPath(s) /\ ~AcceptedPath(s)
<1>1. CASE RecordingPath(s)
  <2>1. s[1] = "record" /\ Len(s) = 2
    BY <1>1 DEF RecordingPath
  <2> QED BY <2>1 DEF AcceptingPath, AcceptedPath
<1>2. CASE AnsweringPath(s)
  <2>1. s[1] = "ack" /\ Len(s) = 1
    BY <1>2 DEF AnsweringPath
  <2> QED BY <2>1 DEF AcceptingPath, AcceptedPath
<1> QED BY <1>1, <1>2

LEMMA NewWays ==
  ASSUME NEW m, NEW queued \in BOOLEAN, Via[m] \in Intents, ~queued
  PROVE  HandingPath(Path(Via[m], queued))
<1>1. CASE Via[m] = "chat"
  <2>1. Path(Via[m], queued) = <<"create", "record", "ack", "handover">>
    BY <1>1 DEF Path
  <2> QED BY <2>1 DEF HandingPath
<1>2. CASE Via[m] # "chat"
  <2>1. Path(Via[m], queued) = <<"create", "handover", "record", "ack">>
    BY <1>2 DEF Path, Intents
  <2> QED BY <2>1 DEF HandingPath
<1> QED BY <1>1, <1>2

(* Where a handler is that cancels, or that has made its turn active.      *)
LEMMA CancelPaths ==
  ASSUME NEW s
  PROVE  /\ s \in {<<"stop", "cancel", "clean">>, <<"cancel", "clean">>, <<"clean">>} =>
              /\ RestingPath(s) /\ s # <<>> /\ s[1] \in {"stop", "cancel", "clean"}
              /\ s[1] = "stop" => s = <<"stop", "cancel", "clean">>
              /\ s[1] = "cancel" => s = <<"cancel", "clean">>
              /\ s[1] = "clean" => s = <<"clean">>
         /\ RestingPath(s) /\ s # <<>> =>
              s \in {<<"stop", "cancel", "clean">>, <<"cancel", "clean">>, <<"clean">>}
<1>1. CASE s = <<"stop", "cancel", "clean">>
  <2>1. s[1] = "stop" /\ Len(s) = 3
    BY <1>1
  <2> QED BY <1>1, <2>1 DEF RestingPath
<1>2. CASE s = <<"cancel", "clean">>
  <2>1. s[1] = "cancel" /\ Len(s) = 2
    BY <1>2
  <2> QED BY <1>2, <2>1 DEF RestingPath
<1>3. CASE s = <<"clean">>
  <2>1. s[1] = "clean" /\ Len(s) = 1
    BY <1>3
  <2> QED BY <1>3, <2>1 DEF RestingPath
<1> QED BY <1>1, <1>2, <1>3 DEF RestingPath

LEMMA CancellingSays ==
  ASSUME NEW t, Cancelling(t)
  PROVE  Resting /\ frame.todo # <<>> /\ frame.todo[1] \in {"stop", "cancel", "clean"}
BY CancelPaths DEF Cancelling, Stopping, Ending, Resting

LEMMA HandingSays ==
  ASSUME NEW t, Handing(t)
  PROVE  frame.todo # <<>> /\ frame.todo[1] \in {"ack", "handover"}
BY HandedPaths DEF Handing

-----------------------------------------------------------------------------
(* A handler that goes on or leaves without touching a turn, or makes its  *)
(* turn the active one.                                                    *)

LEMMA Moves ==
  ASSUME IInv, LInv,
         UNCHANGED <<requested, cancelled, slot, overflow, stack, phase, kind,
                     saved, given, endings, raced>>,
         spoiled \subseteq spoiled', made' \in Nat, made <= made',
         frame'.before \in given \cup {None}, frame'.t \in 0..made',
         frame'.queued \in BOOLEAN,
         \A t : ~Cancelling(t) /\ ~Cancelling(t)',
         \/ /\ active' = active
            /\ \A t \in Turn : active = t /\ Handing(t) => Handing(t)' \/ t \in spoiled'
         \/ /\ active' = frame'.t /\ stack = <<>>
            /\ HandedPath(frame'.todo),
         Untouched', Ways'
  PROVE  LInv'
<1>0. Places /\ Phases /\ made \in 0..MaxTurns
  BY DEF LInv, IInv, Shape
<1>1. Places' /\ Phases'
  BY <1>0, TurnsAssumption DEF Places, Phases
<1>2. OnePlace' /\ CancelInv'
  BY DEF LInv, OnePlace, CancelInv, Queued, Contains
<1>3. FutureInv'
  <2>0. active # None => active \in Turn
    BY <1>0, TurnsAssumption DEF Places, Turn, None
  <2>1. Future' /\ Over'
    <3>1. CASE active' = active
      BY <2>0, <3>1 DEF LInv, FutureInv, Future, Over, Contains, Handing
    <3>2. CASE active' = frame'.t /\ stack = <<>> /\ HandedPath(frame'.todo)
      BY <3>2 DEF Future, Over, Contains, Handing
    <3> QED BY <3>1, <3>2
  <2>2. Below'
    BY DEF LInv, FutureInv, Below
  <2>3. Requested' /\ Again'
    BY <1>0 DEF LInv, FutureInv, Requested, Again, Cancelling, Contains
  <2> QED BY <2>1, <2>2, <2>3 DEF FutureInv
<1>4. \A t \in Turn : Excused(t) => Excused(t)'
  BY DEF Excused
<1>5. \A t : ~Stopping(t) /\ ~Stopping(t)' /\ ~Ending(t) /\ ~Ending(t)'
  BY DEF Cancelling
<1>6. EndInv'
  BY <1>4, <1>5 DEF LInv, EndInv, Queued, Contains
<1>7. QuietInv'
  BY <1>5 DEF LInv, QuietInv, Queued, Contains
<1> QED BY <1>1, <1>2, <1>3, <1>6, <1>7 DEF LInv

(* Nobody touches the turns that are still to be given.                    *)
LEMMA StayUntouched ==
  ASSUME IInv, LInv, made' = made, Begun' => Begun,
         \A t \in Turn : t > made \/ (t = made /\ Begun) =>
            /\ t \in requested' => t \in requested
            /\ t \in cancelled' => t \in cancelled
            /\ endings'[t] = endings[t]
  PROVE  Untouched'
BY DEF LInv, Untouched

(* Where the handler is when it has done a step.                           *)
LEMMA Left ==
  ASSUME LInv, Leave
  PROVE  /\ ~Begun' /\ Ways' /\ \A t : ~Cancelling(t)' /\ ~Handing(t)'
         /\ frame'.before = None /\ frame'.t = None /\ frame'.queued \in BOOLEAN
<1>1. frame' = Idle /\ RestingPath(frame'.todo) /\ frame'.todo = <<>>
  BY IdleFrame DEF Leave
<1>2. ~Accepting' /\ ~Accepted' /\ ~Giving'
  BY <1>1, Apart DEF Accepting, Accepted, Giving
<1>3. \A t : ~Cancelling(t)' /\ ~Handing(t)'
  BY <1>1, CancelPaths, HandedPaths DEF Cancelling, Stopping, Ending, Handing
<1> QED BY <1>1, <1>2, <1>3 DEF Begun, Ways, Idle

LEMMA Idles ==
  ASSUME frame = Idle
  PROVE  ~Begun /\ \A t : ~Cancelling(t) /\ ~Handing(t)
<1>1. RestingPath(frame.todo) /\ frame.todo = <<>>
  BY IdleFrame
<1>2. ~Accepting /\ ~Accepted /\ ~Giving
  BY <1>1, Apart DEF Accepting, Accepted, Giving
<1> QED BY <1>1, <1>2, CancelPaths, HandedPaths DEF Cancelling, Stopping, Ending, Handing, Begun

(* A step of a message's handler, with the paths that it is on.            *)
LEMMA Proceeds ==
  ASSUME IInv, IInv', LInv, NEW step, Busy(step), made' = made,
         step \in {"create", "record", "enqueue", "steer", "ack", "handover"},
         frame'.todo = Tail(frame.todo), frame'.m = frame.m, frame'.t = frame.t,
         frame'.queued = frame.queued
  PROVE  /\ Begun' => Begun
         /\ Ways'
         /\ \A t : ~Cancelling(t) /\ ~Cancelling(t)'
         /\ step = "ack" => \A t : Handing(t) => Handing(t)'
<1>1. frame.todo # <<>> /\ frame.todo[1] = step
  BY DEF Busy
<1>2. \A t : ~Cancelling(t)
  BY <1>1, CancellingSays
<1>3. Accepting \/ Accepted \/ Giving \/ Recording \/ Answering
  BY <1>1, Whereabouts DEF IInv
<1>4. \/ /\ AcceptingPath(frame'.todo) \/ AcceptedPath(frame'.todo) \/ GivingPath(frame'.todo)
         /\ Begun
      \/ RecordingPath(frame'.todo) \/ AnsweringPath(frame'.todo) \/ frame'.todo = <<>>
  <2>1. CASE Accepting
    BY <1>1, <2>1, PathHeads, AcceptingTails DEF Accepting, Begun
  <2>2. CASE Accepted
    <3>1. frame.todo[1] = "handover" => Tail(frame.todo) = <<>>
      BY <2>2, LastTail DEF Accepted
    <3> QED BY <1>1, <2>2, <3>1, PathHeads, AcceptedTails DEF Accepted, Begun
  <2>3. CASE Giving
    BY <1>1, <2>3, GivingTails DEF Giving, Begun
  <2>4. CASE Recording
    BY <2>4, EndTails DEF Recording
  <2>5. CASE Answering
    BY <2>5, LastTail DEF Answering
  <2> QED BY <1>3, <2>1, <2>2, <2>3, <2>4, <2>5
<1>5. Begun' => Begun
  <2>1. ASSUME RecordingPath(frame'.todo) \/ AnsweringPath(frame'.todo) \/ frame'.todo = <<>>
        PROVE  ~Begun'
    <3>1. ~AcceptingPath(frame'.todo) /\ ~AcceptedPath(frame'.todo)
      BY <2>1, PathHeads, RestingHeads
    <3>2. ~GivingPath(frame'.todo) \/ Chat'
      BY <2>1, Apart, PathHeads
    <3> QED BY <3>1, <3>2 DEF Begun, Accepting, Accepted, Giving
  <2> QED BY <1>4, <2>1
<1>6. \A t : ~Cancelling(t)'
  <2>1. frame'.todo = <<>> \/ frame'.todo[1] \notin {"stop", "cancel", "clean"}
    BY <1>4, PathHeads
  <2> QED BY <2>1, CancelPaths DEF Cancelling, Stopping, Ending
<1>7. step = "ack" => \A t : Handing(t) => Handing(t)'
  BY <1>1, HandedPaths DEF Handing
<1>8. Ways'
  <2> SUFFICES ASSUME Accepting' \/ Giving' PROVE frame'.queued \/ HandingPath(frame'.todo)
    BY DEF Ways
  <2>1. (AcceptingPath(frame'.todo) /\ Chat) \/ (GivingPath(frame'.todo) /\ ~Chat)
    <3>1. Chat' <=> Chat
      BY DEF Chat
    <3> QED BY <3>1 DEF Accepting, Giving
  <2>2. (Accepting \/ Giving) /\ step = "create"
    <3>1. CASE Accepting
      BY <1>1, <2>1, <3>1, PathHeads, AcceptingTails, Apart DEF Accepting, Chat
    <3>2. CASE Accepted
      <4>1. frame.todo[1] = "handover" => Tail(frame.todo) = <<>>
        BY <3>2, LastTail DEF Accepted
      <4>2. AcceptingPath(frame'.todo)
        BY <2>1, <3>2 DEF Accepted, Chat
      <4> QED BY <1>1, <3>2, <4>1, <4>2, PathHeads, AcceptedTails, Apart DEF Accepted
    <3>3. CASE Giving
      <4>1. GivingPath(frame'.todo) /\ GivingPath(frame.todo)
        BY <2>1, <3>3 DEF Giving, Chat
      <4> QED BY <1>1, <3>3, <4>1, GivingTails, PathHeads, Apart
    <3>4. CASE Recording \/ Answering
      BY <2>1, <3>4, EndTails, LastTail, Apart, PathHeads DEF Recording, Answering
    <3> QED BY <1>3, <3>1, <3>2, <3>3, <3>4
  <2>3. frame.queued \/ HandingPath(frame.todo)
    BY <2>2 DEF LInv, Ways
  <2> QED BY <1>1, <2>2, <2>3, HandedPaths DEF Accepting, Giving
<1> QED BY <1>2, <1>5, <1>6, <1>7, <1>8

LEMMA BeginKeeps ==
  ASSUME IInv, LInv, NEW m \in Msgs, Receive(m)
  PROVE  LInv'
<1> DEFINE path == Path(Via[m], ShouldQueue)
<1>1. /\ frame = Idle /\ made < MaxTurns /\ made' = made + 1
      /\ frame'.todo = path /\ frame'.m = m /\ frame'.t = made + 1
      /\ frame'.queued = ShouldQueue /\ frame'.before = None
      /\ UNCHANGED <<active, requested, cancelled, slot, overflow, stack, phase, kind,
                     saved, given, endings, raced, spoiled>>
  BY DEF Receive, lives, queue, session, history
<1>2. made \in Nat /\ made' \in Nat /\ made <= made' /\ frame'.t \in 0..made'
  BY <1>1, TurnsAssumption DEF IInv, Shape
<1>3. ~Begun /\ \A t : ~Cancelling(t) /\ ~Handing(t)
  BY <1>1, Idles
<1>4. ShouldQueue \in BOOLEAN
  BY DEF ShouldQueue
<1>5. AcceptingPath(path) \/ GivingPath(path)
  BY <1>4, NewPaths, TurnsAssumption
<1>6. \A t : ~Cancelling(t)'
  BY <1>1, <1>5, PathHeads, CancelPaths DEF Cancelling, Stopping, Ending
<1>7. Ways'
  BY <1>1, <1>4, NewWays, TurnsAssumption DEF Ways
<1>8. Untouched'
  BY <1>1, <1>2 DEF LInv, Untouched, Turn
<1> QED BY <1>1, <1>2, <1>3, <1>4, <1>6, <1>7, <1>8, Moves

LEMMA CreateKeeps ==
  ASSUME IInv, IInv', LInv, Create \/ Record
  PROVE  LInv'
<1>1. PICK step \in {"create", "record"} :
        /\ Busy(step)
        /\ active' = IF Activates THEN frame.t ELSE active
        /\ UNCHANGED <<made, requested, cancelled, slot, overflow, stack, phase, kind,
                       saved, given, endings, raced, spoiled>>
  BY DEF Create, Record, queue, session, history, store
<1>2. /\ frame'.todo = Tail(frame.todo) /\ frame'.m = frame.m /\ frame'.t = frame.t
      /\ frame'.queued = frame.queued /\ frame'.before \in {None, frame.before, slot}
  BY DEF Create, Record, Proceed, IInv, Shape, Fields
<1>3. frame.todo # <<>> /\ frame.todo[1] = step /\ Places /\ made \in 0..MaxTurns
  BY <1>1 DEF Busy, LInv, IInv, Shape
<1>4. /\ Begun' => Begun
      /\ Ways'
      /\ \A t : ~Cancelling(t) /\ ~Cancelling(t)'
  BY <1>1, <1>2, Proceeds
<1>5. \A t : ~Handing(t)
  BY <1>3, HandingSays
<1>6. Untouched'
  BY <1>1, <1>4, StayUntouched
<1>7. Activates => stack = <<>> /\ HandedPath(frame'.todo)
  <2> SUFFICES ASSUME Activates PROVE stack = <<>> /\ HandedPath(frame'.todo)
    OBVIOUS
  <2>1. (Accepting /\ step = "record") \/ (Giving /\ step = "create")
    BY <1>1, <1>3, Whereabouts, PathHeads
    DEF IInv, Activates, Accepting, Giving, Recording, Chat
  <2>2. HandingPath(frame.todo)
    BY <2>1 DEF LInv, Ways, Activates
  <2> QED BY <1>2, <1>3, <2>1, <2>2, HandedPaths DEF Accepting, Giving, IInv, HandInv
<1>8. frame'.before \in given \cup {None} /\ frame'.t \in 0..made' /\ frame'.queued \in BOOLEAN
  BY <1>1, <1>2, <1>3 DEF Places
<1>9. \/ active' = active
      \/ active' = frame'.t /\ stack = <<>> /\ HandedPath(frame'.todo)
  BY <1>1, <1>2, <1>7
<1>10. made' \in Nat /\ made <= made'
  BY <1>1, <1>3
<1> QED BY <1>1, <1>4, <1>5, <1>6, <1>8, <1>9, <1>10, Moves

LEMMA LeavesKeeps ==
  ASSUME IInv, IInv', LInv, Leave,
         UNCHANGED <<made, active, requested, cancelled, slot, overflow, stack, phase, kind,
                     saved, given, endings, raced>>,
         spoiled \subseteq spoiled',
         \A t : ~Cancelling(t),
         \A t \in Turn : Handing(t) => t \in spoiled'
  PROVE  LInv'
<1>1. /\ ~Begun' /\ Ways' /\ \A t : ~Cancelling(t)'
      /\ frame'.before = None /\ frame'.t = None /\ frame'.queued \in BOOLEAN
  BY Left
<1>2. made \in 0..MaxTurns
  BY DEF IInv, Shape
<1>3. Untouched'
  BY <1>1, StayUntouched
<1>4. made' \in Nat /\ made <= made' /\ frame'.t \in 0..made'
  BY <1>1, <1>2 DEF None
<1> QED BY <1>1, <1>3, <1>4, Moves

LEMMA StepsAside ==
  ASSUME IInv, IInv', LInv,
         \/ CreateFails \/ RecordFails \/ QueueFails \/ SteerFails \/ Steer
         \/ Acknowledge \/ AcknowledgeFails
  PROVE  LInv'
<1>1. PICK step \in {"create", "record", "enqueue", "steer", "ack"} : Busy(step)
  BY DEF CreateFails, RecordFails, QueueFails, SteerFails, Steer, Acknowledge, AcknowledgeFails
<1>2. frame.todo # <<>> /\ frame.todo[1] = step
  BY <1>1 DEF Busy
<1>3. \A t : ~Cancelling(t)
  BY <1>2, CancellingSays
<1>4. UNCHANGED <<made, active, requested, cancelled, slot, overflow, stack, phase, kind,
                  saved, given, endings, raced>> /\ spoiled \subseteq spoiled'
  BY DEF CreateFails, RecordFails, QueueFails, SteerFails, Steer, Acknowledge,
         AcknowledgeFails, store, lives, queue, session, history
<1>5. CASE Proceed
  <2>1. /\ frame'.todo = Tail(frame.todo) /\ frame'.m = frame.m /\ frame'.t = frame.t
        /\ frame'.queued = frame.queued /\ frame'.before = frame.before
    BY <1>5 DEF Proceed, IInv, Shape, Fields
  <2>2. /\ Begun' => Begun
        /\ Ways'
        /\ \A t : ~Cancelling(t) /\ ~Cancelling(t)'
        /\ step = "ack" => \A t : Handing(t) => Handing(t)'
    BY <1>1, <1>4, <2>1, Proceeds
  <2>3. \A t : Handing(t) => Handing(t)'
    BY <1>2, <2>2, HandingSays
  <2>4. Untouched'
    BY <1>4, <2>2, StayUntouched
  <2>5. /\ frame'.before \in given \cup {None} /\ frame'.t \in 0..made'
        /\ frame'.queued \in BOOLEAN /\ made' \in Nat /\ made <= made'
    BY <1>4, <2>1 DEF LInv, Places, IInv, Shape
  <2> QED BY <1>4, <2>2, <2>3, <2>4, <2>5, Moves
<1>6. CASE Leave /\ Acknowledge
  <2>1. Len(frame.todo) = 1 \/ Proceed
    BY <1>6 DEF Acknowledge
  <2>2. CASE Len(frame.todo) = 1
    <3>1. \A t : ~Handing(t)
      BY <1>2, <1>6, <2>2, HandedPaths DEF Handing, Acknowledge, Busy
    <3> QED BY <1>3, <1>4, <1>6, <3>1, LeavesKeeps
  <2> QED BY <1>5, <2>1, <2>2
<1>7. CASE Leave /\ AcknowledgeFails
  <2>1. \A t \in Turn : Handing(t) => t \in spoiled'
    <3> SUFFICES ASSUME NEW t \in Turn, Handing(t) PROVE t \in spoiled'
      OBVIOUS
    <3>1. frame.t = t /\ frame.todo[1] = "ack" /\ HandedPath(frame.todo)
      BY <1>7 DEF Handing, AcknowledgeFails, Busy
    <3>2. Len(frame.todo) > 1
      <4>1. CASE frame.todo = <<"ack", "handover">>
        BY <4>1
      <4>2. CASE frame.todo = <<"handover">>
        <5>1. frame.todo[1] = "handover"
          BY <4>2
        <5> QED BY <3>1, <5>1
      <4>3. CASE frame.todo = <<"handover", "record", "ack">>
        BY <4>3
      <4> QED BY <3>1, <4>1, <4>2, <4>3 DEF HandedPath
    <3> QED BY <1>7, <3>1, <3>2 DEF AcknowledgeFails
  <2> QED BY <1>3, <1>4, <1>7, <2>1, LeavesKeeps
<1>8. CASE Leave /\ ~Acknowledge /\ ~AcknowledgeFails
  <2>1. step # "ack" => \A t : ~Handing(t)
    BY <1>2, HandingSays
  <2>2. Busy("create") \/ Busy("record") \/ Busy("enqueue") \/ Busy("steer")
    BY <1>8 DEF CreateFails, RecordFails, QueueFails, SteerFails, Steer
  <2>3. \A t : ~Handing(t)
    BY <1>2, <2>2, HandingSays DEF Busy
  <2> QED BY <1>3, <1>4, <1>8, <2>3, LeavesKeeps
<1> QED
  BY <1>5, <1>6, <1>7, <1>8
  DEF CreateFails, RecordFails, QueueFails, SteerFails, Steer, Acknowledge, AcknowledgeFails

-----------------------------------------------------------------------------
(* A message goes into the queue.                                          *)

LEMMA AppendHas ==
  ASSUME NEW S, NEW q \in Seq(S), NEW e \in S
  PROVE  /\ Append(q, e) \in Seq(S)
         /\ \A t : Contains(Append(q, e), t) <=> Contains(q, t) \/ t = e
         /\ \A i \in 1..Len(Append(q, e)) :
              \/ i \in 1..Len(q) /\ Append(q, e)[i] = q[i]
              \/ i = Len(q) + 1 /\ Append(q, e)[i] = e
         /\ Len(Append(q, e)) = Len(q) + 1 /\ Len(q) \in Nat
         /\ \A i \in 1..Len(q) : i \in 1..Len(Append(q, e))
<1>1. /\ Append(q, e) \in Seq(S) /\ Len(Append(q, e)) = Len(q) + 1 /\ Len(q) \in Nat
      /\ \A i \in 1..Len(q) : Append(q, e)[i] = q[i]
      /\ Append(q, e)[Len(q) + 1] = e
  BY AppendProperties
<1> DEFINE r == Append(q, e)
<1> HIDE DEF r
<1>2. \A i \in 1..Len(r) : \/ i \in 1..Len(q) /\ r[i] = q[i]
                           \/ i = Len(q) + 1 /\ r[i] = e
  BY <1>1 DEF r
<1>3. Len(q) + 1 \in 1..Len(r) /\ \A i \in 1..Len(q) : i \in 1..Len(r)
  BY <1>1 DEF r
<1>4. \A t : Contains(r, t) <=> Contains(q, t) \/ t = e
  BY <1>1, <1>2, <1>3 DEF Contains, r
<1> QED BY <1>1, <1>2, <1>3, <1>4 DEF r

LEMMA SeqHas ==
  ASSUME NEW S, NEW q \in Seq(S)
  PROVE  /\ Len(q) \in Nat /\ \A i \in 1..Len(q) : q[i] \in S
         /\ \A t : Contains(q, t) => t \in S
BY DEF Contains

LEMMA EnqueueKeeps ==
  ASSUME IInv, IInv', LInv, Queue \/ SteerFallsBack
  PROVE  LInv'
<1> DEFINE new == frame.t
<1>1. PICK step \in {"enqueue", "steer"}, first \in given \cup {None} :
        /\ Busy(step) /\ Enqueue(first, new) /\ Proceed
        /\ first # slot => \A t \in given : t = first \/ t = slot => t \in spoiled'
  <2>1. CASE Queue
    BY <2>1 DEF Queue, LInv, Places
  <2>2. CASE SteerFallsBack
    <3>1. \A t \in given : t # None
      BY DEF IInv, Shape, None
    <3> QED BY <2>2, <3>1 DEF SteerFallsBack, LInv, Places
  <2> QED BY <2>1, <2>2
<1>2. /\ UNCHANGED <<made, msg, accepted, active, requested, cancelled, stack, phase, kind,
                     saved, endings, raced>>
      /\ spoiled \subseteq spoiled' /\ (stack = <<>> => new \in spoiled')
  BY DEF Queue, SteerFallsBack, store, lives, session
<1>3. /\ frame'.todo = Tail(frame.todo) /\ frame'.m = frame.m /\ frame'.t = frame.t
      /\ frame'.queued = frame.queued /\ frame'.before = frame.before
  BY <1>1 DEF Proceed, IInv, Shape, Fields
<1>4. /\ Begun' => Begun
      /\ Ways'
      /\ \A t : ~Cancelling(t) /\ ~Cancelling(t)'
  BY <1>1, <1>2, <1>3, Proceeds
<1>5. frame.todo # <<>> /\ frame.todo[1] = step
  BY <1>1 DEF Busy
<1>6. \A t : ~Handing(t)
  BY <1>5, HandingSays
<1>7. /\ Begun /\ new = made /\ new \in Turn /\ new \notin given /\ made \in 0..MaxTurns
  BY <1>1, Whereabouts DEF IInv, FrameInv, Begun, Accepted, Giving, OfTurn, Shape
<1>8. /\ given' = given \cup {new}
      /\ slot' = IF first = None THEN new ELSE first
      /\ overflow' = IF first = None THEN overflow ELSE Append(overflow, new)
  BY <1>1 DEF Enqueue
<1>9. Places /\ Phases /\ given \subseteq 1..made /\ None \notin given
  BY DEF LInv, IInv, Shape, None
<1>10. /\ overflow \in Seq(given') /\ stack \in Seq(given')
       /\ \A t : Contains(stack, t) => t \in given
       /\ \A t : Contains(overflow, t) => t \in given
  <2>1. given \subseteq given'
    BY <1>8
  <2>2. overflow \in Seq(given) /\ stack \in Seq(given)
    BY <1>9 DEF Places
  <2>3. Seq(given) \subseteq Seq(given')
    BY <2>1
  <2> QED BY <2>2, <2>3, SeqHas
<1>11. /\ Append(overflow, new) \in Seq(given')
       /\ \A t : Contains(Append(overflow, new), t) <=> Contains(overflow, t) \/ t = new
       /\ \A i \in 1..Len(Append(overflow, new)) :
            \/ i \in 1..Len(overflow) /\ Append(overflow, new)[i] = overflow[i]
            \/ i = Len(overflow) + 1 /\ Append(overflow, new)[i] = new
  <2>1. new \in given'
    BY <1>8
  <2> QED BY <1>10, <2>1, AppendHas
<1> HIDE DEF new
<1>12. Places'
  <2>1. overflow' \in Seq(given') /\ slot' \in given' \cup {None}
    BY <1>8, <1>10, <1>11
  <2>2. frame'.before \in given' \cup {None} /\ frame'.t \in 0..made /\ frame'.queued \in BOOLEAN
    BY <1>3, <1>8, <1>9 DEF Places
  <2> QED BY <1>2, <1>9, <1>10, <2>1, <2>2 DEF Places
<1>13. \A t \in Turn : /\ Queued(t)' => t = new \/ Queued(t) \/ t \in spoiled'
                       /\ Queued(t) => Queued(t)' \/ t \in spoiled'
  <2>1. \A t : Contains(overflow', t) <=>
              Contains(overflow, t) \/ (t = new /\ first # None)
    BY <1>8, <1>11
  <2>2. None \notin Turn
    BY DEF Turn, None
  <2>3. slot \in given \cup {None} /\ first \in given \cup {None}
    BY <1>9 DEF Places
  <2> QED BY <1>1, <1>8, <2>1, <2>2, <2>3 DEF Queued
<1>14. OnePlace'
  <2>1. \A i, j \in 1..Len(stack') : stack'[i] = stack'[j] => i = j \/ stack'[i] \in spoiled'
    BY <1>2 DEF LInv, OnePlace
  <2>2. \A i, j \in 1..Len(overflow') :
          overflow'[i] = overflow'[j] => i = j \/ overflow'[i] \in spoiled'
    <3>1. \A i \in 1..Len(overflow) : overflow[i] \in given
      BY <1>9, SeqHas DEF Places
    <3> QED BY <1>2, <1>7, <1>8, <1>11, <3>1 DEF LInv, OnePlace
  <2>3. Contains(overflow', slot') => slot' \in spoiled'
    BY <1>1, <1>2, <1>7, <1>8, <1>9, <1>10, <1>11 DEF LInv, OnePlace, Places
  <2>4. \A t \in Turn : Contains(stack, t) /\ Queued(t)' => t \in spoiled'
    BY <1>2, <1>7, <1>10, <1>13 DEF LInv, OnePlace
  <2> QED BY <1>2, <2>1, <2>2, <2>3, <2>4 DEF OnePlace
<1>15. Phases' /\ Untouched'
  BY <1>2, <1>4, <1>9, StayUntouched DEF Phases
<1>16. CancelInv'
  BY <1>4 DEF CancelInv
<1>17. FutureInv'
  <2>1. \A t : ~Stopping(t) /\ ~Stopping(t)'
    BY <1>4 DEF Cancelling
  <2>2. Future' /\ Over'
    BY <1>2, <1>4, <1>6 DEF LInv, FutureInv, Future, Over, Contains
  <2>3. Below'
    BY <1>2 DEF LInv, FutureInv, Below
  <2>4. Requested' /\ Again'
    BY <1>2, <2>1 DEF LInv, FutureInv, Requested, Again, Contains
  <2> QED BY <2>2, <2>3, <2>4 DEF FutureInv
<1>18. \A t : ~Stopping(t) /\ ~Stopping(t)' /\ ~Ending(t) /\ ~Ending(t)'
  BY <1>4 DEF Cancelling
<1>19. EndInv'
  <2>1. \A t \in Turn : Excused(t) => Excused(t)'
    BY <1>2 DEF Excused
  <2>2. endings[new] = <<>> /\ new \notin cancelled
    BY <1>7 DEF LInv, Untouched
  <2>3. \A t \in Turn : Queued(t)' => Excused(t)' \/ (endings[t] = <<>> /\ t \notin cancelled)
    BY <1>2, <1>13, <2>1, <2>2 DEF LInv, EndInv, Excused
  <2> QED BY <1>2, <1>18, <2>1, <2>3 DEF LInv, EndInv, Contains
<1>20. QuietInv'
  <2>1. \A t \in given : t \in Turn
    BY <1>7, <1>9, TurnsAssumption DEF Turn
  <2>2. \A t : t = new => Queued(t)'
    <3>1. Contains(overflow', new) \/ slot' = new
      BY <1>8, <1>11
    <3> QED BY <3>1 DEF Queued, Contains
  <2>3. \A t \in given' : \/ endings[t] # <<>> \/ t \in spoiled' \/ Queued(t)'
                          \/ Contains(stack, t) /\ phase # "over"
    BY <1>2, <1>8, <1>13, <1>18, <2>1, <2>2 DEF LInv, QuietInv
  <2>4. stack = <<>> => \A t \in Turn : Queued(t)' => t \in spoiled'
    BY <1>2, <1>13 DEF LInv, QuietInv
  <2> QED BY <1>2, <1>18, <2>3, <2>4 DEF LInv, QuietInv
<1> QED BY <1>4, <1>12, <1>14, <1>15, <1>16, <1>17, <1>19, <1>20 DEF LInv

-----------------------------------------------------------------------------
(* turn.cancel                                                             *)

LEMMA CancelFrame ==
  ASSUME IInv, LInv, NEW step \in {"stop", "cancel", "clean"}, Busy(step)
  PROVE  /\ ~Begun /\ \A t : ~Handing(t)
         /\ Target \in 1..made /\ Target \in Turn /\ made \in 0..MaxTurns
         /\ Target \in spoiled \/ ~Queued(Target)
         /\ \A t : Cancelling(t) <=> t = Target
         /\ \A t : Stopping(t) <=> t = Target /\ step = "stop"
         /\ \A t : Ending(t) <=> t = Target /\ step = "cancel"
<1>1. frame.todo # <<>> /\ frame.todo[1] = step /\ Resting
  BY Whereabouts DEF Busy, IInv
<1>2. ~Begun
  BY <1>1, Apart DEF Resting, Begun, Accepting, Accepted, Giving
<1>3. \A t : ~Handing(t)
  BY <1>1, HandingSays
<1>4. /\ frame.todo = <<"stop", "cancel", "clean">> <=> step = "stop"
      /\ frame.todo = <<"cancel", "clean">> <=> step = "cancel"
      /\ frame.todo = <<"clean">> <=> step = "clean"
  BY <1>1, CancelPaths DEF Resting
<1>5. /\ \A t : Cancelling(t) <=> t = Target
      /\ \A t : Stopping(t) <=> t = Target /\ step = "stop"
      /\ \A t : Ending(t) <=> t = Target /\ step = "cancel"
  BY <1>4 DEF Cancelling, Stopping, Ending, Target
<1>6. Cancelling(Target)
  BY <1>5
<1>7. Target \in 1..made /\ (Target \in spoiled \/ ~Queued(Target)) /\ made \in 0..MaxTurns
  BY <1>6 DEF LInv, CancelInv, IInv, Shape
<1>8. Target \in Turn
  BY <1>7, TurnsAssumption DEF Turn
<1> QED BY <1>2, <1>3, <1>5, <1>7, <1>8

(* The handler goes on with its path.                                      *)
LEMMA CancelProceeds ==
  ASSUME IInv, LInv, NEW step \in {"stop", "cancel"}, Busy(step), Proceed
  PROVE  /\ ~Begun' /\ Ways' /\ \A t : ~Handing(t)' /\ ~Stopping(t)'
         /\ frame'.t = Target /\ frame'.before = frame.before /\ frame'.queued = frame.queued
         /\ \A t : Cancelling(t)' <=> t = Target
         /\ \A t : Ending(t)' <=> t = Target /\ step = "stop"
<1>1. frame.todo # <<>> /\ frame.todo[1] = step /\ Resting
  BY Whereabouts DEF Busy, IInv
<1>2. /\ frame'.todo = Tail(frame.todo) /\ frame'.t = Target /\ frame'.before = frame.before
      /\ frame'.queued = frame.queued
  BY DEF Proceed, Target, IInv, Shape, Fields
<1>3. /\ step = "stop" => frame'.todo = <<"cancel", "clean">>
      /\ step = "cancel" => frame'.todo = <<"clean">>
  <2>1. CASE step = "stop"
    <3>1. frame.todo = <<"stop", "cancel", "clean">>
      BY <1>1, <2>1, CancelPaths DEF Resting
    <3>2. Tail(frame.todo) = <<"cancel", "clean">>
      BY <3>1
    <3> QED BY <1>2, <2>1, <3>2
  <2>2. CASE step = "cancel"
    <3>1. frame.todo = <<"cancel", "clean">>
      BY <1>1, <2>2, CancelPaths DEF Resting
    <3>2. Tail(frame.todo) = <<"clean">>
      BY <3>1
    <3> QED BY <1>2, <2>2, <3>2
  <2> QED BY <2>1, <2>2
<1>4. RestingPath(frame'.todo) /\ frame'.todo # <<>>
      /\ frame'.todo[1] \in {"cancel", "clean"}
      /\ (frame'.todo[1] = "cancel" <=> step = "stop")
  <2>1. CASE step = "stop"
    <3>1. frame'.todo[1] = "cancel"
      BY <1>3, <2>1
    <3> QED BY <1>3, <2>1, <3>1, CancelPaths
  <2>2. CASE step = "cancel"
    <3>1. frame'.todo[1] = "clean"
      BY <1>3, <2>2
    <3> QED BY <1>3, <2>2, <3>1, CancelPaths
  <2> QED BY <2>1, <2>2
<1>5. ~Begun' /\ Ways'
  BY <1>4, Apart DEF Begun, Accepting, Accepted, Giving, Ways
<1>6. \A t : ~Handing(t)'
  BY <1>4, HandedPaths DEF Handing
<1>7. /\ frame'.todo # <<"stop", "cancel", "clean">>
      /\ frame'.todo = <<"cancel", "clean">> <=> step = "stop"
      /\ frame'.todo = <<"clean">> <=> step = "cancel"
  BY <1>3, <1>4, CancelPaths
<1> QED BY <1>2, <1>5, <1>6, <1>7 DEF Cancelling, Stopping, Ending

LEMMA AskKeeps ==
  ASSUME IInv, LInv, AskCancel
  PROVE  LInv'
<1>1. /\ frame = Idle /\ active # None /\ requested' = requested \cup {active}
      /\ UNCHANGED <<made, active, cancelled, slot, overflow, stack, phase, kind,
                     saved, given, endings, raced, spoiled>>
  BY DEF AskCancel, store, queue, session, history
<1>2. /\ frame'.todo = <<"stop", "cancel", "clean">> /\ frame'.t = active
      /\ frame'.before = None /\ frame'.queued = FALSE
  BY DEF AskCancel, Idle
<1>3. ~Begun /\ \A t : ~Cancelling(t) /\ ~Handing(t)
  BY <1>1, Idles
<1>4. RestingPath(frame'.todo) /\ frame'.todo # <<>> /\ frame'.todo[1] = "stop"
  BY <1>2, CancelPaths
<1>5. ~Begun' /\ Ways'
  BY <1>4, Apart DEF Begun, Accepting, Accepted, Giving, Ways
<1>6. \A t : ~Handing(t)'
  BY <1>4, HandedPaths DEF Handing
<1>7. \A t : /\ Stopping(t)' <=> t = active
             /\ ~Ending(t)' /\ (Cancelling(t)' <=> t = active)
  BY <1>2, <1>4, CancelPaths DEF Cancelling, Stopping, Ending
<1>8. Places /\ Phases /\ active \in 1..made /\ made \in 0..MaxTurns /\ active \in Turn
  BY <1>1, TurnsAssumption DEF LInv, Places, None, Turn, IInv, Shape
<1>9. active \in spoiled \/ Contains(stack, active)
  BY <1>1, <1>3 DEF LInv, FutureInv, Future
<1>10. Places' /\ Phases'
  BY <1>1, <1>2, <1>8 DEF Places, Phases
<1>11. Untouched'
  BY <1>1, <1>5, <1>8 DEF LInv, Untouched, Turn
<1>12. OnePlace' /\ CancelInv'
  <2>1. active \in spoiled \/ ~Queued(active)
    BY <1>8, <1>9 DEF LInv, OnePlace
  <2> QED BY <1>1, <1>7, <1>8, <2>1 DEF LInv, OnePlace, CancelInv, Queued, Contains
<1>13. FutureInv'
  <2>1. Future' /\ Over' /\ Below'
    BY <1>1, <1>3, <1>9 DEF LInv, FutureInv, Future, Over, Below, Contains
  <2>2. Requested'
    BY <1>1, <1>3, <1>7 DEF LInv, FutureInv, Requested, Contains, Cancelling
  <2>3. Again'
    BY <1>1, <1>3, <1>7, <1>9 DEF LInv, FutureInv, Again, Over, Contains
  <2> QED BY <2>1, <2>2, <2>3 DEF FutureInv
<1>14. \A t : ~Ending(t) /\ ~Stopping(t)
  BY <1>3 DEF Cancelling
<1>15. EndInv'
  BY <1>1, <1>7, <1>14 DEF LInv, EndInv, Excused, Queued, Contains
<1>16. QuietInv'
  BY <1>1, <1>7, <1>14 DEF LInv, QuietInv, Queued, Contains
<1> QED BY <1>5, <1>10, <1>11, <1>12, <1>13, <1>15, <1>16 DEF LInv

LEMMA Made ==
  ASSUME IInv
  PROVE  /\ made \in Nat /\ 1..made \subseteq Turn /\ given \subseteq 1..made
         /\ None \notin Turn /\ None \in 0..made /\ 1..made \subseteq 0..made
<1>1. made \in 0..MaxTurns /\ MaxTurns \in Nat /\ given \subseteq 1..made
  BY TurnsAssumption DEF IInv, Shape
<1>2. \A t \in 1..made : t \in 1..MaxTurns
  BY <1>1
<1>3. made \in Nat /\ \A t \in 1..made : t \in 0..made
  BY <1>1
<1> QED BY <1>1, <1>2, <1>3 DEF Turn, None

(* The sequence of a session that has ended something.                     *)
LEMMA LastOf ==
  ASSUME NEW S, NEW s \in Seq(S), s # <<>>
  PROVE  Len(s) \in Nat \ {0} /\ 1 \in 1..Len(s) /\ Len(s) \in 1..Len(s)
         /\ s[1] \in S /\ s[Len(s)] \in S /\ Contains(s, s[1]) /\ Contains(s, s[Len(s)])
<1>1. Len(s) \in Nat \ {0}
  BY EmptySeq
<1>2. 1 \in 1..Len(s) /\ Len(s) \in 1..Len(s)
  BY <1>1
<1> QED BY <1>1, <1>2, ElementOfSeq DEF Contains

(* What an append to the endings of a turn does.                           *)
LEMMA OneMore ==
  ASSUME NEW s \in Seq(Kinds), NEW k \in Kinds
  PROVE  /\ Append(s, k) \in Seq(Kinds) /\ Append(s, k) # <<>>
         /\ s = <<>> => Len(Append(s, k)) <= 1
<1>1. Append(s, k) \in Seq(Kinds) /\ Len(Append(s, k)) = Len(s) + 1 /\ Len(s) \in Nat
  BY AppendProperties
<1>2. Len(<<>>) = 0
  OBVIOUS
<1> QED BY <1>1, <1>2

(* The handler of turn.cancel leaves a turn that is spoiled, that somebody *)
(* else is going to end, or that is not active.                            *)
LEMMA CancelLeaves ==
  ASSUME IInv, LInv, NEW step \in {"stop", "cancel", "clean"}, Busy(step), Leave,
         UNCHANGED <<made, cancelled, slot, overflow, stack, phase, kind, saved, given,
                     endings, raced>>,
         requested' \subseteq requested, active' \in {active, None},
         spoiled \subseteq spoiled',
         \/ Target \in spoiled'
         \/ /\ step = "stop" /\ Contains(stack, Target) /\ phase # "over"
            /\ Target \in requested' => Target \in cancelled
         \/ step = "stop" /\ Target \in cancelled /\ active' # Target
         \/ step = "clean" /\ active' # Target
  PROVE  LInv'
<1>1. /\ \A t : ~Handing(t) /\ Target \in Turn /\ made \in 0..MaxTurns /\ ~Begun
      /\ \A t : Cancelling(t) <=> t = Target
      /\ \A t : Stopping(t) <=> t = Target /\ step = "stop"
      /\ \A t : Ending(t) <=> t = Target /\ step = "cancel"
  BY CancelFrame
<1>2. /\ ~Begun' /\ Ways' /\ \A t : ~Cancelling(t)' /\ ~Handing(t)'
      /\ frame'.before = None /\ frame'.t = None /\ frame'.queued \in BOOLEAN
  BY Left
<1>3. \A t : ~Stopping(t)' /\ ~Ending(t)'
  BY <1>2 DEF Cancelling
<1>4. Places /\ Phases
  BY DEF LInv
<1>5. Places' /\ Phases'
  <2>1. None \in 0..made
    BY <1>1 DEF None
  <2>2. /\ frame'.before \in given' \cup {None} /\ frame'.t \in 0..made' /\ frame'.queued \in BOOLEAN
        /\ active' \in 0..made' /\ requested' \subseteq 1..made'
    BY <1>2, <1>4, <2>1 DEF Places
  <2>3. Phases'
    BY <1>4 DEF Phases
  <2> QED BY <1>4, <2>2, <2>3 DEF Places
<1>6. Untouched'
  BY <1>1, <1>2, StayUntouched
<1>7. OnePlace' /\ CancelInv'
  BY <1>2 DEF LInv, OnePlace, CancelInv, Queued, Contains
<1>8. FutureInv'
  <2>1. Future'
    BY <1>1 DEF LInv, FutureInv, Future, Contains
  <2>2. Over'
    BY <1>1 DEF LInv, FutureInv, Over, Contains
  <2>3. Below'
    BY DEF LInv, FutureInv, Below
  <2>4. Requested'
    <3>1. \A t \in requested' : t # None
      BY <1>4 DEF Places, None
    <3> QED BY <1>1, <1>3, <3>1 DEF LInv, FutureInv, Requested, Contains
  <2>5. Again'
    BY <1>3 DEF Again
  <2> QED BY <2>1, <2>2, <2>3, <2>4, <2>5 DEF FutureInv
<1>9. EndInv'
  BY <1>3 DEF LInv, EndInv, Excused, Queued, Contains
<1>10. QuietInv'
  <2>1. \A t \in cancelled : endings[t] # <<>> \/ t \in spoiled'
    BY <1>1 DEF LInv, QuietInv
  <2>2. phase = "ended" => endings[stack[Len(stack)]] # <<>>
    BY DEF LInv, QuietInv
  <2>3. stack = <<>> => \A t \in Turn : Queued(t)' => t \in spoiled'
    BY DEF LInv, QuietInv, Queued, Contains
  <2>4. \A t \in given : \/ endings[t] # <<>> \/ t \in spoiled'
                         \/ Queued(t)
                         \/ Contains(stack, t) /\ phase # "over"
    BY <1>1, <2>1 DEF LInv, QuietInv
  <2>5. \A t : (Queued(t)' <=> Queued(t)) /\ (Contains(stack, t)' <=> Contains(stack, t))
    BY DEF Queued, Contains
  <2> QED BY <2>1, <2>2, <2>3, <2>4, <2>5 DEF QuietInv
<1> QED BY <1>2, <1>5, <1>6, <1>7, <1>8, <1>9, <1>10 DEF LInv

LEMMA CancelEnds ==
  ASSUME IInv, LInv,
         \/ StopFails \/ CancelDone \/ CancelFails
         \/ Stopped /\ Target \in cancelled
  PROVE  LInv'
<1>1. CASE StopFails
  <2>1. /\ Busy("stop") /\ Leave /\ requested' = requested \ {Target}
        /\ UNCHANGED <<made, active, cancelled, slot, overflow, stack, phase, kind, saved,
                       given, endings, raced>>
    BY <1>1 DEF StopFails, store, queue, session
  <2>2. \/ Contains(stack, Target) /\ phase # "over" /\ spoiled' = spoiled
        \/ spoiled' = spoiled \cup {Target}
    BY <1>1 DEF StopFails
  <2> QED BY <2>1, <2>2, CancelLeaves
<1>2. CASE CancelDone
  <2>1. /\ Busy("clean") /\ Leave /\ active' = IF active = Target THEN None ELSE active
        /\ UNCHANGED <<made, requested, cancelled, slot, overflow, stack, phase, kind, saved,
                       given, endings, raced, spoiled>>
    BY <1>2 DEF CancelDone, store, queue, session, history
  <2>2. Target # None
    BY <2>1, CancelFrame DEF Turn, None
  <2> QED BY <2>1, <2>2, CancelLeaves
<1>3. CASE CancelFails
  <2>1. PICK step \in {"cancel", "clean"} : Busy(step)
    BY <1>3 DEF CancelFails
  <2>2. /\ Leave /\ spoiled' = spoiled \cup {Target}
        /\ UNCHANGED <<made, active, requested, cancelled, slot, overflow, stack, phase, kind,
                       saved, given, endings, raced>>
    BY <1>3 DEF CancelFails, store, lives, queue, session
  <2> QED BY <2>1, <2>2, CancelLeaves
<1>4. CASE Stopped /\ Target \in cancelled
  <2>1. /\ Busy("stop") /\ Leave
        /\ UNCHANGED <<made, active, requested, cancelled, slot, overflow, stack, phase, kind,
                       saved, given, endings, raced, spoiled>>
    BY <1>4 DEF Stopped, store, queue, session
  <2>2. Stopping(Target)
    BY <2>1, CancelFrame
  <2>3. \/ Target \in spoiled
        \/ Contains(stack, Target) /\ phase # "over"
        \/ active # Target
    BY <1>4, <2>2 DEF LInv, FutureInv, Again
  <2> QED BY <1>4, <2>1, <2>3, CancelLeaves
<1> QED BY <1>1, <1>2, <1>3, <1>4

(* The turn is cancelled, and its ending is to be stored.                  *)
LEMMA StoppedKeeps ==
  ASSUME IInv, LInv, Stopped, Target \notin cancelled
  PROVE  LInv'
<1> DEFINE x == Target
<1>1. /\ Busy("stop") /\ Proceed /\ cancelled' = cancelled \cup {x}
      /\ raced' = IF TooLate(x) THEN raced \cup {x} ELSE raced
      /\ UNCHANGED <<made, active, requested, slot, overflow, stack, phase, kind, saved,
                     given, endings, spoiled>>
  BY DEF Stopped, store, queue, session
<1>2. /\ \A t : ~Handing(t) /\ x \in 1..made /\ x \in Turn /\ made \in 0..MaxTurns /\ ~Begun
      /\ x \in spoiled \/ ~Queued(x)
      /\ \A t : Cancelling(t) <=> t = x
      /\ \A t : Stopping(t) <=> t = x
      /\ \A t : ~Ending(t)
  BY <1>1, CancelFrame
<1>3. /\ ~Begun' /\ Ways' /\ \A t : ~Handing(t)' /\ ~Stopping(t)'
      /\ frame'.t = x /\ frame'.before = frame.before /\ frame'.queued = frame.queued
      /\ \A t : Cancelling(t)' <=> t = x
      /\ \A t : Ending(t)' <=> t = x
  BY <1>1, CancelProceeds
<1> HIDE DEF x
<1>4. Places /\ Phases
  BY DEF LInv
<1>5. Places' /\ Phases'
  <2>1. frame'.t \in 0..made /\ cancelled' \subseteq 1..made
    BY <1>1, <1>2, <1>3, <1>4, Made DEF Places
  <2>2. Phases'
    BY <1>1, <1>4 DEF Phases
  <2> QED BY <1>1, <1>3, <1>4, <2>1, <2>2 DEF Places
<1>6. Untouched'
  BY <1>1, <1>2, <1>3 DEF LInv, Untouched
<1>7. OnePlace' /\ CancelInv'
  BY <1>1, <1>2, <1>3 DEF LInv, OnePlace, CancelInv, Queued, Contains
<1>8. FutureInv'
  <2>1. Future' /\ Over' /\ Below'
    BY <1>1, <1>2, <1>3 DEF LInv, FutureInv, Future, Over, Below, Contains
  <2>2. Requested' /\ Again'
    BY <1>1, <1>2, <1>3 DEF LInv, FutureInv, Requested, Again, Contains
  <2> QED BY <2>1, <2>2 DEF FutureInv
<1>9. EndInv'
  <2> SUFFICES ASSUME NEW t \in Turn, ~Excused(t)'
               PROVE  /\ Len(endings[t]) <= 1
                      /\ Contains(stack, t) /\ endings[t] # <<>> =>
                           \/ t \in cancelled'
                           \/ phase = "over"
                           \/ phase = "ended" /\ stack[Len(stack)] = t
                      /\ Queued(t)' => endings[t] = <<>> /\ t \notin cancelled'
                      /\ Ending(t)' => /\ endings[t] = <<>>
                                       /\ Contains(stack, t) => t \in cancelled' \/ phase = "over"
                      /\ \A i \in 2..Len(stack) : stack[i] = t => t \notin cancelled'
                      /\ phase = "ending" /\ stack[1] = t => t \notin cancelled'
    BY <1>1 DEF EndInv, Contains
  <2>1. ~Excused(t) /\ (t = x => ~TooLate(x)) /\ t \notin spoiled
    BY <1>1 DEF Excused
  <2>2. Queued(t)' <=> Queued(t)
    BY <1>1 DEF Queued, Contains
  <2>3. CASE t = x
    BY <1>1, <1>2, <1>3, <1>4, <2>1, <2>2, <2>3 DEF LInv, EndInv, TooLate, Phases
  <2>4. CASE t # x
    BY <1>1, <1>3, <2>1, <2>2, <2>4 DEF LInv, EndInv
  <2> QED BY <2>3, <2>4
<1>10. QuietInv'
  BY <1>1, <1>2, <1>3 DEF LInv, QuietInv, Queued, Contains
<1> QED BY <1>3, <1>5, <1>6, <1>7, <1>8, <1>9, <1>10 DEF LInv

(* The turn has its ending.                                                *)
LEMMA CancelKeeps ==
  ASSUME IInv, LInv, Cancel
  PROVE  LInv'
<1> DEFINE x == Target
<1>1. /\ Busy("cancel") /\ Proceed
      /\ endings' = [endings EXCEPT ![x] = Append(endings[x], "cancelled")]
      /\ UNCHANGED <<made, active, requested, cancelled, slot, overflow, stack, phase, kind,
                     saved, given, raced, spoiled>>
  BY DEF Cancel, store, lives, queue, session
<1>2. /\ \A t : ~Handing(t) /\ x \in 1..made /\ x \in Turn /\ made \in 0..MaxTurns /\ ~Begun
      /\ x \in spoiled \/ ~Queued(x)
      /\ \A t : Cancelling(t) <=> t = x
      /\ \A t : ~Stopping(t)
      /\ \A t : Ending(t) <=> t = x
  BY <1>1, CancelFrame
<1>3. /\ ~Begun' /\ Ways' /\ \A t : ~Handing(t)' /\ ~Stopping(t)'
      /\ frame'.t = x /\ frame'.before = frame.before /\ frame'.queued = frame.queued
      /\ \A t : Cancelling(t)' <=> t = x
      /\ \A t : ~Ending(t)'
  BY <1>1, CancelProceeds
<1> HIDE DEF x
<1>4. Places /\ Phases
  BY DEF LInv
<1>5. /\ endings' \in [Turn -> Seq(Kinds)] /\ endings'[x] # <<>>
      /\ \A t \in Turn : t # x => endings'[t] = endings[t]
      /\ endings[x] = <<>> => Len(endings'[x]) <= 1
  <2>1. endings \in [Turn -> Seq(Kinds)] /\ endings[x] \in Seq(Kinds) /\ "cancelled" \in Kinds
    BY <1>2, <1>4 DEF Places, Kinds
  <2>2. endings'[x] = Append(endings[x], "cancelled")
    BY <1>1, <1>2, <2>1
  <2> QED BY <1>1, <2>1, <2>2, OneMore
<1>6. Places' /\ Phases'
  <2>1. frame'.t \in 0..made
    BY <1>2, <1>3, Made
  <2>2. Phases'
    BY <1>1, <1>4 DEF Phases
  <2> QED BY <1>1, <1>3, <1>4, <1>5, <2>1, <2>2 DEF Places
<1>7. Untouched'
  BY <1>1, <1>2, <1>3, <1>5 DEF LInv, Untouched
<1>8. OnePlace' /\ CancelInv'
  BY <1>1, <1>2, <1>3 DEF LInv, OnePlace, CancelInv, Queued, Contains
<1>9. FutureInv'
  <2>1. Future' /\ Over' /\ Below'
    BY <1>1, <1>2, <1>3 DEF LInv, FutureInv, Future, Over, Below, Contains
  <2>2. Requested' /\ Again'
    BY <1>1, <1>2, <1>3 DEF LInv, FutureInv, Requested, Again, Contains
  <2> QED BY <2>1, <2>2 DEF FutureInv
<1>10. EndInv'
  <2> SUFFICES ASSUME NEW t \in Turn, ~Excused(t)
               PROVE  /\ Len(endings'[t]) <= 1
                      /\ Contains(stack, t) /\ endings'[t] # <<>> =>
                           \/ t \in cancelled
                           \/ phase = "over"
                           \/ phase = "ended" /\ stack[Len(stack)] = t
                      /\ Queued(t)' => endings'[t] = <<>> /\ t \notin cancelled
                      /\ \A i \in 2..Len(stack) : stack[i] = t => t \notin cancelled
                      /\ phase = "ending" /\ stack[1] = t => t \notin cancelled
    BY <1>1, <1>3 DEF EndInv, Contains, Excused
  <2>1. t \notin spoiled /\ (Queued(t)' <=> Queued(t))
    BY <1>1 DEF Excused, Queued, Contains
  <2>2. CASE t = x
    BY <1>2, <1>5, <2>1, <2>2 DEF LInv, EndInv
  <2>3. CASE t # x
    BY <1>5, <2>1, <2>3 DEF LInv, EndInv
  <2> QED BY <2>2, <2>3
<1>11. QuietInv'
  <2>1. given \subseteq Turn /\ cancelled \subseteq Turn
    BY <1>4, Made DEF Places
  <2>2. phase = "ended" => stack[Len(stack)] \in Turn
    BY <1>4, <2>1, LastOf DEF Places, Phases
  <2>3. \A t \in Turn : endings[t] # <<>> => endings'[t] # <<>>
    BY <1>5
  <2> QED BY <1>1, <1>2, <1>3, <1>5, <2>1, <2>2, <2>3 DEF LInv, QuietInv, Queued, Contains
<1> QED BY <1>3, <1>6, <1>7, <1>8, <1>9, <1>10, <1>11 DEF LInv

-----------------------------------------------------------------------------
(* A message is handed over, or the process dies.                          *)

LEMMA HandFrame ==
  ASSUME IInv, IInv', LInv, HandOver \/ HandOverFails
  PROVE  /\ Busy("handover") /\ Begun /\ stack = <<>> /\ made' = made
         /\ frame.t = made /\ made \in 1..made /\ made \in Turn /\ made \notin given
         /\ made \notin requested /\ made \notin cancelled /\ endings[made] = <<>>
         /\ ~Queued(made) /\ \A t : ~Contains(stack, t)
         /\ \A t : ~Cancelling(t) /\ ~Cancelling(t)'
         /\ \A t : Handing(t) => t = made
         /\ ~Begun' /\ Ways'
         /\ frame'.before \in given \cup {None} /\ frame'.t \in 0..made
         /\ frame'.queued \in BOOLEAN
<1>1. Busy("handover") /\ made' = made /\ (Leave \/ Proceed)
  BY DEF HandOver, HandOverFails, store
<1>2. frame.todo # <<>> /\ frame.todo[1] = "handover" /\ stack = <<>>
  BY <1>1, HandoverPaths DEF Busy, IInv, HandInv
<1>3. (Accepted \/ Giving) /\ Begun
  BY <1>1, Whereabouts DEF IInv, Begun
<1>4. frame.t = made /\ made \in Turn /\ made \notin given
  BY <1>3 DEF IInv, FrameInv, Accepted, Giving, OfTurn
<1>5. made \in 1..made
  BY <1>4 DEF Turn
<1>6. made \notin requested /\ made \notin cancelled /\ endings[made] = <<>>
  BY <1>3, <1>4 DEF LInv, Untouched
<1>7. ~Queued(made)
  <2>1. \A t : Contains(overflow, t) => t \in given
    BY SeqHas DEF LInv, Places
  <2> QED BY <1>4, <2>1, Made DEF LInv, Places, Queued
<1>8. \A t : ~Contains(stack, t)
  BY <1>2 DEF Contains
<1>9. \A t : ~Cancelling(t)
  BY <1>2, CancellingSays
<1>10. /\ \A t : ~Cancelling(t)'
       /\ ~Begun' /\ Ways'
       /\ frame'.before \in given \cup {None} /\ frame'.t \in 0..made
       /\ frame'.queued \in BOOLEAN
  <2>1. CASE Leave
    BY <2>1, Left, Made
  <2>2. CASE Proceed
    <3>1. /\ frame'.todo = Tail(frame.todo) /\ frame'.m = frame.m /\ frame'.t = frame.t
          /\ frame'.queued = frame.queued /\ frame'.before = frame.before
      BY <2>2 DEF Proceed, IInv, Shape, Fields
    <3>2. (\A t : ~Cancelling(t)') /\ Ways'
      BY <1>1, <3>1, Proceeds
    <3>3. ~Begun'
      <4>1. CASE Accepted
        <5>1. frame'.todo = <<>> /\ RestingPath(frame'.todo)
          BY <1>2, <3>1, <4>1, LastTail DEF Accepted, RestingPath
        <5> QED BY <5>1, Apart DEF Begun, Accepting, Accepted, Giving
      <4>2. CASE Giving
        <5>1. RecordingPath(frame'.todo) /\ ~Chat'
          BY <1>2, <3>1, <4>2, GivingTails DEF Giving, Chat
        <5>2. ~GivingPath(frame'.todo)
          BY <5>1, Apart
        <5> QED BY <5>1, <5>2 DEF Begun, Accepting, Accepted, Giving
      <4> QED BY <1>3, <4>1, <4>2
    <3> QED BY <3>1, <3>2, <3>3 DEF LInv, Places
  <2> QED BY <1>1, <2>1, <2>2
<1> QED BY <1>1, <1>2, <1>3, <1>4, <1>5, <1>6, <1>7, <1>8, <1>9, <1>10 DEF Handing

LEMMA HandOverKeeps ==
  ASSUME IInv, IInv', LInv, HandOver
  PROVE  LInv'
<1> DEFINE x == made
<1>1. /\ stack = <<>> /\ made' = made /\ x \in 1..made /\ x \in Turn /\ x \notin given
      /\ x \notin requested /\ x \notin cancelled /\ endings[x] = <<>> /\ ~Queued(x)
      /\ \A t : ~Contains(stack, t)
      /\ \A t : ~Cancelling(t) /\ ~Cancelling(t)'
      /\ ~Begun' /\ Ways' /\ frame.t = x
      /\ frame'.before \in given \cup {None} /\ frame'.t \in 0..made
      /\ frame'.queued \in BOOLEAN
  BY HandFrame
<1>2. /\ given' = given \cup {x} /\ stack' = <<x>> /\ phase' = "running" /\ active' = x
      /\ requested' \subseteq requested
      /\ UNCHANGED <<cancelled, slot, overflow, kind, saved, endings, raced, spoiled>>
  BY <1>1 DEF HandOver, MakeActive
<1>3. Places /\ Phases /\ made \in Nat
  BY Made DEF LInv
<1>4. \A t : ~Stopping(t) /\ ~Stopping(t)' /\ ~Ending(t) /\ ~Ending(t)'
  BY <1>1 DEF Cancelling
<1>5. Untouched'
  BY <1>1, <1>2, <1>3 DEF LInv, Untouched, Turn
<1> HIDE DEF x
<1>6. /\ Len(stack') = 1 /\ stack'[1] = x /\ stack' # <<>>
      /\ \A t : Contains(stack, t)' <=> t = x
  <2>1. Len(stack') = 1 /\ stack'[1] = x
    BY <1>2
  <2> QED BY <2>1 DEF Contains
<1>7. \A t : Queued(t)' <=> Queued(t)
  BY <1>2 DEF Queued, Contains
<1>8. Places'
  <2>1. Seq(given) \subseteq Seq(given')
    BY <1>2
  <2>2. stack' \in Seq(given')
    BY <1>2
  <2>3. active' \in 0..made
    BY <1>1, <1>2, Made
  <2> QED BY <1>1, <1>2, <1>3, <2>1, <2>2, <2>3 DEF Places
<1>9. Phases'
  BY <1>2, <1>6 DEF Phases
<1>10. OnePlace' /\ CancelInv'
  <2>1. \A i, j \in 1..Len(overflow) :
          overflow[i] = overflow[j] => i = j \/ overflow[i] \in spoiled
    BY DEF LInv, OnePlace
  <2>2. Contains(overflow', slot') => slot' \in spoiled
    BY <1>2 DEF LInv, OnePlace
  <2>3. \A i, j \in 1..Len(stack') : i = j
    BY <1>6
  <2>4. OnePlace'
    BY <1>1, <1>2, <1>6, <1>7, <2>1, <2>2, <2>3 DEF OnePlace
  <2> QED BY <1>1, <2>4 DEF CancelInv
<1>11. FutureInv'
  <2>1. Future' /\ Over'
    BY <1>2, <1>6 DEF Future, Over
  <2>2. Below'
    BY <1>6 DEF Below
  <2>3. Requested' /\ Again'
    BY <1>1, <1>2, <1>4, <1>6 DEF Requested, Again
  <2> QED BY <2>1, <2>2, <2>3 DEF FutureInv
<1>12. EndInv'
  <2> SUFFICES ASSUME NEW t \in Turn, ~Excused(t)'
               PROVE  /\ Len(endings[t]) <= 1
                      /\ t = x => endings[t] = <<>> /\ t \notin cancelled
                      /\ Queued(t) => endings[t] = <<>> /\ t \notin cancelled
    BY <1>2, <1>4, <1>6, <1>7 DEF EndInv
  <2>1. ~Excused(t)
    BY <1>2 DEF Excused
  <2> QED BY <1>1, <2>1 DEF LInv, EndInv
<1>13. QuietInv'
  BY <1>1, <1>2, <1>4, <1>6, <1>7 DEF LInv, QuietInv
<1> QED BY <1>1, <1>5, <1>8, <1>9, <1>10, <1>11, <1>12, <1>13 DEF LInv

LEMMA HandOverFailsKeeps ==
  ASSUME IInv, IInv', LInv, HandOverFails
  PROVE  LInv'
<1> DEFINE x == made
<1>1. /\ stack = <<>> /\ made' = made /\ x \in 1..made /\ x \in Turn /\ x \notin given
      /\ endings[x] = <<>> /\ ~Queued(x) /\ frame.t = x
      /\ \A t : ~Cancelling(t) /\ ~Cancelling(t)'
      /\ \A t : Handing(t) => t = x
      /\ ~Begun' /\ Ways'
      /\ frame'.before \in given \cup {None} /\ frame'.t \in 0..made
      /\ frame'.queued \in BOOLEAN
  BY HandFrame
<1>2. /\ given' = given \cup {x} /\ spoiled' = spoiled \cup {x}
      /\ endings' = [endings EXCEPT ![x] = Append(endings[x], "failed")]
      /\ UNCHANGED <<active, requested, cancelled, slot, overflow, stack, phase, kind, saved,
                     raced>>
  BY <1>1 DEF HandOverFails, lives, queue, session
<1>3. Places /\ Phases /\ made \in Nat
  BY Made DEF LInv
<1>4. \A t : ~Stopping(t) /\ ~Stopping(t)' /\ ~Ending(t) /\ ~Ending(t)'
  BY <1>1 DEF Cancelling
<1>5. /\ endings' \in [Turn -> Seq(Kinds)] /\ endings'[x] # <<>>
      /\ \A t \in Turn : t # x => endings'[t] = endings[t]
  <2>1. endings \in [Turn -> Seq(Kinds)] /\ endings[x] \in Seq(Kinds) /\ "failed" \in Kinds
    BY <1>1, <1>3 DEF Places, Kinds
  <2>2. endings'[x] = Append(endings[x], "failed")
    BY <1>1, <1>2, <2>1
  <2> QED BY <1>2, <2>1, <2>2, OneMore
<1>6. Untouched'
  BY <1>1, <1>2, <1>3, <1>5 DEF LInv, Untouched
<1> HIDE DEF x
<1>7. /\ \A t : Contains(stack, t)' <=> Contains(stack, t)
      /\ \A t : Queued(t)' <=> Queued(t)
      /\ \A t : ~Contains(stack, t)
  BY <1>1, <1>2 DEF Queued, Contains
<1>8. Places' /\ Phases'
  <2>1. Seq(given) \subseteq Seq(given')
    BY <1>2
  <2>2. Phases'
    BY <1>2, <1>3 DEF Phases
  <2> QED BY <1>1, <1>2, <1>3, <1>5, <2>1, <2>2 DEF Places
<1>9. OnePlace' /\ CancelInv'
  <2>1. \A i, j \in 1..Len(overflow) :
          overflow[i] = overflow[j] => i = j \/ overflow[i] \in spoiled
    BY DEF LInv, OnePlace
  <2>2. Contains(overflow', slot') => slot' \in spoiled
    BY <1>2 DEF LInv, OnePlace
  <2>3. \A i, j \in 1..Len(stack') : i = j
    BY <1>1, <1>2
  <2>4. OnePlace'
    BY <1>2, <1>7, <2>1, <2>2, <2>3 DEF OnePlace
  <2> QED BY <1>1, <2>4 DEF CancelInv
<1>10. FutureInv'
  <2>1. Future'
    BY <1>1, <1>2, <1>7 DEF LInv, FutureInv, Future
  <2>2. Over' /\ Requested' /\ Again'
    BY <1>4, <1>7 DEF Over, Requested, Again
  <2>3. Below'
    <3>1. \A i \in 1..Len(stack') : FALSE
      BY <1>1, <1>2
    <3> QED BY <3>1 DEF Below
  <2> QED BY <2>1, <2>2, <2>3 DEF FutureInv
<1>11. EndInv'
  <2>1. \A t \in Turn : Excused(t) \/ t = x => Excused(t)'
    BY <1>2 DEF Excused
  <2> QED BY <1>2, <1>4, <1>5, <1>7, <2>1 DEF LInv, EndInv
<1>12. QuietInv'
  <2>1. given \subseteq Turn /\ cancelled \subseteq Turn
    BY <1>3, Made DEF Places
  <2>2. phase # "ended"
    BY <1>1, <1>3 DEF Phases
  <2>3. \A t \in cancelled : endings'[t] # <<>> \/ t \in spoiled'
    BY <1>2, <1>4, <1>5, <2>1 DEF LInv, QuietInv
  <2>4. \A t \in Turn : Queued(t) => t \in spoiled'
    BY <1>1, <1>2 DEF LInv, QuietInv
  <2>5. \A t \in given : endings'[t] # <<>> \/ t \in spoiled' \/ Queued(t)
    BY <1>2, <1>4, <1>5, <1>7, <2>1 DEF LInv, QuietInv
  <2> QED BY <1>2, <1>7, <2>2, <2>3, <2>4, <2>5 DEF QuietInv
<1> QED BY <1>1, <1>6, <1>8, <1>9, <1>10, <1>11, <1>12 DEF LInv

LEMMA CrashKeeps ==
  ASSUME IInv, IInv', LInv, Crash
  PROVE  LInv'
<1>1. /\ Leave /\ active' = None /\ requested' = {} /\ cancelled' = {}
      /\ slot' = None /\ overflow' = <<>> /\ stack' = <<>> /\ phase' = "over"
      /\ spoiled' = spoiled \cup 1..made
      /\ kind' = "completed" /\ saved' = [t \in Turn |-> None]
      /\ UNCHANGED <<made, given, endings, raced>>
  BY DEF Crash, store
<1>2. /\ ~Begun' /\ Ways' /\ \A t : ~Cancelling(t)' /\ ~Handing(t)'
      /\ frame'.before = None /\ frame'.t = None /\ frame'.queued \in BOOLEAN
  BY <1>1, Left
<1>3. \A t : ~Stopping(t)' /\ ~Ending(t)'
  BY <1>2 DEF Cancelling
<1>4. Len(stack') = 0 /\ Len(overflow') = 0
  BY <1>1
<1>5. (\A t : ~Contains(stack, t)' /\ ~Contains(overflow, t)') /\ \A t \in Turn : ~Queued(t)'
  BY <1>1, <1>4, Made DEF Contains, Queued
<1>6. Places' /\ Phases'
  <2>1. saved' \in [Turn -> 0..made]
    BY <1>1, Made
  <2>2. active' \in 0..made /\ frame'.t \in 0..made /\ kind' \in Kinds
    BY <1>1, <1>2, Made DEF Kinds
  <2>3. Phases'
    BY <1>1, <1>4 DEF Phases
  <2>4. stack' \in Seq(given') /\ overflow' \in Seq(given')
    BY <1>1
  <2> QED BY <1>1, <1>2, <2>1, <2>2, <2>3, <2>4 DEF LInv, Places
<1>7. Untouched'
  BY <1>1, <1>2 DEF LInv, Untouched
<1>8. OnePlace' /\ CancelInv'
  BY <1>2, <1>4, <1>5 DEF OnePlace, CancelInv
<1>9. FutureInv'
  BY <1>1, <1>4 DEF FutureInv, Future, Below, Over, Requested, Again
<1>10. EndInv'
  <2>1. \A t \in Turn : t \in 1..made \/ t > made
    BY Made DEF Turn
  <2>2. \A t \in Turn : Excused(t)' \/ endings[t] = <<>>
    BY <1>1, <2>1 DEF LInv, Untouched, Excused
  <2>3. Len(<<>>) <= 1
    OBVIOUS
  <2> QED BY <1>1, <1>3, <1>4, <1>5, <2>2, <2>3 DEF EndInv
<1>11. QuietInv'
  BY <1>1, <1>5, Made DEF QuietInv
<1> QED BY <1>2, <1>6, <1>7, <1>8, <1>9, <1>10, <1>11 DEF LInv

-----------------------------------------------------------------------------
(* The session of Hermes.                                                  *)

LEMMA FrontHas ==
  ASSUME NEW S, NEW s \in Seq(S), Len(s) > 1
  PROVE  /\ Front(s) \in Seq(S) /\ Len(Front(s)) = Len(s) - 1 /\ Front(s) # <<>>
         /\ \A i \in 1..Len(Front(s)) : i \in 1..Len(s) /\ i # Len(s) /\ Front(s)[i] = s[i]
         /\ Last(s) = s[Len(s)] /\ Last(s) \in S
         /\ \A t : Contains(Front(s), t) => Contains(s, t)
         /\ \A t : Contains(s, t) => Contains(Front(s), t) \/ t = Last(s)
<1> DEFINE r == Front(s)
<1>1. Len(s) \in Nat /\ 1 \in 1..Len(s) + 1 /\ Len(s) - 1 \in 0..Len(s)
  OBVIOUS
<1>2. /\ r \in Seq(S) /\ Len(r) = Len(s) - 1
      /\ \A i \in 1..Len(s) - 1 : r[i] = s[i]
  <2>1. r = SubSeq(s, 1, Len(s) - 1)
    BY DEF Front
  <2>2. r \in Seq(S) /\ Len(r) = (IF 1 <= Len(s) - 1 THEN (Len(s) - 1) - 1 + 1 ELSE 0)
    BY <1>1, <2>1, SubSeqProperties
  <2>3. \A i \in 1 .. (Len(s) - 1) - 1 + 1 : r[i] = s[1 + i - 1]
    BY <1>1, <2>1, SubSeqProperties
  <2> QED BY <1>1, <2>2, <2>3
<1> HIDE DEF r
<1>3. \A i \in 1..Len(r) : i \in 1..Len(s) /\ i # Len(s) /\ r[i] = s[i]
  BY <1>1, <1>2
<1>4. Last(s) = s[Len(s)] /\ Last(s) \in S /\ r # <<>>
  <2>1. Len(<<>>) = 0
    OBVIOUS
  <2> QED BY <1>1, <1>2, <2>1, ElementOfSeq DEF Last
<1>5. \A i \in 1..Len(s) : i \in 1..Len(r) \/ i = Len(s)
  BY <1>1, <1>2
<1>6. \A t : Contains(r, t) => Contains(s, t)
  BY <1>3 DEF Contains
<1>7. \A t : Contains(s, t) => Contains(r, t) \/ t = Last(s)
  <2> SUFFICES ASSUME NEW t, Contains(s, t), t # Last(s) PROVE Contains(r, t)
    OBVIOUS
  <2>1. PICK i \in 1..Len(s) : s[i] = t
    BY DEF Contains
  <2>2. i \in 1..Len(r)
    BY <1>4, <1>5, <2>1
  <2> QED BY <1>3, <2>1, <2>2 DEF Contains
<1> QED BY <1>2, <1>3, <1>4, <1>6, <1>7 DEF r

LEMMA TailHas ==
  ASSUME NEW S, NEW s \in Seq(S), s # <<>>
  PROVE  /\ Tail(s) \in Seq(S) /\ Head(s) \in S /\ Head(s) = s[1] /\ Contains(s, Head(s))
         /\ \A i \in 1..Len(Tail(s)) : /\ i + 1 \in 1..Len(s) /\ i + 1 # 1
                                      /\ Tail(s)[i] = s[i + 1]
         /\ 1 \in 1..Len(s)
         /\ \A t : Contains(Tail(s), t) => Contains(s, t)
         /\ \A t : Contains(s, t) => Contains(Tail(s), t) \/ t = Head(s)
<1> DEFINE r == Tail(s)
<1>1. Len(s) \in Nat \ {0} /\ 1 \in 1..Len(s)
  BY LastOf
<1>2. /\ r \in Seq(S) /\ Len(r) = Len(s) - 1 /\ Head(s) = s[1] /\ Head(s) \in S
      /\ \A i \in 1..Len(r) : r[i] = s[i + 1]
  BY <1>1, HeadTailProperties
<1> HIDE DEF r
<1>3. \A i \in 1..Len(r) : i + 1 \in 1..Len(s) /\ i + 1 # 1
  BY <1>1, <1>2
<1>4. \A t : Contains(r, t) => Contains(s, t)
  BY <1>2, <1>3 DEF Contains
<1>5. \A t : Contains(s, t) => Contains(r, t) \/ t = Head(s)
  <2> SUFFICES ASSUME NEW t, Contains(s, t), t # Head(s) PROVE Contains(r, t)
    OBVIOUS
  <2>1. PICK i \in 1..Len(s) : s[i] = t
    BY DEF Contains
  <2>2. i - 1 \in 1..Len(r) /\ (i - 1) + 1 = i
    BY <1>1, <1>2, <2>1
  <2> QED BY <1>2, <2>1, <2>2 DEF Contains
<1>6. Contains(s, Head(s))
  BY <1>1, <1>2 DEF Contains
<1> QED BY <1>1, <1>2, <1>3, <1>4, <1>5, <1>6 DEF r

(* The queue when its next turn has left it.                               *)
LEMMA TakeSlotHas ==
  ASSUME LInv, TakeSlot, slot # None, None \notin given
  PROVE  /\ slot' \in given \cup {None} /\ overflow' \in Seq(given)
         /\ \A t : t # None /\ Queued(t)' => Queued(t)
         /\ \A t : Queued(t) => Queued(t)' \/ t = slot
         /\ Queued(slot) /\ \A t : t = slot /\ Queued(t)' => t \in spoiled
         /\ \A i, j \in 1..Len(overflow') :
              overflow'[i] = overflow'[j] => i = j \/ overflow'[i] \in spoiled
         /\ Contains(overflow', slot') => slot' \in spoiled
<1>1. slot \in given \cup {None} /\ overflow \in Seq(given)
  BY DEF LInv, Places
<1>2. /\ \A i, j \in 1..Len(overflow) :
           overflow[i] = overflow[j] => i = j \/ overflow[i] \in spoiled
      /\ Contains(overflow, slot) => slot \in spoiled
  BY DEF LInv, OnePlace
<1>3. CASE overflow # <<>> /\ slot' = Head(overflow) /\ overflow' = Tail(overflow)
  <2>1. /\ overflow' \in Seq(given) /\ slot' \in given /\ slot' = overflow[1]
        /\ Contains(overflow, slot')
        /\ \A i \in 1..Len(overflow') : /\ i + 1 \in 1..Len(overflow) /\ i + 1 # 1
                                       /\ overflow'[i] = overflow[i + 1]
        /\ 1 \in 1..Len(overflow)
        /\ \A t : Contains(overflow', t) => Contains(overflow, t)
        /\ \A t : Contains(overflow, t) => Contains(overflow', t) \/ t = slot'
    BY <1>1, <1>3, TailHas
  <2>2. \A i, j \in 1..Len(overflow') :
          overflow'[i] = overflow'[j] => i = j \/ overflow'[i] \in spoiled
    <3>1. \A i, j \in 1..Len(overflow') : i + 1 = j + 1 => i = j
      OBVIOUS
    <3> QED BY <1>2, <2>1, <3>1
  <2>3. Contains(overflow', slot') => slot' \in spoiled
    <3> SUFFICES ASSUME Contains(overflow', slot') PROVE slot' \in spoiled
      OBVIOUS
    <3>1. PICK i \in 1..Len(overflow') : overflow'[i] = slot'
      BY DEF Contains
    <3> QED BY <1>2, <2>1, <3>1
  <2>4. /\ \A t : Queued(t)' => Queued(t)
        /\ \A t : Queued(t) => Queued(t)' \/ t = slot
    BY <2>1 DEF Queued
  <2>5. \A t : t = slot /\ Queued(t)' => t \in spoiled
    BY <1>2, <2>1 DEF Queued
  <2>6. Queued(slot)
    BY DEF Queued
  <2> QED BY <1>1, <2>1, <2>2, <2>3, <2>4, <2>5, <2>6
<1>4. CASE slot' = None /\ overflow' = overflow
  <2>1. ~Contains(overflow, None)
    BY <1>1, SeqHas
  <2>2. \A t : Contains(overflow', t) <=> Contains(overflow, t)
    BY <1>4
  <2>3. /\ \A t : t # None /\ Queued(t)' => Queued(t)
        /\ \A t : Queued(t) => Queued(t)' \/ t = slot
        /\ Queued(slot)
        /\ \A t : t = slot /\ Queued(t)' => t \in spoiled
    BY <1>2, <1>4, <2>2 DEF Queued
  <2> QED BY <1>1, <1>2, <1>4, <2>1, <2>2, <2>3
<1> QED BY <1>3, <1>4 DEF TakeSlot

(* What every step of the session leaves alone, of what it does not touch. *)
LEMMA SessionFrame ==
  ASSUME IInv, LInv, UNCHANGED <<made, msg, frame, given>>,
         requested' \subseteq requested, cancelled' \subseteq cancelled,
         spoiled \subseteq spoiled',
         \A t \in Turn : t # None /\ Queued(t)' => Queued(t),
         \A t \in Turn : t \notin given => endings'[t] = endings[t]
  PROVE  /\ Untouched' /\ Ways' /\ CancelInv'
         /\ \A t : /\ Cancelling(t)' <=> Cancelling(t)
                   /\ Stopping(t)' <=> Stopping(t)
                   /\ Ending(t)' <=> Ending(t)
                   /\ Handing(t)' <=> Handing(t)
<1>1. \A t : /\ Cancelling(t)' <=> Cancelling(t)
             /\ Stopping(t)' <=> Stopping(t)
             /\ Ending(t)' <=> Ending(t)
             /\ Handing(t)' <=> Handing(t)
  BY DEF Cancelling, Stopping, Ending, Handing
<1>2. 1..made \subseteq Turn /\ given \subseteq 1..made /\ None \notin Turn /\ made \in Nat
  BY Made
<1>3. CancelInv'
  BY <1>1, <1>2 DEF LInv, CancelInv
<1>4. Begun' => Begun
  BY DEF Begun, Accepting, Accepted, Giving, OfTurn, Chat
<1>5. Ways'
  BY DEF LInv, Ways, Accepting, Giving, OfTurn, Chat
<1>6. Begun => made \notin given
  BY DEF IInv, FrameInv, Begun
<1>7. Untouched'
  <2>1. \A t \in Turn : t > made => t \notin given
    BY <1>2 DEF Turn
  <2> QED BY <1>4, <1>6, <2>1, StayUntouched
<1> QED BY <1>1, <1>3, <1>5, <1>7

(* The runner goes on with the turn in the slot.                           *)
LEMMA RunnerDrainsKeeps ==
  ASSUME IInv, LInv, RunnerDrains
  PROVE  LInv'
<1>1. PICK q : q = slot
  OBVIOUS
<1>2. /\ stack # <<>> /\ phase = "running" /\ q # None
      /\ saved' = [saved EXCEPT ![q] = active]
      /\ active' = q /\ requested' = (IF active = q THEN requested ELSE requested \ {q})
      /\ stack' = Append(stack, q) /\ TakeSlot
      /\ UNCHANGED <<made, msg, frame, cancelled, phase, kind, given, endings, raced, spoiled>>
  BY <1>1 DEF RunnerDrains, MakeActive, store
<1>3. Places /\ Phases /\ 1..made \subseteq Turn /\ given \subseteq 1..made /\ None \notin Turn
      /\ 1..made \subseteq 0..made
  BY Made DEF LInv
<1>4. /\ q \in given /\ q \in Turn /\ q \in 1..made
      /\ stack \in Seq(given) /\ None \notin given /\ requested' \subseteq requested
  BY <1>1, <1>2, <1>3 DEF Places
<1>5. /\ slot' \in given \cup {None} /\ overflow' \in Seq(given)
      /\ \A t : t # None /\ Queued(t)' => Queued(t)
      /\ \A t : Queued(t) => Queued(t)' \/ t = q
      /\ Queued(q) /\ \A t : t = q /\ Queued(t)' => t \in spoiled
      /\ \A i, j \in 1..Len(overflow') :
           overflow'[i] = overflow'[j] => i = j \/ overflow'[i] \in spoiled
      /\ Contains(overflow', slot') => slot' \in spoiled
  BY <1>1, <1>2, <1>4, TakeSlotHas
<1>6. /\ stack' \in Seq(given)
      /\ \A t : Contains(stack, t)' <=> Contains(stack, t) \/ t = q
      /\ \A i \in 1..Len(stack') : \/ i \in 1..Len(stack) /\ stack'[i] = stack[i]
                                   \/ i = Len(stack) + 1 /\ stack'[i] = q
      /\ Len(stack') = Len(stack) + 1 /\ Len(stack) \in Nat
      /\ \A i \in 1..Len(stack) : i \in 1..Len(stack')
  <2>1. \A t : Contains(stack, t)' <=> Contains(stack', t)
    OBVIOUS
  <2> QED BY <1>2, <1>4, <2>1, AppendHas
<1>7. /\ Untouched' /\ Ways' /\ CancelInv'
      /\ \A t : /\ Cancelling(t)' <=> Cancelling(t)
                /\ Stopping(t)' <=> Stopping(t)
                /\ Ending(t)' <=> Ending(t)
                /\ Handing(t)' <=> Handing(t)
  BY <1>2, <1>4, <1>5, SessionFrame
<1>8. Contains(stack, q) => q \in spoiled
  BY <1>4, <1>5 DEF LInv, OnePlace
<1>9. active = None \/ active \in spoiled \/ Contains(stack, active)
  BY <1>2 DEF LInv, FutureInv, Future
<1>10. Places' /\ Phases'
  <2>1. /\ saved' \in [Turn -> 0..made] /\ active' \in 0..made
        /\ requested' \subseteq 1..made
    BY <1>2, <1>3, <1>4 DEF Places
  <2>2. Len(stack) # 0
    BY <1>2, <1>4, EmptySeq
  <2>3. Phases'
    BY <1>2, <1>6 DEF Phases
  <2> QED BY <1>2, <1>3, <1>5, <1>6, <2>1, <2>3 DEF Places
<1>11. OnePlace'
  <2>1. \A i, j \in 1..Len(stack') : stack'[i] = stack'[j] => i = j \/ stack'[i] \in spoiled
    <3> SUFFICES ASSUME NEW i \in 1..Len(stack'), NEW j \in 1..Len(stack'),
                        stack'[i] = stack'[j], i # j
                 PROVE  stack'[i] \in spoiled
      OBVIOUS
    <3>1. CASE i \in 1..Len(stack) /\ stack'[i] = stack[i] /\ j \in 1..Len(stack) /\ stack'[j] = stack[j]
      BY <3>1 DEF LInv, OnePlace
    <3>2. CASE stack'[i] = q /\ (Contains(stack, stack'[i]) \/ Contains(stack, stack'[j]))
      BY <1>8, <3>2
    <3>3. CASE stack'[j] = q /\ (Contains(stack, stack'[i]) \/ Contains(stack, stack'[j]))
      BY <1>8, <3>3
    <3>4. \/ i \in 1..Len(stack) /\ stack'[i] = stack[i] /\ Contains(stack, stack'[i])
          \/ i = Len(stack) + 1 /\ stack'[i] = q
      BY <1>6 DEF Contains
    <3>5. \/ j \in 1..Len(stack) /\ stack'[j] = stack[j] /\ Contains(stack, stack'[j])
          \/ j = Len(stack) + 1 /\ stack'[j] = q
      BY <1>6 DEF Contains
    <3> QED BY <3>1, <3>2, <3>3, <3>4, <3>5
  <2>2. \A t \in Turn : Contains(stack, t)' /\ Queued(t)' => t \in spoiled
    BY <1>3, <1>5, <1>6 DEF LInv, OnePlace
  <2> QED BY <1>2, <1>5, <2>1, <2>2 DEF OnePlace
<1>12. FutureInv'
  <2>1. Future' /\ Over'
    BY <1>2, <1>6 DEF Future, Over
  <2>2. Below'
    <3> SUFFICES ASSUME NEW i \in 1..Len(stack')
                 PROVE  \/ i = 1
                        \/ \E j \in i + 1 .. Len(stack') : stack'[j] = stack'[i]
                        \/ saved'[stack'[i]] \in {None, stack'[i]} \cup spoiled
                        \/ \E j \in 1 .. i - 1 : stack'[j] = saved'[stack'[i]]
      BY <1>2 DEF Below
    <3>1. \A j \in 1..Len(stack) : stack'[j] = stack[j]
      BY <1>6
    <3>2. CASE i = Len(stack) + 1
      <4>1. saved'[stack'[i]] = active
        BY <1>2, <1>3, <1>4, <1>6, <3>2 DEF Places
      <4>2. CASE Contains(stack, active)
        <5>1. PICK j \in 1..Len(stack) : stack[j] = active
          BY <4>2 DEF Contains
        <5>2. j \in 1 .. i - 1
          BY <1>6, <3>2
        <5> QED BY <3>1, <4>1, <5>1, <5>2
      <4> QED BY <1>9, <4>1, <4>2
    <3>3. CASE i \in 1..Len(stack)
      <4>1. stack'[i] = stack[i] /\ stack[i] \in Turn
        BY <1>3, <1>4, <3>1, <3>3, SeqHas
      <4>2. CASE stack[i] = q
        <5>1. Len(stack) + 1 \in i + 1 .. Len(stack') /\ stack'[Len(stack) + 1] = q
          BY <1>6, <3>3
        <5> QED BY <4>1, <4>2, <5>1
      <4>3. CASE stack[i] # q
        <5>1. saved'[stack'[i]] = saved[stack[i]]
          BY <1>2, <1>3, <4>1, <4>3 DEF Places
        <5>2. \A j \in i + 1 .. Len(stack) : j \in i + 1 .. Len(stack') /\ j \in 1..Len(stack)
          BY <1>6, <3>3
        <5>3. \A j \in 1 .. i - 1 : j \in 1..Len(stack)
          BY <1>6, <3>3
        <5>4. \/ i = 1
              \/ \E j \in i + 1 .. Len(stack) : stack[j] = stack[i]
              \/ saved[stack[i]] \in {None, stack[i]} \cup spoiled
              \/ \E j \in 1 .. i - 1 : stack[j] = saved[stack[i]]
          BY <3>3 DEF LInv, FutureInv, Below
        <5> QED BY <3>1, <4>1, <5>1, <5>2, <5>3, <5>4
      <4> QED BY <4>2, <4>3
    <3> QED BY <1>6, <3>2, <3>3
  <2>3. Requested'
    BY <1>2, <1>4, <1>6, <1>7, <1>8, <1>9 DEF LInv, FutureInv, Requested
  <2>4. Again'
    BY <1>2, <1>6 DEF Again
  <2> QED BY <2>1, <2>2, <2>3, <2>4 DEF FutureInv
<1>13. EndInv'
  <2> SUFFICES ASSUME NEW t \in Turn, ~Excused(t)
               PROVE  /\ Len(endings[t]) <= 1
                      /\ Contains(stack, t)' /\ endings[t] # <<>> => t \in cancelled
                      /\ Queued(t)' => endings[t] = <<>> /\ t \notin cancelled
                      /\ Ending(t)' => /\ endings[t] = <<>>
                                       /\ Contains(stack, t)' => t \in cancelled
                      /\ \A i \in 2..Len(stack') : stack'[i] = t => t \notin cancelled
    BY <1>2 DEF EndInv, Excused
  <2>1. t \notin spoiled /\ (Queued(t)' => Queued(t))
    BY <1>3, <1>5 DEF Excused
  <2>2. CASE t = q
    <3>1. endings[t] = <<>> /\ t \notin cancelled /\ Len(endings[t]) <= 1
      BY <1>5, <2>2 DEF LInv, EndInv
    <3>2. ~Ending(t)
      BY <1>4, <1>5, <2>1, <2>2 DEF LInv, CancelInv, Cancelling
    <3> QED BY <1>7, <3>1, <3>2
  <2>3. CASE t # q
    <3>1. \A i \in 2..Len(stack') : stack'[i] = t => i \in 2..Len(stack) /\ stack[i] = t
      BY <1>6, <2>3
    <3> QED BY <1>2, <1>6, <1>7, <2>1, <2>3, <3>1 DEF LInv, EndInv
  <2> QED BY <2>2, <2>3
<1>14. QuietInv'
  <2>1. stack' # <<>>
    <3>1. Len(<<>>) = 0
      OBVIOUS
    <3> QED BY <1>6, <3>1
  <2>2. \A t \in given : \/ endings[t] # <<>> \/ t \in spoiled
                         \/ Stopping(t)' \/ Ending(t)' \/ Queued(t)'
                         \/ Contains(stack, t)'
    BY <1>5, <1>6, <1>7 DEF LInv, QuietInv
  <2>3. \A t \in cancelled : endings[t] # <<>> \/ t \in spoiled \/ Ending(t)'
    BY <1>7 DEF LInv, QuietInv
  <2> QED BY <1>2, <2>1, <2>2, <2>3 DEF QuietInv
<1> QED BY <1>7, <1>10, <1>11, <1>12, <1>13, <1>14 DEF LInv

(* The turn that the runner had started has its ending.                    *)
LEMMA DrainedEndsKeeps ==
  ASSUME IInv, LInv, NEW k \in {"completed", "failed"}, DrainedEnds(k)
  PROVE  LInv'
<1>1. PICK x : x = Inner
  OBVIOUS
<1>2. /\ Len(stack) > 1 /\ phase = "running" /\ phase' = "ended"
      /\ endings' = [endings EXCEPT ![x] = Append(endings[x], k)]
      /\ UNCHANGED <<made, msg, frame, active, requested, cancelled, slot, overflow, stack,
                     kind, saved, given, raced, spoiled>>
  BY <1>1 DEF DrainedEnds, Nested, store, lives, queue
<1>3. Places /\ Phases /\ 1..made \subseteq Turn /\ given \subseteq 1..made
  BY Made DEF LInv
<1>4. /\ x = stack[Len(stack)] /\ x \in given /\ x \in Turn /\ Contains(stack, x)
      /\ Len(stack) \in 2..Len(stack)
  <2>1. stack \in Seq(given) /\ stack # <<>> /\ Len(stack) \in Nat
    BY <1>2, <1>3 DEF Places
  <2>2. Len(stack) \in 2..Len(stack)
    BY <1>2, <2>1
  <2>3. x = stack[Len(stack)]
    BY <1>1 DEF Inner, Last
  <2>4. x \in given /\ Contains(stack, x)
    BY <2>1, <2>3, LastOf
  <2> QED BY <1>3, <2>2, <2>3, <2>4
<1>5. /\ endings' \in [Turn -> Seq(Kinds)] /\ endings'[x] # <<>>
      /\ \A t \in Turn : t # x => endings'[t] = endings[t]
      /\ endings[x] = <<>> => Len(endings'[x]) <= 1
  <2>1. endings \in [Turn -> Seq(Kinds)] /\ endings[x] \in Seq(Kinds) /\ k \in Kinds
    BY <1>3, <1>4 DEF Places, Kinds
  <2>2. endings'[x] = Append(endings[x], k)
    BY <1>2, <1>4, <2>1
  <2> QED BY <1>2, <2>1, <2>2, OneMore
<1>6. \A t : (Queued(t)' <=> Queued(t)) /\ (Contains(stack, t)' <=> Contains(stack, t))
  BY <1>2 DEF Queued, Contains
<1>7. /\ Untouched' /\ Ways' /\ CancelInv'
      /\ \A t : /\ Cancelling(t)' <=> Cancelling(t)
                /\ Stopping(t)' <=> Stopping(t)
                /\ Ending(t)' <=> Ending(t)
                /\ Handing(t)' <=> Handing(t)
  BY <1>2, <1>4, <1>5, <1>6, SessionFrame
<1>8. Places' /\ Phases'
  BY <1>2, <1>3, <1>5 DEF Places, Phases
<1>9. OnePlace' /\ FutureInv'
  BY <1>2, <1>6, <1>7 DEF LInv, OnePlace, FutureInv, Future, Over, Below, Requested, Again
<1>10. EndInv'
  <2> SUFFICES ASSUME NEW t \in Turn, ~Excused(t)
               PROVE  /\ Len(endings'[t]) <= 1
                      /\ Contains(stack, t) /\ endings'[t] # <<>> =>
                           t \in cancelled \/ stack[Len(stack)] = t
                      /\ Queued(t) => endings'[t] = <<>> /\ t \notin cancelled
                      /\ Ending(t) => /\ endings'[t] = <<>>
                                      /\ Contains(stack, t) => t \in cancelled
                      /\ \A i \in 2..Len(stack) : stack[i] = t => t \notin cancelled
    BY <1>2, <1>6, <1>7 DEF EndInv, Excused
  <2>1. t \notin spoiled
    BY DEF Excused
  <2>2. CASE t = x
    <3>1. t \notin cancelled /\ endings[t] = <<>> /\ ~Queued(t) /\ ~Ending(t)
      BY <1>2, <1>4, <2>1, <2>2 DEF LInv, EndInv, OnePlace
    <3> QED BY <1>4, <1>5, <2>2, <3>1
  <2>3. CASE t # x
    BY <1>2, <1>5, <2>3 DEF LInv, EndInv
  <2> QED BY <2>2, <2>3
<1>11. QuietInv'
  <2>1. given \subseteq Turn /\ cancelled \subseteq Turn
    BY <1>3 DEF Places
  <2>2. \A t \in Turn : endings[t] # <<>> => endings'[t] # <<>>
    BY <1>5
  <2> QED BY <1>2, <1>4, <1>5, <1>6, <1>7, <2>1, <2>2 DEF LInv, QuietInv
<1> QED BY <1>7, <1>8, <1>9, <1>10, <1>11 DEF LInv

(* The turn that was active before the runner's is active again.           *)
LEMMA ReturnsKeeps ==
  ASSUME IInv, LInv, DrainedReturns \/ DrainedIsKilled
  PROVE  LInv'
<1>1. PICK x : x = Inner
  OBVIOUS
<1>2. /\ Len(stack) > 1 /\ phase \in {"running", "ended"} /\ phase' = "running"
      /\ stack' = Front(stack) /\ saved' = [saved EXCEPT ![x] = None]
      /\ UNCHANGED <<made, msg, frame, requested, cancelled, slot, overflow, kind, given,
                     endings, raced>>
      /\ spoiled \subseteq spoiled'
      /\ \/ saved[x] \notin {None, x} /\ active' = saved[x]
         \/ saved[x] \in {None, x} /\ active' = active /\ (active = x => x \in spoiled')
         \/ saved[x] \in {None, x} /\ active' = None
      /\ x \in spoiled' \/ phase = "ended"
  BY <1>1 DEF DrainedReturns, DrainedIsKilled, Returns, Nested, store, queue
<1>3. Places /\ Phases /\ 1..made \subseteq Turn /\ given \subseteq 1..made /\ None \notin Turn
      /\ None \in 0..made
  BY Made DEF LInv
<1>4. stack \in Seq(given) /\ Len(stack) \in Nat
  BY <1>3 DEF Places
<1>5. /\ stack' \in Seq(given) /\ Len(stack') = Len(stack) - 1 /\ stack' # <<>>
      /\ \A i \in 1..Len(stack') : i \in 1..Len(stack) /\ i # Len(stack) /\ stack'[i] = stack[i]
      /\ x = stack[Len(stack)] /\ x \in given /\ x \in Turn
      /\ \A t : Contains(stack, t)' => Contains(stack, t)
      /\ \A t : Contains(stack, t) => Contains(stack, t)' \/ t = x
  <2>1. \A t : Contains(stack, t)' <=> Contains(stack', t)
    OBVIOUS
  <2> QED BY <1>1, <1>2, <1>3, <1>4, <2>1, FrontHas DEF Inner
<1>6. \A t : Queued(t)' <=> Queued(t)
  BY <1>2 DEF Queued, Contains
<1>7. /\ Untouched' /\ Ways' /\ CancelInv'
      /\ \A t : /\ Cancelling(t)' <=> Cancelling(t)
                /\ Stopping(t)' <=> Stopping(t)
                /\ Ending(t)' <=> Ending(t)
                /\ Handing(t)' <=> Handing(t)
  BY <1>2, <1>6, SessionFrame
<1>8. Places' /\ Phases'
  <2>1. saved' \in [Turn -> 0..made] /\ active' \in 0..made
    BY <1>2, <1>3, <1>5 DEF Places
  <2>2. Phases'
    BY <1>2, <1>5 DEF Phases
  <2> QED BY <1>2, <1>3, <1>5, <2>1, <2>2 DEF Places
<1>9. OnePlace'
  <2>1. \A i, j \in 1..Len(stack') : stack'[i] = stack'[j] => i = j \/ stack'[i] \in spoiled'
    BY <1>2, <1>5 DEF LInv, OnePlace
  <2>2. \A i, j \in 1..Len(overflow') :
          overflow'[i] = overflow'[j] => i = j \/ overflow'[i] \in spoiled'
    BY <1>2 DEF LInv, OnePlace
  <2>3. Contains(overflow', slot') => slot' \in spoiled'
    BY <1>2 DEF LInv, OnePlace
  <2>4. \A t \in Turn : Contains(stack, t)' /\ Queued(t)' => t \in spoiled'
    BY <1>2, <1>5, <1>6 DEF LInv, OnePlace
  <2> QED BY <2>1, <2>2, <2>3, <2>4 DEF OnePlace
<1>10. Contains(stack, x)' => x \in spoiled
  <2> SUFFICES ASSUME Contains(stack', x) PROVE x \in spoiled
    OBVIOUS
  <2>1. PICK i \in 1..Len(stack') : stack'[i] = x
    BY DEF Contains
  <2>2. i \in 1..Len(stack) /\ i # Len(stack) /\ stack[i] = x /\ Len(stack) \in 1..Len(stack)
    BY <1>2, <1>4, <1>5, <2>1
  <2> QED BY <1>5, <2>2 DEF LInv, OnePlace
<1>11. active' = None \/ active' \in spoiled' \/ \E t : t = active' /\ Contains(stack', t)
  <2>1. CASE saved[x] \notin {None, x} /\ active' = saved[x]
    <3>1. Len(stack) \in 1..Len(stack) /\ Len(stack) # 1
      <4>1. Len(stack) > 1
        BY <1>2
      <4>2. Len(stack) \in Nat
        BY <1>4
      <4>3. \A n \in Nat : n > 1 => n \in 1..n /\ n # 1
        OBVIOUS
      <4> QED BY <4>1, <4>2, <4>3
    <3>2. ~\E j \in Len(stack) + 1 .. Len(stack) : stack[j] = stack[Len(stack)]
      BY <1>4
    <3>3. \/ saved[x] \in spoiled
          \/ \E j \in 1 .. Len(stack) - 1 : stack[j] = saved[x]
      BY <1>5, <2>1, <3>1, <3>2 DEF LInv, FutureInv, Below
    <3>4. \A j \in 1 .. Len(stack) - 1 : stack'[j] = stack[j] /\ j \in 1..Len(stack')
      BY <1>5
    <3> QED BY <1>2, <2>1, <3>3, <3>4 DEF Contains
  <2>2. CASE active' = active /\ (active = x => x \in spoiled')
    <3>1. active = None \/ active \in spoiled \/ Contains(stack, active)
      BY <1>2 DEF LInv, FutureInv, Future
    <3>2. \A t : Contains(stack, t)' <=> Contains(stack', t)
      OBVIOUS
    <3> QED BY <1>2, <1>5, <2>2, <3>1, <3>2
  <2> QED BY <1>2, <2>1, <2>2
<1>12. FutureInv'
  <2>1. Future' /\ Over'
    BY <1>2, <1>11 DEF Future, Over
  <2>2. Below'
    <3> SUFFICES ASSUME NEW i \in 1..Len(stack')
                 PROVE  \/ i = 1
                        \/ \E j \in i + 1 .. Len(stack') : stack'[j] = stack'[i]
                        \/ saved'[stack'[i]] \in {None, stack'[i]} \cup spoiled'
                        \/ \E j \in 1 .. i - 1 : stack'[j] = saved'[stack'[i]]
      BY DEF Below
    <3>1. i \in 1..Len(stack) /\ stack'[i] = stack[i] /\ stack[i] \in Turn
      BY <1>3, <1>4, <1>5, SeqHas
    <3>2. \A j \in 1 .. i - 1 : stack'[j] = stack[j]
      BY <1>5
    <3>3. \A j \in i + 1 .. Len(stack) :
            j = Len(stack) \/ (j \in i + 1 .. Len(stack') /\ stack'[j] = stack[j])
      BY <1>4, <1>5, <3>1
    <3>4. CASE stack[i] = x
      BY <1>2, <1>3, <1>5, <3>1, <3>4 DEF Places
    <3>5. CASE stack[i] # x
      <4>1. saved'[stack'[i]] = saved[stack[i]]
        BY <1>2, <1>3, <3>1, <3>5 DEF Places
      <4>2. \/ i = 1
            \/ \E j \in i + 1 .. Len(stack) : stack[j] = stack[i]
            \/ saved[stack[i]] \in {None, stack[i]} \cup spoiled
            \/ \E j \in 1 .. i - 1 : stack[j] = saved[stack[i]]
        BY <3>1 DEF LInv, FutureInv, Below
      <4> QED BY <1>2, <1>5, <3>1, <3>2, <3>3, <3>5, <4>1, <4>2
    <3> QED BY <3>4, <3>5
  <2>3. Requested'
    BY <1>2, <1>5, <1>7 DEF LInv, FutureInv, Requested
  <2>4. Again'
    <3>1. \A t \in cancelled : t # None
      BY <1>3 DEF Places
    <3> QED BY <1>2, <1>11, <3>1 DEF Again
  <2> QED BY <2>1, <2>2, <2>3, <2>4 DEF FutureInv
<1>13. EndInv'
  <2> SUFFICES ASSUME NEW t \in Turn, ~Excused(t)'
               PROVE  /\ Len(endings[t]) <= 1
                      /\ Contains(stack, t)' /\ endings[t] # <<>> => t \in cancelled
                      /\ Queued(t) => endings[t] = <<>> /\ t \notin cancelled
                      /\ Ending(t) => /\ endings[t] = <<>>
                                      /\ Contains(stack, t)' => t \in cancelled
                      /\ \A i \in 2..Len(stack') : stack'[i] = t => t \notin cancelled
    BY <1>2, <1>6, <1>7 DEF EndInv
  <2>1. t \notin spoiled /\ ~Excused(t)
    BY <1>2 DEF Excused
  <2>2. Contains(stack, t)' => t # x /\ Contains(stack, t)
    BY <1>5, <1>10, <2>1
  <2>3. \A i \in 2..Len(stack') : stack'[i] = t => i \in 2..Len(stack) /\ stack[i] = t
    BY <1>5
  <2> QED BY <1>2, <1>5, <2>1, <2>2, <2>3 DEF LInv, EndInv
<1>14. QuietInv'
  <2>1. x \in spoiled' \/ endings[x] # <<>>
    BY <1>2, <1>5 DEF LInv, QuietInv
  <2>2. \A t \in given : \/ endings[t] # <<>> \/ t \in spoiled'
                         \/ Stopping(t)' \/ Ending(t)' \/ Queued(t)'
                         \/ Contains(stack, t)'
    BY <1>2, <1>5, <1>6, <1>7, <2>1 DEF LInv, QuietInv
  <2>3. \A t \in cancelled : endings[t] # <<>> \/ t \in spoiled' \/ Ending(t)'
    BY <1>2, <1>7 DEF LInv, QuietInv
  <2> QED BY <1>2, <1>5, <2>2, <2>3 DEF QuietInv
<1> QED BY <1>7, <1>8, <1>9, <1>12, <1>13, <1>14 DEF LInv

(* The end of the outermost turn: what the steps that decide on it do.     *)
LEMMA Decides ==
  ASSUME IInv, LInv, NEW x, x = Outer, Len(stack) = 1,
         UNCHANGED <<made, msg, frame, slot, overflow, stack, saved, given, endings, raced>>,
         phase \in {"running", "ending", "ended"}, phase' \in {"over", "ending"}, kind' \in Kinds,
         requested' = requested, cancelled' \in {cancelled, cancelled \ {x}},
         spoiled \subseteq spoiled',
         active' = active \/ (active = x /\ active' = None),
         phase' = "ending" => phase = "running" /\ x \notin cancelled',
         phase' = "over" =>
           /\ \/ x \in spoiled'
              \/ active' # x
              \/ Stopping(x) /\ x \notin cancelled
           /\ \/ x \in spoiled' \/ endings[x] # <<>> \/ Ending(x) \/ Stopping(x),
         phase' = "ending" => cancelled' = cancelled
  PROVE  LInv'
<1>1. Places /\ Phases /\ 1..made \subseteq Turn /\ given \subseteq 1..made /\ None \notin Turn
      /\ None \in 0..made
  BY Made DEF LInv
<1>2. /\ stack \in Seq(given) /\ stack # <<>> /\ stack[1] = x /\ x \in given /\ x \in Turn
      /\ \A t : Contains(stack, t) <=> t = x
  <2>1. stack \in Seq(given) /\ stack # <<>>
    BY <1>1 DEF Places
  <2>2. stack[1] = x /\ x \in given
    BY <2>1, LastOf DEF Outer
  <2>3. \A i \in 1..Len(stack) : i = 1
    OBVIOUS
  <2>4. Contains(stack, x)
    BY <2>1, <2>2, LastOf
  <2> QED BY <1>1, <2>1, <2>2, <2>3, <2>4 DEF Contains
<1>3. \A t : (Queued(t)' <=> Queued(t)) /\ (Contains(stack, t)' <=> Contains(stack, t))
  BY DEF Queued, Contains
<1>4. /\ Untouched' /\ Ways' /\ CancelInv'
      /\ \A t : /\ Cancelling(t)' <=> Cancelling(t)
                /\ Stopping(t)' <=> Stopping(t)
                /\ Ending(t)' <=> Ending(t)
                /\ Handing(t)' <=> Handing(t)
  BY <1>3, SessionFrame
<1>5. Places' /\ Phases'
  <2>1. active' \in 0..made /\ cancelled' \subseteq 1..made
    BY <1>1 DEF Places
  <2>2. Places'
    BY <1>1, <2>1 DEF Places
  <2>3. Phases'
    <3>1. stack' # <<>> /\ Len(stack') = 1
      BY <1>2
    <3>2. phase' \in {"running", "ending", "ended", "over"}
      OBVIOUS
    <3>3. Len(stack') <= 1
      <4>1. \A n : n = 1 => n <= 1
        OBVIOUS
      <4> QED BY <3>1, <4>1
    <3> QED BY <3>1, <3>2, <3>3 DEF Phases
  <2> QED BY <2>2, <2>3
<1>6. OnePlace'
  BY <1>3 DEF LInv, OnePlace
<1>7. FutureInv'
  <2>1. Future'
    BY <1>2, <1>3 DEF LInv, FutureInv, Future
  <2>2. Over'
    BY <1>2, <1>3, <1>4 DEF Over, Cancelling
  <2>3. Below'
    BY DEF LInv, FutureInv, Below
  <2>4. Requested'
    BY <1>2, <1>3, <1>4 DEF LInv, FutureInv, Requested
  <2>5. Again'
    <3>1. \A t \in cancelled' : t \in cancelled /\ t # None
      BY <1>1 DEF Places
    <3> QED BY <1>2, <1>3, <1>4, <3>1 DEF LInv, FutureInv, Again
  <2> QED BY <2>1, <2>2, <2>3, <2>4, <2>5 DEF FutureInv
<1>8. EndInv'
  <2>0. /\ \A i \in 2..Len(stack') : FALSE
        /\ stack'[1] = x /\ phase' # "ended"
    <3>1. \A i \in 2..1 : FALSE
      OBVIOUS
    <3>2. Len(stack') = 1 /\ stack'[1] = stack[1]
      OBVIOUS
    <3>3. phase' # "ended"
      OBVIOUS
    <3> QED BY <1>2, <3>1, <3>2, <3>3
  <2> SUFFICES ASSUME NEW t \in Turn, ~Excused(t)'
               PROVE  /\ Len(endings[t]) <= 1
                      /\ t = x /\ endings[t] # <<>> => t \in cancelled' \/ phase' = "over"
                      /\ Queued(t) => endings[t] = <<>> /\ t \notin cancelled'
                      /\ Ending(t) => /\ endings[t] = <<>>
                                      /\ t = x => t \in cancelled' \/ phase' = "over"
    BY <1>2, <1>3, <1>4, <2>0 DEF EndInv
  <2>1. ~Excused(t)
    BY DEF Excused
  <2> QED BY <1>2, <2>1 DEF LInv, EndInv
<1>9. QuietInv'
  BY <1>2, <1>3, <1>4 DEF LInv, QuietInv
<1> QED BY <1>4, <1>5, <1>6, <1>7, <1>8, <1>9 DEF LInv

LEMMA CompletesKeeps ==
  ASSUME IInv, LInv,
         \/ CompleteCancelled \/ CompleteStopped \/ StoreEndingFails
         \/ \E k \in Kinds : Complete(k)
  PROVE  LInv'
<1>1. PICK x : x = Outer
  OBVIOUS
<1>2. Phases /\ Places
  BY DEF LInv
<1>3. UNCHANGED <<made, msg, frame, slot, overflow, stack, saved, given, endings, raced,
                  requested>>
  BY DEF CompleteCancelled, CompleteStopped, StoreEndingFails, Complete, Cleanup,
         store, lives, queue, history
<1>4. Len(stack) = 1 /\ phase \in {"running", "ending"} /\ kind' \in Kinds
  BY <1>2 DEF CompleteCancelled, CompleteStopped, StoreEndingFails, Complete, Phases, Places,
              Kinds
<1>5. Contains(stack, x)
  <2>1. stack \in Seq(given) /\ stack # <<>>
    <3>1. stack # <<>>
      <4>1. Len(stack) # 0 /\ Len(<<>>) = 0
        BY <1>4
      <4> QED BY <4>1
    <3> QED BY <1>2, <3>1 DEF Places
  <2> QED BY <1>1, <2>1, LastOf DEF Outer
<1>6. CASE CompleteCancelled
  <2>1. /\ phase = "running" /\ phase' = "over" /\ x \in cancelled
        /\ cancelled' = cancelled \ {x}
        /\ active' = (IF active = x THEN None ELSE active) /\ spoiled' = spoiled
    BY <1>1, <1>6 DEF CompleteCancelled, Cleanup, history
  <2>2. x \in spoiled \/ endings[x] # <<>> \/ Ending(x)
    BY <2>1 DEF LInv, QuietInv
  <2>3. x # None
    BY <1>2, <2>1 DEF Places, None
  <2> QED BY <1>1, <1>3, <1>4, <2>1, <2>2, <2>3, Decides
<1>7. CASE CompleteStopped
  <2>1. /\ phase = "running" /\ phase' = "over" /\ x \notin cancelled /\ x \in requested
        /\ active' = active /\ cancelled' = cancelled /\ spoiled' = spoiled
    BY <1>1, <1>7 DEF CompleteStopped, lives, history
  <2>2. x \in spoiled \/ Stopping(x)
    BY <1>5, <2>1 DEF LInv, FutureInv, Requested
  <2> QED BY <1>1, <1>3, <1>4, <2>1, <2>2, Decides
<1>8. CASE StoreEndingFails
  <2>1. /\ phase' = "over" /\ spoiled' = spoiled \cup {x}
        /\ active' = active /\ cancelled' = cancelled
    BY <1>1, <1>8 DEF StoreEndingFails, lives
  <2> QED BY <1>1, <1>3, <1>4, <2>1, Decides
<1>9. CASE \E k \in Kinds : Complete(k)
  <2>1. /\ phase = "running" /\ phase' = "ending" /\ x \notin cancelled
        /\ active' = active /\ cancelled' = cancelled /\ spoiled' = spoiled
    BY <1>1, <1>9 DEF Complete, lives, history
  <2> QED BY <1>1, <1>3, <1>4, <2>1, Decides
<1> QED BY <1>6, <1>7, <1>8, <1>9

LEMMA StoreEndingKeeps ==
  ASSUME IInv, LInv, StoreEnding
  PROVE  LInv'
<1>1. PICK x : x = Outer
  OBVIOUS
<1>2. /\ phase = "ending" /\ phase' = "ended"
      /\ endings' = [endings EXCEPT ![x] = Append(endings[x], kind)]
      /\ UNCHANGED <<made, msg, frame, active, requested, cancelled, slot, overflow, stack,
                     kind, saved, given, raced, spoiled>>
  BY <1>1 DEF StoreEnding, store, lives, queue
<1>3. Places /\ Phases /\ 1..made \subseteq Turn /\ given \subseteq 1..made
  BY Made DEF LInv
<1>4. /\ Len(stack) = 1 /\ x = stack[1] /\ x \in given /\ x \in Turn /\ Contains(stack, x)
      /\ stack # <<>>
  <2>1. stack \in Seq(given) /\ stack # <<>> /\ Len(stack) = 1
    BY <1>2, <1>3 DEF Places, Phases
  <2> QED BY <1>1, <1>3, <2>1, LastOf DEF Outer
<1>5. /\ endings' \in [Turn -> Seq(Kinds)] /\ endings'[x] # <<>>
      /\ \A t \in Turn : t # x => endings'[t] = endings[t]
      /\ endings[x] = <<>> => Len(endings'[x]) <= 1
  <2>1. endings \in [Turn -> Seq(Kinds)] /\ endings[x] \in Seq(Kinds) /\ kind \in Kinds
    BY <1>3, <1>4 DEF Places
  <2>2. endings'[x] = Append(endings[x], kind)
    BY <1>2, <1>4, <2>1
  <2> QED BY <1>2, <2>1, <2>2, OneMore
<1>6. \A t : (Queued(t)' <=> Queued(t)) /\ (Contains(stack, t)' <=> Contains(stack, t))
  BY <1>2 DEF Queued, Contains
<1>7. /\ Untouched' /\ Ways' /\ CancelInv'
      /\ \A t : /\ Cancelling(t)' <=> Cancelling(t)
                /\ Stopping(t)' <=> Stopping(t)
                /\ Ending(t)' <=> Ending(t)
                /\ Handing(t)' <=> Handing(t)
  BY <1>2, <1>4, <1>5, <1>6, SessionFrame
<1>8. Places' /\ Phases'
  BY <1>2, <1>3, <1>4, <1>5 DEF Places, Phases
<1>9. OnePlace' /\ FutureInv'
  BY <1>2, <1>6, <1>7 DEF LInv, OnePlace, FutureInv, Future, Over, Below, Requested, Again
<1>10. EndInv'
  <2> SUFFICES ASSUME NEW t \in Turn, ~Excused(t)
               PROVE  /\ Len(endings'[t]) <= 1
                      /\ Contains(stack, t) /\ endings'[t] # <<>> =>
                           t \in cancelled \/ stack[Len(stack)] = t
                      /\ Queued(t) => endings'[t] = <<>> /\ t \notin cancelled
                      /\ Ending(t) => /\ endings'[t] = <<>>
                                      /\ Contains(stack, t) => t \in cancelled
                      /\ \A i \in 2..Len(stack) : stack[i] = t => t \notin cancelled
    BY <1>2, <1>6, <1>7 DEF EndInv, Excused
  <2>1. t \notin spoiled
    BY DEF Excused
  <2>2. CASE t = x
    <3>1. t \notin cancelled /\ endings[t] = <<>> /\ ~Queued(t) /\ ~Ending(t)
      BY <1>2, <1>4, <2>1, <2>2 DEF LInv, EndInv, OnePlace
    <3> QED BY <1>4, <1>5, <2>2, <3>1
  <2>3. CASE t # x
    BY <1>2, <1>5, <2>3 DEF LInv, EndInv
  <2> QED BY <2>2, <2>3
<1>11. QuietInv'
  <2>1. given \subseteq Turn /\ cancelled \subseteq Turn
    BY <1>3 DEF Places
  <2>2. \A t \in Turn : endings[t] # <<>> => endings'[t] # <<>>
    BY <1>5
  <2> QED BY <1>2, <1>4, <1>5, <1>6, <1>7, <2>1, <2>2 DEF LInv, QuietInv
<1> QED BY <1>7, <1>8, <1>9, <1>10, <1>11 DEF LInv

(* The ending is stored; a turn of the overflow moves up.                  *)
LEMMA FinalizeKeeps ==
  ASSUME IInv, LInv, Finalize
  PROVE  LInv'
<1>1. PICK x : x = Outer
  OBVIOUS
<1>2. /\ phase = "ended" /\ phase' = "over" /\ Len(stack) = 1 /\ kind' = "completed"
      /\ active' = (IF active = x THEN None ELSE active)
      /\ UNCHANGED <<made, msg, frame, requested, cancelled, stack, saved, given, endings, raced,
                     spoiled>>
  BY <1>1 DEF Finalize, store, history
<1>3. Places /\ Phases /\ 1..made \subseteq Turn /\ given \subseteq 1..made /\ None \notin Turn
      /\ None \in 0..made /\ None \notin given
  BY Made DEF LInv
<1>4. /\ stack # <<>> /\ stack[1] = x /\ x \in given /\ x \in Turn
      /\ \A t : Contains(stack, t) <=> t = x
      /\ endings[x] # <<>> /\ stack[Len(stack)] = x
  <2>1. stack \in Seq(given) /\ stack # <<>>
    BY <1>2, <1>3 DEF Places, Phases
  <2>2. stack[1] = x /\ x \in given
    BY <1>1, <2>1, LastOf DEF Outer
  <2>3. \A i \in 1..Len(stack) : i = 1
    BY <1>2
  <2>4. Contains(stack, x)
    BY <2>1, <2>2, LastOf
  <2>5. endings[x] # <<>>
    BY <1>2, <2>2 DEF LInv, QuietInv
  <2> QED BY <1>2, <1>3, <2>1, <2>2, <2>3, <2>4, <2>5 DEF Contains
<1>5. /\ slot' \in given \cup {None} /\ overflow' \in Seq(given)
      /\ \A t : t # None => (Queued(t)' <=> Queued(t))
      /\ \A i, j \in 1..Len(overflow') :
           overflow'[i] = overflow'[j] => i = j \/ overflow'[i] \in spoiled
      /\ Contains(overflow', slot') => slot' \in spoiled
  <2>1. /\ slot \in given \cup {None} /\ overflow \in Seq(given)
        /\ \A i, j \in 1..Len(overflow) :
             overflow[i] = overflow[j] => i = j \/ overflow[i] \in spoiled
        /\ Contains(overflow, slot) => slot \in spoiled
    BY <1>3 DEF LInv, OnePlace, Places
  <2>2. CASE slot = None /\ overflow # <<>> /\ slot' = Head(overflow) /\ overflow' = Tail(overflow)
    <3>1. /\ overflow' \in Seq(given) /\ slot' \in given /\ slot' = overflow[1]
          /\ Contains(overflow, slot')
          /\ \A i \in 1..Len(overflow') : /\ i + 1 \in 1..Len(overflow) /\ i + 1 # 1
                                         /\ overflow'[i] = overflow[i + 1]
          /\ 1 \in 1..Len(overflow)
          /\ \A t : Contains(overflow', t) => Contains(overflow, t)
          /\ \A t : Contains(overflow, t) => Contains(overflow', t) \/ t = slot'
      BY <2>1, <2>2, TailHas
    <3>2. \A t : t # None => (Queued(t)' <=> Queued(t))
      BY <2>2, <3>1 DEF Queued
    <3>3. \A i, j \in 1..Len(overflow') :
            overflow'[i] = overflow'[j] => i = j \/ overflow'[i] \in spoiled
      <4>1. \A i, j \in 1..Len(overflow') : i + 1 = j + 1 => i = j
        OBVIOUS
      <4> QED BY <2>1, <3>1, <4>1
    <3>4. Contains(overflow', slot') => slot' \in spoiled
      <4> SUFFICES ASSUME Contains(overflow', slot') PROVE slot' \in spoiled
        OBVIOUS
      <4>1. PICK i \in 1..Len(overflow') : overflow'[i] = slot'
        BY DEF Contains
      <4> QED BY <2>1, <3>1, <4>1
    <3> QED BY <3>1, <3>2, <3>3, <3>4
  <2>3. CASE UNCHANGED <<slot, overflow>>
    <3>1. \A t : Queued(t)' <=> Queued(t)
      BY <2>3 DEF Queued, Contains
    <3>2. Contains(overflow', slot') <=> Contains(overflow, slot)
      BY <2>3
    <3> QED BY <2>1, <2>3, <3>1, <3>2
  <2> QED BY <2>2, <2>3 DEF Finalize
<1>6. \A t : Contains(stack, t)' <=> t = x
  BY <1>2, <1>4 DEF Contains
<1>7. /\ Untouched' /\ Ways' /\ CancelInv'
      /\ \A t : /\ Cancelling(t)' <=> Cancelling(t)
                /\ Stopping(t)' <=> Stopping(t)
                /\ Ending(t)' <=> Ending(t)
                /\ Handing(t)' <=> Handing(t)
  BY <1>2, <1>5, SessionFrame
<1>8. Places' /\ Phases'
  <2>1. active' \in 0..made /\ kind' \in Kinds
    BY <1>2, <1>3 DEF Places, Kinds
  <2>2. stack' # <<>> /\ Len(stack') <= 1
    <3>1. \A n : n = 1 => n <= 1
      OBVIOUS
    <3>2. stack' # <<>> /\ Len(stack') = 1
      BY <1>2, <1>4
    <3> QED BY <3>1, <3>2
  <2>3. Phases'
    BY <1>2, <2>2 DEF Phases
  <2> QED BY <1>2, <1>3, <1>5, <2>1, <2>3 DEF Places
<1>9. OnePlace'
  <2>1. \A i, j \in 1..Len(stack') : stack'[i] = stack'[j] => i = j \/ stack'[i] \in spoiled
    BY <1>2 DEF LInv, OnePlace
  <2>2. \A t \in Turn : Contains(stack, t)' /\ Queued(t)' => t \in spoiled
    BY <1>3, <1>4, <1>5, <1>6 DEF LInv, OnePlace
  <2> QED BY <1>2, <1>5, <2>1, <2>2 DEF OnePlace
<1>10. FutureInv'
  <2>1. Future'
    BY <1>2, <1>4, <1>6, <1>7 DEF LInv, FutureInv, Future
  <2>2. Over' /\ Requested'
    <3>1. active' # x
      BY <1>2, <1>3, <1>4
    <3>2. \A t : t = active' => ~Contains(stack, t)'
      BY <1>6, <3>1
    <3> QED BY <1>2, <1>6, <3>1, <3>2 DEF Over, Requested
  <2>3. Below'
    BY <1>2 DEF LInv, FutureInv, Below
  <2>4. Again'
    <3>1. \A t \in cancelled : t # None
      BY <1>3 DEF Places
    <3> QED BY <1>2, <1>4, <1>7, <3>1 DEF LInv, FutureInv, Again
  <2> QED BY <2>1, <2>2, <2>3, <2>4 DEF FutureInv
<1>11. EndInv'
  <2> SUFFICES ASSUME NEW t \in Turn, ~Excused(t)
               PROVE  /\ Len(endings[t]) <= 1
                      /\ Queued(t) => endings[t] = <<>> /\ t \notin cancelled
                      /\ Ending(t) => endings[t] = <<>>
                      /\ \A i \in 2..Len(stack) : stack[i] = t => t \notin cancelled
    BY <1>2, <1>3, <1>5, <1>7 DEF EndInv, Excused
  <2> QED BY DEF LInv, EndInv
<1>12. QuietInv'
  <2>1. \A t \in given : t # None
    BY <1>3
  <2>2. \A t \in given : \/ endings[t] # <<>> \/ t \in spoiled
                         \/ Stopping(t)' \/ Ending(t)' \/ Queued(t)'
    BY <1>4, <1>5, <1>7, <2>1 DEF LInv, QuietInv
  <2> QED BY <1>2, <1>4, <1>7, <2>2 DEF LInv, QuietInv
<1> QED BY <1>7, <1>8, <1>9, <1>10, <1>11, <1>12 DEF LInv

(* The session goes on with the turn in the slot.                          *)
LEMMA GoesOnKeeps ==
  ASSUME IInv, LInv, SessionGoesOn
  PROVE  LInv'
<1>1. PICK q : q = slot
  OBVIOUS
<1>2. /\ stack # <<>> /\ phase = "over" /\ q # None /\ phase' = "running"
      /\ active' = q /\ requested' = (IF active = q THEN requested ELSE requested \ {q})
      /\ stack' = <<q>> /\ TakeSlot
      /\ UNCHANGED <<made, msg, frame, cancelled, kind, saved, given, endings, raced, spoiled>>
  BY <1>1 DEF SessionGoesOn, MakeActive, store
<1>3. Places /\ Phases /\ 1..made \subseteq Turn /\ given \subseteq 1..made /\ None \notin Turn
      /\ 1..made \subseteq 0..made
  BY Made DEF LInv
<1>4. /\ q \in given /\ q \in Turn /\ q \in 1..made
      /\ None \notin given /\ requested' \subseteq requested
  BY <1>1, <1>2, <1>3 DEF Places
<1>5. /\ slot' \in given \cup {None} /\ overflow' \in Seq(given)
      /\ \A t : t # None /\ Queued(t)' => Queued(t)
      /\ \A t : Queued(t) => Queued(t)' \/ t = q
      /\ Queued(q) /\ \A t : t = q /\ Queued(t)' => t \in spoiled
      /\ \A i, j \in 1..Len(overflow') :
           overflow'[i] = overflow'[j] => i = j \/ overflow'[i] \in spoiled
      /\ Contains(overflow', slot') => slot' \in spoiled
  BY <1>1, <1>2, <1>4, TakeSlotHas
<1>6. /\ Len(stack') = 1 /\ stack'[1] = q /\ stack' # <<>> /\ stack' \in Seq(given)
      /\ \A t : Contains(stack, t)' <=> t = q
  <2>1. Len(stack') = 1 /\ stack'[1] = q
    BY <1>2
  <2> QED BY <1>2, <1>4, <2>1 DEF Contains
<1>7. /\ Untouched' /\ Ways' /\ CancelInv'
      /\ \A t : /\ Cancelling(t)' <=> Cancelling(t)
                /\ Stopping(t)' <=> Stopping(t)
                /\ Ending(t)' <=> Ending(t)
                /\ Handing(t)' <=> Handing(t)
  BY <1>2, <1>4, <1>5, SessionFrame
<1>8. Contains(stack, q) => q \in spoiled
  BY <1>4, <1>5 DEF LInv, OnePlace
<1>9. active = q => q \in spoiled
  BY <1>2, <1>8 DEF LInv, FutureInv, Future
<1>10. Places' /\ Phases'
  <2>1. active' \in 0..made /\ requested' \subseteq 1..made
    BY <1>2, <1>3, <1>4 DEF Places
  <2>2. Phases'
    BY <1>2, <1>6 DEF Phases
  <2> QED BY <1>2, <1>3, <1>5, <1>6, <2>1, <2>2 DEF Places
<1>11. OnePlace'
  <2>1. \A i, j \in 1..Len(stack') : i = j
    BY <1>6
  <2> QED BY <1>2, <1>5, <1>6, <2>1 DEF OnePlace
<1>12. FutureInv'
  <2>1. Future' /\ Over'
    BY <1>2, <1>6 DEF Future, Over
  <2>2. Below'
    BY <1>6 DEF Below
  <2>3. Requested'
    BY <1>2, <1>6, <1>9 DEF Requested
  <2>4. Again'
    BY <1>2, <1>6 DEF Again
  <2> QED BY <2>1, <2>2, <2>3, <2>4 DEF FutureInv
<1>13. EndInv'
  <2>0. \A i \in 2..Len(stack') : FALSE
    BY <1>6
  <2> SUFFICES ASSUME NEW t \in Turn, ~Excused(t)
               PROVE  /\ Len(endings[t]) <= 1
                      /\ t = q /\ endings[t] # <<>> => t \in cancelled
                      /\ Queued(t)' => endings[t] = <<>> /\ t \notin cancelled
                      /\ Ending(t) => endings[t] = <<>> /\ (t = q => t \in cancelled)
    BY <1>2, <1>6, <1>7, <2>0 DEF EndInv, Excused
  <2>1. t \notin spoiled /\ (Queued(t)' => Queued(t)) /\ (t = q => Queued(t))
    BY <1>3, <1>5 DEF Excused
  <2>2. t = q => ~Ending(t)
    BY <2>1 DEF LInv, CancelInv, Cancelling
  <2> QED BY <2>1, <2>2 DEF LInv, EndInv
<1>14. QuietInv'
  BY <1>2, <1>5, <1>6, <1>7 DEF LInv, QuietInv
<1> QED BY <1>7, <1>10, <1>11, <1>12, <1>13, <1>14 DEF LInv

LEMMA SessionEndsKeeps ==
  ASSUME IInv, LInv, SessionEnds
  PROVE  LInv'
<1>1. /\ stack # <<>> /\ phase = "over" /\ slot = None /\ stack' = <<>>
      /\ spoiled' = spoiled \cup ToSet(overflow)
      /\ UNCHANGED <<made, msg, frame, active, requested, cancelled, slot, overflow, phase, kind,
                     saved, given, endings, raced>>
  BY DEF SessionEnds, store, lives, queue
<1>2. Places /\ Phases /\ 1..made \subseteq Turn /\ given \subseteq 1..made /\ None \notin Turn
  BY Made DEF LInv
<1>3. /\ Len(stack') = 0 /\ stack' \in Seq(given)
      /\ \A t : ~Contains(stack, t)'
  <2>1. Len(stack') = 0 /\ stack' \in Seq(given)
    BY <1>1
  <2> QED BY <2>1 DEF Contains
<1>4. \A t : Queued(t)' <=> Queued(t)
  BY <1>1 DEF Queued, Contains
<1>5. \A t \in Turn : Queued(t) => t \in spoiled'
  <2>1. \A t : Contains(overflow, t) => t \in ToSet(overflow)
    BY DEF Contains, ToSet
  <2> QED BY <1>1, <1>2, <2>1 DEF Queued
<1>6. /\ Untouched' /\ Ways' /\ CancelInv'
      /\ \A t : /\ Cancelling(t)' <=> Cancelling(t)
                /\ Stopping(t)' <=> Stopping(t)
                /\ Ending(t)' <=> Ending(t)
                /\ Handing(t)' <=> Handing(t)
  BY <1>1, <1>4, SessionFrame
<1>7. Places' /\ Phases'
  <2>1. Phases'
    BY <1>1, <1>3 DEF Phases
  <2> QED BY <1>1, <1>2, <1>3, <2>1 DEF Places
<1>8. OnePlace'
  <2>1. \A i, j \in 1..Len(overflow') :
          overflow'[i] = overflow'[j] => i = j \/ overflow'[i] \in spoiled'
    BY <1>1 DEF LInv, OnePlace
  <2>2. Contains(overflow', slot') => slot' \in spoiled'
    BY <1>1 DEF LInv, OnePlace
  <2>3. \A i, j \in 1..Len(stack') : i = j
    BY <1>3
  <2> QED BY <1>3, <2>1, <2>2, <2>3 DEF OnePlace
<1>9. FutureInv'
  <2>1. Future'
    BY <1>1, <1>6 DEF LInv, FutureInv, Future, Over
  <2>2. \A i \in 1..Len(stack') : FALSE
    BY <1>3
  <2>3. Over' /\ Requested' /\ Below'
    BY <1>3, <2>2 DEF Over, Requested, Below
  <2>4. Again'
    BY <1>1, <1>6 DEF LInv, FutureInv, Again
  <2> QED BY <2>1, <2>3, <2>4 DEF FutureInv
<1>10. EndInv'
  <2>0. \A i \in 2..Len(stack') : FALSE
    BY <1>3
  <2> SUFFICES ASSUME NEW t \in Turn, ~Excused(t)
               PROVE  /\ Len(endings[t]) <= 1
                      /\ Queued(t) => endings[t] = <<>> /\ t \notin cancelled
                      /\ Ending(t) => endings[t] = <<>>
    BY <1>1, <1>3, <1>4, <1>6, <2>0 DEF EndInv, Excused
  <2> QED BY DEF LInv, EndInv
<1>11. QuietInv'
  <2>1. \A t \in given : t \in Turn
    BY <1>2
  <2> QED BY <1>1, <1>4, <1>5, <1>6, <2>1 DEF LInv, QuietInv
<1> QED BY <1>6, <1>7, <1>8, <1>9, <1>10, <1>11 DEF LInv

-----------------------------------------------------------------------------
LEMMA BeginsLive ==
  ASSUME Init
  PROVE  LInv
<1>1. /\ made = 0 /\ frame = Idle /\ active = None /\ requested = {} /\ cancelled = {}
      /\ slot = None /\ overflow = <<>> /\ stack = <<>> /\ phase = "over" /\ kind = "completed"
      /\ saved = [t \in Turn |-> None] /\ given = {} /\ endings = [t \in Turn |-> <<>>]
  BY DEF Init
<1>2. ~Begun /\ \A t : ~Cancelling(t) /\ ~Handing(t)
  BY <1>1, Idles
<1>3. frame.before = None /\ frame.t = None /\ frame.queued \in BOOLEAN
  BY <1>1 DEF Idle
<1>4. Len(stack) = 0 /\ Len(overflow) = 0 /\ None \in 0..made
  BY <1>1 DEF None
<1>5. (\A t : ~Contains(stack, t) /\ ~Contains(overflow, t)) /\ \A t \in Turn : ~Queued(t)
  BY <1>1, <1>4 DEF Contains, Queued, Turn, None
<1>6. Places /\ Phases
  <2>1. /\ saved \in [Turn -> 0..made] /\ kind \in Kinds /\ endings \in [Turn -> Seq(Kinds)]
        /\ stack \in Seq(given) /\ overflow \in Seq(given)
    BY <1>1, <1>4 DEF Kinds
  <2>2. Phases
    BY <1>1, <1>4 DEF Phases
  <2> QED BY <1>1, <1>3, <1>4, <2>1, <2>2 DEF Places
<1>7. Untouched /\ Ways
  BY <1>1, <1>2 DEF Untouched, Ways, Begun
<1>8. OnePlace /\ CancelInv /\ FutureInv
  BY <1>1, <1>2, <1>4, <1>5
  DEF OnePlace, CancelInv, FutureInv, Future, Below, Over, Requested, Again
<1>9. \A t : ~Stopping(t) /\ ~Ending(t)
  BY <1>2 DEF Cancelling
<1>10. EndInv
  <2>1. Len(<<>>) <= 1
    OBVIOUS
  <2> QED BY <1>1, <1>4, <1>5, <1>9, <2>1 DEF EndInv
<1>11. QuietInv
  BY <1>1, <1>5 DEF QuietInv
<1> QED BY <1>6, <1>7, <1>8, <1>10, <1>11 DEF LInv

LEMMA StandsStill ==
  ASSUME LInv, UNCHANGED vars
  PROVE  LInv'
<1>1. UNCHANGED <<made, msg, accepted, frame, active, requested, cancelled, slot, overflow, stack,
                  phase, kind, saved, given, endings, raced, spoiled>>
  BY DEF vars, store, lives, queue, session, history
<1>2. /\ \A t : (Queued(t)' <=> Queued(t)) /\ (Contains(stack, t)' <=> Contains(stack, t))
      /\ \A t : /\ Cancelling(t)' <=> Cancelling(t)
                /\ Stopping(t)' <=> Stopping(t)
                /\ Ending(t)' <=> Ending(t)
                /\ Handing(t)' <=> Handing(t)
  BY <1>1 DEF Queued, Contains, Cancelling, Stopping, Ending, Handing
<1>3. (Begun' <=> Begun) /\ (Accepting' <=> Accepting) /\ (Giving' <=> Giving)
  BY <1>1 DEF Begun, Accepting, Accepted, Giving, OfTurn, Chat
<1>4. Places' /\ Phases' /\ Untouched' /\ Ways'
  BY <1>1, <1>3 DEF LInv, Places, Phases, Untouched, Ways
<1>5. OnePlace' /\ CancelInv'
  BY <1>1, <1>2 DEF LInv, OnePlace, CancelInv
<1>6. FutureInv'
  BY <1>1, <1>2 DEF LInv, FutureInv, Future, Below, Over, Requested, Again
<1>7. EndInv' /\ QuietInv'
  BY <1>1, <1>2 DEF LInv, EndInv, QuietInv, Excused
<1> QED BY <1>4, <1>5, <1>6, <1>7 DEF LInv

LEMMA StepLives ==
  ASSUME IInv, LInv, [Next]_vars
  PROVE  LInv'
<1>0. IInv'
  BY StepInv
<1>1. CASE \E m \in Msgs : Receive(m)
  BY <1>1, BeginKeeps
<1>2. CASE AskCancel
  BY <1>2, AskKeeps
<1>3. CASE Handler
  <2>1. CASE Create \/ Record
    BY <1>0, <2>1, CreateKeeps
  <2>2. CASE \/ CreateFails \/ RecordFails \/ QueueFails \/ SteerFails \/ Steer
             \/ Acknowledge \/ AcknowledgeFails
    BY <1>0, <2>2, StepsAside
  <2>3. CASE Queue \/ SteerFallsBack
    BY <1>0, <2>3, EnqueueKeeps
  <2>4. CASE HandOver
    BY <1>0, <2>4, HandOverKeeps
  <2>5. CASE HandOverFails
    BY <1>0, <2>5, HandOverFailsKeeps
  <2>6. CASE Stopped
    BY <2>6, CancelEnds, StoppedKeeps
  <2>7. CASE Cancel
    BY <2>7, CancelKeeps
  <2>8. CASE StopFails \/ CancelDone \/ CancelFails
    BY <2>8, CancelEnds
  <2> QED BY <1>3, <2>1, <2>2, <2>3, <2>4, <2>5, <2>6, <2>7, <2>8 DEF Handler
<1>4. CASE Session
  <2>1. CASE RunnerDrains
    BY <2>1, RunnerDrainsKeeps
  <2>2. CASE DrainedReturns \/ DrainedIsKilled
    BY <2>2, ReturnsKeeps
  <2>3. CASE \E k \in {"completed", "failed"} : DrainedEnds(k)
    BY <2>3, DrainedEndsKeeps
  <2>4. CASE \/ CompleteCancelled \/ CompleteStopped \/ StoreEndingFails
             \/ \E k \in Kinds : Complete(k)
    BY <2>4, CompletesKeeps
  <2>5. CASE StoreEnding
    BY <2>5, StoreEndingKeeps
  <2>6. CASE Finalize
    BY <2>6, FinalizeKeeps
  <2>7. CASE SessionGoesOn
    BY <2>7, GoesOnKeeps
  <2>8. CASE SessionEnds
    BY <2>8, SessionEndsKeeps
  <2> QED BY <1>4, <2>1, <2>2, <2>3, <2>4, <2>5, <2>6, <2>7, <2>8 DEF Session
<1>5. CASE Crash
  BY <1>0, <1>5, CrashKeeps
<1>6. CASE UNCHANGED vars
  BY <1>6, StandsStill
<1> QED BY <1>1, <1>2, <1>3, <1>4, <1>5, <1>6 DEF Next

(* The lives of the turns take their course in every state.                *)
THEOREM LivesInvariance == Spec => [](IInv /\ LInv)
<1>1. Init => IInv /\ LInv
  BY InitInv, BeginsLive
<1>2. IInv /\ LInv /\ [Next]_vars => IInv' /\ LInv'
  BY StepInv, StepLives
<1> QED BY <1>1, <1>2, PTL DEF Spec

(* The turn that keeps the others of its chat waiting is one that the      *)
(* handler in progress or the session is going to end, whatever was        *)
(* cancelled, drained or put back meanwhile, or one that a failure left.   *)
THEOREM ActiveTurnsHaveFuture == Spec => []ActiveHasFuture
<1>1. LInv => ActiveHasFuture
  BY DEF LInv, FutureInv, Future, ActiveHasFuture, Cancelling, Stopping, Ending, Handing
<1> QED BY <1>1, LivesInvariance, PTL

(* The chat log gets one terminal event for a turn, though a session, a    *)
(* runner inside it and turn.cancel may all mean to write it.              *)
THEOREM TurnsEndOnce == Spec => []EndsOnce
<1>1. LInv => EndsOnce
  BY DEF LInv, EndInv, EndsOnce, Excused
<1> QED BY <1>1, LivesInvariance, PTL

(* No turn that was given to Hermes is forgotten: when nothing is under    *)
(* way, its terminal event is in the log.                                  *)
THEOREM QuietTurnsEnded == Spec => []QuietMeansEnded
<1>1. IInv /\ LInv => QuietMeansEnded
  <2> SUFFICES ASSUME IInv, LInv, frame = Idle, stack = <<>>, NEW t \in given
               PROVE  endings[t] # <<>> \/ t \in spoiled
    BY DEF QuietMeansEnded
  <2>1. ~Stopping(t) /\ ~Ending(t)
    BY Idles DEF Cancelling
  <2>2. t \in Turn
    BY Made
  <2>3. ~Contains(stack, t)
    BY DEF Contains
  <2> QED BY <2>1, <2>2, <2>3 DEF LInv, QuietInv
<1> QED BY <1>1, LivesInvariance, PTL

-----------------------------------------------------------------------------
(* Types.  IInv and LInv give those of the turns and their places; the     *)
(* rest is the message a handler is about and the turns the history names. *)

RestTyped ==
  /\ frame.m \in Msgs
  /\ byId \subseteq Turn /\ raced \subseteq Turn /\ spoiled \subseteq Turn
  /\ unrecorded \subseteq Msgs
  /\ runner \in BOOLEAN /\ faults \in 0..MaxFaults

(* What is left of a handler's path is a list of steps.                    *)
LEMMA PathsAreSteps ==
  ASSUME FrameInv
  PROVE  frame.todo \in Seq(Steps)
<1> DEFINE s == frame.todo
<1>0. \A a, b, c, d \in Steps :
        /\ <<>> \in Seq(Steps) /\ <<a>> \in Seq(Steps) /\ <<a, b>> \in Seq(Steps)
        /\ <<a, b, c>> \in Seq(Steps) /\ <<a, b, c, d>> \in Seq(Steps)
  OBVIOUS
<1>1. CASE RestingPath(s)
  <2>1. /\ <<>> \in Seq(Steps) /\ <<"stop", "cancel", "clean">> \in Seq(Steps)
        /\ <<"cancel", "clean">> \in Seq(Steps) /\ <<"clean">> \in Seq(Steps)
    BY <1>0 DEF Steps
  <2> QED BY <1>1, <2>1, Zenon DEF RestingPath
<1>2. CASE AcceptingPath(s)
  <2>1. /\ <<"create", "record", "enqueue", "ack">> \in Seq(Steps)
        /\ <<"record", "enqueue", "ack">> \in Seq(Steps)
        /\ <<"create", "record", "ack", "handover">> \in Seq(Steps)
        /\ <<"record", "ack", "handover">> \in Seq(Steps)
    BY <1>0 DEF Steps
  <2> QED BY <1>2, <2>1, Zenon DEF AcceptingPath
<1>3. CASE AcceptedPath(s)
  <2>1. /\ <<"enqueue", "ack">> \in Seq(Steps) /\ <<"ack", "handover">> \in Seq(Steps)
        /\ <<"handover">> \in Seq(Steps)
    BY <1>0 DEF Steps
  <2> QED BY <1>3, <2>1, Zenon DEF AcceptedPath
<1>4. CASE GivingPath(s)
  <2>1. /\ <<"create", "steer", "record", "ack">> \in Seq(Steps)
        /\ <<"steer", "record", "ack">> \in Seq(Steps)
        /\ <<"create", "enqueue", "record", "ack">> \in Seq(Steps)
        /\ <<"enqueue", "record", "ack">> \in Seq(Steps)
        /\ <<"create", "handover", "record", "ack">> \in Seq(Steps)
        /\ <<"handover", "record", "ack">> \in Seq(Steps)
    BY <1>0 DEF Steps
  <2> QED BY <1>4, <2>1, Zenon DEF GivingPath
<1>5. CASE RecordingPath(s) \/ AnsweringPath(s)
  <2>1. <<"record", "ack">> \in Seq(Steps) /\ <<"ack">> \in Seq(Steps)
    BY <1>0 DEF Steps
  <2> QED BY <1>5, <2>1, Zenon DEF RecordingPath, AnsweringPath
<1> QED
  BY <1>1, <1>2, <1>3, <1>4, <1>5
  DEF FrameInv, Resting, Accepting, Accepted, Giving, Recording, Answering

(* A handler in progress is about a turn, unless all it does is answer.    *)
LEMMA AboutTurns ==
  ASSUME IInv, LInv, frame.todo # <<>>, ~(Busy("ack") /\ Len(frame.todo) = 1)
  PROVE  frame.t \in Turn
<1>1. CASE Resting
  <2>1. Cancelling(frame.t)
    BY <1>1, CancelPaths DEF Resting, Cancelling, Stopping, Ending
  <2> QED BY <2>1, Made DEF LInv, CancelInv
<1>2. CASE Answering
  BY <1>2, EndTails, PathHeads DEF Answering, Busy
<1>3. CASE Accepting \/ Accepted \/ Giving \/ Recording
  BY <1>3 DEF Accepting, Accepted, Giving, Recording, OfTurn
<1> QED BY <1>1, <1>2, <1>3 DEF IInv, FrameInv

(* The turns a handler or the session takes out of their course.           *)
LEMMA PlacesAreTurns ==
  ASSUME IInv, LInv
  PROVE  /\ {slot, frame.before} \ {None} \subseteq Turn
         /\ ToSet(overflow) \subseteq Turn
         /\ stack # <<>> => Outer \in Turn /\ Inner \in Turn
         /\ 1..made \subseteq Turn
<1>1. 1..made \subseteq Turn /\ given \subseteq Turn
  BY Made
<1>2. /\ slot \in given \cup {None} /\ frame.before \in given \cup {None}
      /\ overflow \in Seq(given) /\ stack \in Seq(given)
  BY DEF LInv, Places
<1>3. ToSet(overflow) \subseteq given
  BY <1>2, ElementOfSeq DEF ToSet
<1>4. stack # <<>> => Outer \in given /\ Inner \in given
  BY <1>2, LastOf DEF Outer, Inner, Last
<1> QED BY <1>1, <1>2, <1>3, <1>4

LEMMA HistoryTyped ==
  ASSUME IInv, LInv, RestTyped, Msgs # {}, Next
  PROVE  /\ raced' \subseteq Turn /\ spoiled' \subseteq Turn
         /\ unrecorded' \subseteq Msgs
<1> USE DEF RestTyped
<1>1. CASE \/ \E m \in Msgs : Receive(m)
           \/ AskCancel \/ Create \/ CreateFails \/ Record \/ Steer \/ SteerFails
           \/ Acknowledge \/ HandOver \/ Cancel \/ CancelDone
  <2>1. UNCHANGED <<raced, spoiled, unrecorded>>
    BY <1>1
    DEF Receive, AskCancel, Create, CreateFails, Record, Steer, SteerFails, Acknowledge,
        HandOver, Cancel, CancelDone, history
  <2> QED BY <2>1
<1>9. CASE \/ RunnerDrains \/ DrainedReturns \/ CompleteCancelled \/ CompleteStopped
           \/ (\E k \in {"completed", "failed"} : DrainedEnds(k))
           \/ (\E k \in Kinds : Complete(k))
           \/ StoreEnding \/ Finalize \/ SessionGoesOn
  <2>1. UNCHANGED <<raced, spoiled, unrecorded>>
    BY <1>9
    DEF RunnerDrains, DrainedReturns, Returns, CompleteCancelled, CompleteStopped, DrainedEnds,
        Complete, StoreEnding, Finalize, SessionGoesOn, history
  <2> QED BY <2>1
<1>2. CASE RecordFails
  BY <1>2 DEF RecordFails
<1>3. CASE Queue \/ QueueFails \/ HandOverFails \/ CancelFails \/ Stopped \/ StopFails
  <2>1. frame.t \in Turn
    <3>1. frame.todo # <<>> /\ ~Busy("ack")
      BY <1>3 DEF Queue, QueueFails, HandOverFails, CancelFails, Stopped, StopFails, Busy
    <3> QED BY <3>1, AboutTurns
  <2>2. CASE Queue \/ QueueFails
    BY <2>1, <2>2 DEF Queue, QueueFails
  <2>3. CASE HandOverFails \/ CancelFails
    BY <2>1, <2>3 DEF HandOverFails, CancelFails, Target
  <2>4. CASE Stopped
    BY <2>1, <2>4 DEF Stopped, Target
  <2>5. CASE StopFails
    BY <2>1, <2>5 DEF StopFails, Target
  <2> QED BY <1>3, <2>2, <2>3, <2>4, <2>5
<1>4. CASE AcknowledgeFails
  <2>1. Len(frame.todo) > 1 => frame.t \in Turn
    <3>1. frame.todo # <<>>
      BY <1>4 DEF AcknowledgeFails, Busy
    <3>2. Len(frame.todo) \in Nat
      BY PathsAreSteps, LenProperties DEF IInv
    <3>3. \A n \in Nat : n > 1 => n # 1
      OBVIOUS
    <3> QED BY <3>1, <3>2, <3>3, AboutTurns, Zenon
  <2> QED BY <1>4, <2>1 DEF AcknowledgeFails
<1>5. CASE SteerFallsBack
  <2>1. frame.t \in Turn
    <3>1. frame.todo # <<>> /\ ~Busy("ack")
      BY <1>5 DEF SteerFallsBack, Busy
    <3> QED BY <3>1, AboutTurns
  <2>2. {frame.before, slot} \ {None} \subseteq Turn
    BY PlacesAreTurns
  <2> QED BY <1>5, <2>1, <2>2 DEF SteerFallsBack
<1>6. CASE DrainedIsKilled \/ StoreEndingFails
  <2>1. stack # <<>>
    BY <1>6, EmptySeq DEF DrainedIsKilled, StoreEndingFails, Nested, LInv, Phases
  <2> QED
    BY <1>6, <2>1, PlacesAreTurns DEF DrainedIsKilled, StoreEndingFails, Returns
<1>7. CASE SessionEnds
  BY <1>7, PlacesAreTurns DEF SessionEnds
<1>8. CASE Crash
  BY <1>8, PlacesAreTurns DEF Crash
<1> QED
  BY <1>1, <1>2, <1>3, <1>4, <1>5, <1>6, <1>7, <1>8, <1>9 DEF Next, Handler, Session

LEMMA FrameTyped ==
  ASSUME IInv, RestTyped, Msgs # {}, Next
  PROVE  frame'.m \in Msgs
<1>1. Idle.m \in Msgs
  BY DEF Idle
<1>2. CASE \E m \in Msgs : Receive(m)
  BY <1>2 DEF Receive
<1>3. CASE AskCancel
  BY <1>1, <1>3 DEF AskCancel, Idle
<1>4. Leave \/ Proceed \/ UNCHANGED frame => frame'.m \in Msgs
  <2>1. Proceed => frame'.m = frame.m
    BY DEF Proceed, IInv, Shape, Fields
  <2> QED BY <1>1, <2>1 DEF Leave, RestTyped
<1>5. CASE Handler
  <2>1. CASE Create
    <3>1. frame'.m = frame.m
      BY <2>1, FieldsProceed DEF Create, IInv, Shape
    <3> QED BY <3>1 DEF RestTyped
  <2>2. CASE ~Create
    <3>1. Leave \/ Proceed
      BY <1>5, <2>2
      DEF Handler, CreateFails, Record, RecordFails, Queue, QueueFails, Steer, SteerFallsBack,
          SteerFails, Acknowledge, AcknowledgeFails, HandOver, HandOverFails, Stopped,
          StopFails, Cancel, CancelDone, CancelFails
    <3> QED BY <1>4, <3>1
  <2> QED BY <2>1, <2>2
<1>6. CASE Session \/ Crash
  <2>1. Leave \/ UNCHANGED frame
    BY <1>6
    DEF Session, RunnerDrains, DrainedEnds, DrainedReturns, DrainedIsKilled, Returns,
        CompleteCancelled, CompleteStopped, Complete, StoreEnding, StoreEndingFails, Finalize,
        SessionGoesOn, SessionEnds, Crash
  <2> QED BY <1>4, <2>1
<1> QED BY <1>2, <1>3, <1>5, <1>6 DEF Next

LEMMA RestKeepsType ==
  ASSUME IInv, LInv, RestTyped, Msgs # {}, Next
  PROVE  byId' \subseteq Turn /\ runner' \in BOOLEAN /\ faults' \in 0..MaxFaults
<1>1. (faults' = faults /\ runner' = runner) \/ Fault
  BY DEF Next, Handler, Session, Receive, AskCancel, Create, CreateFails, Record, RecordFails,
         Queue, QueueFails, Steer, SteerFallsBack, SteerFails, Acknowledge, AcknowledgeFails,
         HandOver, HandOverFails, Stopped, StopFails, Cancel, CancelDone, CancelFails,
         RunnerDrains, DrainedEnds, DrainedReturns, DrainedIsKilled, CompleteCancelled,
         CompleteStopped, Complete, StoreEnding, StoreEndingFails, Finalize, SessionGoesOn,
         SessionEnds, Crash
<1>2. runner' \in BOOLEAN /\ faults' \in 0..MaxFaults
  BY <1>1, TurnsAssumption DEF Fault, RestTyped
<1>3. CASE Queue \/ SteerFallsBack
  <2>1. frame.todo # <<>> /\ ~Busy("ack")
    BY <1>3 DEF Queue, SteerFallsBack, Busy
  <2> QED BY <1>2, <1>3, <2>1, AboutTurns DEF Queue, SteerFallsBack, Enqueue, RestTyped
<1>4. CASE ~(Queue \/ SteerFallsBack)
  <2>1. byId' \subseteq byId
    BY <1>4
    DEF Next, Handler, Session, Receive, AskCancel, Create, CreateFails, Record, RecordFails,
        QueueFails, Steer, SteerFails, Acknowledge, AcknowledgeFails,
        HandOver, HandOverFails, Stopped, StopFails, Cancel, CancelDone, CancelFails,
        RunnerDrains, DrainedEnds, DrainedReturns, DrainedIsKilled, CompleteCancelled,
        CompleteStopped, Complete, StoreEnding, StoreEndingFails, Finalize, SessionGoesOn,
        SessionEnds, Crash, Returns, queue
  <2> QED BY <1>2, <2>1 DEF RestTyped
<1> QED BY <1>3, <1>4

(* Every variable of the chat keeps its type; in particular every turn     *)
(* that the handler, the session, the queue or the history names is one    *)
(* that a message made.                                                    *)
THEOREM TurnsTypeCorrect ==
  ASSUME Msgs # {}
  PROVE  Spec => []TypeOK
<1>1. Init => RestTyped
  BY TurnsAssumption DEF Init, RestTyped, Idle
<1>2. IInv /\ LInv /\ RestTyped /\ [Next]_vars => RestTyped'
  <2>1. IInv /\ LInv /\ RestTyped /\ Next => RestTyped'
    BY HistoryTyped, FrameTyped, RestKeepsType DEF RestTyped
  <2>2. RestTyped /\ UNCHANGED vars => RestTyped'
    BY DEF RestTyped, vars, store, lives, queue, session, history
  <2> QED BY <2>1, <2>2
<1>3. IInv /\ LInv /\ RestTyped => TypeOK
  <2> SUFFICES ASSUME IInv, LInv, RestTyped PROVE TypeOK
    OBVIOUS
  <2>1. /\ made \in Nat /\ 1..made \subseteq Turn /\ given \subseteq Turn
        /\ 0..made \subseteq Turn \cup {None}
    BY Made DEF None
  <2>2. /\ made \in 0..MaxTurns /\ msg \in [Turn -> Msgs]
        /\ accepted \in [Msgs -> Turn \cup {None}]
    BY DEF IInv, Shape, Idle
  <2>3. frame \in [todo : Seq(Steps), m : Msgs, t : Turn \cup {None},
                   queued : BOOLEAN, before : Turn \cup {None}]
    BY <2>1, PathsAreSteps DEF IInv, Shape, Fields, LInv, Places, RestTyped
  <2>4. /\ active \in Turn \cup {None} /\ requested \subseteq Turn /\ cancelled \subseteq Turn
        /\ slot \in Turn \cup {None} /\ saved \in [Turn -> Turn \cup {None}]
        /\ endings \in [Turn -> Seq(Kinds)] /\ kind \in Kinds
        /\ overflow \in Seq(given) /\ stack \in Seq(given)
    BY <2>1 DEF LInv, Places
  <2>5. overflow \in Seq(Turn) /\ stack \in Seq(Turn)
    BY <2>1, <2>4
  <2> QED BY <2>1, <2>2, <2>3, <2>4, <2>5 DEF TypeOK, RestTyped, LInv, Phases
<1> QED BY <1>1, <1>2, <1>3, LivesInvariance, PTL DEF Spec
=============================================================================
