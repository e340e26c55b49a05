--------------------------- MODULE ActionCardsProofs ---------------------------
(***************************************************************************)
(* Proofs about ActionCards and the turn it extends, for any messages,     *)
(* activities and cards, any calls of Hermes and any number of failures: a *)
(* message that shows the cancellation of its turn goes on showing it; a   *)
(* card has one verdict, which is what Hermes was told; the turn of a      *)
(* question that is cancelled ends; no question waits without a card; the  *)
(* messages and activities of a turn that is over show how it ended; every *)
(* variable keeps its type.                                                *)
(***************************************************************************)
EXTENDS ActionCards, TLAPS

CallFields(c) == DOMAIN c = {"op", "m", "to", "a", "items", "seen", "anew", "late"}
CancFields(c) == DOMAIN c = {"step", "m", "left", "base", "held", "acts", "broke"}

Calling(w) == call[w] # Quiet

Shape ==
  /\ shown = [m \in Message |-> shown[m]]
  /\ endings \in Seq(Kinds)
  /\ call = [w \in Caller |-> call[w]]
  /\ \A w \in Caller : CallFields(call[w]) /\ call[w].to # "cancelled"
  /\ CancFields(canc)

(* While the turn runs, the tables know every message that is in the log   *)
(* or that somebody is about to write there; a send registers its own.     *)
Registered ==
  session = "running" =>
    /\ owned \subseteq turnOf
    /\ canc.step = "marks" => canc.left \subseteq turnOf
    /\ canc.step = "place" => canc.m \in turnOf
    /\ \A m \in Message : shown[m] # Absent => m \in turnOf
    /\ \A w \in Caller : Calling(w) /\ call[w].op # "send" /\ call[w].m # Nobody =>
         call[w].m \in turnOf

(* The marks follow the ending.                                            *)
Stored ==
  /\ canc.step \in {"place", "marks", "tools"} => endings # <<>>
  /\ session \in {"tools", "messages"} => endings # <<>>
  /\ \A m \in Message : shown[m] = "cancelled" => endings # <<>>

(* Since an ending began, no call is in progress that is not late: calls   *)
(* that began before were overtaken, and calls are refused or late since.  *)
Begun ==
  \/ mark \/ endings # <<>>
  \/ canc.step \in {"append", "place", "marks", "tools"}
  \/ session \in {"ending", "tools", "messages"}

AllLate ==
  /\ canc.step = "append" /\ session = "running" => mark
  /\ Begun => \A w \in Caller : Calling(w) => call[w].late

IInv == Shape /\ Registered /\ Stored /\ AllLate

-----------------------------------------------------------------------------
LEMMA NotNothing ==
  ASSUME endings \in Seq(Kinds), NEW k \in Kinds, endings' = Append(endings, k)
  PROVE  endings' # <<>> /\ endings' \in Seq(Kinds)
  OBVIOUS

LEMMA QuietFields == CallFields(Quiet) /\ Quiet.to # "cancelled" /\ Quiet.m = Nobody
  BY DEF CallFields, Quiet, Absent

LEMMA FreeFields == CancFields(Free) /\ Free.step = "free"
  BY DEF CancFields, Free

LEMMA InitInv == ASSUME Init PROVE IInv
<1>1. /\ shown = [m \in Message |-> Absent] /\ endings = <<>> /\ owned = {} /\ turnOf = {}
      /\ session = "running" /\ mark = FALSE /\ canc = Free
      /\ call = [w \in Caller |-> Quiet]
  BY DEF Init, TurnInit
<1>2. Shape
  BY <1>1, QuietFields, FreeFields DEF Shape
<1>3. Registered
  BY <1>1, FreeFields DEF Registered, Calling
<1>4. Stored
  BY <1>1, FreeFields DEF Stored, Absent
<1>5. AllLate
  BY <1>1, FreeFields DEF AllLate, Calling
<1> QED BY <1>2, <1>3, <1>4, <1>5 DEF IInv

(* A call that begins: it is late, or nothing has begun to end.            *)
LEMMA BeginInv ==
  ASSUME IInv, NEW w \in Caller, NEW c, CallFields(c), c.to # "cancelled",
         c # Quiet => c.late = Overdue,
         call' = [call EXCEPT ![w] = c],
         UNCHANGED <<shown, endings, session, mark, canc>>,
         owned \subseteq turnOf => owned' \subseteq turnOf',
         turnOf \subseteq turnOf',
         ~mark \/ session # "running",
         c.op # "send" /\ c.m # Nobody /\ session = "running" => c.m \in turnOf'
  PROVE  IInv'
<1>1. call' = [v \in Caller |-> IF v = w THEN c ELSE call[v]]
  BY DEF IInv, Shape
<1>2. Shape'
  BY <1>1 DEF IInv, Shape
<1>3. Registered'
  BY <1>1 DEF IInv, Registered, Calling
<1>4. Stored'
  BY DEF IInv, Stored
<1>5. AllLate'
  <2>1. ASSUME Begun, c # Quiet PROVE c.late
    BY <2>1 DEF Begun, Overdue, IInv, Stored, AllLate
  <2>2. Begun' = Begun
    BY DEF Begun
  <2> QED BY <1>1, <2>1, <2>2 DEF IInv, AllLate, Calling
<1> QED BY <1>2, <1>3, <1>4, <1>5 DEF IInv

(* A call in progress is over, or goes on and stays as late as it was.     *)
NextCall(w, c) ==
  \E d : /\ CallFields(d) /\ d.to # "cancelled" /\ call' = [call EXCEPT ![w] = d]
         /\ d = Quiet \/ (d.late = c.late /\ d.m = Nobody)

LEMMA GoesOn ==
  ASSUME NEW w \in Caller, NEW c, CallFields(c), GoOn(w, c)
  PROVE  NextCall(w, c)
<1> DEFINE started(i) == [[c EXCEPT !.items = SubSeq(@, i + 1, Len(@))] EXCEPT
                            !.op = "tool", !.m = Nobody, !.a = c.items[i], !.to = "running"]
           ended(i)   == [[c EXCEPT !.items = <<>>, !.seen = SubSeq(@, i + 1, Len(@))] EXCEPT
                            !.op = "tool", !.m = Nobody, !.a = c.seen[i], !.to = "completed"]
<1>1. \/ \E i : call' = [call EXCEPT ![w] = started(i)]
      \/ \E i : call' = [call EXCEPT ![w] = ended(i)]
      \/ call' = [call EXCEPT ![w] = Quiet]
  BY DEF GoOn, Writes
<1>2. ASSUME NEW i
      PROVE  CallFields(started(i)) /\ started(i).to = "running" /\ started(i).m = Nobody
             /\ started(i).late = c.late
  BY DEF CallFields
<1>3. ASSUME NEW i
      PROVE  CallFields(ended(i)) /\ ended(i).to = "completed" /\ ended(i).m = Nobody
             /\ ended(i).late = c.late
  BY DEF CallFields
<1> HIDE DEF started, ended
<1> QED BY <1>1, <1>2, <1>3, QuietFields DEF NextCall

-----------------------------------------------------------------------------
(* The calls of Hermes.                                                    *)

LEMMA SendInv == ASSUME IInv, NEW w \in Caller, NEW m \in Message, Send(w, m) PROVE IInv'
<1> DEFINE c == [[Quiet EXCEPT !.op = "send", !.m = m, !.to = "running"] EXCEPT !.late = Overdue]
<1>1. CallFields(c) /\ c.to # "cancelled" /\ c.late = Overdue /\ c.op = "send"
  BY DEF CallFields, Quiet
<1>2. call' = [call EXCEPT ![w] = c]
  BY DEF Send, Begin
<1>3. UNCHANGED <<shown, endings, session, mark, canc, owned, turnOf>> /\ ~mark
  BY DEF Send, output, lives, ending
<1> HIDE DEF c
<1> QED BY <1>1, <1>2, <1>3, BeginInv

LEMMA EditInv ==
  ASSUME IInv, NEW w \in Caller, NEW m \in Message, NEW to \in {"running", "completed"},
         Edit(w, m, to)
  PROVE  IInv'
<1> DEFINE c == [[Quiet EXCEPT !.op = "edit", !.m = m, !.to = to] EXCEPT !.late = Overdue]
<1>1. CallFields(c) /\ c.to = to /\ c.late = Overdue /\ c.op = "edit" /\ c.m = m
  BY DEF CallFields, Quiet
<1>2. call' = [call EXCEPT ![w] = c]
  BY DEF Edit, Begin
<1>3. UNCHANGED <<shown, endings, session, mark, canc, owned, turnOf>>
      /\ shown[m] # Absent /\ (m \in turnOf => ~mark)
  BY DEF Edit, output, tables, lives, ending
<1>4. session = "running" => m \in turnOf
  BY <1>3 DEF IInv, Registered
<1> HIDE DEF c
<1>5. c.to # "cancelled"
  BY <1>1
<1> QED BY <1>1, <1>2, <1>3, <1>4, <1>5, BeginInv

LEMMA ProgressInv ==
  ASSUME IInv, NEW w \in Caller, NEW list, NEW anew, Progress(w, list, anew)
  PROVE  IInv'
<1> DEFINE c == [Quiet EXCEPT !.op = "tool", !.items = list, !.seen = list,
                              !.anew = anew, !.late = Overdue]
<1>1. CallFields(c) /\ c.late = Overdue
  BY DEF CallFields, Quiet
<1>2. UNCHANGED <<shown, endings, session, mark, canc>> /\ ~mark
  BY DEF Progress, output, lives, ending
<1>3. CASE GoOn(w, c) /\ UNCHANGED <<owned, turnOf>>
  <2> HIDE DEF c
  <2>1. NextCall(w, c)
    BY <1>1, <1>3, GoesOn
  <2>2. PICK d : /\ CallFields(d) /\ d.to # "cancelled" /\ call' = [call EXCEPT ![w] = d]
                 /\ d = Quiet \/ (d.late = c.late /\ d.m = Nobody)
    BY <2>1 DEF NextCall
  <2> QED BY <1>1, <1>2, <1>3, <2>2, BeginInv, QuietFields
<1>4. ASSUME NEW m \in Message, turnOf' = turnOf \cup {m}, owned' = {m},
             call' = [call EXCEPT ![w] = [c EXCEPT !.m = m, !.to = "running"]]
      PROVE  IInv'
  <2> DEFINE d == [c EXCEPT !.m = m, !.to = "running"]
  <2>1. CallFields(d) /\ d.to # "cancelled" /\ d.late = Overdue /\ d.m = m
    BY <1>1 DEF CallFields
  <2>2. call' = [call EXCEPT ![w] = d]
    BY <1>4
  <2> HIDE DEF d, c
  <2> QED BY <1>2, <1>4, <2>1, <2>2, BeginInv
<1> QED BY <1>3, <1>4 DEF Progress

(* What lands: the message of the call shows what the call decided.        *)
LEMMA LandFacts ==
  ASSUME IInv, NEW w \in Caller, Land(w)
  PROVE  /\ NextCall(w, call[w])
         /\ IF call[w].m # Nobody THEN shown' = [shown EXCEPT ![call[w].m] = call[w].to]
                                  ELSE shown' = shown
         /\ call[w].op = "send" => turnOf' = turnOf \cup {call[w].m}
                                   /\ owned' = owned \cup {call[w].m}
         /\ call[w].op # "send" => UNCHANGED <<turnOf, owned>>
         /\ UNCHANGED <<endings, session, mark, canc>>
         /\ call[w] # Quiet
<1> DEFINE c == call[w]
<1>1. CallFields(c)
  BY DEF IInv, Shape
<1>2. IF c.op = "tool" THEN GoOn(w, c) ELSE call' = [call EXCEPT ![w] = Quiet]
  BY DEF Land
<1>3. NextCall(w, c)
  <2> HIDE DEF c
  <2>1. CASE c.op = "tool"
    BY <1>1, <1>2, <2>1, GoesOn
  <2>2. CASE c.op # "tool"
    BY <1>2, <2>2, QuietFields DEF NextCall
  <2> QED BY <2>1, <2>2
<1>4. /\ IF c.m # Nobody THEN shown' = [shown EXCEPT ![c.m] = c.to] ELSE shown' = shown
      /\ c.op = "send" => turnOf' = turnOf \cup {c.m} /\ owned' = owned \cup {c.m}
      /\ c.op # "send" => UNCHANGED <<turnOf, owned>>
      /\ UNCHANGED <<endings, session, mark, canc>>
      /\ c # Quiet
  BY DEF Land, lives, ending
<1> QED BY <1>3, <1>4

LEMMA LandInv == ASSUME IInv, NEW w \in Caller, Land(w) PROVE IInv'
<1> DEFINE c == call[w]
<1>1. PICK d : /\ CallFields(d) /\ d.to # "cancelled" /\ call' = [call EXCEPT ![w] = d]
               /\ d = Quiet \/ (d.late = c.late /\ d.m = Nobody)
  BY LandFacts DEF NextCall
<1>2. /\ IF c.m # Nobody THEN shown' = [shown EXCEPT ![c.m] = c.to] ELSE shown' = shown
      /\ c.op = "send" => turnOf' = turnOf \cup {c.m} /\ owned' = owned \cup {c.m}
      /\ c.op # "send" => UNCHANGED <<turnOf, owned>>
      /\ UNCHANGED <<endings, session, mark, canc>>
      /\ c # Quiet /\ c.to # "cancelled"
  BY LandFacts DEF IInv, Shape
<1>3. call' = [v \in Caller |-> IF v = w THEN d ELSE call[v]]
  BY <1>1 DEF IInv, Shape
<1>4. turnOf \subseteq turnOf' /\ (owned \subseteq turnOf => owned' \subseteq turnOf')
  BY <1>2
<1>5. session = "running" /\ c.m # Nobody => c.m \in turnOf'
  BY <1>2 DEF IInv, Registered, Calling
<1>6. \A m \in Message : shown'[m] = shown[m] \/ (m = c.m /\ c.m # Nobody /\ shown'[m] = c.to)
  BY <1>2 DEF IInv, Shape
<1>7. Shape'
  <2>1. shown' = [m \in Message |-> shown'[m]]
    BY <1>2 DEF IInv, Shape
  <2> QED BY <1>1, <1>2, <1>3, <2>1 DEF IInv, Shape
<1> HIDE DEF c
<1>8. Registered'
  <2> SUFFICES ASSUME session' = "running"
               PROVE  /\ owned' \subseteq turnOf'
                      /\ canc'.step = "marks" => canc'.left \subseteq turnOf'
                      /\ canc'.step = "place" => canc'.m \in turnOf'
                      /\ \A m \in Message : shown'[m] # Absent => m \in turnOf'
                      /\ \A v \in Caller : call'[v] # Quiet /\ call'[v].op # "send"
                                             /\ call'[v].m # Nobody => call'[v].m \in turnOf'
    BY DEF Registered, Calling
  <2>1. /\ owned' \subseteq turnOf'
        /\ canc'.step = "marks" => canc'.left \subseteq turnOf'
        /\ canc'.step = "place" => canc'.m \in turnOf'
    BY <1>2, <1>4 DEF IInv, Registered
  <2>2. \A m \in Message : shown'[m] # Absent => m \in turnOf'
    BY <1>2, <1>4, <1>5, <1>6 DEF IInv, Registered
  <2>3. \A v \in Caller : call'[v] # Quiet /\ call'[v].op # "send"
                            /\ call'[v].m # Nobody => call'[v].m \in turnOf'
    BY <1>1, <1>2, <1>3, <1>4 DEF IInv, Registered, Calling
  <2> QED BY <2>1, <2>2, <2>3
<1>9. Stored'
  BY <1>2, <1>6 DEF IInv, Stored
<1>10. AllLate'
  <2>1. Begun' = Begun
    BY <1>2 DEF Begun
  <2>2. Begun => c.late
    BY <1>2 DEF c, IInv, AllLate, Calling
  <2> QED BY <1>1, <1>2, <1>3, <2>1, <2>2 DEF IInv, AllLate, Calling
<1> QED BY <1>7, <1>8, <1>9, <1>10 DEF IInv

LEMMA CallFailsInv == ASSUME IInv, NEW w \in Caller, CallFails(w) PROVE IInv'
<1>1. call' = [call EXCEPT ![w] = Quiet]
      /\ UNCHANGED <<shown, endings, session, mark, canc, owned, turnOf>>
  BY DEF CallFails, output, tables, lives, ending
<1>2. call' = [v \in Caller |-> IF v = w THEN Quiet ELSE call[v]]
  BY <1>1 DEF IInv, Shape
<1>3. Shape'
  BY <1>1, <1>2, QuietFields DEF IInv, Shape
<1>4. Registered'
  BY <1>1, <1>2 DEF IInv, Registered, Calling
<1>5. Stored'
  BY <1>1 DEF IInv, Stored
<1>6. AllLate'
  BY <1>1, <1>2 DEF IInv, AllLate, Begun, Calling
<1> QED BY <1>3, <1>4, <1>5, <1>6 DEF IInv

-----------------------------------------------------------------------------
(* The cancellation.                                                       *)

LEMMA OvertakenFacts ==
  ASSUME IInv, call' = Overtaken
  PROVE  /\ call' = [w \in Caller |-> call'[w]]
         /\ \A w \in Caller :
              /\ CallFields(call'[w]) /\ call'[w].to # "cancelled"
              /\ call'[w] # Quiet => call[w] # Quiet /\ call'[w].late
              /\ call'[w].op = call[w].op /\ call'[w].m = call[w].m
<1>1. call' = [w \in Caller |-> call'[w]]
  BY DEF Overtaken
<1>2. ASSUME NEW w \in Caller
      PROVE  /\ CallFields(call'[w]) /\ call'[w].to # "cancelled"
             /\ call'[w] # Quiet => call[w] # Quiet /\ call'[w].late
             /\ call'[w].op = call[w].op /\ call'[w].m = call[w].m
  <2>1. CASE call[w] = Quiet
    BY <2>1, QuietFields DEF Overtaken
  <2>2. CASE call[w] # Quiet
    BY <2>2 DEF Overtaken, IInv, Shape, CallFields
  <2> QED BY <2>1, <2>2
<1> QED BY <1>1, <1>2

(* The cancellation goes on, the messages and calls as they were.          *)
LEMMA CancGoesOn ==
  ASSUME IInv, UNCHANGED <<shown, owned, turnOf, session, mark, call>>,
         CancFields(canc'), endings' \in Seq(Kinds),
         endings' = endings \/ (endings' # <<>> /\ canc.step = "append"),
         canc'.step \notin {"append", "place"},
         canc'.step = "marks" => canc'.left = owned,
         canc'.step \in {"marks", "tools"} =>
           endings' # <<>> /\ canc.step \in {"append", "place", "marks", "tools"}
  PROVE  IInv'
<1>1. Shape'
  BY DEF IInv, Shape
<1>2. Registered'
  BY DEF IInv, Registered, Calling
<1>3. Stored'
  BY DEF IInv, Stored
<1>4. AllLate'
  BY DEF IInv, AllLate, Begun, Calling, Stored
<1> QED BY <1>1, <1>2, <1>3, <1>4 DEF IInv

LEMMA CancelInv ==
  ASSUME IInv, Cancel, UNCHANGED <<shown, endings, owned, turnOf, session>>
  PROVE  IInv'
<1>1. CASE mark
  <2>1. canc' = Free /\ UNCHANGED <<mark, call>>
    BY <1>1 DEF Cancel
  <2>2. Shape'
    BY <2>1, FreeFields DEF IInv, Shape
  <2>3. Registered'
    BY <2>1, FreeFields DEF IInv, Registered, Calling
  <2>4. Stored'
    BY <2>1, FreeFields DEF IInv, Stored
  <2>5. AllLate'
    BY <1>1, <2>1, FreeFields DEF IInv, AllLate, Begun, Calling
  <2> QED BY <2>2, <2>3, <2>4, <2>5 DEF IInv
<1>2. CASE ~mark
  <2>1. mark' /\ canc' = [Free EXCEPT !.step = "append"] /\ call' = Overtaken
    BY <1>2 DEF Cancel
  <2>2. CancFields(canc') /\ canc'.step = "append"
    BY <2>1 DEF CancFields, Free
  <2>3. Shape'
    BY <2>2, <2>1, OvertakenFacts DEF IInv, Shape
  <2>4. Registered'
    BY <2>1, <2>2, OvertakenFacts DEF IInv, Registered, Calling
  <2>5. Stored'
    BY <2>2 DEF IInv, Stored
  <2>6. AllLate'
    BY <2>1, <2>2, OvertakenFacts DEF AllLate, Calling
  <2> QED BY <2>3, <2>4, <2>5, <2>6 DEF IInv
<1> QED BY <1>1, <1>2

(* The steps of the cancellation that write no message.                    *)
LEMMA PlainCancelling ==
  ASSUME IInv,
         \/ AskCancel \/ StopFails \/ CancelDone \/ CancelFails
         \/ \E a \in Activity : CancelActivity(a)
  PROVE  IInv'
<1>1. UNCHANGED <<shown, owned, turnOf, session, mark, call, endings>>
  BY DEF AskCancel, StopFails, CancelDone, CancelFails, CancelActivity, EndActivity,
         output, tables, lives, ending
<1>2. CASE AskCancel \/ StopFails \/ CancelDone \/ CancelFails
  <2>1. CancFields(canc') /\ canc'.step \notin {"append", "place", "marks", "tools"}
    BY <1>2 DEF AskCancel, StopFails, CancelDone, CancelFails, CancFields, Free
  <2>2. endings \in Seq(Kinds)
    BY DEF IInv, Shape
  <2> QED BY <1>1, <2>1, <2>2, CancGoesOn
<1>3. CASE \E a \in Activity : CancelActivity(a)
  <2>1. CancFields(canc') /\ canc'.step = "tools" /\ canc.step = "tools"
    BY <1>3 DEF CancelActivity, CancFields, IInv, Shape
  <2>2. endings \in Seq(Kinds) /\ endings # <<>>
    BY <2>1 DEF IInv, Shape, Stored
  <2> QED BY <1>1, <2>1, <2>2, CancGoesOn
<1> QED BY <1>2, <1>3

LEMMA AppendCancelledInv == ASSUME IInv, AppendCancelled PROVE IInv'
<1>1. canc.step = "append" /\ endings' = Append(endings, "cancelled")
      /\ UNCHANGED <<shown, session, mark, call>>
  BY DEF AppendCancelled, lives, ending
<1>2. endings' # <<>> /\ endings' \in Seq(Kinds)
  BY <1>1, NotNothing DEF IInv, Shape, Kinds, Closed
<1>3. CASE owned # {}
  <2>1. canc' = [canc EXCEPT !.step = "marks", !.left = owned, !.base = owned, !.held = TRUE]
        /\ UNCHANGED <<turnOf, owned>>
    BY <1>3 DEF AppendCancelled
  <2>2. CancFields(canc') /\ canc'.step = "marks" /\ canc'.left = owned
    BY <2>1 DEF CancFields, IInv, Shape
  <2> QED BY <1>1, <1>2, <2>1, <2>2, CancGoesOn
<1>4. ASSUME NEW m \in Message, turnOf' = turnOf \cup {m}, owned' = {m},
             canc' = [canc EXCEPT !.step = "place", !.m = m]
      PROVE  IInv'
  <2>1. CancFields(canc') /\ canc'.step = "place" /\ canc'.m = m
    BY <1>4 DEF CancFields, IInv, Shape
  <2>2. Shape'
    BY <1>1, <1>2, <2>1 DEF IInv, Shape
  <2>3. Registered'
    BY <1>1, <1>4, <2>1 DEF IInv, Registered, Calling
  <2>4. Stored'
    BY <1>2 DEF Stored
  <2>5. AllLate'
    BY <1>1, <2>1 DEF IInv, AllLate, Begun, Calling
  <2> QED BY <2>2, <2>3, <2>4, <2>5 DEF IInv
<1> QED BY <1>3, <1>4 DEF AppendCancelled

(* A message shows the ending, which is in the log, and the cancellation,  *)
(* if it is the one that writes, has it in the tables.                     *)
LEMMA MarkInv ==
  ASSUME IInv, NEW m, NEW k, shown' = [shown EXCEPT ![m] = k],
         session = "running" => m \in turnOf, endings # <<>>,
         UNCHANGED <<endings, owned, turnOf, session, mark, call>>,
         CancFields(canc'),
         canc'.step \in {canc.step, "tools", "free"}, canc'.step # "append" \/ UNCHANGED canc,
         canc'.left \subseteq canc.left \/ canc'.step # "marks",
         canc'.m = canc.m \/ canc'.step # "place"
  PROVE  IInv'
<1>1. shown' = [n \in Message |-> IF n = m THEN k ELSE shown[n]]
  BY DEF IInv, Shape
<1>2. Shape'
  BY <1>1 DEF IInv, Shape
<1>3. Registered'
  BY <1>1 DEF IInv, Registered, Calling
<1>4. Stored'
  BY DEF Stored
<1>5. AllLate'
  BY DEF IInv, AllLate, Begun, Calling
<1> QED BY <1>2, <1>3, <1>4, <1>5 DEF IInv

LEMMA PlaceInv == ASSUME IInv, Place PROVE IInv'
<1>1. /\ canc.step = "place" /\ shown' = [shown EXCEPT ![canc.m] = "cancelled"]
      /\ canc' = [Free EXCEPT !.step = "tools", !.acts = ids]
      /\ UNCHANGED <<endings, owned, turnOf, session, mark, call>>
  BY DEF Place, TurnToActivities, lives, ending
<1>2. CancFields(canc') /\ canc'.step = "tools"
  BY <1>1 DEF CancFields, Free
<1>3. endings # <<>> /\ (session = "running" => canc.m \in turnOf)
  BY <1>1 DEF IInv, Stored, Registered
<1> QED BY <1>1, <1>2, <1>3, MarkInv

LEMMA MarkMessageInv == ASSUME IInv, NEW m \in Message, MarkMessage(m) PROVE IInv'
<1>1. /\ canc.step = "marks" /\ m \in canc.left
      /\ shown' = [shown EXCEPT ![m] = "cancelled"]
      /\ UNCHANGED <<endings, owned, turnOf, session, mark, call>>
  BY DEF MarkMessage, lives, ending
<1>2. \/ canc' = [Free EXCEPT !.broke = TRUE]
      \/ canc' = [Free EXCEPT !.step = "tools", !.acts = ids]
      \/ canc' = [canc EXCEPT !.left = @ \ {m}]
  BY DEF MarkMessage, TurnToActivities
<1>3. /\ CancFields(canc') /\ canc'.step \in {"marks", "tools", "free"}
      /\ canc'.left \subseteq canc.left \/ canc'.step # "marks"
  BY <1>1, <1>2 DEF CancFields, Free, IInv, Shape
<1>4. endings # <<>> /\ (session = "running" => m \in turnOf)
  BY <1>1 DEF IInv, Stored, Registered
<1> QED BY <1>1, <1>3, <1>4, MarkInv

LEMMA CancellingInv == ASSUME IInv, Cancelling \/ AskCancel PROVE IInv'
<1>1. CASE Stopped
  BY <1>1, CancelInv DEF Stopped, output, tables, ending
<1> QED BY <1>1, PlainCancelling, AppendCancelledInv, PlaceInv, MarkMessageInv
  DEF Cancelling

-----------------------------------------------------------------------------
(* The completion.                                                         *)

(* The turn no longer runs: what counts is that the calls still in         *)
(* progress stay late, and that marks follow the ending.                   *)
LEMMA Completes ==
  ASSUME IInv, session' # "running",
         shown' = [m \in Message |-> shown'[m]],
         \A m \in Message : shown'[m] = shown[m] \/ endings # <<>>,
         endings' \in Seq(Kinds), endings' = endings \/ endings' # <<>>,
         CancFields(canc'), canc'.step = canc.step,
         session' \in {"tools", "messages"} => endings' # <<>>,
         call' = [w \in Caller |-> call'[w]],
         \A w \in Caller :
           /\ CallFields(call'[w]) /\ call'[w].to # "cancelled"
           /\ call'[w] # Quiet =>
                \/ call'[w].late
                \/ call[w] # Quiet /\ call'[w].late = call[w].late /\ (Begun' => Begun)
  PROVE  IInv'
<1>1. Shape'
  BY DEF Shape
<1>2. Registered'
  BY DEF Registered
<1>3. Stored'
  BY DEF IInv, Stored
<1>4. AllLate'
  BY DEF IInv, AllLate, Calling
<1> QED BY <1>1, <1>2, <1>3, <1>4 DEF IInv

LEMMA TornFacts ==
  ASSUME IInv, NEW torn \in TornCalls
  PROVE  /\ torn = [w \in Caller |-> torn[w]]
         /\ \A w \in Caller :
              /\ CallFields(torn[w]) /\ torn[w].to # "cancelled"
              /\ torn[w] # Quiet => call[w] # Quiet /\ torn[w].late = call[w].late
<1>1. /\ call = [w \in Caller |-> call[w]]
      /\ \A w \in Caller : CallFields(call[w]) /\ call[w].to # "cancelled"
  BY DEF IInv, Shape
<1>2. CASE torn = [call EXCEPT !["task"] = Quiet]
  BY <1>1, <1>2, QuietFields
<1>3. CASE torn = [call EXCEPT !["task"] = IF @ = Quiet THEN @ ELSE [@ EXCEPT !.op = "torn"]]
  <2> DEFINE cut == [call["task"] EXCEPT !.op = "torn"]
  <2>1. CallFields(cut) /\ cut.to = call["task"].to /\ cut.late = call["task"].late
    BY <1>1 DEF CallFields, Caller
  <2>2. torn = [w \in Caller |-> IF w = "task" /\ call["task"] # Quiet THEN cut ELSE call[w]]
    BY <1>1, <1>3
  <2> HIDE DEF cut
  <2>3. torn = [w \in Caller |-> torn[w]]
    BY <2>2
  <2>4. \A w \in Caller :
          /\ CallFields(torn[w]) /\ torn[w].to # "cancelled"
          /\ torn[w] # Quiet => call[w] # Quiet /\ torn[w].late = call[w].late
    BY <1>1, <2>1, <2>2
  <2> QED BY <2>3, <2>4
<1> QED BY <1>2, <1>3 DEF TornCalls

LEMMA LetGoFacts == ASSUME IInv PROVE CancFields(LetGo) /\ LetGo.step = canc.step
  BY DEF IInv, Shape, CancFields, LetGo

LEMMA CompleteCancelledInv == ASSUME IInv, CompleteCancelled \/ CompleteStopped PROVE IInv'
<1>1. /\ session = "running" /\ session' = "over" /\ call' \in TornCalls
      /\ UNCHANGED <<shown, endings>>
      /\ mark' => mark
      /\ canc' \in {canc, LetGo}
  BY DEF CompleteCancelled, CompleteStopped, output, lives
<1>2. CancFields(canc') /\ canc'.step = canc.step
  BY <1>1, LetGoFacts DEF IInv, Shape
<1>3. Begun' => Begun
  BY <1>1, <1>2 DEF Begun
<1>4. shown' = [m \in Message |-> shown'[m]] /\ endings' \in Seq(Kinds)
  BY <1>1 DEF IInv, Shape
<1>5. /\ call' = [w \in Caller |-> call'[w]]
      /\ \A w \in Caller :
           /\ CallFields(call'[w]) /\ call'[w].to # "cancelled"
           /\ call'[w] # Quiet => call[w] # Quiet /\ call'[w].late = call[w].late
  BY <1>1, TornFacts
<1> QED BY <1>1, <1>2, <1>3, <1>4, <1>5, Completes

LEMMA CompleteInv == ASSUME IInv, NEW k \in Kinds, Complete(k) PROVE IInv'
<1>1. PICK torn \in IF k = "cancelled" THEN TornCalls ELSE {call} :
        call' = [w \in Caller |-> IF torn[w] = Quiet THEN Quiet
                                  ELSE [torn[w] EXCEPT !.late = TRUE]]
  BY DEF Complete
<1>2. session' = "ending" /\ UNCHANGED <<shown, endings, canc>>
  BY DEF Complete, output
<1>3. \A w \in Caller : CallFields(torn[w]) /\ torn[w].to # "cancelled"
  BY <1>1, TornFacts DEF IInv, Shape
<1>4. ASSUME NEW w \in Caller
      PROVE  /\ CallFields(call'[w]) /\ call'[w].to # "cancelled"
             /\ call'[w] # Quiet => call'[w].late
  <2>1. CASE torn[w] = Quiet
    BY <1>1, <2>1, QuietFields
  <2>2. CASE torn[w] # Quiet
    BY <1>1, <1>3, <2>2 DEF CallFields
  <2> QED BY <2>1, <2>2
<1>5. call' = [w \in Caller |-> call'[w]]
  BY <1>1
<1>6. shown' = [m \in Message |-> shown'[m]] /\ endings' \in Seq(Kinds) /\ CancFields(canc')
  BY <1>2 DEF IInv, Shape
<1> QED BY <1>2, <1>4, <1>5, <1>6, Completes

(* The steps that leave the calls alone.                                   *)
LEMMA CompletingInv == ASSUME IInv, kind \in Kinds, Completing \/ OtherTurn PROVE IInv'
<1>1. /\ shown = [m \in Message |-> shown[m]] /\ endings \in Seq(Kinds) /\ CancFields(canc)
      /\ call = [w \in Caller |-> call[w]]
      /\ \A w \in Caller : CallFields(call[w]) /\ call[w].to # "cancelled"
      /\ session \in {"tools", "messages"} => endings # <<>>
  BY DEF IInv, Shape, Stored
<1>2. CASE StoreEnding
  <2>1. /\ session = "ending" /\ session' = "tools" /\ endings' = Append(endings, kind)
        /\ UNCHANGED <<shown, call, canc, mark>>
    BY <1>2 DEF StoreEnding, lives
  <2>2. endings' # <<>> /\ endings' \in Seq(Kinds)
    BY <2>1, <1>1, NotNothing
  <2>3. Begun
    BY <2>1 DEF Begun
  <2> QED BY <1>1, <2>1, <2>2, <2>3, Completes
<1>3. CASE \E m \in Message : CompleteMessage(m)
  <2>1. PICK m \in Message : CompleteMessage(m)
    BY <1>3
  <2>2. /\ session = "messages" /\ shown' = [shown EXCEPT ![m] = kind]
        /\ UNCHANGED <<session, endings, call, canc, mark>>
    BY <2>1 DEF CompleteMessage, lives
  <2>3. shown' = [n \in Message |-> shown'[n]]
    BY <1>1, <2>2
  <2>4. Begun' = Begun
    BY <2>2 DEF Begun
  <2> QED BY <1>1, <2>2, <2>3, <2>4, Completes
<1>4. CASE (\E a \in Activity : CompleteActivity(a)) \/ TakeMessages \/ Finalize
           \/ CompleteFails \/ OtherTurn
  <2>1. /\ UNCHANGED <<shown, endings, call, mark>> /\ canc' \in {canc, LetGo}
        /\ session \in {"ending", "tools", "messages", "over"}
        /\ session' # "running"
        /\ session' \in {"tools", "messages"} => session \in {"tools", "messages"}
        /\ session' = "ending" => session = "ending"
    BY <1>4 DEF CompleteActivity, TakeMessages, Finalize, CompleteFails, OtherTurn,
                output, lives, ending
  <2>2. CancFields(canc') /\ canc'.step = canc.step
    BY <1>1, <2>1, LetGoFacts
  <2>3. Begun' => Begun
    BY <2>1, <2>2 DEF Begun
  <2> QED BY <1>1, <2>1, <2>2, <2>3, Completes
<1> QED BY <1>2, <1>3, <1>4, CompleteInv, CompleteCancelledInv DEF Completing

-----------------------------------------------------------------------------
(* The cards: they touch the turn only to cancel it.                       *)

core == <<shown, endings, owned, turnOf, session, mark, call, canc>>

LEMMA CoreStays == ASSUME IInv, UNCHANGED core PROVE IInv'
<1> USE DEF core
<1>1. Shape'
  BY DEF IInv, Shape
<1>2. Registered'
  BY DEF IInv, Registered, Calling
<1>3. Stored'
  BY DEF IInv, Stored
<1>4. AllLate'
  BY DEF IInv, AllLate, Begun, Calling
<1> QED BY <1>1, <1>2, <1>3, <1>4 DEF IInv

LEMMA CardFacts ==
  ASSUME CardSteps
  PROVE  UNCHANGED core \/ (Cancel /\ UNCHANGED <<shown, endings, owned, turnOf, session>>)
<1> USE DEF core, turnVars, output, tables, lives, ending
<1>1. ASSUME NEW c \in Card, NEW k \in Asks, Ask(c, k) \/ AskFails(c, k) PROVE UNCHANGED core
  BY <1>1 DEF Ask, AskFails, Enter
<1>2. ASSUME NEW c \in Card,
             \/ Age(c) \/ GiveUp(c) \/ TouchOld(c)
             \/ Approve(c) \/ Confirm(c) \/ Reset(c) \/ KeepHistory(c) \/ Answer(c)
             \/ CancelInput(c) \/ Pick(c) \/ PickModel(c)
      PROVE  UNCHANGED core
  BY <1>2 DEF Age, GiveUp, TouchOld, Approve, Confirm, Reset, KeepHistory, Answer,
              CancelInput, Pick, PickModel
<1>3. ASSUME NEW c \in Card, CancelClarify(c)
      PROVE  UNCHANGED core \/ (Cancel /\ UNCHANGED <<shown, endings, owned, turnOf, session>>)
  BY <1>3 DEF CancelClarify
<1>4. ASSUME \/ Confirmed \/ Forgotten \/ Cleared \/ ClarifyCancelled \/ CancelRaised
             \/ \E v \in {"resolved", "failed"} : ModelPicked(v)
             \/ Verdict \/ HandlerFails
      PROVE  UNCHANGED core
  BY <1>4 DEF Confirmed, Forgotten, Cleared, ClarifyCancelled, CancelRaised, ModelPicked,
              Verdict, HandlerFails
<1> QED BY <1>1, <1>2, <1>3, <1>4 DEF CardSteps

LEMMA KindFacts ==
  ASSUME kind \in Kinds, [Next]_vars
  PROVE  kind' \in Kinds
<1> USE DEF turnVars, output, tables, lives, ending
<1>1. ASSUME HermesCalls PROVE kind' = kind
  BY <1>1 DEF HermesCalls, Send, Edit, Progress, Land, CallFails
<1>2. ASSUME Cancelling \/ AskCancel PROVE kind' = kind
  BY <1>2 DEF Cancelling, Stopped, StopFails, AppendCancelled, Place, CancelDone, CancelFails,
              MarkMessage, CancelActivity, AskCancel
<1>3. ASSUME Completing \/ OtherTurn PROVE kind' = kind \/ kind' \in Kinds
  BY <1>3 DEF Completing, CompleteCancelled, CompleteStopped, Complete, StoreEnding,
              TakeMessages, Finalize, CompleteFails, CompleteActivity, CompleteMessage,
              OtherTurn, Kinds, Closed
<1>4. ASSUME CardSteps PROVE kind' = kind
  <2>1. ASSUME NEW c \in Card,
               \/ \E k \in Asks : Ask(c, k) \/ AskFails(c, k)
               \/ Age(c) \/ GiveUp(c) \/ TouchOld(c)
               \/ Approve(c) \/ Confirm(c) \/ Reset(c) \/ KeepHistory(c) \/ Answer(c)
               \/ CancelInput(c) \/ CancelClarify(c) \/ Pick(c) \/ PickModel(c)
        PROVE  kind' = kind
    BY <2>1 DEF Ask, AskFails, Enter, Age, GiveUp, TouchOld, Approve, Confirm, Reset,
                KeepHistory, Answer, CancelInput, CancelClarify, Pick, PickModel
  <2>2. ASSUME \/ Confirmed \/ Forgotten \/ Cleared \/ ClarifyCancelled \/ CancelRaised
               \/ \E v \in {"resolved", "failed"} : ModelPicked(v)
               \/ Verdict \/ HandlerFails
        PROVE  kind' = kind
    BY <2>2 DEF Confirmed, Forgotten, Cleared, ClarifyCancelled, CancelRaised, ModelPicked,
                Verdict, HandlerFails
  <2> QED BY <1>4, <2>1, <2>2 DEF CardSteps
<1>5. CASE UNCHANGED vars
  BY <1>5 DEF vars
<1> QED BY <1>1, <1>2, <1>3, <1>4, <1>5 DEF Next, TurnSteps

LEMMA StepInv == ASSUME IInv, kind \in Kinds, [Next]_vars PROVE IInv'
<1>1. ASSUME NEW w \in Caller,
             \/ \E m \in Message : Send(w, m)
             \/ \E m \in Message, to \in {"running", "completed"} : Edit(w, m, to)
             \/ \E list \in Reports, anew \in SUBSET known : Progress(w, list, anew)
             \/ Land(w) \/ CallFails(w)
      PROVE  IInv'
  BY <1>1, SendInv, EditInv, ProgressInv, LandInv, CallFailsInv
<1>2. CASE TurnSteps \/ AskCancel
  BY <1>1, <1>2, CancellingInv, CompletingInv DEF TurnSteps, HermesCalls
<1>3. CASE CardSteps
  BY <1>3, CardFacts, CancelInv, CoreStays
<1>4. CASE UNCHANGED vars
  BY <1>4, CoreStays DEF vars, core, turnVars, output, tables, lives, ending
<1> QED BY <1>2, <1>3, <1>4 DEF Next

(* The invariant holds in every state of the turn and its cards.           *)
THEOREM Invariance == Spec => [](IInv /\ kind \in Kinds)
<1>1. Init => IInv /\ kind \in Kinds
  BY InitInv DEF Init, TurnInit, Kinds, Closed
<1>2. (IInv /\ kind \in Kinds) /\ [Next]_vars => (IInv /\ kind \in Kinds)'
  BY StepInv, KindFacts
<1> QED BY <1>1, <1>2, PTL DEF Spec

-----------------------------------------------------------------------------
(* Only a call lands in a message that shows the cancellation, and it is   *)
(* late, or the completion marks it.                                       *)
LEMMA StaysCancelled ==
  ASSUME IInv, [Next]_vars, NEW m \in Message, shown[m] = "cancelled", shown'[m] # "cancelled"
  PROVE  m \in late' \/ session = "messages"
<1>1. Begun
  BY DEF IInv, Stored, Begun
<1>2. ASSUME NEW w \in Caller, Land(w) PROVE m \in late'
  <2>1. call[w] # Quiet /\ call[w].late
    BY <1>1, <1>2, LandFacts DEF IInv, AllLate, Calling
  <2>2. m = call[w].m /\ call[w].m # Nobody
    BY <1>2, LandFacts DEF IInv, Shape
  <2>3. late' = late \cup Output(call[w])
    BY <1>2, <2>1 DEF Land
  <2> QED BY <2>2, <2>3 DEF Output
<1>3. ASSUME NEW w \in Caller,
             \/ \E n \in Message : Send(w, n)
             \/ \E n \in Message, to \in {"running", "completed"} : Edit(w, n, to)
             \/ \E list \in Reports, anew \in SUBSET known : Progress(w, list, anew)
             \/ CallFails(w)
      PROVE  shown' = shown
  BY <1>3 DEF Send, Edit, Progress, CallFails, output
<1>4. ASSUME Cancelling PROVE shown'[m] = "cancelled"
  <2>1. CASE Place
    BY <2>1 DEF Place, IInv, Shape
  <2>2. CASE \E n \in Message : MarkMessage(n)
    BY <2>2 DEF MarkMessage, IInv, Shape
  <2>3. CASE ~Place /\ ~(\E n \in Message : MarkMessage(n))
    BY <1>4, <2>3 DEF Cancelling, Stopped, StopFails, AppendCancelled, CancelDone, CancelFails,
                      CancelActivity, output
  <2> QED BY <2>1, <2>2, <2>3
<1>5. ASSUME Completing \/ OtherTurn PROVE session = "messages" \/ shown' = shown
  BY <1>5 DEF Completing, CompleteCancelled, CompleteStopped, Complete, StoreEnding,
              TakeMessages, Finalize, CompleteFails, CompleteActivity, CompleteMessage,
              OtherTurn, output
<1>6. CASE TurnSteps
  BY <1>2, <1>3, <1>4, <1>5, <1>6 DEF TurnSteps, HermesCalls
<1>7. CASE AskCancel
  BY <1>7 DEF AskCancel, output
<1>8. CASE CardSteps
  BY <1>8, CardFacts DEF core
<1>9. CASE UNCHANGED vars
  BY <1>9 DEF vars, turnVars, output
<1> QED BY <1>6, <1>7, <1>8, <1>9 DEF Next

(* However the calls of Hermes, the cancellation, the completion and the   *)
(* answers to cards interleave, a message that shows the cancellation does *)
(* not show progress again, but for output an ending overtook.             *)
THEOREM CancelledForGood == Spec => CancelledStays
<1>1. IInv /\ [Next]_vars =>
        [\A m \in Message : shown[m] = "cancelled" /\ shown'[m] # "cancelled" =>
           m \in late' \/ session = "messages"]_shown
  BY StaysCancelled
<1> QED BY <1>1, Invariance, PTL DEF Spec, CancelledStays

-----------------------------------------------------------------------------
(* The cards.  A card is in the table, in hand, or done; what Hermes was   *)
(* told of it, whether Hermes still waits and what the chat log says of it *)
(* follow from where it is.                                                *)

Busy(c)  == hand.step # "ready" /\ hand.c = c
Ended    == endings # <<>> \/ spoiled
Unique(s) == \A i, j \in 1..Len(s) : s[i] = s[j] => i = j

CardShape ==
  /\ table \in Seq(Card) /\ Unique(table)
  /\ asks = [c \in Card |-> asks[c]]
  /\ told = [c \in Card |-> told[c]]
  /\ verdicts \in [Card -> Seq(Done)]
  /\ DOMAIN hand = {"step", "c", "v"}

(* A card that is not asked yet is nowhere.                                *)
Unasked ==
  \A c \in Card : asks[c] = Absent =>
    /\ ~Contains(table, c) /\ ~Busy(c) /\ verdicts[c] = <<>> /\ told[c] = <<>>
    /\ c \notin waiting /\ c \notin ofTurn

(* What the handler does fits the card it does it with.                    *)
Suits(step, k) ==
  /\ step = "resolve" => k = "confirm"
  /\ step \in {"reset", "clear"} => k = "reset"
  /\ step = "turn" => k = "clarify"
  /\ step = "pick" => k = "model"

Handled ==
  hand.step # "ready" =>
    /\ hand.c \in Card /\ hand.v \in Done
    /\ Suits(hand.step, asks[hand.c])
    /\ hand.step = "event" => ~Contains(table, hand.c)
    /\ hand.step = "expire" => hand.v = "expired"
    /\ hand.step \in {"event", "expire"} /\ asks[hand.c] \in {"clarify", "update"} =>
         hand.c \notin waiting

(* A card has its verdict when it is done.                                 *)
OneVerdict ==
  \A c \in Card :
    /\ Len(verdicts[c]) <= 1
    /\ Contains(table, c) \/ Busy(c) => verdicts[c] = <<>>

(* What Hermes was told of a card when its handler is at a step.           *)
Matches(v, k, said) ==
  CASE v = "resolved"  -> said = <<"answer">> \/ k = "reset"
    [] v = "cancelled" -> said = <<"nothing">> \/ k = "model"
    [] OTHER -> said \in {<<>>, <<"nothing">>}

Said(step, v, k, said) ==
  /\ step \in {"reset", "turn", "pick"} => said = <<>>
  /\ step \in {"resolve", "clear"} => said = <<"answer">>
  /\ step \in {"expire", "event"} => Matches(v, k, said)

Truthful ==
  \A c \in Card : c \notin troubled /\ asks[c] # "approval" =>
    /\ Contains(table, c) /\ ~Busy(c) => told[c] = <<>>
    /\ Busy(c) => Said(hand.step, hand.v, asks[c], told[c])
    /\ verdicts[c] # <<>> => Matches(verdicts[c][1], asks[c], told[c])

Answerable ==
  \A c \in waiting : c \in evicted \/ c \in troubled \/ Contains(table, c) \/ Busy(c)
                     \/ asks[c] \notin {"clarify", "update"}

(* A cancellation has been asked of a turn that its card outlives: it is   *)
(* under way until the ending is in the log, or has failed.                *)
Ending == Ended \/ canc.step = "append"

CancSteps == {"free", "stop", "append", "place", "marks", "tools"}

Cut ==
  /\ canc.step \in CancSteps
  /\ mark /\ canc.step \in {"free", "stop"} => Ended
  /\ active # "this" => Ending
  /\ hand.step = "turn" /\ hand.c \in ofTurn => Ending
  /\ hand.step = "event" /\ hand.v = "cancelled" /\ asks[hand.c] = "clarify"
       /\ hand.c \in ofTurn => Ended
  /\ \A c \in ofTurn : asks[c] = "clarify" /\ Contains(verdicts[c], "cancelled") => Ended

CardBase == CardShape /\ Unasked /\ Handled /\ OneVerdict /\ Truthful /\ Answerable

(* Taking a card out of the table, and entering one.                       *)
LEMMA WithoutFacts ==
  ASSUME table \in Seq(Card), Unique(table), NEW c, NEW t, t = Without(c)
  PROVE  /\ t \in Seq(Card) /\ Unique(t) /\ Len(t) <= Len(table)
         /\ \A d : Contains(t, d) <=> Contains(table, d) /\ d # c
<1>1. CASE ~Contains(table, c)
  BY <1>1 DEF Without, Contains
<1>2. CASE Contains(table, c)
  <2>1. PICK i \in 1..Len(table) : table[i] = c /\ t = RemoveAt(table, i)
    <3>1. PICK k \in 1..Len(table) : table[k] = c
      BY <1>2 DEF Contains
    <3>2. DOMAIN table = 1..Len(table)
      OBVIOUS
    <3> DEFINE i == CHOOSE x \in DOMAIN table : table[x] = c
    <3>3. i \in DOMAIN table /\ table[i] = c
      BY <3>1, <3>2
    <3>4. t = RemoveAt(table, i)
      BY <1>2 DEF Without
    <3> HIDE DEF i
    <3> QED BY <3>2, <3>3, <3>4
  <2>2. t = SubSeq(table, 1, i - 1) \o SubSeq(table, i + 1, Len(table))
    BY <2>1 DEF RemoveAt
  <2>3. Len(table) \in Nat /\ i \in Nat
    OBVIOUS
  <2> DEFINE l == SubSeq(table, 1, i - 1)
             r == SubSeq(table, i + 1, Len(table))
  <2>4. /\ l \in Seq(Card) /\ Len(l) = i - 1 /\ \A j \in 1..(i - 1) : l[j] = table[j]
    BY <2>3
  <2>5. /\ r \in Seq(Card) /\ Len(r) = Len(table) - i
        /\ \A j \in 1..(Len(table) - i) : r[j] = table[j + i]
    BY <2>3
  <2> HIDE DEF l, r
  <2>6. t = l \o r
    BY <2>2 DEF l, r
  <2>7. /\ t \in Seq(Card) /\ Len(t) = Len(table) - 1
        /\ \A j \in 1..(Len(table) - 1) : t[j] = IF j < i THEN table[j] ELSE table[j + 1]
    <3>1. t \in Seq(Card) /\ Len(t) = Len(table) - 1
      BY <2>3, <2>4, <2>5, <2>6
    <3>2. ASSUME NEW j \in 1..(Len(table) - 1)
          PROVE  t[j] = IF j < i THEN table[j] ELSE table[j + 1]
      <4>1. CASE j < i
        <5>1. j \in 1..(i - 1) /\ j \in 1..Len(l)
          BY <2>3, <2>4, <4>1
        <5>2. t[j] = l[j]
          BY <2>4, <2>5, <2>6, <5>1
        <5> QED BY <2>4, <4>1, <5>1, <5>2
      <4>2. CASE ~(j < i)
        <5>1. j - (i - 1) \in 1..(Len(table) - i) /\ j > Len(l) /\ j \in 1..(Len(l) + Len(r))
          BY <2>3, <2>4, <2>5, <4>2
        <5>2. t[j] = r[j - Len(l)]
          BY <2>4, <2>5, <2>6, <5>1
        <5>3. r[j - (i - 1)] = table[(j - (i - 1)) + i] /\ (j - (i - 1)) + i = j + 1
          BY <2>3, <2>5, <5>1
        <5> QED BY <2>4, <4>2, <5>2, <5>3
      <4> QED BY <4>1, <4>2
    <3> QED BY <3>1, <3>2
  <2>8. Unique(t)
    BY <2>3, <2>7 DEF Unique
  <2>9. ASSUME NEW d, Contains(t, d) PROVE Contains(table, d) /\ d # c
    <3>1. PICK j \in 1..(Len(table) - 1) : t[j] = d
      BY <2>7, <2>9 DEF Contains
    <3>2. PICK k \in 1..Len(table) : k # i /\ table[k] = d
      BY <2>3, <2>7, <3>1
    <3> QED BY <2>1, <3>2 DEF Unique, Contains
  <2>10. ASSUME NEW d, Contains(table, d), d # c PROVE Contains(t, d)
    <3>1. PICK k \in 1..Len(table) : table[k] = d /\ k # i
      BY <2>1, <2>10 DEF Contains
    <3>2. CASE k < i
      BY <2>3, <2>7, <3>1, <3>2 DEF Contains
    <3>3. CASE k > i
      <4>1. k - 1 \in 1..(Len(table) - 1) /\ t[k - 1] = d
        BY <2>3, <2>7, <3>1, <3>3
      <4> QED BY <2>7, <4>1 DEF Contains
    <3> QED BY <2>3, <3>1, <3>2, <3>3
  <2> QED BY <2>7, <2>8, <2>9, <2>10
<1> QED BY <1>1, <1>2

LEMMA EnterTable ==
  ASSUME table \in Seq(Card), Unique(table), NEW c \in Card, ~Contains(table, c), NEW t,
         t = IF Len(table) < Capacity THEN Append(table, c) ELSE Append(Tail(table), c)
  PROVE  /\ t \in Seq(Card) /\ Unique(t)
         /\ Len(table) <= Capacity => Len(t) <= Capacity
         /\ \A d : Contains(t, d) => Contains(table, d) \/ d = c
         /\ \A d : Contains(table, d) => \/ Contains(t, d)
                                         \/ ~(Len(table) < Capacity) /\ d = Head(table)
<1>0. Len(table) \in Nat /\ Capacity \in Nat \ {0}
  BY CapacityAssumption
<1>1. CASE Len(table) < Capacity
  <2>1. /\ t \in Seq(Card) /\ Len(t) = Len(table) + 1 /\ t[Len(table) + 1] = c
        /\ \A i \in 1..Len(table) : t[i] = table[i]
    BY <1>1
  <2> QED BY <1>0, <1>1, <2>1 DEF Unique, Contains
<1>2. CASE ~(Len(table) < Capacity)
  <2>1. table # <<>> /\ Len(table) >= 1
    BY <1>0, <1>2
  <2> DEFINE u == Tail(table)
  <2>2. u \in Seq(Card) /\ Len(u) = Len(table) - 1 /\ \A i \in 1..Len(u) : u[i] = table[i + 1]
    BY <2>1
  <2> HIDE DEF u
  <2>3. /\ t \in Seq(Card) /\ Len(t) = Len(table) /\ t[Len(table)] = c
        /\ \A i \in 1..(Len(table) - 1) : t[i] = table[i + 1]
    BY <1>0, <1>2, <2>2 DEF u
  <2>4. Unique(t)
    <3> SUFFICES ASSUME NEW i \in 1..Len(t), NEW j \in 1..Len(t), t[i] = t[j] PROVE i = j
      BY DEF Unique
    <3>1. i \in 1..Len(table) /\ j \in 1..Len(table)
      BY <2>3
    <3>2. \A n \in 1..(Len(table) - 1) : n + 1 \in 1..Len(table) /\ t[n] = table[n + 1] /\ t[n] # c
      BY <1>0, <2>3 DEF Contains
    <3>3. CASE i < Len(table) /\ j < Len(table)
      <4>1. i \in 1..(Len(table) - 1) /\ j \in 1..(Len(table) - 1)
        BY <1>0, <3>1, <3>3
      <4>2. table[i + 1] = table[j + 1] /\ i + 1 \in 1..Len(table) /\ j + 1 \in 1..Len(table)
        BY <3>2, <4>1
      <4>3. i + 1 = j + 1
        BY <4>2 DEF Unique
      <4> QED BY <4>3
    <3>4. CASE i = Len(table) \/ j = Len(table)
      <4>1. \A n \in 1..Len(table) : n = Len(table) \/ n \in 1..(Len(table) - 1)
        BY <1>0
      <4> QED BY <2>3, <3>1, <3>2, <3>4, <4>1
    <3> QED BY <1>0, <3>1, <3>3, <3>4
  <2>5. ASSUME NEW d, Contains(t, d) PROVE Contains(table, d) \/ d = c
    <3>1. PICK i \in 1..Len(table) : t[i] = d
      BY <2>3, <2>5 DEF Contains
    <3>2. CASE i < Len(table)
      <4>1. i + 1 \in 1..Len(table) /\ table[i + 1] = d
        BY <1>0, <2>3, <3>1, <3>2
      <4> QED BY <4>1 DEF Contains
    <3> QED BY <1>0, <2>3, <3>1, <3>2
  <2>6. ASSUME NEW d, Contains(table, d), d # Head(table) PROVE Contains(t, d)
    <3>1. PICK i \in 1..Len(table) : table[i] = d
      BY <2>6 DEF Contains
    <3>2. Head(table) = table[1]
      OBVIOUS
    <3>3. i - 1 \in 1..(Len(table) - 1) /\ t[i - 1] = d
      BY <1>0, <2>3, <2>6, <3>1, <3>2
    <3> QED BY <1>0, <2>3, <3>3 DEF Contains
  <2> QED BY <1>2, <2>3, <2>4, <2>5, <2>6
<1> QED BY <1>1, <1>2

LEMMA NewestIn ==
  ASSUME table \in Seq(Card), NEW c \in Card,
         table' = IF Len(table) < Capacity THEN Append(table, c) ELSE Append(Tail(table), c)
  PROVE  Contains(table', c)
<1>1. ASSUME NEW s \in Seq(Card) PROVE Contains(Append(s, c), c)
  <2>1. Len(s) \in Nat /\ Len(s) + 1 \in 1..Len(Append(s, c)) /\ Append(s, c)[Len(s) + 1] = c
    OBVIOUS
  <2> QED BY <2>1 DEF Contains
<1>2. CASE Len(table) < Capacity
  BY <1>1, <1>2
<1>3. CASE ~(Len(table) < Capacity)
  <2>1. Len(table) \in Nat /\ Capacity \in Nat \ {0}
    BY CapacityAssumption
  <2>2. Tail(table) \in Seq(Card)
    BY <1>3, <2>1
  <2> QED BY <1>1, <1>3, <2>2
<1> QED BY <1>2, <1>3

-----------------------------------------------------------------------------
(* The cards, step by step.                                                *)

(* The handler takes a card up, or goes on with the one it has.            *)
LEMMA Handles ==
  ASSUME CardBase, NEW c \in Card, NEW step, NEW v \in Done, step # "ready",
         hand' = [step |-> step, c |-> c, v |-> v],
         (hand.step = "ready" /\ Contains(table, c)) \/ Busy(c),
         table' = IF step = "event" THEN Without(c) ELSE table,
         UNCHANGED <<asks, ofTurn, verdicts, evicted, troubled>>,
         told' = [d \in Card |-> told'[d]],
         \A d \in Card : d # c => told'[d] = told[d] \/ asks[d] = "approval",
         waiting' \subseteq waiting,
         Suits(step, asks[c]), step = "expire" => v = "expired",
         step \in {"event", "expire"} /\ asks[c] \in {"clarify", "update"} => c \notin waiting',
         c \notin troubled /\ asks[c] # "approval" => Said(step, v, asks[c], told'[c])
  PROVE  CardBase'
<1>1. hand'.step = step /\ hand'.c = c /\ hand'.v = v /\ DOMAIN hand' = {"step", "c", "v"}
  OBVIOUS
<1>2. /\ table' \in Seq(Card) /\ Unique(table')
      /\ \A d : Contains(table', d) => Contains(table, d) /\ (step = "event" => d # c)
      /\ \A d : Contains(table, d) /\ d # c => Contains(table', d)
  <2>1. CASE step = "event"
    BY <2>1, WithoutFacts DEF CardBase, CardShape
  <2>2. CASE step # "event"
    BY <2>2 DEF CardBase, CardShape
  <2> QED BY <2>1, <2>2
<1>3. asks[c] # Absent /\ verdicts[c] = <<>>
  BY DEF CardBase, Unasked, OneVerdict
<1>4. \A d \in Card : d # c => ~Busy(d)
  BY DEF CardBase, Busy
<1>5. CardShape'
  BY <1>1, <1>2 DEF CardBase, CardShape, Unique
<1>6. Unasked'
  <2> SUFFICES ASSUME NEW d \in Card, asks[d] = Absent
               PROVE  /\ ~Contains(table', d) /\ ~(hand'.step # "ready" /\ hand'.c = d)
                      /\ verdicts[d] = <<>> /\ told'[d] = <<>>
                      /\ d \notin waiting' /\ d \notin ofTurn
    BY DEF Unasked, Busy
  <2>1. d # c
    BY <1>3
  <2> QED BY <1>1, <1>2, <2>1 DEF CardBase, Unasked, Absent
<1>7. Handled'
  BY <1>1, <1>2 DEF Handled
<1>8. OneVerdict'
  BY <1>1, <1>2, <1>3 DEF CardBase, OneVerdict, Busy
<1>9. Truthful'
  <2> SUFFICES ASSUME NEW d \in Card, d \notin troubled, asks[d] # "approval"
               PROVE  /\ Contains(table', d) /\ ~(step # "ready" /\ c = d) => told'[d] = <<>>
                      /\ step # "ready" /\ c = d => Said(step, v, asks[d], told'[d])
                      /\ verdicts[d] # <<>> => Matches(verdicts[d][1], asks[d], told'[d])
    BY <1>1 DEF Truthful, Busy
  <2>1. CASE d = c
    BY <1>3, <2>1
  <2>2. CASE d # c
    BY <1>2, <1>4, <2>2 DEF CardBase, Truthful
  <2> QED BY <2>1, <2>2
<1>10. Answerable'
  <2> SUFFICES ASSUME NEW d \in waiting'
               PROVE  \/ d \in evicted \/ d \in troubled \/ Contains(table', d) \/ d = c
                      \/ asks[d] \notin {"clarify", "update"}
    BY <1>1 DEF Answerable, Busy
  <2>1. CASE d = c
    BY <2>1
  <2>2. CASE d # c
    BY <1>2, <2>2 DEF CardBase, Answerable, Busy
  <2> QED BY <2>1, <2>2
<1> QED BY <1>5, <1>6, <1>7, <1>8, <1>9, <1>10 DEF CardBase

(* The handler is done with its card: with a verdict, or in trouble.       *)
LEMMA Releases ==
  ASSUME CardBase, hand.step # "ready", hand' = Ready,
         UNCHANGED <<asks, ofTurn, told, waiting, evicted>>,
         \/ /\ hand.step \in {"event", "expire"}
            /\ verdicts' = [verdicts EXCEPT ![hand.c] = Append(@, hand.v)]
            /\ table' = Without(hand.c) /\ UNCHANGED troubled
         \/ UNCHANGED <<verdicts, table>> /\ troubled' = troubled \cup {hand.c}
  PROVE  CardBase'
<1>1. hand'.step = "ready" /\ DOMAIN hand' = {"step", "c", "v"}
  BY DEF Ready
<1>2. hand.c \in Card /\ hand.v \in Done /\ verdicts[hand.c] = <<>>
      /\ verdicts \in [Card -> Seq(Done)] /\ asks[hand.c] # Absent
  BY DEF CardBase, Handled, OneVerdict, CardShape, Busy, Unasked
<1>3. CASE UNCHANGED <<verdicts, table>> /\ troubled' = troubled \cup {hand.c}
  <2>1. CardShape'
    BY <1>1, <1>3 DEF CardBase, CardShape, Unique
  <2>2. Unasked'
    BY <1>1, <1>3 DEF CardBase, Unasked, Busy
  <2>3. Handled'
    BY <1>1 DEF Handled
  <2>4. OneVerdict'
    BY <1>1, <1>3 DEF CardBase, OneVerdict, Busy
  <2>5. Truthful'
    BY <1>1, <1>3 DEF CardBase, Truthful, Busy
  <2>6. Answerable'
    BY <1>1, <1>3 DEF CardBase, Answerable, Busy
  <2> QED BY <2>1, <2>2, <2>3, <2>4, <2>5, <2>6 DEF CardBase
<1>4. ASSUME hand.step \in {"event", "expire"},
             verdicts' = [verdicts EXCEPT ![hand.c] = Append(@, hand.v)],
             table' = Without(hand.c), UNCHANGED troubled
      PROVE  CardBase'
  <2>1. /\ verdicts' \in [Card -> Seq(Done)]
        /\ verdicts'[hand.c] = <<hand.v>> /\ Len(verdicts'[hand.c]) = 1
        /\ verdicts'[hand.c][1] = hand.v
        /\ \A d \in Card : d # hand.c => verdicts'[d] = verdicts[d]
    BY <1>2, <1>4
  <2>2. /\ table' \in Seq(Card) /\ Unique(table')
        /\ \A d : Contains(table', d) <=> Contains(table, d) /\ d # hand.c
    BY <1>4, WithoutFacts DEF CardBase, CardShape
  <2>3. CardShape'
    BY <1>1, <2>1, <2>2 DEF CardBase, CardShape, Unique
  <2>4. Unasked'
    <3> SUFFICES ASSUME NEW d \in Card, asks[d] = Absent
                 PROVE  /\ ~Contains(table', d) /\ verdicts'[d] = <<>> /\ told[d] = <<>>
                        /\ d \notin waiting /\ d \notin ofTurn
      BY <1>1 DEF Unasked, Busy
    <3> QED BY <1>2, <2>1, <2>2 DEF CardBase, Unasked
  <2>5. Handled'
    BY <1>1 DEF Handled
  <2>6. OneVerdict'
    <3> SUFFICES ASSUME NEW d \in Card
                 PROVE  /\ Len(verdicts'[d]) <= 1
                        /\ Contains(table', d) => verdicts'[d] = <<>>
      BY <1>1 DEF OneVerdict, Busy
    <3>1. CASE d = hand.c
      <4>1. \A n : n = 1 => n <= 1
        OBVIOUS
      <4> QED BY <2>1, <2>2, <3>1, <4>1
    <3>2. CASE d # hand.c
      BY <2>1, <2>2, <3>2 DEF CardBase, OneVerdict
    <3> QED BY <3>1, <3>2
  <2>7. Truthful'
    <3> SUFFICES ASSUME NEW d \in Card, d \notin troubled, asks[d] # "approval"
                 PROVE  /\ Contains(table', d) => told[d] = <<>>
                        /\ verdicts'[d] # <<>> => Matches(verdicts'[d][1], asks[d], told[d])
      BY <1>1, <1>4 DEF Truthful, Busy
    <3>1. CASE d = hand.c
      <4>1. Matches(hand.v, asks[d], told[d])
        BY <1>4, <3>1 DEF CardBase, Truthful, Busy, Said
      <4> QED BY <2>1, <2>2, <3>1, <4>1
    <3>2. CASE d # hand.c
      BY <2>1, <2>2, <3>2 DEF CardBase, Truthful, Busy
    <3> QED BY <3>1, <3>2
  <2>8. Answerable'
    BY <1>1, <1>4, <2>2 DEF CardBase, Answerable, Handled, Busy
  <2> QED BY <2>3, <2>4, <2>5, <2>6, <2>7, <2>8 DEF CardBase
<1> QED BY <1>3, <1>4

(* A new card.                                                             *)
LEMMA Enters ==
  ASSUME CardBase, NEW c \in Card, NEW k \in Asks, asks[c] = Absent,
         asks' = [asks EXCEPT ![c] = k], ofTurn' \subseteq ofTurn \cup {c},
         table' = IF Len(table) < Capacity THEN Append(table, c) ELSE Append(Tail(table), c),
         evicted' = IF Len(table) < Capacity THEN evicted ELSE evicted \cup {Head(table)},
         waiting' \subseteq waiting \cup {c}, troubled \subseteq troubled',
         UNCHANGED <<hand, told, verdicts>>
  PROVE  CardBase'
<1>1. /\ ~Contains(table, c) /\ ~Busy(c) /\ verdicts[c] = <<>> /\ told[c] = <<>>
      /\ c \notin waiting /\ c \notin ofTurn
  BY DEF CardBase, Unasked
<1>2. /\ table' \in Seq(Card) /\ Unique(table')
      /\ \A d : Contains(table', d) => Contains(table, d) \/ d = c
      /\ \A d : Contains(table, d) => Contains(table', d) \/ d \in evicted'
  BY <1>1, EnterTable DEF CardBase, CardShape
<1>3. /\ asks' = [d \in Card |-> asks'[d]] /\ asks'[c] = k /\ k # Absent
      /\ \A d \in Card : d # c => asks'[d] = asks[d]
  BY DEF CardBase, CardShape, Asks, Absent
<1>4. CardShape'
  BY <1>2, <1>3 DEF CardBase, CardShape, Unique
<1>5. Unasked'
  <2> SUFFICES ASSUME NEW d \in Card, asks'[d] = Absent
               PROVE  /\ ~Contains(table', d) /\ ~Busy(d) /\ verdicts[d] = <<>> /\ told[d] = <<>>
                      /\ d \notin waiting' /\ d \notin ofTurn'
    BY DEF Unasked, Busy
  <2>1. d # c /\ asks[d] = Absent
    BY <1>3
  <2> QED BY <1>2, <2>1 DEF CardBase, Unasked
<1>6. Handled'
  <2> SUFFICES ASSUME hand.step # "ready"
               PROVE  /\ hand.c \in Card /\ hand.v \in Done
                      /\ Suits(hand.step, asks'[hand.c])
                      /\ hand.step = "event" => ~Contains(table', hand.c)
                      /\ hand.step = "expire" => hand.v = "expired"
                      /\ hand.step \in {"event", "expire"}
                           /\ asks'[hand.c] \in {"clarify", "update"} =>
                           hand.c \notin waiting'
    BY DEF Handled
  <2>1. hand.c # c /\ hand.c \in Card
    BY <1>1 DEF Busy, CardBase, Handled
  <2> QED BY <1>2, <1>3, <2>1 DEF CardBase, Handled
<1>7. OneVerdict'
  <2> SUFFICES ASSUME NEW d \in Card
               PROVE  /\ Len(verdicts[d]) <= 1
                      /\ Contains(table', d) \/ Busy(d) => verdicts[d] = <<>>
    BY DEF OneVerdict, Busy
  <2> QED BY <1>1, <1>2 DEF CardBase, OneVerdict
<1>8. Truthful'
  <2> SUFFICES ASSUME NEW d \in Card, d \notin troubled, asks'[d] # "approval"
               PROVE  /\ Contains(table', d) /\ ~Busy(d) => told[d] = <<>>
                      /\ Busy(d) => Said(hand.step, hand.v, asks'[d], told[d])
                      /\ verdicts[d] # <<>> => Matches(verdicts[d][1], asks'[d], told[d])
    BY DEF Truthful, Busy
  <2> QED BY <1>1, <1>2, <1>3 DEF CardBase, Truthful
<1>9. Answerable'
  <2> SUFFICES ASSUME NEW d \in waiting'
               PROVE  \/ d \in evicted' \/ d \in troubled' \/ Contains(table', d) \/ Busy(d)
                      \/ asks'[d] \notin {"clarify", "update"}
    BY DEF Answerable, Busy
  <2>1. CASE d = c
    <3>1. Contains(table', c)
      BY NewestIn DEF CardBase, CardShape
    <3> QED BY <2>1, <3>1
  <2>2. CASE d # c
    <3>1. evicted \subseteq evicted'
      OBVIOUS
    <3>2. d \in Card => asks'[d] = asks[d]
      BY <1>3, <2>2
    <3>3. d \notin Card => asks'[d] = asks[d]
      OBVIOUS
    <3> QED BY <1>2, <2>2, <3>1, <3>2, <3>3 DEF CardBase, Answerable
  <2> QED BY <2>1, <2>2
<1> QED BY <1>4, <1>5, <1>6, <1>7, <1>8, <1>9 DEF CardBase

(* Nobody touches a card.                                                  *)
LEMMA CardsStay ==
  ASSUME CardBase, UNCHANGED <<table, asks, ofTurn, hand, told, verdicts, evicted, troubled>>,
         waiting' \subseteq waiting
  PROVE  CardBase'
<1>1. CardShape' /\ Unasked'
  BY DEF CardBase, CardShape, Unasked, Unique, Busy
<1>2. Handled' /\ OneVerdict'
  BY DEF CardBase, Handled, OneVerdict, Busy
<1>3. Truthful' /\ Answerable'
  BY DEF CardBase, Truthful, Answerable, Busy
<1> QED BY <1>1, <1>2, <1>3 DEF CardBase

LEMMA EntersBase ==
  ASSUME CardBase, NEW c \in Card, NEW k \in Asks, Ask(c, k) \/ AskFails(c, k)
  PROVE  CardBase'
<1>1. /\ asks[c] = Absent /\ asks' = [asks EXCEPT ![c] = k]
      /\ table' = IF Len(table) < Capacity THEN Append(table, c) ELSE Append(Tail(table), c)
      /\ evicted' = IF Len(table) < Capacity THEN evicted ELSE evicted \cup {Head(table)}
      /\ UNCHANGED <<hand, told, verdicts>>
  BY DEF Ask, AskFails, Enter
<1>2. ofTurn' \subseteq ofTurn \cup {c}
  BY DEF Ask, AskFails, Enter
<1>3. waiting' \subseteq waiting \cup {c} /\ troubled \subseteq troubled'
  BY DEF Ask, AskFails
<1> QED BY <1>1, <1>2, <1>3, Enters

(* What a step of the handler leaves to be shown, when it tells a card.    *)
LEMMA Telling ==
  ASSUME CardBase, NEW c \in Card, NEW what, what \in {"answer", "nothing"}, Tell(c, what)
  PROVE  /\ told' = [d \in Card |-> told'[d]] /\ \A d \in Card : d # c => told'[d] = told[d]
         /\ waiting' \subseteq waiting /\ c \notin waiting'
         /\ told[c] = <<>> => told'[c] = <<what>>
<1>1. told = [d \in Card |-> told[d]] /\ told' = [told EXCEPT ![c] = Append(@, what)]
      /\ waiting' = waiting \ {c}
  BY DEF CardBase, CardShape, Tell
<1>2. told' = [d \in Card |-> IF d = c THEN Append(told[c], what) ELSE told[d]]
  BY <1>1
<1>3. Append(<<>>, what) = <<what>>
  OBVIOUS
<1> QED BY <1>1, <1>2, <1>3

LEMMA Silence ==
  ASSUME CardBase, TellNobody
  PROVE  told' = [d \in Card |-> told'[d]] /\ told' = told /\ waiting' = waiting
BY DEF CardBase, CardShape, TellNobody

(* A card that arrives, and a card in hand.                                *)
LEMMA Arriving ==
  ASSUME CardBase, NEW c \in Card, Arrives(c)
  PROVE  /\ hand.step = "ready" /\ Contains(table, c) /\ ~Busy(c)
         /\ c \notin troubled /\ asks[c] # "approval" => told[c] = <<>>
BY DEF Arrives, Ready, Busy, CardBase, Truthful

LEMMA InHand ==
  ASSUME CardBase, hand.step # "ready"
  PROVE  /\ hand.c \in Card /\ Busy(hand.c) /\ Suits(hand.step, asks[hand.c])
         /\ hand.c \notin troubled /\ asks[hand.c] # "approval" =>
              Said(hand.step, hand.v, asks[hand.c], told[hand.c])
<1>1. hand.c \in Card /\ Busy(hand.c)
  BY DEF Busy, CardBase, Handled
<1> QED BY <1>1 DEF Busy, CardBase, Handled, Truthful

LEMMA WaitHand ==
  ASSUME NEW c, NEW step, Wait(c, step)
  PROVE  hand' = [step |-> step, c |-> c, v |-> "resolved"] /\ table' = table
BY DEF Wait, Ready

LEMMA DoneFacts == "resolved" \in Done /\ "cancelled" \in Done /\ "expired" \in Done /\ "failed" \in Done
  BY DEF Done

LEMMA TouchOldBase == ASSUME CardBase, NEW c \in Card, TouchOld(c) PROVE CardBase'
<1>1. Arrives(c) /\ Expire(c) /\ UNCHANGED <<asks, ofTurn, verdicts, evicted, troubled>>
  BY DEF TouchOld, Rest
<1>2. hand' = [step |-> "expire", c |-> c, v |-> "expired"] /\ table' = table
  BY <1>1 DEF Expire
<1>3. /\ told' = [d \in Card |-> told'[d]] /\ \A d \in Card : d # c => told'[d] = told[d]
      /\ waiting' \subseteq waiting
      /\ asks[c] \in {"clarify", "update"} => c \notin waiting'
      /\ told[c] = <<>> => told'[c] \in {<<>>, <<"nothing">>}
  <2>1. CASE asks[c] = "update" \/ (asks[c] = "clarify" /\ c \in waiting)
    BY <2>1, Telling DEF TouchOld
  <2>2. CASE ~(asks[c] = "update" \/ (asks[c] = "clarify" /\ c \in waiting))
    BY <2>2, Silence DEF TouchOld
  <2> QED BY <2>1, <2>2
<1>4. Suits("expire", asks[c])
  BY DEF Suits
<1>5. told[c] = <<>> => Said("expire", "expired", asks[c], told'[c])
  BY <1>3 DEF Said, Matches
<1> QED BY <1>1, <1>2, <1>3, <1>4, <1>5, Arriving, DoneFacts, Handles

(* A card that is not waited for is expired, one that is told is done.     *)
LEMMA Expires ==
  ASSUME CardBase, NEW c \in Card, Arrives(c), TellNobody, Expire(c),
         asks[c] \in {"clarify", "update"} => c \notin waiting,
         UNCHANGED <<asks, ofTurn, verdicts, evicted, troubled>>
  PROVE  CardBase'
<1>1. hand' = [step |-> "expire", c |-> c, v |-> "expired"] /\ table' = table
  BY DEF Expire
<1>2. Suits("expire", asks[c])
  BY DEF Suits
<1>3. told[c] = <<>> => Said("expire", "expired", asks[c], told'[c])
  BY Silence DEF Said, Matches
<1> QED BY <1>1, <1>2, <1>3, Silence, Arriving, DoneFacts, Handles

LEMMA ApproveBase == ASSUME CardBase, NEW c \in Card, Approve(c) PROVE CardBase'
<1> DEFINE pending == {d \in waiting : asks[d] = "approval"}
<1>1. /\ Arrives(c) /\ asks[c] = "approval"
      /\ UNCHANGED <<asks, ofTurn, verdicts, evicted, troubled>>
  BY DEF Approve, Valid, Rest
<1>2. CASE pending = {}
  BY <1>1, <1>2, Expires DEF Approve
<1>3. CASE pending # {}
  <2>1. (\E d \in pending : Tell(d, "answer")) /\ Settle(c, "resolved")
    BY <1>3 DEF Approve
  <2>2. PICK d \in waiting : asks[d] = "approval" /\ Tell(d, "answer")
    BY <2>1
  <2>3. /\ told' = [e \in Card |-> told'[e]] /\ \A e \in Card : e # d => told'[e] = told[e]
        /\ waiting' \subseteq waiting
    <3>1. told = [e \in Card |-> told[e]] /\ told' = [told EXCEPT ![d] = Append(@, "answer")]
          /\ waiting' = waiting \ {d}
      BY <2>2 DEF CardBase, CardShape, Tell
    <3> QED BY <3>1
  <2>4. hand' = [step |-> "event", c |-> c, v |-> "resolved"] /\ table' = Without(c)
    BY <2>1 DEF Settle
  <2>5. Suits("event", asks[c])
    BY DEF Suits
  <2>6. \A e \in Card : e # c => told'[e] = told[e] \/ asks[e] = "approval"
    BY <2>2, <2>3
  <2> QED BY <1>1, <2>3, <2>4, <2>5, <2>6, Arriving, DoneFacts, Handles
<1> QED BY <1>2, <1>3

LEMMA ConfirmBase == ASSUME CardBase, NEW c \in Card, Confirm(c) PROVE CardBase'
<1>1. /\ Arrives(c) /\ asks[c] = "confirm"
      /\ UNCHANGED <<asks, ofTurn, verdicts, evicted, troubled>>
  BY DEF Confirm, Valid, Rest
<1>2. CASE c \in waiting
  <2>1. Tell(c, "answer") /\ Wait(c, "resolve")
    BY <1>2 DEF Confirm
  <2>2. hand' = [step |-> "resolve", c |-> c, v |-> "resolved"] /\ table' = table
    BY <2>1, WaitHand
  <2>3. Suits("resolve", asks[c]) /\ (told[c] = <<>> => Said("resolve", "resolved", asks[c], told'[c]))
    BY <1>1, <2>1, Telling DEF Suits, Said
  <2> QED BY <1>1, <2>1, <2>2, <2>3, Telling, Arriving, DoneFacts, Handles
<1>3. CASE c \notin waiting
  BY <1>1, <1>3, Expires DEF Confirm
<1> QED BY <1>2, <1>3

(* The steps of the handler that touch neither Hermes nor the table.       *)
LEMMA Waits ==
  ASSUME CardBase, NEW c \in Card, NEW step, step \in {"reset", "turn", "pick"},
         Arrives(c), Wait(c, step), TellNobody, Suits(step, asks[c]),
         UNCHANGED <<asks, ofTurn, verdicts, evicted, troubled>>
  PROVE  CardBase'
<1>1. hand' = [step |-> step, c |-> c, v |-> "resolved"] /\ table' = table
  BY WaitHand
<1>2. told[c] = <<>> => Said(step, "resolved", asks[c], told'[c])
  BY Silence DEF Said
<1> QED BY <1>1, <1>2, Silence, Arriving, DoneFacts, Handles

LEMMA WaitsBase ==
  ASSUME CardBase, NEW c \in Card, Reset(c) \/ CancelClarify(c) \/ PickModel(c)
  PROVE  CardBase'
<1>1. CASE Reset(c)
  BY <1>1, Waits DEF Reset, Valid, Rest, Suits
<1>2. CASE CancelClarify(c)
  BY <1>2, Waits DEF CancelClarify, Valid, Rest, Suits
<1>3. CASE PickModel(c)
  BY <1>3, Waits DEF PickModel, Valid, Rest, Suits
<1> QED BY <1>1, <1>2, <1>3

(* The verdict fits what Hermes is told, and no question waits on.         *)
LEMMA Settles ==
  ASSUME CardBase, NEW c \in Card, NEW v \in Done, Settle(c, v),
         (hand.step = "ready" /\ Contains(table, c)) \/ Busy(c),
         UNCHANGED <<asks, ofTurn, verdicts, evicted, troubled>>,
         told' = [d \in Card |-> told'[d]],
         \A d \in Card : d # c => told'[d] = told[d],
         waiting' \subseteq waiting,
         asks[c] \in {"clarify", "update"} => c \notin waiting',
         c \notin troubled /\ asks[c] # "approval" => Matches(v, asks[c], told'[c])
  PROVE  CardBase'
<1>1. hand' = [step |-> "event", c |-> c, v |-> v] /\ table' = Without(c)
  BY DEF Settle
<1>2. Suits("event", asks[c])
  BY DEF Suits
<1>3. c \notin troubled /\ asks[c] # "approval" => Said("event", v, asks[c], told'[c])
  BY DEF Said
<1> QED BY <1>1, <1>2, <1>3, Handles

LEMMA KeepHistoryBase == ASSUME CardBase, NEW c \in Card, KeepHistory(c) PROVE CardBase'
<1>1. /\ Arrives(c) /\ asks[c] = "reset" /\ Settle(c, "resolved") /\ TellNobody
      /\ UNCHANGED <<asks, ofTurn, verdicts, evicted, troubled>>
  BY DEF KeepHistory, Valid, Rest
<1>2. Matches("resolved", asks[c], told'[c])
  BY <1>1 DEF Matches
<1> QED BY <1>1, <1>2, Silence, Arriving, DoneFacts, Settles

LEMMA AnswerBase == ASSUME CardBase, NEW c \in Card, Answer(c) PROVE CardBase'
<1>1. Arrives(c) /\ UNCHANGED <<asks, ofTurn, verdicts, evicted, troubled>>
  BY DEF Answer, Valid, Rest
<1>2. CASE asks[c] = "update" \/ c \in waiting
  <2>1. Tell(c, "answer") /\ Settle(c, "resolved")
    BY <1>2 DEF Answer
  <2>2. told[c] = <<>> => Matches("resolved", asks[c], told'[c])
    BY <2>1, Telling DEF Matches
  <2> QED BY <1>1, <2>1, <2>2, Telling, Arriving, DoneFacts, Settles
<1>3. CASE ~(asks[c] = "update" \/ c \in waiting)
  BY <1>1, <1>3, Expires DEF Answer
<1> QED BY <1>2, <1>3

LEMMA CancelInputBase == ASSUME CardBase, NEW c \in Card, CancelInput(c) PROVE CardBase'
<1>1. /\ Arrives(c) /\ asks[c] \in {"update", "model"} /\ Settle(c, "cancelled")
      /\ UNCHANGED <<asks, ofTurn, verdicts, evicted, troubled>>
  BY DEF CancelInput, Valid, Rest
<1>2. CASE asks[c] = "update"
  <2>1. Tell(c, "nothing")
    BY <1>2 DEF CancelInput
  <2>2. told[c] = <<>> => Matches("cancelled", asks[c], told'[c])
    BY <2>1, Telling DEF Matches
  <2> QED BY <1>1, <2>1, <2>2, Telling, Arriving, DoneFacts, Settles
<1>3. CASE asks[c] = "model"
  <2>1. TellNobody
    BY <1>3 DEF CancelInput
  <2>2. Matches("cancelled", asks[c], told'[c])
    BY <1>3 DEF Matches
  <2> QED BY <1>1, <1>3, <2>1, <2>2, Silence, Arriving, DoneFacts, Settles
<1> QED BY <1>1, <1>2, <1>3

LEMMA ConfirmedBase == ASSUME CardBase, Confirmed \/ Cleared PROVE CardBase'
<1>1. /\ hand.step \in {"resolve", "clear"} /\ Settle(hand.c, "resolved") /\ TellNobody
      /\ UNCHANGED <<asks, ofTurn, verdicts, evicted, troubled>>
  BY DEF Confirmed, Cleared, Rest
<1>2. /\ hand.c \in Card /\ Busy(hand.c) /\ asks[hand.c] \in {"confirm", "reset"}
      /\ hand.c \notin troubled => told[hand.c] = <<"answer">>
  BY <1>1, InHand DEF Suits, Said
<1>3. hand.c \notin troubled => Matches("resolved", asks[hand.c], told'[hand.c])
  BY <1>1, <1>2, Silence DEF Matches
<1> QED BY <1>1, <1>2, <1>3, Silence, DoneFacts, Settles

LEMMA ForgottenBase == ASSUME CardBase, Forgotten PROVE CardBase'
<1>1. /\ hand.step = "reset" /\ Tell(hand.c, "answer") /\ Wait(hand.c, "clear")
      /\ UNCHANGED <<asks, ofTurn, verdicts, evicted, troubled>>
  BY DEF Forgotten, Rest
<1>2. PICK c \in Card : c = hand.c
  BY <1>1, InHand
<1>3. /\ Busy(c) /\ asks[c] = "reset"
      /\ c \notin troubled => told[c] = <<>>
  BY <1>1, <1>2, InHand DEF Suits, Said
<1>4. Tell(c, "answer") /\ hand' = [step |-> "clear", c |-> c, v |-> "resolved"] /\ table' = table
  BY <1>1, <1>2, WaitHand
<1>5. Suits("clear", asks[c]) /\ (told[c] = <<>> => Said("clear", "resolved", asks[c], told'[c]))
  BY <1>3, <1>4, Telling DEF Suits, Said
<1> QED BY <1>1, <1>3, <1>4, <1>5, Telling, DoneFacts, Handles

LEMMA ClarifyCancelledBase == ASSUME CardBase, ClarifyCancelled PROVE CardBase'
<1>1. /\ hand.step = "turn" /\ UNCHANGED <<asks, ofTurn, verdicts, evicted, troubled>>
  BY DEF ClarifyCancelled, Rest
<1>2. PICK c \in Card : c = hand.c
  BY <1>1, InHand
<1>3. /\ Busy(c) /\ asks[c] = "clarify"
      /\ c \notin troubled => told[c] = <<>>
  BY <1>1, <1>2, InHand DEF Suits, Said
<1>4. CASE c \in waiting
  <2>1. Tell(c, "nothing") /\ Settle(c, "cancelled")
    BY <1>2, <1>4 DEF ClarifyCancelled
  <2>2. told[c] = <<>> => Matches("cancelled", asks[c], told'[c])
    BY <2>1, Telling DEF Matches
  <2> QED BY <1>1, <1>3, <2>1, <2>2, Telling, DoneFacts, Settles
<1>5. CASE c \notin waiting
  <2>1. TellNobody /\ hand' = [step |-> "expire", c |-> c, v |-> "expired"] /\ table' = table
    BY <1>2, <1>5 DEF ClarifyCancelled, Expire
  <2>2. Suits("expire", asks[c])
        /\ (told[c] = <<>> => Said("expire", "expired", asks[c], told'[c]))
    BY <2>1, Silence DEF Suits, Said, Matches
  <2> QED BY <1>1, <1>3, <1>5, <2>1, <2>2, Silence, DoneFacts, Handles
<1> QED BY <1>4, <1>5

LEMMA ModelPickedBase ==
  ASSUME CardBase, NEW v \in {"resolved", "failed"}, ModelPicked(v)
  PROVE  CardBase'
<1>1. /\ hand.step = "pick" /\ Settle(hand.c, v)
      /\ UNCHANGED <<asks, ofTurn, verdicts, evicted, troubled>>
  BY DEF ModelPicked, Rest
<1>2. PICK c \in Card : c = hand.c
  BY <1>1, InHand
<1>3. /\ Busy(c) /\ asks[c] = "model" /\ Settle(c, v)
      /\ c \notin troubled => told[c] = <<>>
  BY <1>1, <1>2, InHand DEF Suits, Said
<1>4. CASE v = "resolved"
  <2>1. Tell(c, "answer")
    BY <1>2, <1>4 DEF ModelPicked
  <2>2. told[c] = <<>> => Matches(v, asks[c], told'[c])
    BY <1>4, <2>1, Telling DEF Matches
  <2> QED BY <1>1, <1>3, <1>4, <2>1, <2>2, Telling, DoneFacts, Settles
<1>5. CASE v # "resolved"
  <2>1. TellNobody /\ v = "failed"
    BY <1>5 DEF ModelPicked
  <2>2. told[c] = <<>> => Matches(v, asks[c], told'[c])
    BY <2>1, Silence DEF Matches
  <2> QED BY <1>1, <1>3, <2>1, <2>2, Silence, DoneFacts, Settles
<1> QED BY <1>4, <1>5

LEMMA ReleaseBase == ASSUME CardBase, Verdict \/ CancelRaised \/ HandlerFails PROVE CardBase'
<1>1. CASE Verdict
  BY <1>1, Releases DEF Verdict
<1>2. CASE CancelRaised
  BY <1>2, Releases DEF CancelRaised, Rest
<1>3. CASE HandlerFails
  BY <1>3, Releases DEF HandlerFails, cards
<1> QED BY <1>1, <1>2, <1>3

LEMMA BaseStep == ASSUME CardBase, [Next]_vars PROVE CardBase'
<1>1. ASSUME UNCHANGED cardVars PROVE CardBase'
  BY <1>1, CardsStay DEF cardVars, cards
<1>2. ASSUME NEW c \in Card, Age(c) \/ GiveUp(c) \/ Pick(c) PROVE CardBase'
  <2>1. UNCHANGED <<table, asks, ofTurn, hand, told, verdicts, evicted, troubled>>
        /\ waiting' \subseteq waiting
    BY <1>2 DEF Age, GiveUp, Pick, cards
  <2> QED BY <2>1, CardsStay
<1>3. CASE CardSteps
  BY <1>2, <1>3, EntersBase, TouchOldBase, ApproveBase, ConfirmBase, WaitsBase,
     KeepHistoryBase, AnswerBase, CancelInputBase, ConfirmedBase, ForgottenBase,
     ClarifyCancelledBase, ModelPickedBase, ReleaseBase DEF CardSteps
<1> QED BY <1>1, <1>3 DEF Next, vars

-----------------------------------------------------------------------------
(* The turn of a cancelled question.                                       *)

(* An ending stays begun, and what the handler has for a card stays so.    *)
LEMMA CutStays ==
  ASSUME Cut, CardBase, Ended => Ended', Ending => Ending', canc'.step \in CancSteps,
         mark' /\ canc'.step \in {"free", "stop"} => Ended',
         active' # "this" => Ending',
         \/ UNCHANGED <<hand, asks, ofTurn, verdicts>>
         \/ /\ asks' = asks /\ ofTurn' = ofTurn
            /\ hand'.step = "turn" /\ hand'.c \in ofTurn => Ending'
            /\ hand'.step = "event" /\ hand'.v = "cancelled" /\ asks[hand'.c] = "clarify"
                 /\ hand'.c \in ofTurn => Ended'
            /\ verdicts' = verdicts
               \/ /\ hand.step \in {"event", "expire"}
                  /\ verdicts' = [verdicts EXCEPT ![hand.c] = Append(@, hand.v)]
  PROVE  Cut'
<1>1. CASE UNCHANGED <<hand, asks, ofTurn, verdicts>>
  BY <1>1 DEF Cut
<1>2. ASSUME asks' = asks, ofTurn' = ofTurn,
             hand'.step = "turn" /\ hand'.c \in ofTurn => Ending',
             hand'.step = "event" /\ hand'.v = "cancelled" /\ asks[hand'.c] = "clarify"
               /\ hand'.c \in ofTurn => Ended',
             \/ verdicts' = verdicts
             \/ /\ hand.step \in {"event", "expire"}
                /\ verdicts' = [verdicts EXCEPT ![hand.c] = Append(@, hand.v)]
      PROVE  Cut'
  <2>1. \A c \in ofTurn : asks[c] = "clarify" /\ Contains(verdicts'[c], "cancelled") => Ended'
    <3>1. CASE verdicts' = verdicts
      BY <3>1 DEF Cut
    <3>2. ASSUME hand.step \in {"event", "expire"},
                 verdicts' = [verdicts EXCEPT ![hand.c] = Append(@, hand.v)],
                 NEW c \in ofTurn, asks[c] = "clarify", Contains(verdicts'[c], "cancelled")
          PROVE  Ended'
      <4>1. /\ hand.c \in Card /\ verdicts[hand.c] = <<>> /\ verdicts \in [Card -> Seq(Done)]
            /\ hand.step = "expire" => hand.v = "expired"
        BY <3>2 DEF CardBase, Handled, OneVerdict, CardShape, Busy
      <4>2. CASE c = hand.c
        <5>1. verdicts'[c] = <<hand.v>>
          BY <3>2, <4>1, <4>2
        <5>2. hand.v = "cancelled"
          BY <3>2, <5>1 DEF Contains
        <5> QED BY <3>2, <4>1, <4>2, <5>2 DEF Cut
      <4>3. CASE c # hand.c
        <5>1. verdicts'[c] = verdicts[c]
          BY <3>2, <4>1, <4>3
        <5> QED BY <3>2, <5>1 DEF Cut
      <4> QED BY <4>2, <4>3
    <3> QED BY <1>2, <3>1, <3>2
  <2> QED BY <1>2, <2>1 DEF Cut
<1> QED BY <1>1, <1>2

LEMMA FreeSteps == Free.step = "free" /\ [Free EXCEPT !.broke = TRUE].step = "free"
                   /\ [Free EXCEPT !.step = "stop"].step = "stop"
                   /\ [Free EXCEPT !.step = "append"].step = "append"
  BY DEF Free

LEMMA CancelCut ==
  ASSUME IInv, Cut, Cancel, canc.step \in {"free", "stop"},
         UNCHANGED <<endings, spoiled, active>>
  PROVE  /\ Ended' = Ended /\ (Ending => Ending') /\ Ending'
         /\ canc'.step \in CancSteps
         /\ mark' /\ canc'.step \in {"free", "stop"} => Ended'
         /\ active' # "this" => Ending'
<1>1. Ended' = Ended
  BY DEF Ended
<1>2. CASE mark
  BY <1>1, <1>2, FreeSteps DEF Cancel, Cut, Ending, CancSteps
<1>3. CASE ~mark
  <2>1. canc'.step = "append"
    BY <1>3, FreeSteps DEF Cancel
  <2> QED BY <1>1, <2>1 DEF Ending, CancSteps
<1> QED BY <1>2, <1>3

(* The turn.                                                               *)
LEMMA TurnCut ==
  ASSUME IInv, kind \in Kinds, Cut, TurnNext
  PROVE  /\ Ended => Ended'
         /\ Ending => Ending'
         /\ canc'.step \in CancSteps
         /\ mark' /\ canc'.step \in {"free", "stop"} => Ended'
         /\ active' # "this" => Ending'
<1> USE DEF Ended, Ending
<1>1. endings \in Seq(Kinds) /\ Append(endings, "cancelled") # <<>> /\ Append(endings, kind) # <<>>
  <2>1. endings \in Seq(Kinds) /\ kind \in Kinds /\ "cancelled" \in Kinds
    BY DEF IInv, Shape, Kinds
  <2> QED BY <2>1
<1>2. LetGo.step = canc.step
  BY LetGoFacts
<1>3. CASE HermesCalls \/ OtherTurn
  <2>1. UNCHANGED <<endings, spoiled, mark, canc>> /\ (active' # "this" => active # "this")
    BY <1>3 DEF HermesCalls, Send, Edit, Progress, Land, CallFails, OtherTurn, output, tables,
                lives, ending
  <2> QED BY <2>1 DEF Cut
<1>4. CASE Stopped
  <2>1. Cancel /\ canc.step = "stop" /\ UNCHANGED <<endings, spoiled, active>>
    BY <1>4 DEF Stopped, output
  <2> QED BY <2>1, CancelCut
<1>5. CASE AskCancel
  <2>1. /\ canc.step = "free" /\ canc'.step = "stop"
        /\ UNCHANGED <<endings, spoiled, mark, active>>
    BY <1>5, FreeSteps DEF AskCancel, output
  <2> QED BY <2>1 DEF Cut, CancSteps
<1>6. CASE StopFails \/ CancelFails
  <2>1. spoiled' /\ canc'.step = "free"
    BY <1>6, FreeSteps DEF StopFails, CancelFails
  <2> QED BY <2>1 DEF CancSteps
<1>7. CASE AppendCancelled
  <2>1. endings' # <<>> /\ canc'.step \in {"place", "marks"}
    <3>1. endings' # <<>>
      BY <1>1, <1>7 DEF AppendCancelled
    <3>2. \/ \E m : canc' = [canc EXCEPT !.step = "place", !.m = m]
          \/ canc' = [canc EXCEPT !.step = "marks", !.left = owned, !.base = owned, !.held = TRUE]
      BY <1>7 DEF AppendCancelled
    <3>3. CancFields(canc)
      BY DEF IInv, Shape
    <3> QED BY <3>1, <3>2, <3>3 DEF CancFields
  <2> QED BY <2>1 DEF CancSteps
<1>8. CASE \/ Place \/ (\E m \in Message : MarkMessage(m))
           \/ (\E a \in Activity : CancelActivity(a)) \/ CancelDone
  <2>1. canc.step \in {"place", "marks", "tools"} /\ endings' = endings
        /\ (spoiled' = spoiled \/ spoiled')
    BY <1>8 DEF Place, MarkMessage, CancelActivity, CancelDone, output
  <2>2. endings # <<>>
    BY <2>1 DEF IInv, Stored
  <2>3. canc'.step \in CancSteps
    <3>1. CancFields(canc)
      BY DEF IInv, Shape
    <3>2. CASE Place
      BY <3>2 DEF Place, TurnToActivities, Free, CancSteps
    <3>3. CASE \E m \in Message : MarkMessage(m)
      <4>1. \/ canc' = [Free EXCEPT !.broke = TRUE]
            \/ canc' = [Free EXCEPT !.step = "tools", !.acts = ids]
            \/ \E l : canc' = [canc EXCEPT !.left = l]
        BY <3>3 DEF MarkMessage, TurnToActivities
      <4> QED BY <2>1, <3>1, <4>1 DEF CancFields, Free, CancSteps
    <3>4. CASE \E a \in Activity : CancelActivity(a)
      BY <2>1, <3>1, <3>4 DEF CancelActivity, CancFields, CancSteps
    <3>5. CASE CancelDone
      BY <3>5, FreeSteps DEF CancelDone, CancSteps
    <3> QED BY <1>8, <3>2, <3>3, <3>4, <3>5
  <2> QED BY <2>1, <2>2, <2>3
<1>9. CASE CompleteCancelled
  <2>1. mark /\ ~mark' /\ UNCHANGED <<endings, spoiled>> /\ canc'.step = canc.step
    BY <1>2, <1>9 DEF CompleteCancelled, output
  <2>2. Ending
    BY <2>1 DEF Cut, CancSteps, IInv, Stored
  <2> QED BY <2>1, <2>2 DEF Cut
<1>10. CASE \/ CompleteStopped \/ (\E k \in Kinds : Complete(k)) \/ TakeMessages
            \/ (\E a \in Activity : CompleteActivity(a))
            \/ (\E m \in Message : CompleteMessage(m))
  <2>1. UNCHANGED <<endings, spoiled, mark, active>> /\ canc'.step = canc.step
    BY <1>2, <1>10 DEF CompleteStopped, Complete, TakeMessages, CompleteActivity,
                       CompleteMessage, output, lives
  <2> QED BY <2>1 DEF Cut
<1>11. CASE StoreEnding
  <2>1. endings' # <<>> /\ canc' = canc
    BY <1>1, <1>11 DEF StoreEnding
  <2> QED BY <2>1 DEF Cut
<1>12. CASE Finalize
  <2>1. session = "messages" /\ UNCHANGED <<endings, spoiled, mark, canc>>
    BY <1>12 DEF Finalize, output
  <2>2. endings # <<>>
    BY <2>1 DEF IInv, Stored
  <2> QED BY <2>1, <2>2 DEF Cut
<1>13. CASE CompleteFails
  <2>1. spoiled' /\ canc' = canc
    BY <1>13 DEF CompleteFails
  <2> QED BY <2>1 DEF Cut
<1> HIDE DEF Ended, Ending
<1> QED BY <1>3, <1>4, <1>5, <1>6, <1>7, <1>8, <1>9, <1>10, <1>11, <1>12, <1>13
        DEF TurnNext, TurnSteps, Cancelling, Completing

(* The steps of the cards that leave the turn as it is.                    *)
turn == <<endings, spoiled, mark, canc, active>>

LEMMA QuietCut ==
  ASSUME Cut, CardBase, UNCHANGED turn,
         \/ UNCHANGED <<hand, asks, ofTurn, verdicts>>
         \/ /\ asks' = asks /\ ofTurn' = ofTurn
            /\ hand'.step = "turn" /\ hand'.c \in ofTurn => Ending
            /\ hand'.step = "event" /\ hand'.v = "cancelled" /\ asks[hand'.c] = "clarify"
                 /\ hand'.c \in ofTurn => Ended
            /\ verdicts' = verdicts
               \/ /\ hand.step \in {"event", "expire"}
                  /\ verdicts' = [verdicts EXCEPT ![hand.c] = Append(@, hand.v)]
  PROVE  Cut'
<1>1. Ended' = Ended /\ Ending' = Ending
  BY DEF Ended, Ending, turn
<1>2. canc' = canc /\ mark' = mark /\ active' = active
  BY DEF turn
<1>3. /\ canc'.step \in CancSteps
      /\ mark' /\ canc'.step \in {"free", "stop"} => Ended'
      /\ active' # "this" => Ending'
  BY <1>1, <1>2 DEF Cut
<1> QED BY <1>1, <1>3, CutStays

LEMMA EntersCut ==
  ASSUME Cut, CardBase, NEW c \in Card, NEW k \in Asks, Ask(c, k) \/ AskFails(c, k)
  PROVE  Cut'
<1>1. /\ asks[c] = Absent /\ asks' = [asks EXCEPT ![c] = k] /\ ofTurn' \subseteq ofTurn \cup {c}
      /\ UNCHANGED <<hand, verdicts, endings, spoiled, mark, canc, active>>
  BY DEF Ask, AskFails, Enter, output, lives
<1>2. ~Busy(c) /\ verdicts[c] = <<>> /\ ~Contains(<<>>, "cancelled")
  BY <1>1 DEF CardBase, Unasked, Contains
<1>3. \A d \in Card : d # c => asks'[d] = asks[d]
  BY <1>1 DEF CardBase, CardShape
<1>4. hand.step # "ready" => hand.c # c /\ hand.c \in Card
  BY <1>2 DEF CardBase, Handled, Busy
<1>5. Ended' = Ended /\ Ending' = Ending
  BY <1>1 DEF Ended, Ending
<1>6. \A d \in ofTurn' : asks'[d] = "clarify" /\ Contains(verdicts[d], "cancelled") => Ended
  <2> SUFFICES ASSUME NEW d \in ofTurn', asks'[d] = "clarify", Contains(verdicts[d], "cancelled")
               PROVE  Ended
    OBVIOUS
  <2>1. d # c /\ d \in ofTurn
    BY <1>1, <1>2
  <2>2. asks'[d] = asks[d]
    BY <1>1, <2>1 DEF CardBase, CardShape
  <2> QED BY <2>1, <2>2 DEF Cut
<1>7. /\ hand.step = "turn" /\ hand.c \in ofTurn' => Ending
      /\ hand.step = "event" /\ hand.v = "cancelled" /\ asks'[hand.c] = "clarify"
           /\ hand.c \in ofTurn' => Ended
  BY <1>1, <1>3, <1>4 DEF Cut
<1> QED BY <1>1, <1>5, <1>6, <1>7 DEF Cut

LEMMA CancelClarifyCut ==
  ASSUME IInv, Cut, CardBase, NEW c \in Card, CancelClarify(c)
  PROVE  Cut'
<1>1. /\ canc.step = "free" /\ hand' = [step |-> "turn", c |-> c, v |-> "resolved"]
      /\ UNCHANGED <<asks, ofTurn, verdicts>>
  BY WaitHand DEF CancelClarify, Valid, Arrives, Rest
<1>2. hand'.step = "turn" /\ hand'.c = c
  BY <1>1
<1>3. CASE c \in ofTurn /\ active \in {"none", "this"}
  <2>1. Cancel /\ UNCHANGED <<endings, spoiled, active>>
    BY <1>3 DEF CancelClarify, output
  <2>2. /\ Ended' = Ended /\ (Ending => Ending') /\ Ending'
        /\ canc'.step \in CancSteps
        /\ mark' /\ canc'.step \in {"free", "stop"} => Ended'
        /\ active' # "this" => Ending'
    BY <1>1, <2>1, CancelCut
  <2> QED BY <1>1, <1>2, <2>2, CutStays
<1>4. CASE ~(c \in ofTurn /\ active \in {"none", "this"})
  <2>1. UNCHANGED turn
    BY <1>4 DEF CancelClarify, turnVars, output, lives, turn
  <2>2. c \in ofTurn => Ending
    BY <1>4 DEF Cut
  <2> QED BY <1>1, <1>2, <2>1, <2>2, QuietCut
<1> QED BY <1>3, <1>4

LEMMA ClarifyCancelledCut == ASSUME Cut, CardBase, ClarifyCancelled PROVE Cut'
<1>1. /\ hand.step = "turn" /\ canc.step = "free" /\ UNCHANGED turn
      /\ UNCHANGED <<asks, ofTurn, verdicts>>
      /\ hand'.step \in {"event", "expire"} /\ hand'.c = hand.c
  BY DEF ClarifyCancelled, Settle, Expire, turnVars, output, lives, turn, Rest
<1>2. hand.c \in ofTurn => Ended
  BY <1>1 DEF Cut, Ending
<1> QED BY <1>1, <1>2, QuietCut

(* No other step of the handler settles a question as cancelled.           *)
LEMMA HandKinds ==
  ASSUME NEW c,
         \/ Settle(c, "resolved") \/ Expire(c)
         \/ \E step \in {"resolve", "reset", "clear", "pick"} : Wait(c, step)
  PROVE  hand'.step # "turn" /\ hand'.v # "cancelled"
<1>1. CASE Settle(c, "resolved") \/ Expire(c)
  BY <1>1 DEF Settle, Expire
<1>2. CASE \E step \in {"resolve", "reset", "clear", "pick"} : Wait(c, step)
  <2>1. PICK step \in {"resolve", "reset", "clear", "pick"} : Wait(c, step)
    BY <1>2
  <2>2. hand' = [step |-> step, c |-> c, v |-> "resolved"]
    BY <2>1, WaitHand
  <2> QED BY <2>2
<1> QED BY <1>1, <1>2

LEMMA HandlerCut ==
  ASSUME Cut, CardBase,
         \/ \E c \in Card :
              \/ Age(c) \/ GiveUp(c) \/ TouchOld(c) \/ Approve(c) \/ Confirm(c) \/ Reset(c)
              \/ KeepHistory(c) \/ Answer(c) \/ CancelInput(c) \/ Pick(c) \/ PickModel(c)
         \/ Confirmed \/ Forgotten \/ Cleared \/ CancelRaised \/ Verdict \/ HandlerFails
         \/ \E v \in {"resolved", "failed"} : ModelPicked(v)
  PROVE  Cut'
<1> USE DEF turn, turnVars, output, lives, cards, Rest
<1>1. ASSUME NEW c \in Card, Age(c) \/ GiveUp(c) \/ Pick(c) PROVE Cut'
  <2>1. UNCHANGED turn /\ UNCHANGED <<hand, asks, ofTurn, verdicts>>
    BY <1>1 DEF Age, GiveUp, Pick
  <2> QED BY <2>1, QuietCut
<1>2. ASSUME NEW c \in Card, TouchOld(c) \/ Approve(c) \/ Confirm(c) \/ Answer(c) PROVE Cut'
  <2>1. /\ UNCHANGED turn /\ UNCHANGED <<asks, ofTurn, verdicts>>
        /\ hand'.step # "turn" /\ hand'.v # "cancelled"
    BY <1>2, HandKinds DEF TouchOld, Approve, Confirm, Answer
  <2> QED BY <2>1, QuietCut
<1>3. ASSUME NEW c \in Card, Reset(c) \/ KeepHistory(c) \/ PickModel(c) PROVE Cut'
  <2>1. /\ UNCHANGED turn /\ UNCHANGED <<asks, ofTurn, verdicts>>
        /\ hand'.step # "turn" /\ hand'.v # "cancelled"
    BY <1>3, HandKinds DEF Reset, KeepHistory, PickModel
  <2> QED BY <2>1, QuietCut
<1>4. ASSUME NEW c \in Card, CancelInput(c) PROVE Cut'
  <2>1. /\ UNCHANGED turn /\ UNCHANGED <<asks, ofTurn, verdicts>>
        /\ hand'.step = "event" /\ hand'.c = c /\ asks[c] # "clarify"
    BY <1>4 DEF CancelInput, Valid, Settle
  <2> QED BY <2>1, QuietCut
<1>5. CASE Confirmed \/ Forgotten \/ Cleared
  <2>1. /\ UNCHANGED turn /\ UNCHANGED <<asks, ofTurn, verdicts>>
        /\ hand'.step # "turn" /\ hand'.v # "cancelled"
    BY <1>5, HandKinds DEF Confirmed, Forgotten, Cleared
  <2> QED BY <2>1, QuietCut
<1>6. CASE CancelRaised \/ Verdict \/ HandlerFails
  <2>1. /\ UNCHANGED turn /\ UNCHANGED <<asks, ofTurn>> /\ hand'.step = "ready"
        /\ \/ verdicts' = verdicts
           \/ /\ hand.step \in {"event", "expire"}
              /\ verdicts' = [verdicts EXCEPT ![hand.c] = Append(@, hand.v)]
    BY <1>6 DEF CancelRaised, Verdict, HandlerFails, Ready
  <2> QED BY <2>1, QuietCut
<1>7. ASSUME NEW v \in {"resolved", "failed"}, ModelPicked(v) PROVE Cut'
  <2>1. /\ UNCHANGED turn /\ UNCHANGED <<asks, ofTurn, verdicts>>
        /\ hand'.step = "event" /\ hand'.v = v /\ v # "cancelled"
    BY <1>7 DEF ModelPicked, Settle
  <2> QED BY <2>1, QuietCut
<1> QED BY <1>1, <1>2, <1>3, <1>4, <1>5, <1>6, <1>7

LEMMA CutStep == ASSUME IInv, kind \in Kinds, Cut, CardBase, [Next]_vars PROVE Cut'
<1>1. CASE (TurnSteps \/ AskCancel) /\ UNCHANGED cardVars
  <2>1. UNCHANGED <<hand, asks, ofTurn, verdicts>> /\ TurnNext
    BY <1>1 DEF cardVars, cards, TurnNext
  <2> QED BY <2>1, TurnCut, CutStays
<1>2. CASE CardSteps
  BY <1>2, EntersCut, CancelClarifyCut, ClarifyCancelledCut, HandlerCut DEF CardSteps
<1>3. CASE UNCHANGED vars
  BY <1>3, QuietCut DEF vars, turnVars, output, lives, turn, cardVars, cards
<1> QED BY <1>1, <1>2, <1>3 DEF Next

LEMMA CardsInit == ASSUME Init PROVE CardBase /\ Cut
<1>1. /\ table = <<>> /\ asks = [c \in Card |-> Absent] /\ ofTurn = {} /\ waiting = {}
      /\ hand = Ready /\ told = [c \in Card |-> <<>>] /\ verdicts = [c \in Card |-> <<>>]
      /\ mark = FALSE /\ canc = Free /\ active = "this"
  BY DEF Init, TurnInit
<1>2. hand.step = "ready" /\ DOMAIN hand = {"step", "c", "v"} /\ canc.step = "free"
  BY <1>1 DEF Ready, Free
<1>3. \A c : ~Contains(table, c)
  BY <1>1 DEF Contains
<1>4. CardShape
  BY <1>1, <1>2 DEF CardShape, Unique
<1>5. Unasked /\ Handled
  BY <1>1, <1>2, <1>3 DEF Unasked, Handled, Busy
<1>6. OneVerdict
  BY <1>1 DEF OneVerdict
<1>7. Truthful /\ Answerable
  BY <1>1, <1>2, <1>3 DEF Truthful, Answerable, Busy
<1>8. Cut
  BY <1>1, <1>2 DEF Cut, CancSteps
<1> QED BY <1>4, <1>5, <1>6, <1>7, <1>8 DEF CardBase

(* The invariant of the cards and of the turn under them.                  *)
THEOREM CardInvariance == Spec => [](IInv /\ kind \in Kinds /\ CardBase /\ Cut)
<1>1. Init => IInv /\ kind \in Kinds /\ CardBase /\ Cut
  BY InitInv, CardsInit DEF Init, TurnInit, Kinds, Closed
<1>2. (IInv /\ kind \in Kinds /\ CardBase /\ Cut) /\ [Next]_vars
        => (IInv /\ kind \in Kinds /\ CardBase /\ Cut)'
  BY StepInv, KindFacts, BaseStep, CutStep
<1> QED BY <1>1, <1>2, PTL DEF Spec

(* Whatever the order of answers, expiries, cancellations and failures, a  *)
(* card gets at most one terminal event, and the event says what Hermes    *)
(* was told (_handle_chat_action and _handle_model_picker_action).         *)
THEOREM CardsTellTruth == Spec => []CardTellsTruth
<1>1. CardBase => CardTellsTruth
  <2> SUFFICES ASSUME CardBase, NEW c \in Card
               PROVE  /\ Len(verdicts[c]) <= 1
                      /\ verdicts[c] # <<>> /\ c \notin troubled /\ asks[c] # "approval" =>
                           Matches(verdicts[c][1], asks[c], told[c])
    BY DEF CardTellsTruth, Matches
  <2> QED BY DEF CardBase, OneVerdict, Truthful
<1> QED BY <1>1, CardInvariance, PTL

(* A question is shown cancelled only when its turn has an ending, or one  *)
(* failed half way: input.cancel first goes through _cancel_active_turn.   *)
THEOREM CancelledQuestionsEndTurns == Spec => []CancelledQuestionEndsTurn
<1>1. Cut => CancelledQuestionEndsTurn
  BY DEF Cut, Ended, CancelledQuestionEndsTurn
<1> QED BY <1>1, CardInvariance, PTL

(* No question of the agent or of an update is left waiting without its    *)
(* card in the table, but for cards a newer one pushed out or an error     *)
(* left half handled.                                                      *)
THEOREM QuestionsCanBeAnswered == Spec => []WaitingIsAnswerable
<1>1. CardBase => WaitingIsAnswerable
  BY DEF CardBase, Answerable, Busy, WaitingIsAnswerable
<1> QED BY <1>1, CardInvariance, PTL

-----------------------------------------------------------------------------
(* The output of the turn.  Between the ending in the log and the end of   *)
(* the work on it, every message and activity that does not show the       *)
(* ending is still to be dealt with by somebody; OutInv says by whom.      *)

(* What a call in progress is about.                                       *)
Tooling(c) == c.a # Nobody \/ c.items # <<>>

CallShape ==
  /\ tools = [a \in Activity |-> tools[a]] /\ status = [a \in Activity |-> status[a]]
  /\ \A w \in Caller : call[w].items \in Seq(Activity) /\ call[w].seen \in Seq(Activity)
  /\ \A w \in Caller : Calling(w) =>
       /\ call[w].to \in {"running", "completed"}
       /\ \/ call[w].m \in Message /\ call[w].a = Nobody
          \/ call[w].m = Nobody /\ call[w].a \in Activity /\ call[w].op # "send"
       /\ call[w].op = "tool" => Tooling(call[w])
       /\ call[w].op = "torn" => Output(call[w]) \subseteq late
  /\ \A v, w \in Caller : Tooling(call[v]) /\ Tooling(call[w]) => v = w

(* Until the session takes the messages, they are all among the turn's.    *)
Open ==
  \/ session \in {"running", "ending", "tools"}
  \/ session = "over" /\ endings = <<>> /\ ~spoiled /\ stop # "lost"

Gathered ==
  Open =>
    /\ \A m \in Message \ late : shown[m] # Absent => m \in owned
    /\ \A w \in Caller : Calling(w) /\ call[w].op # "send" /\ call[w].m # Nobody =>
         call[w].m \in owned \/ call[w].m \in late
    /\ canc.step = "marks" => canc.left \subseteq owned
    /\ canc.step = "place" => canc.m \in owned

(* The marks are of an ending in the log.                                  *)
Marking ==
  /\ session \in {"running", "ending", "tools", "messages", "over"}
  /\ session \in {"tools", "messages"} => kind \in ToSet(endings)
  /\ canc.step = "place" => canc.m \in Message
  /\ canc.step = "marks" => canc.left # {}
  /\ canc.step \in {"place", "marks", "tools"} => "cancelled" \in ToSet(endings)

Sound == ~spoiled /\ stop # "lost"

(* A message that does not show an ending is still to be marked.           *)
ToMark ==
  endings # <<>> /\ Sound =>
    \A m \in Message \ late : shown[m] \notin {Absent} \cup ToSet(endings) =>
      \/ canc.step = "marks" /\ m \in canc.left
      \/ session \in {"ending", "tools"}
      \/ session = "messages" /\ m \in msgs

(* An activity that runs is still to be ended: one that has yet to be      *)
(* taken out of the table, one that has been, or one whose end a call      *)
(* that is late has to write.                                              *)
Untaken == endings = <<>> \/ session = "ending" \/ canc.step \in {"append", "place", "marks"}

Writing(a) == \E w \in Caller : call[w].a = a /\ call[w].late

ToEnd ==
  Sound =>
    \A a \in Activity \ late : tools[a] \notin {Absent} \cup Closed =>
      \/ Untaken /\ a \in ids
      \/ canc.step = "tools" /\ a \in canc.acts
      \/ session = "tools" /\ a \in acts
      \/ Writing(a)

Told ==
  /\ \A a \in Activity \ late : status[a] \in Closed /\ tools[a] \notin {Absent} \cup Closed =>
       \E w \in Caller : call[w].a = a
  /\ \A w \in Caller : call[w].a # Nobody /\ call[w].to = "running" =>
       /\ status[call[w].a] \notin Closed
       /\ call[w].late \/ call[w].a \in late \/ call[w].a \in ids

(* A turn that was cut short shows it, or is about to.                     *)
Shown ==
  stop \in {"cut", "lost"} =>
    /\ session = "over" \/ (session = "running" /\ mark)
    /\ \/ spoiled
       \/ canc.step \in {"append", "place"}
       \/ canc.step = "marks" /\ canc.left # {}
       \/ \E m \in Message : shown[m] = "cancelled" \/ m \in late

OutInv == CallShape /\ Gathered /\ Marking /\ ToMark /\ ToEnd /\ Told /\ Shown

LEMMA OutStays ==
  ASSUME OutInv,
         UNCHANGED <<shown, tools, endings, owned, ids, status, mark, session, kind, acts, msgs,
                     call, canc, late, stop, spoiled>>
  PROVE  OutInv'
<1>1. CallShape' /\ Gathered'
  BY DEF OutInv, CallShape, Gathered, Calling, Open, Output, Tooling
<1>2. Marking' /\ ToMark' /\ Shown'
  BY DEF OutInv, Marking, ToMark, Sound, Shown
<1>3. ToEnd' /\ Told'
  BY DEF OutInv, ToEnd, Told, Sound, Untaken, Writing
<1> QED BY <1>1, <1>2, <1>3 DEF OutInv

LEMMA NobodyFacts == (\A m \in Message : m # Nobody) /\ (\A a \in Activity : a # Nobody)
  BY TurnAssumption

LEMMA QuietCall == /\ Quiet.op = "none" /\ Quiet.m = Nobody /\ Quiet.a = Nobody /\ ~Quiet.late
                   /\ Quiet.items = <<>> /\ Quiet.seen = <<>> /\ ~Tooling(Quiet)
  BY DEF Quiet, Tooling

(* A sequence without the activity and what is before it.                  *)
LEMMA FirstFacts ==
  ASSUME NEW s \in Seq(Activity), NEW S, NEW i \in First(s, S)
  PROVE  s[i] \in Activity /\ s[i] \in S /\ s # <<>> /\ SubSeq(s, i + 1, Len(s)) \in Seq(Activity)
<1>1. i \in 1..Len(s) /\ s[i] \in S
  BY DEF First
<1>2. i \in Nat /\ Len(s) \in Nat
  BY <1>1
<1> QED BY <1>1, <1>2

(* What a call that goes on does to the activities.                        *)
Starts(a) == ids' = ids \cup {a} /\ status' = [status EXCEPT ![a] = "running"]
Ends(a)   == ids' = ids /\ status' = [status EXCEPT ![a] = "completed"]

Turns(c, d) ==
  \/ d = Quiet /\ UNCHANGED <<ids, status>>
  \/ /\ CallFields(d) /\ d.op = "tool" /\ d.m = Nobody /\ d.a \in Activity /\ d.late = c.late
     /\ d.items \in Seq(Activity) /\ d.seen \in Seq(Activity)
     /\ \/ c.items # <<>> /\ d.to = "running" /\ Starts(d.a)
        \/ d.to = "completed" /\ Ends(d.a)

LEMMA GoesOnTo ==
  ASSUME NEW w \in Caller, NEW c, CallFields(c), c.items \in Seq(Activity),
         c.seen \in Seq(Activity), GoOn(w, c)
  PROVE  \E d : Turns(c, d) /\ call' = [call EXCEPT ![w] = d]
<1> DEFINE unlike == {a \in Activity : a \notin known \/ a \in c.anew}
           done   == {a \in Activity : status[a] = "running" /\ a # Last(c.seen)}
           started(i) == [[c EXCEPT !.items = SubSeq(@, i + 1, Len(@))] EXCEPT
                            !.op = "tool", !.m = Nobody, !.a = c.items[i], !.to = "running"]
           ended(i)   == [[c EXCEPT !.items = <<>>, !.seen = SubSeq(@, i + 1, Len(@))] EXCEPT
                            !.op = "tool", !.m = Nobody, !.a = c.seen[i], !.to = "completed"]
<1>1. \/ \E i \in First(c.items, unlike) :
           call' = [call EXCEPT ![w] = started(i)] /\ Starts(c.items[i])
      \/ \E i \in First(c.seen, done) :
           call' = [call EXCEPT ![w] = ended(i)] /\ Ends(c.seen[i])
      \/ call' = [call EXCEPT ![w] = Quiet] /\ UNCHANGED <<ids, status>>
  BY DEF GoOn, Writes, Starts, Ends
<1> HIDE DEF unlike, done
<1>2. ASSUME NEW i \in First(c.items, unlike), call' = [call EXCEPT ![w] = started(i)],
             Starts(c.items[i])
      PROVE  \E d : Turns(c, d) /\ call' = [call EXCEPT ![w] = d]
  <2>1. /\ c.items[i] \in Activity /\ c.items # <<>>
        /\ SubSeq(c.items, i + 1, Len(c.items)) \in Seq(Activity)
    BY <1>2, FirstFacts
  <2>2. /\ CallFields(started(i)) /\ started(i).op = "tool" /\ started(i).m = Nobody
        /\ started(i).a = c.items[i] /\ started(i).late = c.late /\ started(i).to = "running"
        /\ started(i).items = SubSeq(c.items, i + 1, Len(c.items))
        /\ started(i).seen = c.seen
    BY DEF CallFields
  <2> HIDE DEF started
  <2>3. Turns(c, started(i))
    BY <1>2, <2>1, <2>2 DEF Turns
  <2> QED BY <1>2, <2>3
<1>3. ASSUME NEW i \in First(c.seen, done), call' = [call EXCEPT ![w] = ended(i)],
             Ends(c.seen[i])
      PROVE  \E d : Turns(c, d) /\ call' = [call EXCEPT ![w] = d]
  <2>1. /\ c.seen[i] \in Activity /\ SubSeq(c.seen, i + 1, Len(c.seen)) \in Seq(Activity)
        /\ <<>> \in Seq(Activity)
    BY <1>3, FirstFacts
  <2>2. /\ CallFields(ended(i)) /\ ended(i).op = "tool" /\ ended(i).m = Nobody
        /\ ended(i).a = c.seen[i] /\ ended(i).late = c.late /\ ended(i).to = "completed"
        /\ ended(i).items = <<>>
        /\ ended(i).seen = SubSeq(c.seen, i + 1, Len(c.seen))
    BY DEF CallFields
  <2> HIDE DEF ended
  <2>3. Turns(c, ended(i))
    BY <1>3, <2>1, <2>2 DEF Turns
  <2> QED BY <1>3, <2>3
<1>4. CASE call' = [call EXCEPT ![w] = Quiet] /\ UNCHANGED <<ids, status>>
  BY <1>4 DEF Turns
<1> QED BY <1>1, <1>2, <1>3, <1>4

-----------------------------------------------------------------------------
(* A call of Hermes: its last append lands or fails, or it had none, and   *)
(* it goes on as another one, or is over.                                  *)

(* What has become of the output of the call.                              *)
Landed(c) ==
  /\ c.late => Output(c) \subseteq late'
  /\ \A m \in Message \ late' :
       shown'[m] = shown[m] \/ (m = c.m /\ c # Quiet /\ ~c.late /\ shown'[m] = c.to)
  /\ \A a \in Activity \ late' :
       tools'[a] = tools[a] \/ (a = c.a /\ c # Quiet /\ ~c.late /\ tools'[a] = c.to)
  /\ c # Quiet /\ c.a # Nobody => c.a \in late' \/ tools'[c.a] = c.to

(* What becomes of the call.                                               *)
Becomes(d) ==
  \/ d = Quiet /\ UNCHANGED <<ids, status>>
  \/ /\ d.items \in Seq(Activity) /\ d.seen \in Seq(Activity)
     /\ d.to \in {"running", "completed"}
     /\ d.op \notin {"torn"}
     /\ \/ /\ d.m \in Message /\ d.a = Nobody /\ UNCHANGED <<ids, status>>
           /\ d.op = "tool" => d.items # <<>>
        \/ /\ d.m = Nobody /\ d.a \in Activity /\ d.op = "tool"
           /\ \/ d.to = "running" /\ Starts(d.a)
              \/ d.to = "completed" /\ Ends(d.a)

CallStep(w, d) ==
  /\ call' = [v \in Caller |-> IF v = w THEN d ELSE call[v]]
  /\ tools' = [a \in Activity |-> tools'[a]]
  /\ Becomes(d) /\ Landed(call[w])
  /\ Tooling(d) => \A v \in Caller : v # w => ~Tooling(call[v])
  /\ UNCHANGED <<endings, session, kind, acts, msgs, mark, canc, stop, spoiled>>
  /\ late \subseteq late'
  /\ owned \subseteq owned'
  /\ Open /\ call[w] # Quiet /\ call[w].op = "send" => call[w].m \in owned' \/ call[w].m \in late'
  /\ Open /\ d.op # "send" /\ d.m # Nobody => d.m \in owned' \/ d.m \in late'

LEMMA CallStepShape ==
  ASSUME CallShape, NEW w \in Caller, NEW d, CallStep(w, d)
  PROVE  CallShape'
<1>1. /\ tools' = [a \in Activity |-> tools'[a]] /\ status' = [a \in Activity |-> status'[a]]
  BY DEF CallShape, CallStep, Becomes, Starts, Ends
<1>2. \A v \in Caller : call'[v].items \in Seq(Activity) /\ call'[v].seen \in Seq(Activity)
  <2>1. d.items \in Seq(Activity) /\ d.seen \in Seq(Activity)
    <3>1. <<>> \in Seq(Activity)
      OBVIOUS
    <3> QED BY <3>1, QuietCall DEF CallStep, Becomes
  <2> QED BY <2>1 DEF CallShape, CallStep
<1>3. ASSUME NEW v \in Caller, call'[v] # Quiet
      PROVE  /\ call'[v].to \in {"running", "completed"}
             /\ \/ call'[v].m \in Message /\ call'[v].a = Nobody
                \/ call'[v].m = Nobody /\ call'[v].a \in Activity /\ call'[v].op # "send"
             /\ call'[v].op = "tool" => Tooling(call'[v])
             /\ call'[v].op = "torn" => Output(call'[v]) \subseteq late'
  <2>1. CASE v = w
    <3>1. call'[v] = d /\ d # Quiet
      BY <1>3, <2>1 DEF CallStep
    <3>2. d.op = "tool" => Tooling(d)
      BY <3>1, NobodyFacts DEF CallStep, Becomes, Tooling
    <3> QED BY <3>1, <3>2 DEF CallStep, Becomes
  <2>2. CASE v # w
    <3>1. call'[v] = call[v] /\ late \subseteq late'
      BY <2>2 DEF CallStep
    <3> QED BY <1>3, <3>1 DEF CallShape, Calling
  <2> QED BY <2>1, <2>2
<1>4. ASSUME NEW u \in Caller, NEW v \in Caller, Tooling(call'[u]), Tooling(call'[v])
      PROVE  u = v
  BY <1>4 DEF CallShape, CallStep
<1> QED BY <1>1, <1>2, <1>3, <1>4 DEF CallShape, Calling

LEMMA CallStepMessages ==
  ASSUME IInv, CallShape, Gathered, Marking, ToMark, NEW w \in Caller, NEW d, CallStep(w, d)
  PROVE  Gathered' /\ Marking' /\ ToMark'
<1>1. Open' = Open
  BY DEF CallStep, Open
<1>2. ASSUME Open
      PROVE  /\ \A m \in Message \ late' : shown'[m] # Absent => m \in owned'
             /\ \A v \in Caller : call'[v] # Quiet /\ call'[v].op # "send" /\ call'[v].m # Nobody =>
                  call'[v].m \in owned' \/ call'[v].m \in late'
             /\ canc'.step = "marks" => canc'.left \subseteq owned'
             /\ canc'.step = "place" => canc'.m \in owned'
  <2>1. \A m \in Message \ late' : shown'[m] # Absent => m \in owned'
    <3> SUFFICES ASSUME NEW m \in Message \ late', shown'[m] # Absent PROVE m \in owned'
      OBVIOUS
    <3>1. CASE shown'[m] = shown[m]
      BY <1>2, <3>1 DEF CallStep, Gathered
    <3>2. CASE shown'[m] # shown[m]
      <4>1. m = call[w].m /\ call[w] # Quiet
        BY <3>2 DEF CallStep, Landed
      <4>2. CASE call[w].op = "send"
        BY <1>2, <4>1, <4>2 DEF CallStep
      <4>3. CASE call[w].op # "send"
        BY <1>2, <4>1, <4>3, NobodyFacts DEF CallStep, Gathered, Calling
      <4> QED BY <4>2, <4>3
    <3> QED BY <3>1, <3>2
  <2>2. \A v \in Caller : call'[v] # Quiet /\ call'[v].op # "send" /\ call'[v].m # Nobody =>
          call'[v].m \in owned' \/ call'[v].m \in late'
    BY <1>2 DEF CallStep, Gathered, Calling
  <2>3. /\ canc'.step = "marks" => canc'.left \subseteq owned'
        /\ canc'.step = "place" => canc'.m \in owned'
    BY <1>2 DEF CallStep, Gathered
  <2> QED BY <2>1, <2>2, <2>3
<1>3. Gathered'
  BY <1>1, <1>2 DEF Gathered, Calling
<1>4. Marking'
  BY DEF CallStep, Marking
<1>5. ToMark'
  <2> SUFFICES ASSUME endings # <<>>, Sound, NEW m \in Message \ late',
                      shown'[m] \notin {Absent} \cup ToSet(endings)
               PROVE  \/ canc.step = "marks" /\ m \in canc.left
                      \/ session \in {"ending", "tools"}
                      \/ session = "messages" /\ m \in msgs
    BY DEF ToMark, Sound, CallStep
  <2>1. Begun
    BY DEF Begun
  <2>2. shown'[m] = shown[m]
    BY <2>1 DEF CallStep, Landed, IInv, AllLate, Calling
  <2> QED BY <2>2 DEF ToMark, CallStep
<1> QED BY <1>3, <1>4, <1>5

LEMMA CallStepActivities ==
  ASSUME IInv, CallShape, ToEnd, Told, NEW w \in Caller, NEW d, CallStep(w, d)
  PROVE  ToEnd' /\ Told'
<1> DEFINE c == call[w]
<1>0. /\ \A v \in Caller : v # w => call'[v] = call[v]
      /\ call'[w] = d /\ late \subseteq late' /\ ids \subseteq ids'
      /\ status = [a \in Activity |-> status[a]]
  BY DEF CallStep, Becomes, Starts, Ends, CallShape
<1>1. /\ c.late => Output(c) \subseteq late'
      /\ \A a \in Activity \ late' :
           tools'[a] = tools[a] \/ (a = c.a /\ c # Quiet /\ ~c.late /\ tools'[a] = c.to)
      /\ c # Quiet /\ c.a # Nobody => c.a \in late' \/ tools'[c.a] = c.to
  BY DEF CallStep, Landed
<1>2. c # Quiet /\ ~c.late => ~Begun
  BY DEF IInv, AllLate, Calling
<1>3. c # Quiet => c.to \in {"running", "completed"}
  BY DEF CallShape, Calling
<1>4. c.a # Nobody => c # Quiet
  BY QuietCall
<1>5. \A a \in Activity : a = c.a /\ c.late => a \in late'
  BY <1>1, NobodyFacts DEF Output
<1> HIDE DEF c
<1>6. ToEnd'
  <2> SUFFICES ASSUME Sound, NEW a \in Activity \ late', tools'[a] \notin {Absent} \cup Closed
               PROVE  \/ Untaken /\ a \in ids'
                      \/ canc.step = "tools" /\ a \in canc.acts
                      \/ session = "tools" /\ a \in acts
                      \/ \E v \in Caller : call'[v].a = a /\ call'[v].late
    BY DEF ToEnd, Sound, CallStep, Untaken, Writing
  <2>1. CASE tools'[a] = tools[a]
    <3>1. CASE Writing(a)
      BY <1>0, <1>5, <3>1 DEF Writing, c
    <3>2. CASE ~Writing(a)
      BY <1>0, <2>1, <3>2 DEF ToEnd
    <3> QED BY <3>1, <3>2
  <2>2. CASE tools'[a] # tools[a]
    <3>1. a = c.a /\ c # Quiet /\ ~c.late /\ tools'[a] = c.to /\ ~Begun
      BY <1>1, <1>2, <2>2
    <3>2. c.to = "running"
      BY <1>3, <3>1 DEF Closed
    <3>3. a \in ids
      BY <1>0, <3>1, <3>2, NobodyFacts DEF Told, c
    <3>4. Untaken
      BY <3>1 DEF Begun, Untaken
    <3> QED BY <1>0, <3>3, <3>4
  <2> QED BY <2>1, <2>2
<1>7. ASSUME NEW a \in Activity \ late', status'[a] \in Closed,
             tools'[a] \notin {Absent} \cup Closed
      PROVE  \E v \in Caller : call'[v].a = a
  <2>1. CASE status'[a] = status[a]
    <3>1. a # c.a
      <4>1. ASSUME a = c.a PROVE FALSE
        <5>1. tools'[a] = c.to /\ c # Quiet
          BY <1>1, <1>4, <4>1, NobodyFacts
        <5>2. c.to = "running"
          BY <1>3, <1>7, <5>1 DEF Closed
        <5> QED BY <1>7, <2>1, <4>1, <5>2, NobodyFacts DEF Told, c
      <4> QED BY <4>1
    <3>2. tools'[a] = tools[a]
      BY <1>1, <3>1
    <3>3. PICK v \in Caller : call[v].a = a
      BY <1>0, <1>7, <2>1, <3>2 DEF Told
    <3> QED BY <1>0, <3>1, <3>3 DEF c
  <2>2. CASE status'[a] # status[a]
    <3>1. d.a = a
      BY <1>0, <1>7, <2>2 DEF CallStep, Becomes, Starts, Ends, Closed
    <3> QED BY <1>0, <3>1
  <2> QED BY <2>1, <2>2
<1>8. ASSUME NEW v \in Caller, call'[v].a # Nobody, call'[v].to = "running"
      PROVE  /\ status'[call'[v].a] \notin Closed
             /\ call'[v].late \/ call'[v].a \in late' \/ call'[v].a \in ids'
  <2>1. CASE v = w
    <3>1. d.a \in Activity /\ Starts(d.a)
      BY <1>0, <1>8, <2>1, QuietCall DEF CallStep, Becomes
    <3>2. status'[d.a] = "running" /\ d.a \in ids'
      BY <1>0, <3>1 DEF Starts
    <3> QED BY <1>0, <2>1, <3>2 DEF Closed
  <2>2. CASE v # w
    <3>1. call'[v] = call[v] /\ Tooling(call[v])
      BY <1>0, <1>8, <2>2 DEF Tooling
    <3>2. ~Tooling(d)
      BY <2>2, <3>1 DEF CallStep
    <3>3. d.a = Nobody
      BY <3>2 DEF Tooling
    <3>4. status' = status
      BY <3>3, NobodyFacts DEF CallStep, Becomes
    <3> QED BY <1>0, <1>8, <3>1, <3>4 DEF Told
  <2> QED BY <2>1, <2>2
<1>9. Told'
  BY <1>7, <1>8 DEF Told
<1> QED BY <1>6, <1>9

LEMMA CallStepShown ==
  ASSUME IInv, Shown, NEW w \in Caller, NEW d, CallStep(w, d)
  PROVE  Shown'
<1>1. ASSUME NEW m \in Message, shown[m] = "cancelled" \/ m \in late
      PROVE  shown'[m] = "cancelled" \/ m \in late'
  <2>1. CASE m \in late
    BY <2>1 DEF CallStep
  <2>2. CASE m \notin late'
    <3>1. CASE shown[m] = "cancelled"
      <4>1. Begun
        BY <3>1 DEF IInv, Stored, Begun
      <4> QED BY <2>2, <3>1, <4>1 DEF CallStep, Landed, IInv, AllLate, Calling
    <3> QED BY <1>1, <2>1, <3>1
  <2> QED BY <2>1, <2>2
<1> QED BY <1>1 DEF Shown, CallStep

LEMMA CallStepOut ==
  ASSUME IInv, OutInv, NEW w \in Caller, NEW d, CallStep(w, d)
  PROVE  OutInv'
BY CallStepShape, CallStepMessages, CallStepActivities, CallStepShown DEF OutInv

LEMMA CallIs ==
  ASSUME IInv, NEW w \in Caller, NEW d, call' = [call EXCEPT ![w] = d]
  PROVE  call' = [v \in Caller |-> IF v = w THEN d ELSE call[v]]
BY DEF IInv, Shape

LEMMA QuietLands ==
  ASSUME NEW w \in Caller, call[w] = Quiet, UNCHANGED <<shown, tools, late>>
  PROVE  Landed(call[w])
BY QuietCall DEF Landed

LEMMA SendOut ==
  ASSUME IInv, OutInv, NEW w \in Caller, NEW m \in Message, Send(w, m)
  PROVE  OutInv'
<1> DEFINE d == [[Quiet EXCEPT !.op = "send", !.m = m, !.to = "running"] EXCEPT !.late = Overdue]
<1>1. /\ d.op = "send" /\ d.m = m /\ d.a = Nobody /\ d.to = "running"
      /\ d.items = <<>> /\ d.seen = <<>>
  BY DEF Quiet
<1>2. /\ call' = [call EXCEPT ![w] = d] /\ call[w] = Quiet
      /\ UNCHANGED <<shown, tools, late, endings, session, kind, acts, msgs, mark, canc, stop,
                     spoiled, owned, ids, status>>
  BY DEF Send, Begin, output, lives, ending
<1> HIDE DEF d
<1>3. Becomes(d) /\ ~Tooling(d)
  <2>1. <<>> \in Seq(Activity)
    OBVIOUS
  <2> QED BY <1>1, <1>2, <2>1 DEF Becomes, Tooling
<1>4. tools' = [a \in Activity |-> tools'[a]]
  BY <1>2 DEF OutInv, CallShape
<1>5. CallStep(w, d)
  BY <1>1, <1>2, <1>3, <1>4, CallIs, QuietLands DEF CallStep
<1> QED BY <1>5, CallStepOut

LEMMA EditOut ==
  ASSUME IInv, OutInv, NEW w \in Caller, NEW m \in Message, NEW to \in {"running", "completed"},
         Edit(w, m, to)
  PROVE  OutInv'
<1> DEFINE d == [[Quiet EXCEPT !.op = "edit", !.m = m, !.to = to] EXCEPT !.late = Overdue]
<1>1. /\ d.op = "edit" /\ d.m = m /\ d.a = Nobody /\ d.to = to
      /\ d.items = <<>> /\ d.seen = <<>>
  BY DEF Quiet
<1>2. /\ call' = [call EXCEPT ![w] = d] /\ call[w] = Quiet /\ shown[m] # Absent
      /\ UNCHANGED <<shown, tools, late, endings, session, kind, acts, msgs, mark, canc, stop,
                     spoiled, owned, ids, status>>
  BY DEF Edit, Begin, output, tables, lives, ending
<1> HIDE DEF d
<1>3. Becomes(d) /\ ~Tooling(d)
  <2>1. <<>> \in Seq(Activity)
    OBVIOUS
  <2> QED BY <1>1, <1>2, <2>1 DEF Becomes, Tooling
<1>4. tools' = [a \in Activity |-> tools'[a]]
  BY <1>2 DEF OutInv, CallShape
<1>5. Open => m \in owned \/ m \in late
  BY <1>2 DEF OutInv, Gathered
<1>6. CallStep(w, d)
  BY <1>1, <1>2, <1>3, <1>4, <1>5, CallIs, QuietLands DEF CallStep
<1> QED BY <1>6, CallStepOut

(* What goes on is as a call becomes.                                      *)
LEMMA TurnsBecomes ==
  ASSUME NEW c, NEW d, Turns(c, d)
  PROVE  Becomes(d) /\ (d.op # "send" => d.m = Nobody)
<1>1. CASE d = Quiet /\ UNCHANGED <<ids, status>>
  BY <1>1, QuietCall DEF Becomes
<1>2. CASE ~(d = Quiet /\ UNCHANGED <<ids, status>>)
  BY <1>2 DEF Turns, Becomes
<1> QED BY <1>1, <1>2

LEMMA ProgressOut ==
  ASSUME IInv, OutInv, NEW w \in Caller, NEW list \in Reports, NEW anew,
         Progress(w, list, anew)
  PROVE  OutInv'
<1> DEFINE c == [Quiet EXCEPT !.op = "tool", !.items = list, !.seen = list,
                              !.anew = anew, !.late = Overdue]
<1>1. /\ CallFields(c) /\ c.items = list /\ c.seen = list /\ c.a = Nobody /\ c.op = "tool"
      /\ list \in Seq(Activity) /\ list # <<>>
  BY TurnAssumption DEF CallFields, Quiet
<1>2. /\ UNCHANGED <<shown, tools, late, endings, session, kind, acts, msgs, mark, canc, stop,
                     spoiled>>
      /\ call[w] = Quiet /\ \A v \in Caller : ~Tooling(call[v])
  BY DEF Progress, output, lives, ending, Tooling
<1>3. tools' = [a \in Activity |-> tools'[a]]
  BY <1>2 DEF OutInv, CallShape
<1>4. CASE GoOn(w, c) /\ UNCHANGED <<owned, turnOf>>
  <2> HIDE DEF c
  <2>1. PICK d : Turns(c, d) /\ call' = [call EXCEPT ![w] = d]
    BY <1>1, <1>4, GoesOnTo
  <2>2. Becomes(d) /\ (d.op # "send" => d.m = Nobody)
    BY <2>1, TurnsBecomes
  <2>3. CallStep(w, d)
    BY <1>2, <1>3, <1>4, <2>1, <2>2, CallIs, QuietLands DEF CallStep
  <2> QED BY <2>3, CallStepOut
<1>5. ASSUME NEW m \in Message, owned = {}, owned' = {m}, UNCHANGED <<ids, status>>,
             call' = [call EXCEPT ![w] = [c EXCEPT !.m = m, !.to = "running"]]
      PROVE  OutInv'
  <2> DEFINE d == [c EXCEPT !.m = m, !.to = "running"]
  <2>1. d.op = "tool" /\ d.m = m /\ d.to = "running" /\ d.items = list /\ d.seen = list
        /\ d.a = Nobody
    BY <1>1 DEF CallFields
  <2>2. call' = [call EXCEPT ![w] = d]
    BY <1>5
  <2> HIDE DEF d, c
  <2>3. Becomes(d)
    BY <1>1, <1>5, <2>1 DEF Becomes
  <2>4. CallStep(w, d)
    BY <1>2, <1>3, <1>5, <2>1, <2>2, <2>3, CallIs, QuietLands DEF CallStep
  <2> QED BY <2>4, CallStepOut
<1>6. \/ GoOn(w, c) /\ UNCHANGED <<owned, turnOf>>
      \/ \E m \in Message :
           /\ owned = {} /\ owned' = {m} /\ UNCHANGED <<ids, status>>
           /\ call' = [call EXCEPT ![w] = [c EXCEPT !.m = m, !.to = "running"]]
  BY DEF Progress
<1> HIDE DEF c
<1> QED BY <1>4, <1>5, <1>6

LEMMA LandOut == ASSUME IInv, OutInv, NEW w \in Caller, Land(w) PROVE OutInv'
<1> DEFINE c == call[w]
<1>1. /\ c # Quiet
      /\ c.to \in {"running", "completed"}
      /\ \/ c.m \in Message /\ c.a = Nobody
         \/ c.m = Nobody /\ c.a \in Activity /\ c.op # "send"
      /\ c.op = "tool" => Tooling(c)
      /\ CallFields(c) /\ c.items \in Seq(Activity) /\ c.seen \in Seq(Activity)
  BY DEF Land, OutInv, CallShape, Calling, IInv, Shape
<1>2. /\ IF c.m # Nobody
         THEN shown' = [shown EXCEPT ![c.m] = c.to] /\ UNCHANGED tools
         ELSE tools' = [tools EXCEPT ![c.a] = c.to] /\ UNCHANGED shown
      /\ late' = IF c.late THEN late \cup Output(c) ELSE late
      /\ c.op = "send" => owned' = owned \cup {c.m}
      /\ c.op # "send" => owned' = owned
      /\ UNCHANGED <<endings, session, kind, acts, msgs, mark, canc, stop, spoiled>>
  BY DEF Land, lives, ending
<1>3. \E d : /\ Turns(c, d) /\ call' = [call EXCEPT ![w] = d]
             /\ c.op = "tool" \/ d = Quiet
  <2>1. CASE c.op = "tool"
    <3>1. GoOn(w, c)
      BY <2>1 DEF Land
    <3> HIDE DEF c
    <3> QED BY <1>1, <2>1, <3>1, GoesOnTo
  <2>2. CASE c.op # "tool"
    <3>1. call' = [call EXCEPT ![w] = Quiet] /\ UNCHANGED <<ids, status>>
      BY <2>2 DEF Land
    <3> QED BY <3>1 DEF Turns
  <2> QED BY <2>1, <2>2
<1>4. PICK d : /\ Turns(c, d) /\ call' = [call EXCEPT ![w] = d]
               /\ c.op = "tool" \/ d = Quiet
  BY <1>3
<1>5. shown = [m \in Message |-> shown[m]] /\ tools = [a \in Activity |-> tools[a]]
  BY DEF IInv, Shape, OutInv, CallShape
<1>6. Tooling(d) => \A v \in Caller : v # w => ~Tooling(call[v])
  BY <1>1, <1>4, QuietCall DEF OutInv, CallShape
<1> HIDE DEF c
<1>7. tools' = [a \in Activity |-> tools'[a]]
  BY <1>1, <1>2, <1>5
<1>8. Landed(c)
  <2>1. c.late => Output(c) \subseteq late'
    BY <1>2
  <2>2. \A m \in Message \ late' :
          shown'[m] = shown[m] \/ (m = c.m /\ c # Quiet /\ ~c.late /\ shown'[m] = c.to)
    BY <1>1, <1>2, <1>5, <2>1, NobodyFacts DEF Output
  <2>3. \A a \in Activity \ late' :
          tools'[a] = tools[a] \/ (a = c.a /\ c # Quiet /\ ~c.late /\ tools'[a] = c.to)
    BY <1>1, <1>2, <1>5, <2>1, NobodyFacts DEF Output
  <2>4. c # Quiet /\ c.a # Nobody => c.a \in late' \/ tools'[c.a] = c.to
    BY <1>1, <1>2, <1>5
  <2> QED BY <2>1, <2>2, <2>3, <2>4 DEF Landed
<1>9. Becomes(d) /\ (d.op # "send" => d.m = Nobody)
  BY <1>4, TurnsBecomes
<1>10. CallStep(w, d)
  BY <1>2, <1>4, <1>6, <1>7, <1>8, <1>9, CallIs DEF CallStep, c
<1> QED BY <1>10, CallStepOut

LEMMA CallFailsOut == ASSUME IInv, OutInv, NEW w \in Caller, CallFails(w) PROVE OutInv'
<1>1. /\ call' = [call EXCEPT ![w] = Quiet] /\ late' = late \cup Output(call[w])
      /\ UNCHANGED <<shown, tools, endings, session, kind, acts, msgs, mark, canc, stop,
                     spoiled, owned, ids, status>>
  BY DEF CallFails, output, tables, lives, ending
<1>2. Landed(call[w])
  BY <1>1 DEF Landed, Output
<1>3. Becomes(Quiet) /\ ~Tooling(Quiet)
  BY <1>1, QuietCall DEF Becomes
<1>4. tools' = [a \in Activity |-> tools'[a]]
  BY <1>1 DEF OutInv, CallShape
<1>5. Open /\ call[w] # Quiet => call[w].m \in late' \/ call[w].m = Nobody
  BY <1>1 DEF Output
<1>6. call[w] # Quiet /\ call[w].op = "send" => call[w].m # Nobody
  BY NobodyFacts DEF OutInv, CallShape, Calling
<1>7. CallStep(w, Quiet)
  BY <1>1, <1>2, <1>3, <1>4, <1>5, <1>6, QuietCall, CallIs DEF CallStep
<1> QED BY <1>7, CallStepOut

LEMMA HermesOut == ASSUME IInv, OutInv, HermesCalls PROVE OutInv'
<1>1. ASSUME NEW w \in Caller,
             \/ \E m \in Message : Send(w, m)
             \/ \E m \in Message, to \in {"running", "completed"} : Edit(w, m, to)
             \/ \E list \in Reports, anew \in SUBSET known : Progress(w, list, anew)
             \/ Land(w) \/ CallFails(w)
      PROVE  OutInv'
  BY <1>1, SendOut, EditOut, ProgressOut, LandOut, CallFailsOut
<1> QED BY <1>1 DEF HermesCalls

-----------------------------------------------------------------------------
(* The cancellation and the completion: the calls in progress stay what    *)
(* they are, but may become late, or be torn.                              *)

CallsStay ==
  /\ late \subseteq late'
  /\ \A w \in Caller :
       \/ call'[w] = Quiet /\ (call[w] # Quiet => Output(call[w]) \subseteq late')
       \/ /\ call[w] # Quiet
          /\ call'[w].m = call[w].m /\ call'[w].a = call[w].a /\ call'[w].to = call[w].to
          /\ call'[w].items = call[w].items /\ call'[w].seen = call[w].seen
          /\ call[w].late => call'[w].late
          /\ \/ call'[w].op = call[w].op
             \/ call'[w].op = "torn" /\ Output(call[w]) \subseteq late'

LEMMA SameCalls == ASSUME call' = call, late \subseteq late' PROVE CallsStay
BY DEF CallsStay

LEMMA OvertakenStay ==
  ASSUME IInv, call' = Overtaken, late \subseteq late'
  PROVE  CallsStay
<1>1. ASSUME NEW w \in Caller
      PROVE  \/ call'[w] = Quiet /\ call[w] = Quiet
             \/ call[w] # Quiet /\ call'[w] = [call[w] EXCEPT !.late = TRUE]
  BY DEF Overtaken
<1>2. ASSUME NEW w \in Caller, call[w] # Quiet, call'[w] = [call[w] EXCEPT !.late = TRUE]
      PROVE  /\ call'[w].m = call[w].m /\ call'[w].a = call[w].a /\ call'[w].to = call[w].to
             /\ call'[w].items = call[w].items /\ call'[w].seen = call[w].seen
             /\ call'[w].op = call[w].op /\ call'[w].late
  BY <1>2 DEF IInv, Shape, CallFields
<1> QED BY <1>1, <1>2 DEF CallsStay

LEMMA TornStay ==
  ASSUME IInv, call' \in TornCalls, Torn
  PROVE  CallsStay
<1>1. /\ call = [w \in Caller |-> call[w]] /\ \A w \in Caller : CallFields(call[w])
      /\ "task" \in Caller
  BY DEF IInv, Shape, Caller
<1>2. late' = late \cup Output(call["task"])
  BY DEF Torn
<1>3. ASSUME NEW w \in Caller
      PROVE  \/ call'[w] = call[w]
             \/ w = "task" /\ call'[w] = Quiet
             \/ w = "task" /\ call[w] # Quiet /\ call'[w] = [call[w] EXCEPT !.op = "torn"]
  <2>1. CASE call' = [call EXCEPT !["task"] = Quiet]
    BY <1>1, <2>1
  <2>2. CASE call' = [call EXCEPT !["task"] = IF @ = Quiet THEN @ ELSE [@ EXCEPT !.op = "torn"]]
    BY <1>1, <2>2
  <2> QED BY <2>1, <2>2 DEF TornCalls
<1>4. ASSUME NEW w \in Caller, w = "task", call[w] # Quiet,
             call'[w] = [call[w] EXCEPT !.op = "torn"]
      PROVE  /\ call'[w].m = call[w].m /\ call'[w].a = call[w].a /\ call'[w].to = call[w].to
             /\ call'[w].items = call[w].items /\ call'[w].seen = call[w].seen
             /\ call'[w].op = "torn" /\ call'[w].late = call[w].late
             /\ Output(call[w]) \subseteq late'
  BY <1>1, <1>2, <1>4 DEF CallFields
<1> QED BY <1>2, <1>3, <1>4 DEF CallsStay

LEMMA CompletingStay ==
  ASSUME IInv, NEW torn, torn \in TornCalls \/ torn = call, Torn,
         call' = [w \in Caller |-> IF torn[w] = Quiet THEN Quiet
                                   ELSE [torn[w] EXCEPT !.late = TRUE]]
  PROVE  CallsStay
<1>1. /\ call = [w \in Caller |-> call[w]] /\ \A w \in Caller : CallFields(call[w])
      /\ "task" \in Caller
  BY DEF IInv, Shape, Caller
<1>2. late' = late \cup Output(call["task"])
  BY DEF Torn
<1>3. ASSUME NEW w \in Caller
      PROVE  \/ torn[w] = call[w]
             \/ w = "task" /\ torn[w] = Quiet
             \/ w = "task" /\ call[w] # Quiet /\ torn[w] = [call[w] EXCEPT !.op = "torn"]
  <2>1. CASE torn = [call EXCEPT !["task"] = Quiet]
    BY <1>1, <2>1
  <2>2. CASE torn = [call EXCEPT !["task"] = IF @ = Quiet THEN @ ELSE [@ EXCEPT !.op = "torn"]]
    BY <1>1, <2>2
  <2> QED BY <2>1, <2>2 DEF TornCalls
<1>4. ASSUME NEW w \in Caller
      PROVE  \/ call'[w] = Quiet /\ (call[w] # Quiet => Output(call[w]) \subseteq late')
             \/ /\ call[w] # Quiet
                /\ call'[w].m = call[w].m /\ call'[w].a = call[w].a /\ call'[w].to = call[w].to
                /\ call'[w].items = call[w].items /\ call'[w].seen = call[w].seen
                /\ call[w].late => call'[w].late
                /\ \/ call'[w].op = call[w].op
                   \/ call'[w].op = "torn" /\ Output(call[w]) \subseteq late'
  <2>1. CASE torn[w] = Quiet
    BY <1>2, <1>3, <2>1
  <2>2. ASSUME torn[w] # Quiet, torn[w] = call[w]
        PROVE  /\ call[w] # Quiet
               /\ call'[w].m = call[w].m /\ call'[w].a = call[w].a /\ call'[w].to = call[w].to
               /\ call'[w].items = call[w].items /\ call'[w].seen = call[w].seen
               /\ call'[w].late /\ call'[w].op = call[w].op
    BY <1>1, <2>2 DEF CallFields
  <2>3. ASSUME torn[w] # Quiet, w = "task", call[w] # Quiet,
               torn[w] = [call[w] EXCEPT !.op = "torn"]
        PROVE  /\ call'[w].m = call[w].m /\ call'[w].a = call[w].a /\ call'[w].to = call[w].to
               /\ call'[w].items = call[w].items /\ call'[w].seen = call[w].seen
               /\ call'[w].late /\ call'[w].op = "torn" /\ Output(call[w]) \subseteq late'
    <3>1. call'[w] = [[call[w] EXCEPT !.op = "torn"] EXCEPT !.late = TRUE]
      BY <2>3
    <3> QED BY <1>1, <1>2, <2>3, <3>1 DEF CallFields
  <2> QED BY <1>3, <2>1, <2>2, <2>3
<1> QED BY <1>2, <1>4 DEF CallsStay

LEMMA StayShape ==
  ASSUME CallShape, CallsStay,
         tools' = [a \in Activity |-> tools'[a]], status' = [a \in Activity |-> status'[a]]
  PROVE  CallShape'
<1>1. \A w \in Caller : call'[w].items \in Seq(Activity) /\ call'[w].seen \in Seq(Activity)
  <2>1. <<>> \in Seq(Activity)
    OBVIOUS
  <2>2. ASSUME NEW w \in Caller
        PROVE  call'[w].items \in Seq(Activity) /\ call'[w].seen \in Seq(Activity)
    <3>1. CASE call'[w] = Quiet
      BY <2>1, <3>1, QuietCall
    <3>2. CASE call'[w] # Quiet
      BY <3>2 DEF CallShape, CallsStay
    <3> QED BY <3>1, <3>2
  <2> QED BY <2>2
<1>2. ASSUME NEW w \in Caller, call'[w] # Quiet
      PROVE  /\ call'[w].to \in {"running", "completed"}
             /\ \/ call'[w].m \in Message /\ call'[w].a = Nobody
                \/ call'[w].m = Nobody /\ call'[w].a \in Activity /\ call'[w].op # "send"
             /\ call'[w].op = "tool" => Tooling(call'[w])
             /\ call'[w].op = "torn" => Output(call'[w]) \subseteq late'
  <2>1. /\ call[w] # Quiet /\ late \subseteq late'
        /\ call'[w].m = call[w].m /\ call'[w].a = call[w].a /\ call'[w].to = call[w].to
        /\ call'[w].items = call[w].items
        /\ \/ call'[w].op = call[w].op
           \/ call'[w].op = "torn" /\ Output(call[w]) \subseteq late'
    BY <1>2 DEF CallsStay
  <2>2. Output(call'[w]) = Output(call[w]) /\ Tooling(call'[w]) = Tooling(call[w])
    BY <2>1 DEF Output, Tooling
  <2> QED BY <2>1, <2>2 DEF CallShape, Calling
<1>3. \A w \in Caller : Tooling(call'[w]) => Tooling(call[w])
  BY QuietCall DEF CallsStay, Tooling
<1> QED BY <1>1, <1>2, <1>3 DEF CallShape, Calling

LEMMA StayGathered ==
  ASSUME CallShape, Gathered, CallsStay,
         Open' => Open /\ owned \subseteq owned',
         Open' => \A m \in Message \ late : shown'[m] # Absent => shown[m] # Absent \/ m \in owned',
         Open' /\ canc'.step = "marks" => canc'.left \subseteq owned',
         Open' /\ canc'.step = "place" => canc'.m \in owned'
  PROVE  Gathered'
<1>1. ASSUME Open', NEW w \in Caller, call'[w] # Quiet, call'[w].op # "send",
             call'[w].m # Nobody
      PROVE  call'[w].m \in owned' \/ call'[w].m \in late'
  <2>1. /\ call[w] # Quiet /\ call'[w].m = call[w].m
        /\ call[w].op # "send" \/ Output(call[w]) \subseteq late'
    BY <1>1 DEF CallsStay
  <2> QED BY <1>1, <2>1 DEF Gathered, Calling, Output, CallsStay
<1>2. ASSUME Open' PROVE \A m \in Message \ late' : shown'[m] # Absent => m \in owned'
  BY <1>2 DEF Gathered, CallsStay
<1> QED BY <1>1, <1>2 DEF Gathered, Calling

(* The ids may be taken out of the table only when the calls are late.     *)
LEMMA StayTold ==
  ASSUME IInv, CallShape, Told, CallsStay,
         \A a \in Activity : status'[a] \in Closed => status'[a] = status[a],
         \A a \in Activity \ late' : tools'[a] = tools[a] \/ tools'[a] \in Closed,
         ids' = ids \/ Begun
  PROVE  Told'
<1>1. ASSUME NEW a \in Activity \ late', status'[a] \in Closed,
             tools'[a] \notin {Absent} \cup Closed
      PROVE  \E w \in Caller : call'[w].a = a
  <2>1. status[a] \in Closed /\ tools[a] \notin {Absent} \cup Closed /\ a \notin late
    BY <1>1 DEF CallsStay
  <2>2. PICK w \in Caller : call[w].a = a
    BY <2>1 DEF Told
  <2>3. call[w] # Quiet
    BY <2>2, QuietCall, NobodyFacts
  <2>4. call'[w].a = a
    BY <1>1, <2>2, <2>3, NobodyFacts DEF CallsStay, Output
  <2> QED BY <2>4
<1>2. ASSUME NEW w \in Caller, call'[w].a # Nobody, call'[w].to = "running"
      PROVE  /\ status'[call'[w].a] \notin Closed
             /\ call'[w].late \/ call'[w].a \in late' \/ call'[w].a \in ids'
  <2>1. /\ call[w] # Quiet /\ call'[w].a = call[w].a /\ call[w].to = "running"
        /\ call[w].late => call'[w].late
    BY <1>2, QuietCall DEF CallsStay
  <2>2. call[w].a \in Activity
    BY <1>2, <2>1 DEF CallShape, Calling
  <2>3. status'[call[w].a] \notin Closed
    BY <1>2, <2>1, <2>2 DEF Told
  <2>4. Begun => call[w].late
    BY <2>1 DEF IInv, AllLate, Calling
  <2> QED BY <1>2, <2>1, <2>3, <2>4 DEF Told, CallsStay
<1> QED BY <1>1, <1>2 DEF Told

(* An activity whose end a call has to write waits on for it.              *)
LEMMA StayWriting ==
  ASSUME CallsStay, NEW a \in Activity \ late', Writing(a)
  PROVE  \E w \in Caller : call'[w].a = a /\ call'[w].late
<1>1. PICK w \in Caller : call[w].a = a /\ call[w].late
  BY DEF Writing
<1>2. call[w] # Quiet
  BY <1>1, QuietCall
<1>3. call'[w].a = a /\ call'[w].late
  BY <1>1, <1>2, NobodyFacts DEF CallsStay, Output
<1> QED BY <1>3

LEMMA StayToEnd ==
  ASSUME CallShape, ToEnd, CallsStay, Sound' => Sound,
         \A a \in Activity \ late' : tools'[a] \notin {Absent} \cup Closed =>
           tools'[a] = tools[a],
         Sound' => \A a \in Activity \ late' : tools'[a] \notin {Absent} \cup Closed =>
           /\ Untaken /\ a \in ids =>
                \/ Untaken' /\ a \in ids'
                \/ canc'.step = "tools" /\ a \in canc'.acts
                \/ session' = "tools" /\ a \in acts'
           /\ canc.step = "tools" /\ a \in canc.acts =>
                (canc'.step = "tools" /\ a \in canc'.acts) \/ Writing(a)
           /\ session = "tools" /\ a \in acts =>
                (session' = "tools" /\ a \in acts') \/ Writing(a)
  PROVE  ToEnd'
<1> SUFFICES ASSUME Sound', NEW a \in Activity \ late', tools'[a] \notin {Absent} \cup Closed
             PROVE  \/ Untaken' /\ a \in ids'
                    \/ canc'.step = "tools" /\ a \in canc'.acts
                    \/ session' = "tools" /\ a \in acts'
                    \/ \E w \in Caller : call'[w].a = a /\ call'[w].late
  BY DEF ToEnd, Writing
<1>1. tools[a] \notin {Absent} \cup Closed /\ a \notin late
  BY DEF CallsStay
<1>2. \/ Untaken /\ a \in ids
      \/ canc.step = "tools" /\ a \in canc.acts
      \/ session = "tools" /\ a \in acts
      \/ Writing(a)
  BY <1>1 DEF ToEnd
<1> QED BY <1>2, StayWriting

LEMMA AppendedSet ==
  ASSUME NEW s \in Seq(Kinds), NEW k \in Kinds
  PROVE  ToSet(Append(s, k)) = ToSet(s) \cup {k}
<1>1. /\ Len(s) \in Nat /\ DOMAIN s = 1..Len(s)
      /\ DOMAIN Append(s, k) = 1..(Len(s) + 1)
      /\ \A i \in 1..Len(s) : Append(s, k)[i] = s[i]
      /\ Append(s, k)[Len(s) + 1] = k
  OBVIOUS
<1>2. Len(s) + 1 \in 1..(Len(s) + 1)
  BY <1>1
<1>3. ASSUME NEW x \in ToSet(Append(s, k)) PROVE x \in ToSet(s) \cup {k}
  <2>1. PICK i \in 1..(Len(s) + 1) : x = Append(s, k)[i]
    BY <1>1, <1>3 DEF ToSet
  <2>2. i = Len(s) + 1 \/ i \in 1..Len(s)
    BY <1>1, <2>1
  <2> QED BY <1>1, <2>1, <2>2 DEF ToSet
<1>4. ASSUME NEW x \in ToSet(s) PROVE x \in ToSet(Append(s, k))
  <2>1. PICK i \in 1..Len(s) : x = s[i]
    BY <1>1, <1>4 DEF ToSet
  <2>2. i \in 1..(Len(s) + 1) /\ x = Append(s, k)[i]
    BY <1>1, <2>1
  <2> QED BY <1>1, <2>2 DEF ToSet
<1>5. k \in ToSet(Append(s, k))
  BY <1>1, <1>2 DEF ToSet
<1> QED BY <1>3, <1>4, <1>5

-----------------------------------------------------------------------------
(* The cancellation.                                                       *)

(* It begins, or is over, and touches no output.                           *)
LEMMA CancStep ==
  ASSUME IInv, OutInv, CallsStay, late' = late, Shown',
         UNCHANGED <<shown, tools, endings, owned, ids, status, session, kind, acts, msgs>>,
         Sound' => Sound /\ (canc.step \in {"free", "stop"}
                              \/ (canc.step = "tools" /\ canc.acts = {})),
         session = "over" /\ Open' => Open,
         canc'.step \notin {"place", "marks", "tools"}
  PROVE  OutInv'
<1>1. CallShape'
  BY StayShape DEF OutInv, CallShape
<1>2. Open' => Open
  BY DEF Open
<1>3. Gathered'
  BY <1>2, StayGathered DEF OutInv
<1>4. Marking'
  BY DEF OutInv, Marking
<1>5. ToMark'
  <2> SUFFICES ASSUME endings # <<>>, Sound', NEW m \in Message \ late,
                      shown[m] \notin {Absent} \cup ToSet(endings)
               PROVE  session \in {"ending", "tools"} \/ (session = "messages" /\ m \in msgs)
    BY DEF ToMark
  <2>1. Sound /\ canc.step # "marks"
    OBVIOUS
  <2> QED BY <2>1 DEF OutInv, ToMark
<1>6. ToEnd'
  <2>1. Sound' => Sound
    OBVIOUS
  <2>2. ASSUME Sound', Untaken PROVE Untaken'
    BY <2>2 DEF Untaken
  <2> QED BY <2>1, <2>2, StayToEnd DEF OutInv
<1>7. Told'
  BY StayTold DEF OutInv
<1> QED BY <1>1, <1>3, <1>4, <1>5, <1>6, <1>7 DEF OutInv

LEMMA CancelOut ==
  ASSUME IInv, OutInv, Cancel, canc.step \in {"free", "stop"},
         UNCHANGED <<output, tables, active, requested, ending, late, spoiled>>
  PROVE  OutInv'
<1>1. UNCHANGED <<shown, tools, endings, owned, ids, status, session, kind, acts, msgs>>
  BY DEF output, tables, ending
<1>2. CASE mark
  <2>1. canc' = Free /\ UNCHANGED <<mark, call, stop>>
    BY <1>2 DEF Cancel
  <2>2. canc'.step = "free"
    BY <2>1, FreeSteps
  <2>3. Shown'
    BY <1>1, <2>1, <2>2 DEF OutInv, Shown
  <2>4. Sound' = Sound /\ Open' = Open
    BY <1>1, <2>1 DEF Sound, Open
  <2>5. CallsStay
    BY <2>1, SameCalls
  <2> QED BY <1>1, <2>2, <2>3, <2>4, <2>5, CancStep
<1>3. CASE ~mark
  <2>1. /\ mark' /\ canc' = [Free EXCEPT !.step = "append"] /\ call' = Overtaken
        /\ stop' = CASE stop = "lost" -> "lost"
                    [] stop # "lost" /\ (endings # <<>> \/ session \in {"ending", "tools", "messages"})
                         -> "late"
                    [] OTHER -> "cut"
    BY <1>3 DEF Cancel
  <2>2. canc'.step = "append"
    BY <2>1, FreeSteps
  <2>3. (stop' = "lost") = (stop = "lost")
    BY <2>1
  <2>4. stop' = "cut" => session \in {"running", "over"}
    BY <2>1 DEF OutInv, Marking
  <2>5. Shown'
    BY <1>1, <2>1, <2>2, <2>3, <2>4 DEF OutInv, Shown
  <2>6. Sound' = Sound /\ Open' = Open
    BY <1>1, <2>3 DEF Sound, Open
  <2>7. CallsStay
    BY <2>1, OvertakenStay
  <2> QED BY <1>1, <2>2, <2>5, <2>6, <2>7, CancStep
<1> QED BY <1>2, <1>3

LEMMA AskCancelOut == ASSUME IInv, OutInv, AskCancel \/ StopFails PROVE OutInv'
<1>1. /\ UNCHANGED <<shown, tools, endings, owned, ids, status, session, kind, acts, msgs, mark,
                     call, late, stop>>
      /\ canc.step \in {"free", "stop"} /\ canc'.step \in {"free", "stop"}
      /\ spoiled' = spoiled \/ spoiled'
  BY FreeSteps DEF AskCancel, StopFails, output, tables, lives, ending
<1>2. (Sound' => Sound) /\ (Open' => Open)
  BY <1>1, FreeSteps DEF Sound, Open, AskCancel, StopFails
<1>3. spoiled => spoiled'
  BY DEF AskCancel, StopFails
<1>4. Shown'
  BY <1>1, <1>3 DEF OutInv, Shown
<1> QED BY <1>1, <1>2, <1>4, SameCalls, CancStep

LEMMA CancelEndsOut == ASSUME IInv, OutInv, CancelDone \/ CancelFails PROVE OutInv'
<1>1. /\ UNCHANGED <<shown, tools, endings, owned, ids, status, session, kind, acts, msgs, mark,
                     call, late, stop>>
      /\ canc'.step = "free"
      /\ \/ spoiled' = spoiled /\ canc.step = "tools" /\ canc.acts = {}
         \/ spoiled' = TRUE
  BY FreeSteps DEF CancelDone, CancelFails, output, tables, lives, ending
<1>2. /\ Sound' => Sound /\ canc.step = "tools" /\ canc.acts = {}
      /\ Open' => Open
  BY <1>1 DEF Sound, Open
<1>3. Shown'
  BY <1>1 DEF OutInv, Shown
<1> QED BY <1>1, <1>2, <1>3, SameCalls, CancStep

LEMMA AppendCancelledOut == ASSUME IInv, OutInv, AppendCancelled PROVE OutInv'
<1>1. /\ canc.step = "append" /\ endings' = Append(endings, "cancelled")
      /\ UNCHANGED <<shown, tools, ids, status, session, kind, acts, msgs, mark, call, late,
                     stop, spoiled>>
  BY DEF AppendCancelled, lives, ending
<1>2. /\ endings' # <<>> /\ ToSet(endings') = ToSet(endings) \cup {"cancelled"}
  BY <1>1, NotNothing, AppendedSet DEF IInv, Shape, Kinds, Closed
<1>3. \/ \E m \in Message : /\ owned = {} /\ owned' = {m} /\ canc'.step = "place" /\ canc'.m = m
      \/ /\ owned # {} /\ owned' = owned /\ canc'.step = "marks" /\ canc'.left = owned
  <2>1. CancFields(canc)
    BY DEF IInv, Shape
  <2>2. \A m : [canc EXCEPT !.step = "place", !.m = m].step = "place"
               /\ [canc EXCEPT !.step = "place", !.m = m].m = m
    BY <2>1 DEF CancFields
  <2> DEFINE marking == [canc EXCEPT !.step = "marks", !.left = owned, !.base = owned,
                                     !.held = TRUE]
  <2>3. marking.step = "marks" /\ marking.left = owned
    BY <2>1 DEF CancFields
  <2>4. CASE owned = {}
    <3>1. PICK m \in Message : owned' = {m} /\ canc' = [canc EXCEPT !.step = "place", !.m = m]
      BY <2>4 DEF AppendCancelled
    <3> QED BY <2>2, <2>4, <3>1
  <2>5. CASE owned # {}
    <3>1. owned' = owned /\ canc' = marking
      BY <2>5 DEF AppendCancelled
    <3> HIDE DEF marking
    <3> QED BY <2>3, <2>5, <3>1
  <2> QED BY <2>4, <2>5
<1>4. CallsStay /\ Sound' = Sound
  BY <1>1, SameCalls DEF Sound
<1>5. CallShape'
  BY <1>1, <1>4, StayShape DEF OutInv, CallShape
<1>6. Open' => Open
  BY <1>1, <1>2 DEF Open
<1>7. Gathered'
  BY <1>1, <1>3, <1>4, <1>6, StayGathered DEF OutInv
<1>8. Marking'
  BY <1>1, <1>2, <1>3 DEF OutInv, Marking
<1>9. ToMark'
  <2> SUFFICES ASSUME Sound, NEW m \in Message \ late,
                      shown[m] \notin {Absent} \cup ToSet(endings')
               PROVE  \/ canc'.step = "marks" /\ m \in canc'.left
                      \/ session \in {"ending", "tools"}
                      \/ session = "messages" /\ m \in msgs
    BY <1>1, <1>4 DEF ToMark
  <2>1. CASE endings # <<>>
    BY <1>1, <1>2, <2>1 DEF OutInv, ToMark
  <2>2. CASE endings = <<>>
    <3>1. session # "messages"
      BY <2>2 DEF IInv, Stored
    <3>2. Open
      BY <2>2, <3>1 DEF Open, Sound, OutInv, Marking
    <3>3. m \in owned
      BY <3>2 DEF OutInv, Gathered
    <3> QED BY <1>3, <3>3
  <2> QED BY <2>1, <2>2
<1>10. ToEnd'
  <2>1. Untaken'
    BY <1>3 DEF Untaken
  <2> QED BY <1>1, <1>4, <2>1, StayToEnd DEF OutInv
<1>11. Told'
  BY <1>1, <1>4, StayTold DEF OutInv
<1>12. Shown'
  BY <1>1, <1>3 DEF OutInv, Shown
<1> QED BY <1>5, <1>7, <1>8, <1>9, <1>10, <1>11, <1>12 DEF OutInv

(* A mark is set, and the cancellation goes on to the next one or takes    *)
(* the activities.                                                         *)
LEMMA MarkOut ==
  ASSUME IInv, OutInv, NEW m \in Message, shown' = [shown EXCEPT ![m] = "cancelled"],
         canc.step \in {"place", "marks"},
         Open => m \in owned,
         canc.step = "marks" => m \in canc.left,
         UNCHANGED <<tools, endings, owned, status, session, kind, acts, msgs, mark, call, late,
                     stop>>,
         \/ spoiled' /\ canc'.step = "free" /\ ids' = ids
         \/ /\ spoiled' = spoiled /\ canc.step = "marks" /\ canc'.step = "marks"
            /\ canc'.left = canc.left \ {m} /\ canc.left # {m} /\ ids' = ids
         \/ /\ spoiled' = spoiled
            /\ canc.step = "marks" => canc.left = {m}
            /\ canc'.step = "tools" /\ canc'.acts = ids /\ ids' = {}
  PROVE  OutInv'
<1>1. /\ \A n \in Message : n # m => shown'[n] = shown[n]
      /\ shown'[m] = "cancelled"
  BY DEF IInv, Shape
<1>2. endings # <<>> /\ "cancelled" \in ToSet(endings) /\ Begun
  BY DEF IInv, Stored, OutInv, Marking, Begun
<1>3. /\ Open' => Open
      /\ Sound' => Sound /\ spoiled' = spoiled
  BY <1>2 DEF Open, Sound
<1>4. CallsStay
  BY SameCalls
<1>5. CallShape'
  BY <1>4, StayShape DEF OutInv, CallShape
<1>6. Gathered'
  <2>1. Open' => \A n \in Message \ late : shown'[n] # Absent => shown[n] # Absent \/ n \in owned'
    BY <1>1, <1>3
  <2>2. Open' /\ canc'.step = "marks" => canc'.left \subseteq owned'
    BY <1>3 DEF OutInv, Gathered
  <2> QED BY <1>3, <1>4, <2>1, <2>2, StayGathered DEF OutInv
<1>7. Marking'
  BY <1>2 DEF OutInv, Marking
<1>8. ToMark'
  <2> SUFFICES ASSUME Sound', NEW n \in Message \ late,
                      shown'[n] \notin {Absent} \cup ToSet(endings)
               PROVE  \/ canc'.step = "marks" /\ n \in canc'.left
                      \/ session \in {"ending", "tools"}
                      \/ session = "messages" /\ n \in msgs
    BY DEF ToMark
  <2>1. n # m /\ shown'[n] = shown[n] /\ Sound
    BY <1>1, <1>2, <1>3
  <2>2. \/ canc.step = "marks" /\ n \in canc.left
        \/ session \in {"ending", "tools"}
        \/ session = "messages" /\ n \in msgs
    BY <1>2, <2>1 DEF OutInv, ToMark
  <2>3. ASSUME canc.step = "marks", n \in canc.left
        PROVE  canc'.step = "marks" /\ n \in canc'.left
    <3>1. ~spoiled'
      BY DEF Sound
    <3> QED BY <2>1, <2>3, <3>1
  <2> QED BY <2>2, <2>3
<1>9. ToEnd'
  <2>1. ASSUME Sound', NEW a \in Activity, a \in ids
        PROVE  (Untaken' /\ a \in ids') \/ (canc'.step = "tools" /\ a \in canc'.acts)
    BY <1>3, <2>1 DEF Untaken, Sound
  <2> QED BY <1>3, <1>4, <2>1, StayToEnd DEF OutInv
<1>10. Told'
  BY <1>2, <1>4, StayTold DEF OutInv
<1>11. Shown'
  BY <1>1 DEF OutInv, Shown
<1> QED BY <1>5, <1>6, <1>7, <1>8, <1>9, <1>10, <1>11 DEF OutInv

LEMMA PlaceOut == ASSUME IInv, OutInv, Place PROVE OutInv'
<1>1. /\ canc.step = "place" /\ shown' = [shown EXCEPT ![canc.m] = "cancelled"]
      /\ canc' = [Free EXCEPT !.step = "tools", !.acts = ids] /\ ids' = {}
      /\ UNCHANGED <<tools, endings, owned, status, session, kind, acts, msgs, mark, call, late,
                     stop, spoiled>>
  BY DEF Place, TurnToActivities, lives, ending
<1>2. canc'.step = "tools" /\ canc'.acts = ids
  BY <1>1 DEF Free
<1>3. canc.m \in Message
  BY <1>1 DEF OutInv, Marking
<1>4. Open => canc.m \in owned
  BY <1>1 DEF OutInv, Gathered
<1> QED BY <1>1, <1>2, <1>3, <1>4, MarkOut

LEMMA MarkMessageOut == ASSUME IInv, OutInv, NEW m \in Message, MarkMessage(m) PROVE OutInv'
<1>1. /\ canc.step = "marks" /\ m \in canc.left
      /\ shown' = [shown EXCEPT ![m] = "cancelled"]
      /\ UNCHANGED <<tools, endings, owned, status, session, kind, acts, msgs, mark, call, late,
                     stop>>
  BY DEF MarkMessage, lives, ending
<1>2. Open => m \in owned
  BY <1>1 DEF OutInv, Gathered
<1>3. \/ canc' = [Free EXCEPT !.broke = TRUE] /\ spoiled' /\ ids' = ids
      \/ /\ canc' = [Free EXCEPT !.step = "tools", !.acts = ids] /\ ids' = {}
         /\ spoiled' = spoiled /\ canc.left = {m}
      \/ /\ canc' = [canc EXCEPT !.left = @ \ {m}] /\ ids' = ids /\ spoiled' = spoiled
         /\ canc.left # {m}
  BY DEF MarkMessage, TurnToActivities
<1>4. \/ spoiled' /\ canc'.step = "free" /\ ids' = ids
      \/ /\ spoiled' = spoiled /\ canc'.step = "marks" /\ canc'.left = canc.left \ {m}
         /\ canc.left # {m} /\ ids' = ids
      \/ /\ spoiled' = spoiled /\ canc.left = {m}
         /\ canc'.step = "tools" /\ canc'.acts = ids /\ ids' = {}
  BY <1>1, <1>3 DEF Free, IInv, Shape, CancFields
<1> QED BY <1>1, <1>2, <1>4, MarkOut

(* An activity is ended: unless a call has its end to write, it shows it.  *)
LEMMA ActivityEnds ==
  ASSUME IInv, OutInv, Begun, NEW a \in Activity, NEW to \in Closed, EndActivity(a, to)
  PROVE  /\ tools' = [b \in Activity |-> tools'[b]] /\ status' = [b \in Activity |-> status'[b]]
         /\ \A b \in Activity : tools'[b] = tools[b] \/ tools'[b] \in Closed
         /\ \A b \in Activity : b # a => tools'[b] = tools[b]
         /\ a \notin late /\ tools'[a] \notin {Absent} \cup Closed => Writing(a)
         /\ \A b \in Activity : status'[b] \in Closed => status'[b] = status[b]
<1>1. /\ tools = [b \in Activity |-> tools[b]] /\ status = [b \in Activity |-> status[b]]
      /\ status' = [status EXCEPT ![a] = Absent]
      /\ tools' = IF status[a] \in Closed THEN tools ELSE [tools EXCEPT ![a] = to]
  BY DEF OutInv, CallShape, EndActivity
<1>2. /\ tools' = [b \in Activity |-> tools'[b]] /\ status' = [b \in Activity |-> status'[b]]
      /\ \A b \in Activity : tools'[b] = tools[b] \/ tools'[b] \in Closed
      /\ \A b \in Activity : b # a => tools'[b] = tools[b]
      /\ \A b \in Activity : status'[b] \in Closed => status'[b] = status[b]
  BY <1>1 DEF Closed, Absent
<1>3. ASSUME a \notin late, tools'[a] \notin {Absent} \cup Closed PROVE Writing(a)
  <2>1. status[a] \in Closed /\ tools[a] \notin {Absent} \cup Closed
    BY <1>1, <1>3
  <2>2. PICK w \in Caller : call[w].a = a
    BY <1>3, <2>1 DEF OutInv, Told
  <2>3. call[w] # Quiet
    BY <2>2, QuietCall, NobodyFacts
  <2> QED BY <2>2, <2>3 DEF Writing, IInv, AllLate, Calling
<1> QED BY <1>2, <1>3

LEMMA CancelActivityOut ==
  ASSUME IInv, OutInv, NEW a \in Activity, CancelActivity(a)
  PROVE  OutInv'
<1>1. /\ canc.step = "tools" /\ canc' = [canc EXCEPT !.acts = @ \ {a}]
      /\ EndActivity(a, "failed")
      /\ UNCHANGED <<shown, endings, owned, ids, session, kind, acts, msgs, mark, call, late,
                     stop, spoiled>>
  BY DEF CancelActivity, lives, ending
<1>2. canc'.step = "tools" /\ canc'.acts = canc.acts \ {a}
  BY <1>1 DEF IInv, Shape, CancFields
<1>3. Begun /\ "failed" \in Closed
  BY <1>1 DEF Begun, Closed
<1>4. CallsStay /\ Sound' = Sound /\ Open' = Open
  BY <1>1, SameCalls DEF Sound, Open
<1>5. CallShape'
  BY <1>1, <1>3, <1>4, ActivityEnds, StayShape DEF OutInv
<1>6. Gathered' /\ Marking' /\ ToMark'
  <2>1. Gathered'
    BY <1>1, <1>2, <1>4, StayGathered DEF OutInv
  <2>2. Marking' /\ ToMark'
    BY <1>1, <1>2, <1>4 DEF OutInv, Marking, ToMark
  <2> QED BY <2>1, <2>2
<1>7. ToEnd'
  <2>1. \A b \in Activity \ late' : tools'[b] \notin {Absent} \cup Closed => tools'[b] = tools[b]
    BY <1>1, <1>3, ActivityEnds
  <2>2. Untaken' = Untaken
    BY <1>1, <1>2 DEF Untaken
  <2>3. \A b \in Activity \ late' :
          tools'[b] \notin {Absent} \cup Closed /\ b \in canc.acts =>
            b \in canc'.acts \/ Writing(b)
    BY <1>1, <1>2, <1>3, ActivityEnds
  <2> QED BY <1>1, <1>2, <1>4, <2>1, <2>2, <2>3, StayToEnd DEF OutInv
<1>8. Told'
  BY <1>1, <1>3, <1>4, ActivityEnds, StayTold DEF OutInv
<1>9. Shown'
  BY <1>1, <1>2 DEF OutInv, Shown
<1> QED BY <1>5, <1>6, <1>7, <1>8, <1>9 DEF OutInv

LEMMA CancellingOut == ASSUME IInv, OutInv, Cancelling \/ AskCancel PROVE OutInv'
<1>1. CASE Stopped
  BY <1>1, CancelOut DEF Stopped
<1> QED BY <1>1, AskCancelOut, CancelEndsOut, AppendCancelledOut, PlaceOut, MarkMessageOut,
           CancelActivityOut DEF Cancelling

-----------------------------------------------------------------------------
(* The completion.                                                         *)

LEMMA CompleteCancelledOut == ASSUME IInv, OutInv, Cut, CompleteCancelled PROVE OutInv'
<1>1. /\ session = "running" /\ mark /\ session' = "over"
      /\ call' \in TornCalls /\ Torn
      /\ owned' = {} /\ ids' = {}
      /\ status' = [a \in Activity |-> IF a \in ids THEN Absent ELSE status[a]]
      /\ canc' = LetGo
      /\ stop' = IF canc.step \in {"append", "place", "marks"} THEN "lost" ELSE stop
      /\ UNCHANGED <<shown, tools, endings, kind, acts, msgs, spoiled>>
  BY DEF CompleteCancelled, output
<1>2. canc'.step = canc.step /\ canc'.left = canc.left /\ canc'.acts = canc.acts
      /\ canc'.m = canc.m
  BY <1>1 DEF LetGo, IInv, Shape, CancFields
<1>3. CallsStay /\ Begun
  BY <1>1, TornStay DEF Begun
<1>4. Sound' => /\ canc.step \in {"free", "stop", "tools"} /\ stop' = stop /\ Sound
                /\ endings # <<>>
  <2>1. endings # <<>> \/ spoiled \/ canc.step \in {"append", "place", "marks"}
    BY <1>1 DEF Cut, CancSteps, Ended, IInv, Stored
  <2>2. canc.step \in CancSteps
    BY DEF Cut
  <2> QED BY <1>1, <2>1, <2>2 DEF Sound, CancSteps
<1>5. CallShape'
  <2>1. tools' = [a \in Activity |-> tools'[a]] /\ status' = [a \in Activity |-> status'[a]]
    BY <1>1 DEF OutInv, CallShape
  <2> QED BY <1>3, <2>1, StayShape DEF OutInv
<1>6. Gathered'
  <2>1. ~Open'
    BY <1>1, <1>4 DEF Open, Sound
  <2> QED BY <2>1 DEF Gathered
<1>7. Marking'
  BY <1>1, <1>2 DEF OutInv, Marking
<1>8. ToMark'
  <2> SUFFICES ASSUME Sound', NEW m \in Message \ late',
                      shown[m] \notin {Absent} \cup ToSet(endings)
               PROVE  FALSE
    BY <1>1 DEF ToMark
  <2>1. m \notin late
    BY <1>3 DEF CallsStay
  <2> QED BY <1>1, <1>4, <2>1 DEF OutInv, ToMark
<1>9. ToEnd'
  <2>1. Sound' => Sound /\ ~Untaken
    BY <1>1, <1>4 DEF Untaken
  <2> QED BY <1>1, <1>2, <1>3, <2>1, StayToEnd DEF OutInv
<1>10. Told'
  <2>1. \A a \in Activity : status'[a] \in Closed => status'[a] = status[a]
    BY <1>1 DEF Closed, Absent
  <2> QED BY <1>1, <1>3, <2>1, StayTold DEF OutInv
<1>11. Shown'
  <2>1. ASSUME NEW m \in Message, shown[m] = "cancelled" \/ m \in late
        PROVE  shown'[m] = "cancelled" \/ m \in late'
    BY <1>1, <1>3, <2>1 DEF CallsStay
  <2>2. canc.step = "marks" => canc.left # {}
    BY DEF OutInv, Marking
  <2> QED BY <1>1, <1>2, <2>1, <2>2 DEF OutInv, Shown
<1> QED BY <1>5, <1>6, <1>7, <1>8, <1>9, <1>10, <1>11 DEF OutInv

(* The session's turn is over, or is about to end, with its output as it   *)
(* was.                                                                    *)
LEMMA CompleteStep ==
  ASSUME IInv, OutInv, CallsStay, session = "running", session' \in {"over", "ending"},
         UNCHANGED <<shown, tools, endings, owned, ids, status, acts, msgs, canc, stop, spoiled>>,
         ~mark
  PROVE  OutInv'
<1>1. Sound' = Sound /\ (Open' => Open)
  BY DEF Sound, Open
<1>2. CallShape'
  BY StayShape DEF OutInv, CallShape
<1>3. Gathered'
  BY <1>1, StayGathered DEF OutInv, Gathered
<1>4. Marking'
  BY DEF OutInv, Marking
<1>5. ToMark'
  BY <1>1 DEF OutInv, ToMark, CallsStay
<1>6. ToEnd'
  <2>1. Untaken => Untaken'
    BY DEF Untaken
  <2> QED BY <1>1, <2>1, StayToEnd DEF OutInv
<1>7. Told'
  BY StayTold DEF OutInv
<1>8. Shown'
  BY DEF OutInv, Shown
<1> QED BY <1>2, <1>3, <1>4, <1>5, <1>6, <1>7, <1>8 DEF OutInv

LEMMA CompleteOut ==
  ASSUME IInv, OutInv, CompleteStopped \/ \E k \in Kinds : Complete(k)
  PROVE  OutInv'
<1>1. /\ session = "running" /\ ~mark
      /\ UNCHANGED <<shown, tools, endings, owned, ids, status, acts, msgs, canc, stop, spoiled>>
      /\ session' \in {"over", "ending"}
  BY DEF CompleteStopped, Complete, output, tables
<1>2. CallsStay
  <2>1. CASE CompleteStopped
    BY <2>1, TornStay DEF CompleteStopped
  <2>2. ASSUME NEW k \in Kinds, Complete(k) PROVE CallsStay
    <3>1. PICK torn \in IF k = "cancelled" THEN TornCalls ELSE {call} :
            call' = [w \in Caller |-> IF torn[w] = Quiet THEN Quiet
                                      ELSE [torn[w] EXCEPT !.late = TRUE]]
      BY <2>2 DEF Complete
    <3>2. Torn /\ (torn \in TornCalls \/ torn = call)
      BY <2>2, <3>1 DEF Complete
    <3> QED BY <3>1, <3>2, CompletingStay
  <2> QED BY <2>1, <2>2
<1> QED BY <1>1, <1>2, CompleteStep

LEMMA StoreEndingOut == ASSUME IInv, kind \in Kinds, OutInv, StoreEnding PROVE OutInv'
<1>1. /\ session = "ending" /\ session' = "tools" /\ endings' = Append(endings, kind)
      /\ acts' = ids /\ ids' = {}
      /\ UNCHANGED <<shown, tools, owned, status, kind, msgs, mark, call, canc, late, stop, spoiled>>
  BY DEF StoreEnding, lives
<1>2. endings' # <<>> /\ ToSet(endings') = ToSet(endings) \cup {kind}
  BY <1>1, NotNothing, AppendedSet DEF IInv, Shape
<1>3. CallsStay /\ Sound' = Sound /\ Open /\ Open' /\ Begun
  BY <1>1, SameCalls DEF Sound, Open, Begun
<1>4. CallShape'
  BY <1>1, <1>3, StayShape DEF OutInv, CallShape
<1>5. Gathered'
  BY <1>1, <1>3, StayGathered DEF OutInv, Gathered
<1>6. Marking'
  BY <1>1, <1>2 DEF OutInv, Marking
<1>7. ToMark'
  BY <1>1 DEF ToMark
<1>8. ToEnd'
  BY <1>1, <1>3, StayToEnd DEF OutInv
<1>9. Told'
  BY <1>1, <1>3, StayTold DEF OutInv
<1>10. Shown'
  BY <1>1 DEF OutInv, Shown
<1> QED BY <1>4, <1>5, <1>6, <1>7, <1>8, <1>9, <1>10 DEF OutInv

LEMMA CompleteActivityOut ==
  ASSUME IInv, OutInv, NEW a \in Activity, CompleteActivity(a)
  PROVE  OutInv'
<1>1. /\ session = "tools" /\ acts' = acts \ {a}
      /\ UNCHANGED <<shown, endings, owned, ids, session, kind, msgs, mark, call, canc, late,
                     stop, spoiled>>
  BY DEF CompleteActivity, lives
<1>2. PICK to \in Closed : EndActivity(a, to)
  BY DEF CompleteActivity, Closed
<1>3. Begun
  BY <1>1 DEF Begun
<1>4. CallsStay /\ Sound' = Sound /\ Open' = Open
  BY <1>1, SameCalls DEF Sound, Open
<1>5. CallShape'
  BY <1>2, <1>3, <1>4, ActivityEnds, StayShape DEF OutInv
<1>6. Gathered' /\ Marking' /\ ToMark'
  <2>1. Gathered'
    BY <1>1, <1>4, StayGathered DEF OutInv, Gathered
  <2>2. Marking' /\ ToMark'
    BY <1>1, <1>4 DEF OutInv, Marking, ToMark
  <2> QED BY <2>1, <2>2
<1>7. ToEnd'
  <2>1. \A b \in Activity \ late' : tools'[b] \notin {Absent} \cup Closed => tools'[b] = tools[b]
    BY <1>2, <1>3, ActivityEnds
  <2>2. Untaken' = Untaken
    BY <1>1 DEF Untaken
  <2>3. \A b \in Activity \ late' :
          tools'[b] \notin {Absent} \cup Closed /\ b \in acts =>
            b \in acts' \/ Writing(b)
    BY <1>1, <1>2, <1>3, ActivityEnds
  <2> QED BY <1>1, <1>4, <2>1, <2>2, <2>3, StayToEnd DEF OutInv
<1>8. Told'
  BY <1>1, <1>2, <1>3, <1>4, ActivityEnds, StayTold DEF OutInv
<1>9. Shown'
  BY <1>1 DEF OutInv, Shown
<1> QED BY <1>5, <1>6, <1>7, <1>8, <1>9 DEF OutInv

LEMMA TakeMessagesOut == ASSUME IInv, OutInv, TakeMessages PROVE OutInv'
<1>1. /\ session = "tools" /\ acts = {} /\ session' = "messages" /\ msgs' = owned
      /\ canc' = LetGo
      /\ UNCHANGED <<shown, tools, endings, ids, status, kind, acts, mark, call, late, stop,
                     spoiled>>
  BY DEF TakeMessages, output, lives
<1>2. canc'.step = canc.step /\ canc'.left = canc.left /\ canc'.acts = canc.acts
      /\ canc'.m = canc.m
  BY <1>1 DEF LetGo, IInv, Shape, CancFields
<1>3. CallsStay /\ Sound' = Sound /\ Open /\ ~Open' /\ Begun
  BY <1>1, SameCalls DEF Sound, Open, Begun
<1>4. CallShape'
  BY <1>1, <1>3, StayShape DEF OutInv, CallShape
<1>5. Gathered'
  BY <1>3 DEF Gathered
<1>6. Marking'
  BY <1>1, <1>2 DEF OutInv, Marking
<1>7. ToMark'
  <2>1. \A m \in Message \ late : shown[m] # Absent => m \in owned
    BY <1>3 DEF OutInv, Gathered
  <2> QED BY <1>1, <2>1 DEF ToMark
<1>8. ToEnd'
  <2>1. Untaken' = Untaken
    BY <1>1, <1>2 DEF Untaken
  <2> QED BY <1>1, <1>2, <1>3, <2>1, StayToEnd DEF OutInv
<1>9. Told'
  BY <1>1, <1>3, StayTold DEF OutInv
<1>10. Shown'
  BY <1>1 DEF OutInv, Shown
<1> QED BY <1>4, <1>5, <1>6, <1>7, <1>8, <1>9, <1>10 DEF OutInv

LEMMA CompleteMessageOut ==
  ASSUME IInv, OutInv, NEW m \in Message, CompleteMessage(m)
  PROVE  OutInv'
<1>1. /\ session = "messages" /\ shown' = [shown EXCEPT ![m] = kind] /\ msgs' = msgs \ {m}
      /\ UNCHANGED <<tools, endings, owned, ids, status, session, kind, acts, mark, call, canc,
                     late, stop, spoiled>>
  BY DEF CompleteMessage, tables, lives
<1>2. shown'[m] = kind /\ (\A n \in Message : n # m => shown'[n] = shown[n])
      /\ kind \in ToSet(endings) /\ Begun
  BY <1>1 DEF IInv, Shape, OutInv, Marking, Begun
<1>3. CallsStay /\ Sound' = Sound /\ ~Open'
  BY <1>1, SameCalls DEF Sound, Open
<1>4. CallShape'
  BY <1>1, <1>3, StayShape DEF OutInv, CallShape
<1>5. Gathered'
  BY <1>3 DEF Gathered
<1>6. Marking'
  BY <1>1 DEF OutInv, Marking
<1>7. ToMark'
  <2> SUFFICES ASSUME endings # <<>>, Sound, NEW n \in Message \ late,
                      shown'[n] \notin {Absent} \cup ToSet(endings)
               PROVE  \/ canc.step = "marks" /\ n \in canc.left
                      \/ session = "messages" /\ n \in msgs'
    BY <1>1, <1>3 DEF ToMark
  <2>1. n # m /\ shown'[n] = shown[n]
    BY <1>2
  <2> QED BY <1>1, <2>1 DEF OutInv, ToMark
<1>8. ToEnd'
  <2>1. Untaken' = Untaken
    BY <1>1 DEF Untaken
  <2> QED BY <1>1, <1>3, <2>1, StayToEnd DEF OutInv
<1>9. Told'
  BY <1>1, <1>3, StayTold DEF OutInv
<1>10. Shown'
  BY <1>1 DEF OutInv, Shown
<1> QED BY <1>4, <1>5, <1>6, <1>7, <1>8, <1>9, <1>10 DEF OutInv

LEMMA OverOut ==
  ASSUME IInv, OutInv, Finalize \/ CompleteFails \/ OtherTurn
  PROVE  OutInv'
<1>1. /\ UNCHANGED <<shown, tools, endings, owned, ids, status, mark, call, canc, late, stop>>
      /\ session' = "over"
      /\ session \in {"ending", "tools", "messages", "over"}
      /\ \/ spoiled' = TRUE /\ session # "over"
         \/ session = "messages" /\ msgs = {} /\ spoiled' = spoiled
         \/ session = "over" /\ UNCHANGED <<kind, acts, msgs, spoiled>>
  BY DEF Finalize, CompleteFails, OtherTurn, output, tables, lives, ending
<1>2. CallsStay /\ (Sound' => Sound)
  BY <1>1, SameCalls DEF Sound
<1>3. Open' => Open
  <2>1. session = "messages" => endings # <<>>
    BY DEF IInv, Stored
  <2> QED BY <1>1, <2>1 DEF Open
<1>4. CallShape'
  BY <1>1, <1>2, StayShape DEF OutInv, CallShape
<1>5. Gathered'
  BY <1>1, <1>2, <1>3, StayGathered DEF OutInv, Gathered
<1>6. Marking'
  BY <1>1 DEF OutInv, Marking
<1>7. ToMark'
  BY <1>1, <1>2 DEF OutInv, ToMark, Sound
<1>8. ToEnd'
  <2>1. Sound' => session \in {"messages", "over"}
    BY <1>1 DEF Sound
  <2>2. Sound' /\ Untaken => Untaken'
    BY <1>1, <2>1 DEF Untaken
  <2> QED BY <1>1, <1>2, <2>1, <2>2, StayToEnd DEF OutInv
<1>9. Told'
  BY <1>1, <1>2, StayTold DEF OutInv
<1>10. Shown'
  BY <1>1 DEF OutInv, Shown
<1> QED BY <1>4, <1>5, <1>6, <1>7, <1>8, <1>9, <1>10 DEF OutInv

LEMMA CompletingOut ==
  ASSUME IInv, kind \in Kinds, OutInv, Cut, Completing \/ OtherTurn
  PROVE  OutInv'
BY CompleteCancelledOut, CompleteOut, StoreEndingOut, CompleteActivityOut, TakeMessagesOut,
   CompleteMessageOut, OverOut DEF Completing

-----------------------------------------------------------------------------
LEMMA CardOut == ASSUME IInv, OutInv, CardSteps PROVE OutInv'
<1> DEFINE still == <<output, tables, lives, ending, call, canc, late, stop, spoiled>>
<1>1. ASSUME NEW c \in Card, NEW k \in Asks, Ask(c, k) \/ AskFails(c, k) PROVE UNCHANGED still
  BY <1>1 DEF Ask, AskFails, Enter
<1>2. ASSUME NEW c \in Card,
             \/ Age(c) \/ GiveUp(c) \/ TouchOld(c)
             \/ Approve(c) \/ Confirm(c) \/ Reset(c) \/ KeepHistory(c) \/ Answer(c)
             \/ CancelInput(c) \/ Pick(c) \/ PickModel(c)
      PROVE  UNCHANGED still
  BY <1>2 DEF Age, GiveUp, TouchOld, Approve, Confirm, Reset, KeepHistory, Answer,
              CancelInput, Pick, PickModel, turnVars
<1>3. ASSUME \/ Confirmed \/ Forgotten \/ Cleared \/ ClarifyCancelled \/ CancelRaised
             \/ \E v \in {"resolved", "failed"} : ModelPicked(v)
             \/ Verdict \/ HandlerFails
      PROVE  UNCHANGED still
  BY <1>3 DEF Confirmed, Forgotten, Cleared, ClarifyCancelled, CancelRaised, ModelPicked,
              Verdict, HandlerFails, turnVars
<1>4. ASSUME NEW c \in Card, CancelClarify(c)
      PROVE  UNCHANGED still \/ OutInv'
  <2>1. CASE c \in ofTurn /\ active \in {"none", "this"}
    <3>1. /\ Cancel
          /\ UNCHANGED <<output, tables, active, requested, ending, late, spoiled>>
          /\ canc.step = "free"
      BY <1>4, <2>1 DEF CancelClarify, Valid, Arrives
    <3> QED BY <3>1, CancelOut
  <2>2. CASE ~(c \in ofTurn /\ active \in {"none", "this"})
    BY <1>4, <2>2 DEF CancelClarify, turnVars
  <2> QED BY <2>1, <2>2
<1>5. ASSUME UNCHANGED still PROVE OutInv'
  BY <1>5, OutStays DEF output, tables, lives, ending
<1> QED BY <1>1, <1>2, <1>3, <1>4, <1>5 DEF CardSteps

LEMMA OutStep ==
  ASSUME IInv, kind \in Kinds, Cut, OutInv, [Next]_vars
  PROVE  OutInv'
<1>1. CASE TurnSteps \/ AskCancel
  BY <1>1, HermesOut, CancellingOut, CompletingOut DEF TurnSteps
<1>2. CASE UNCHANGED vars
  BY <1>2, OutStays DEF vars, turnVars, output, tables, lives, ending
<1> QED BY <1>1, <1>2, CardOut DEF Next

LEMMA OutInit == ASSUME Init PROVE OutInv
<1>1. /\ shown = [m \in Message |-> Absent] /\ tools = [a \in Activity |-> Absent]
      /\ endings = <<>> /\ status = [a \in Activity |-> Absent]
      /\ session = "running" /\ call = [w \in Caller |-> Quiet] /\ canc = Free
      /\ stop = "no" /\ late = {}
  BY DEF Init, TurnInit
<1>2. canc.step = "free"
  BY <1>1, FreeSteps
<1>3. <<>> \in Seq(Activity)
  OBVIOUS
<1>4. CallShape
  BY <1>1, <1>3, QuietCall DEF CallShape, Calling
<1>5. Gathered
  BY <1>1, <1>2 DEF Gathered, Calling
<1>6. Marking /\ ToMark
  BY <1>1, <1>2 DEF Marking, ToMark
<1>7. ToEnd /\ Told
  BY <1>1, QuietCall DEF ToEnd, Told, Closed, Absent
<1>8. Shown
  BY <1>1 DEF Shown
<1> QED BY <1>4, <1>5, <1>6, <1>7, <1>8 DEF OutInv

(* The invariant of the output: what is still to be marked or ended is in  *)
(* the hands of the session, of the cancellation or of a late call.        *)
THEOREM OutputInvariance == Spec => []OutInv
<1>1. Init => OutInv
  BY OutInit
<1>2. (IInv /\ kind \in Kinds /\ CardBase /\ Cut) /\ OutInv /\ [Next]_vars => OutInv'
  BY OutStep
<1> QED BY <1>1, <1>2, CardInvariance, PTL DEF Spec

(* When a turn is over and nobody works on it, its messages show the       *)
(* ending it had, no activity runs on, and a turn that a client cut short  *)
(* shows it (_complete_active_turn, _cancel_active_turn).                  *)
THEOREM OutputFollows == Spec => []OutputFollowsTurn
<1>1. OutInv => OutputFollowsTurn
  <2> SUFFICES ASSUME OutInv, AtRest
               PROVE  /\ stop # "lost" =>
                           /\ \A m \in Message \ late : shown[m] \in {Absent} \cup ToSet(endings)
                           /\ \A a \in Activity \ late : tools[a] \in {Absent} \cup Closed
                      /\ stop \in {"cut", "lost"} =>
                           \E m \in Message : shown[m] = "cancelled" \/ m \in late
    BY DEF OutputFollowsTurn
  <2>1. /\ session = "over" /\ canc.step = "free" /\ endings # <<>> /\ ~spoiled
        /\ \A w \in Caller : call[w] = Quiet
    BY DEF AtRest
  <2>2. \A a : ~Writing(a)
    BY <2>1, QuietCall DEF Writing
  <2>3. stop # "lost" => \A m \in Message \ late : shown[m] \in {Absent} \cup ToSet(endings)
    BY <2>1 DEF OutInv, ToMark, Sound
  <2>4. stop # "lost" => \A a \in Activity \ late : tools[a] \in {Absent} \cup Closed
    BY <2>1, <2>2 DEF OutInv, ToEnd, Sound, Untaken
  <2>5. stop \in {"cut", "lost"} => \E m \in Message : shown[m] = "cancelled" \/ m \in late
    BY <2>1 DEF OutInv, Shown
  <2> QED BY <2>3, <2>4, <2>5
<1> QED BY <1>1, OutputInvariance, PTL

-----------------------------------------------------------------------------
(* Types.                                                                  *)

CallType == [op : Ops, m : Message \cup {Nobody}, to : Statuses, a : Activity \cup {Nobody},
             items : Seq(Activity), seen : Seq(Activity), anew : SUBSET Activity,
             late : BOOLEAN]
CancType == [step : CancSteps, m : Message \cup {Nobody}, left : SUBSET Message,
             base : SUBSET Message, held : BOOLEAN, acts : SUBSET Activity, broke : BOOLEAN]

LogTyped ==
  /\ shown \in [Message -> Statuses] /\ tools \in [Activity -> Statuses]
  /\ endings \in Seq(Kinds)

TablesTyped ==
  /\ owned \subseteq Message /\ turnOf \subseteq Message /\ host \in Message \cup {Nobody}
  /\ ids \subseteq Activity /\ known \subseteq Activity
  /\ status \in [Activity -> {Absent, "running"} \cup Closed]

SessionTyped ==
  /\ active \in {"this", "other", "none"} /\ requested \in BOOLEAN /\ mark \in BOOLEAN
  /\ session \in {"running", "ending", "tools", "messages", "over"}
  /\ kind \in Kinds /\ acts \subseteq Activity /\ msgs \subseteq Message

PastTyped ==
  /\ late \subseteq Message \cup Activity
  /\ stop \in {"no", "cut", "late", "lost"} /\ spoiled \in BOOLEAN
  /\ \E s \in Scripts : IsPrefix(calls, s)
  /\ faults \in 0..MaxFaults

CallsTyped == call \in [Caller -> CallType]

TurnTyped == LogTyped /\ TablesTyped /\ SessionTyped /\ PastTyped /\ CallsTyped
             /\ canc \in CancType

CardsTyped ==
  /\ table \in Seq(Card) /\ Len(table) <= Capacity
  /\ asks \in [Card -> Asks \cup {Absent}]
  /\ ofTurn \subseteq Card /\ old \subseteq Card /\ picked \subseteq Card
  /\ asked \subseteq Card /\ waiting \subseteq Card
  /\ hand \in [step : {"ready", "expire", "resolve", "reset", "clear", "turn", "pick", "event"},
               c : Card \cup {Nobody}, v : Done]
  /\ told \in [Card -> Seq({"answer", "nothing"})]
  /\ verdicts \in [Card -> Seq(Done)]
  /\ evicted \subseteq Card /\ troubled \subseteq Card

LEMMA TypedParts == TurnTyped /\ CardsTyped <=> TypeOK
BY DEF TurnTyped, LogTyped, TablesTyped, SessionTyped, PastTyped, CallsTyped, CallType,
       CancType, CancSteps, CardsTyped, TypeOK, TurnTypeOK

LEMMA FaultTyped == ASSUME faults \in 0..MaxFaults, Fault PROVE faults' \in 0..MaxFaults
BY TurnAssumption DEF Fault

LEMMA QuietTyped == Quiet \in CallType
<1>1. <<>> \in Seq(Activity)
  OBVIOUS
<1> QED BY <1>1 DEF Quiet, CallType, Ops, Statuses

LEMMA FreeTyped == Free \in CancType
BY DEF Free, CancType, CancSteps

(* A new call, and one that an ending has overtaken.                       *)
LEMMA NewCall ==
  ASSUME NEW o \in Ops, NEW m \in Message, NEW to \in {"running", "completed"}
  PROVE  [Quiet EXCEPT !.op = o, !.m = m, !.to = to] \in CallType
BY QuietTyped DEF CallType, Statuses, Kinds, Closed

LEMMA MessageCall ==
  ASSUME NEW c \in CallType, NEW m \in Message
  PROVE  [c EXCEPT !.m = m, !.to = "running"] \in CallType
BY DEF CallType, Statuses

LEMMA LateTyped ==
  ASSUME NEW c \in CallType, NEW b \in BOOLEAN
  PROVE  [c EXCEPT !.late = b] \in CallType
BY DEF CallType

LEMMA CallBegins ==
  ASSUME CallsTyped, NEW w \in Caller, NEW c \in CallType, Begin(w, c)
  PROVE  CallsTyped'
<1>1. Overdue \in BOOLEAN
  BY DEF Overdue
<1>2. [c EXCEPT !.late = Overdue] \in CallType
  BY <1>1, LateTyped
<1> QED BY <1>2 DEF CallsTyped, Begin

LEMMA OvertakenTyped == ASSUME CallsTyped PROVE Overtaken \in [Caller -> CallType]
<1>1. \A w \in Caller : [call[w] EXCEPT !.late = TRUE] \in CallType
  BY LateTyped DEF CallsTyped
<1> QED BY <1>1, QuietTyped DEF Overtaken

LEMMA TornTyped ==
  ASSUME CallsTyped, NEW torn \in TornCalls
  PROVE  torn \in [Caller -> CallType]
<1>1. call["task"] \in CallType /\ "task" \in Caller
  BY DEF CallsTyped, Caller
<1>2. [call["task"] EXCEPT !.op = "torn"] \in CallType
  BY <1>1 DEF CallType, Ops
<1>3. \A c \in CallType : [call EXCEPT !["task"] = c] \in [Caller -> CallType]
  BY DEF CallsTyped
<1>4. \E c \in CallType : torn = [call EXCEPT !["task"] = c]
  BY <1>1, <1>2, QuietTyped DEF TornCalls
<1> QED BY <1>3, <1>4

LEMMA OutputTyped == ASSUME NEW c \in CallType PROVE Output(c) \subseteq Message \cup Activity
BY DEF CallType, Output

(* What a report of progress does next.                                    *)
Started(c, i)  == [[c EXCEPT !.items = SubSeq(@, i + 1, Len(@))] EXCEPT
                     !.op = "tool", !.m = Nobody, !.a = c.items[i], !.to = "running"]
Finished(c, i) == [[c EXCEPT !.items = <<>>, !.seen = SubSeq(@, i + 1, Len(@))] EXCEPT
                     !.op = "tool", !.m = Nobody, !.a = c.seen[i], !.to = "completed"]

LEMMA GoOnCases ==
  ASSUME NEW w \in Caller, NEW c, GoOn(w, c)
  PROVE  \/ \E S : \E i \in First(c.items, S) :
              /\ call' = [call EXCEPT ![w] = Started(c, i)] /\ Starts(c.items[i])
              /\ known' = known \cup {c.items[i]}
         \/ \E S : \E i \in First(c.seen, S) :
              /\ call' = [call EXCEPT ![w] = Finished(c, i)] /\ Ends(c.seen[i])
              /\ known' = known
         \/ call' = [call EXCEPT ![w] = Quiet] /\ UNCHANGED <<ids, status, known>>
<1> DEFINE unlike == {a \in Activity : a \notin known \/ a \in c.anew}
           done   == {a \in Activity : status[a] = "running" /\ a # Last(c.seen)}
<1>1. \/ \E i \in First(c.items, unlike) :
           /\ known' = known \cup {c.items[i]} /\ ids' = ids \cup {c.items[i]}
           /\ status' = [status EXCEPT ![c.items[i]] = "running"]
           /\ Writes(w, [c EXCEPT !.items = SubSeq(@, i + 1, Len(@))], c.items[i], "running")
      \/ \E i \in First(c.seen, done) :
           /\ status' = [status EXCEPT ![c.seen[i]] = "completed"]
           /\ Writes(w, [c EXCEPT !.items = <<>>, !.seen = SubSeq(@, i + 1, Len(@))],
                     c.seen[i], "completed")
           /\ known' = known /\ ids' = ids
      \/ call' = [call EXCEPT ![w] = Quiet] /\ UNCHANGED <<ids, status, known>>
  BY Zenon DEF GoOn
<1> HIDE DEF unlike, done
<1>2. \A i : Writes(w, [c EXCEPT !.items = SubSeq(@, i + 1, Len(@))], c.items[i], "running") <=>
             call' = [call EXCEPT ![w] = Started(c, i)]
  BY DEF Writes, Started
<1>3. \A i : Writes(w, [c EXCEPT !.items = <<>>, !.seen = SubSeq(@, i + 1, Len(@))],
                    c.seen[i], "completed") <=>
             call' = [call EXCEPT ![w] = Finished(c, i)]
  BY DEF Writes, Finished
<1>4. \/ \E i \in First(c.items, unlike) :
           /\ call' = [call EXCEPT ![w] = Started(c, i)] /\ Starts(c.items[i])
           /\ known' = known \cup {c.items[i]}
      \/ \E i \in First(c.seen, done) :
           /\ call' = [call EXCEPT ![w] = Finished(c, i)] /\ Ends(c.seen[i])
           /\ known' = known
      \/ call' = [call EXCEPT ![w] = Quiet] /\ UNCHANGED <<ids, status, known>>
  BY Zenon, <1>1, <1>2, <1>3 DEF Starts, Ends
<1> QED BY <1>4

LEMMA GoOnTyped ==
  ASSUME CallsTyped, TablesTyped, NEW w \in Caller, NEW c \in CallType, GoOn(w, c)
  PROVE  /\ CallsTyped' /\ known' \subseteq Activity /\ ids' \subseteq Activity
         /\ status' \in [Activity -> {Absent, "running"} \cup Closed]
<1>1. c.items \in Seq(Activity) /\ c.seen \in Seq(Activity)
  BY DEF CallType
<1>2. ASSUME NEW S, NEW i \in First(c.items, S)
      PROVE  Started(c, i) \in CallType /\ c.items[i] \in Activity
  <2>1. c.items[i] \in Activity /\ SubSeq(c.items, i + 1, Len(c.items)) \in Seq(Activity)
    BY <1>1, <1>2, FirstFacts
  <2> QED BY <2>1 DEF CallType, Ops, Statuses, Started
<1>3. ASSUME NEW S, NEW i \in First(c.seen, S)
      PROVE  Finished(c, i) \in CallType /\ c.seen[i] \in Activity
  <2>1. /\ c.seen[i] \in Activity /\ SubSeq(c.seen, i + 1, Len(c.seen)) \in Seq(Activity)
        /\ <<>> \in Seq(Activity)
    BY <1>1, <1>3, FirstFacts
  <2> QED BY <2>1 DEF CallType, Ops, Statuses, Kinds, Closed, Finished
<1>4. CASE call' = [call EXCEPT ![w] = Quiet] /\ UNCHANGED <<ids, status, known>>
  BY <1>4, QuietTyped DEF CallsTyped, TablesTyped
<1>5. ASSUME NEW S, NEW i \in First(c.items, S),
             call' = [call EXCEPT ![w] = Started(c, i)], Starts(c.items[i]),
             known' = known \cup {c.items[i]}
      PROVE  /\ CallsTyped' /\ known' \subseteq Activity /\ ids' \subseteq Activity
             /\ status' \in [Activity -> {Absent, "running"} \cup Closed]
  BY <1>2, <1>5 DEF CallsTyped, TablesTyped, Starts
<1>6. ASSUME NEW S, NEW i \in First(c.seen, S),
             call' = [call EXCEPT ![w] = Finished(c, i)], Ends(c.seen[i]), known' = known
      PROVE  /\ CallsTyped' /\ known' \subseteq Activity /\ ids' \subseteq Activity
             /\ status' \in [Activity -> {Absent, "running"} \cup Closed]
  BY <1>3, <1>6 DEF CallsTyped, TablesTyped, Ends, Closed
<1> QED BY <1>4, <1>5, <1>6, GoOnCases

LEMMA SendTyped ==
  ASSUME TurnTyped, NEW w \in Caller, NEW m \in Message,
         Send(w, m) \/ \E to \in {"running", "completed"} : Edit(w, m, to)
  PROVE  TurnTyped'
<1>1. CASE Send(w, m)
  <2>1. UNCHANGED <<shown, tools, endings, owned, turnOf, ids, known, status, active, requested,
                    mark, session, kind, acts, msgs, canc, late, stop, spoiled, faults>>
        /\ Calls("send") /\ ((m = host /\ host' = Nobody) \/ host' = host)
    BY <1>1 DEF Send, output, lives, ending
  <2> DEFINE c == [Quiet EXCEPT !.op = "send", !.m = m, !.to = "running"]
  <2>2. c \in CallType
    <3>1. "send" \in Ops
      BY DEF Ops
    <3> QED BY Zenon, <3>1, NewCall
  <2>3. CallsTyped'
    <3>1. Begin(w, c) /\ CallsTyped
      BY <1>1 DEF Send, TurnTyped
    <3> HIDE DEF c
    <3> QED BY <2>2, <3>1, CallBegins
  <2>4. LogTyped' /\ TablesTyped'
    BY <2>1 DEF TurnTyped, LogTyped, TablesTyped
  <2>5. SessionTyped' /\ PastTyped' /\ canc' \in CancType
    BY <2>1 DEF TurnTyped, SessionTyped, PastTyped, Calls
  <2> QED BY <2>3, <2>4, <2>5 DEF TurnTyped
<1>2. ASSUME NEW to \in {"running", "completed"}, Edit(w, m, to) PROVE TurnTyped'
  <2>1. UNCHANGED <<shown, tools, endings, owned, turnOf, host, ids, known, status, active,
                    requested, mark, session, kind, acts, msgs, canc, late, stop, spoiled, faults>>
        /\ Calls("edit")
    BY <1>2 DEF Edit, output, tables, lives, ending
  <2> DEFINE c == [Quiet EXCEPT !.op = "edit", !.m = m, !.to = to]
  <2>2. c \in CallType
    <3>1. "edit" \in Ops
      BY DEF Ops
    <3> QED BY Zenon, <3>1, NewCall
  <2>3. CallsTyped'
    <3>1. Begin(w, c) /\ CallsTyped
      BY <1>2 DEF Edit, TurnTyped
    <3> HIDE DEF c
    <3> QED BY <2>2, <3>1, CallBegins
  <2>4. LogTyped' /\ TablesTyped'
    BY <2>1 DEF TurnTyped, LogTyped, TablesTyped
  <2>5. SessionTyped' /\ PastTyped' /\ canc' \in CancType
    BY <2>1 DEF TurnTyped, SessionTyped, PastTyped, Calls
  <2> QED BY <2>3, <2>4, <2>5 DEF TurnTyped
<1> QED BY <1>1, <1>2

LEMMA ProgressTyped ==
  ASSUME TurnTyped, NEW w \in Caller, NEW list \in Reports, NEW anew \in SUBSET known,
         Progress(w, list, anew)
  PROVE  TurnTyped'
<1> DEFINE c    == [Quiet EXCEPT !.op = "tool", !.items = list, !.seen = list,
                                 !.anew = anew, !.late = Overdue]
           d(m) == [c EXCEPT !.m = m, !.to = "running"]
<1>1. UNCHANGED <<shown, tools, endings, active, requested, mark, session, kind, acts, msgs,
                  canc, late, stop, spoiled, faults>> /\ Calls("progress")
  <2>1. Calls("progress") /\ UNCHANGED <<output, lives, ending, canc, late, stop, spoiled, faults>>
    BY Zenon DEF Progress
  <2> QED BY <2>1 DEF output, lives, ending
<1>2. c \in CallType /\ \A m \in Message : d(m) \in CallType
  <2>1. list \in Seq(Activity) /\ anew \in SUBSET Activity /\ "tool" \in Ops
        /\ "running" \in Statuses /\ Overdue \in BOOLEAN
    BY TurnAssumption DEF TurnTyped, TablesTyped, Ops, Statuses, Overdue
  <2>2. c \in CallType
    BY <2>1, QuietTyped DEF CallType
  <2> HIDE DEF c
  <2>3. ASSUME NEW m \in Message PROVE [c EXCEPT !.m = m, !.to = "running"] \in CallType
    BY Zenon, <2>2, MessageCall
  <2> QED BY Zenon, <2>2, <2>3
<1>3. \/ /\ host' \in IF host # Nobody THEN {host} ELSE owned
         /\ GoOn(w, c) /\ UNCHANGED <<owned, turnOf>>
      \/ \E m \in Message :
           /\ host' = m /\ turnOf' = turnOf \cup {m} /\ owned' = {m}
           /\ call' = [call EXCEPT ![w] = d(m)]
           /\ UNCHANGED <<ids, known, status>>
  BY Zenon DEF Progress
<1> HIDE DEF c, d
<1>4. /\ CallsTyped' /\ known' \subseteq Activity /\ ids' \subseteq Activity
      /\ status' \in [Activity -> {Absent, "running"} \cup Closed]
      /\ owned' \subseteq Message /\ turnOf' \subseteq Message /\ host' \in Message \cup {Nobody}
  <2>1. CASE /\ host' \in IF host # Nobody THEN {host} ELSE owned
             /\ GoOn(w, c) /\ UNCHANGED <<owned, turnOf>>
    <3>1. CallsTyped /\ TablesTyped
      BY DEF TurnTyped
    <3>2. /\ CallsTyped' /\ known' \subseteq Activity /\ ids' \subseteq Activity
          /\ status' \in [Activity -> {Absent, "running"} \cup Closed]
      BY <1>2, <2>1, <3>1, GoOnTyped
    <3> QED BY <2>1, <3>1, <3>2 DEF TablesTyped
  <2>2. ASSUME NEW m \in Message, host' = m, turnOf' = turnOf \cup {m}, owned' = {m},
               call' = [call EXCEPT ![w] = d(m)], UNCHANGED <<ids, known, status>>
        PROVE  /\ CallsTyped' /\ known' \subseteq Activity /\ ids' \subseteq Activity
               /\ status' \in [Activity -> {Absent, "running"} \cup Closed]
               /\ owned' \subseteq Message /\ turnOf' \subseteq Message /\ host' \in Message \cup {Nobody}
    BY <1>2, <2>2 DEF TurnTyped, CallsTyped, TablesTyped
  <2> QED BY <1>3, <2>1, <2>2
<1>5. LogTyped' /\ TablesTyped'
  BY <1>1, <1>4 DEF TurnTyped, LogTyped, TablesTyped
<1>6. SessionTyped' /\ PastTyped' /\ canc' \in CancType
  BY <1>1 DEF TurnTyped, SessionTyped, PastTyped, Calls
<1> QED BY <1>4, <1>5, <1>6 DEF TurnTyped

LEMMA LandTyped ==
  ASSUME TurnTyped, CallShape, NEW w \in Caller, Land(w)
  PROVE  TurnTyped'
<1> DEFINE c == call[w]
<1>1. /\ c # Quiet
      /\ IF c.m # Nobody
         THEN shown' = [shown EXCEPT ![c.m] = c.to] /\ UNCHANGED tools
         ELSE tools' = [tools EXCEPT ![c.a] = c.to] /\ UNCHANGED shown
      /\ late' = IF c.late THEN late \cup Output(c) ELSE late
      /\ IF c.op = "send"
         THEN turnOf' = turnOf \cup {c.m} /\ owned' = owned \cup {c.m}
         ELSE UNCHANGED <<turnOf, owned>>
      /\ IF c.op = "tool"
         THEN GoOn(w, c)
         ELSE call' = [call EXCEPT ![w] = Quiet] /\ UNCHANGED <<known, ids, status>>
      /\ UNCHANGED <<endings, host, active, requested, mark, session, kind, acts, msgs, canc,
                     stop, spoiled, faults, calls>>
  BY DEF Land, lives, ending
<1>2. c \in CallType /\ CallsTyped /\ TablesTyped
  BY DEF TurnTyped, CallsTyped
<1>3. c.op = "send" => c.m \in Message
  BY <1>1 DEF CallShape, Calling
<1>4. Output(c) \subseteq Message \cup Activity /\ c.to \in Statuses
  BY <1>2, OutputTyped DEF CallType
<1> HIDE DEF c
<1>5. /\ CallsTyped' /\ known' \subseteq Activity /\ ids' \subseteq Activity
      /\ status' \in [Activity -> {Absent, "running"} \cup Closed]
  <2>1. CASE c.op = "tool"
    BY <1>1, <1>2, <2>1, GoOnTyped
  <2>2. CASE c.op # "tool"
    BY <1>1, <1>2, <2>2, QuietTyped DEF CallsTyped, TablesTyped
  <2> QED BY <2>1, <2>2
<1>6. LogTyped' /\ TablesTyped'
  BY <1>1, <1>3, <1>4, <1>5 DEF TurnTyped, LogTyped, TablesTyped
<1>7. SessionTyped' /\ PastTyped' /\ canc' \in CancType
  BY <1>1, <1>4 DEF TurnTyped, SessionTyped, PastTyped
<1> QED BY <1>5, <1>6, <1>7 DEF TurnTyped

LEMMA CallFailsTyped == ASSUME TurnTyped, NEW w \in Caller, CallFails(w) PROVE TurnTyped'
<1>1. call[w] \in CallType
  BY DEF TurnTyped, CallsTyped
<1>2. Output(call[w]) \subseteq Message \cup Activity
  BY <1>1, OutputTyped
<1>3. CallsTyped'
  BY QuietTyped DEF CallFails, TurnTyped, CallsTyped
<1>4. LogTyped' /\ TablesTyped' /\ SessionTyped' /\ canc' \in CancType
  BY DEF CallFails, output, tables, lives, ending, TurnTyped, LogTyped, TablesTyped, SessionTyped
<1>5. PastTyped'
  <2>1. faults' \in 0..MaxFaults
    BY FaultTyped DEF CallFails, TurnTyped, PastTyped
  <2> QED BY <1>2, <2>1 DEF CallFails, TurnTyped, PastTyped
<1> QED BY <1>3, <1>4, <1>5 DEF TurnTyped

LEMMA HermesTyped == ASSUME TurnTyped, CallShape, HermesCalls PROVE TurnTyped'
<1>1. PICK w \in Caller :
        \/ \E m \in Message : Send(w, m)
        \/ \E m \in Message, to \in {"running", "completed"} : Edit(w, m, to)
        \/ \E list \in Reports, anew \in SUBSET known : Progress(w, list, anew)
        \/ Land(w)
        \/ CallFails(w)
  BY DEF HermesCalls
<1>2. CASE \E m \in Message : Send(w, m) \/ \E to \in {"running", "completed"} : Edit(w, m, to)
  BY <1>2, SendTyped
<1>3. CASE \E list \in Reports, anew \in SUBSET known : Progress(w, list, anew)
  BY <1>3, ProgressTyped
<1> QED BY <1>1, <1>2, <1>3, LandTyped, CallFailsTyped

(* The cancellation, and the completion.                                   *)
LEMMA CancelTyped ==
  ASSUME TurnTyped, Cancel
  PROVE  /\ CallsTyped' /\ canc' \in CancType /\ mark' \in BOOLEAN
         /\ stop' \in {"no", "cut", "late", "lost"}
<1>1. [Free EXCEPT !.step = "append"] \in CancType
  BY DEF Free, CancType, CancSteps
<1>2. Overtaken \in [Caller -> CallType]
  BY OvertakenTyped DEF TurnTyped
<1> QED BY <1>1, <1>2, FreeTyped DEF Cancel, TurnTyped, CallsTyped, SessionTyped, PastTyped

LEMMA StoppedTyped == ASSUME TurnTyped, Stopped PROVE TurnTyped'
<1>1. /\ CallsTyped' /\ canc' \in CancType /\ mark' \in BOOLEAN
      /\ stop' \in {"no", "cut", "late", "lost"}
  BY CancelTyped DEF Stopped
<1> QED BY <1>1 DEF Stopped, output, tables, ending, TurnTyped, LogTyped, TablesTyped,
                    SessionTyped, PastTyped

LEMMA EndingTyped ==
  ASSUME TurnTyped, NEW a \in Activity, NEW to \in Closed, EndActivity(a, to)
  PROVE  /\ tools' \in [Activity -> Statuses] /\ known' \subseteq Activity
         /\ status' \in [Activity -> {Absent, "running"} \cup Closed]
BY DEF EndActivity, TurnTyped, LogTyped, TablesTyped, Statuses, Kinds

LEMMA AskCancelTyped == ASSUME TurnTyped, AskCancel \/ StopFails PROVE TurnTyped'
<1>1. canc' \in CancType
  BY DEF AskCancel, StopFails, Free, CancType, CancSteps
<1>2. faults' \in 0..MaxFaults
  BY FaultTyped DEF AskCancel, StopFails, TurnTyped, PastTyped
<1>3. LogTyped' /\ TablesTyped' /\ CallsTyped'
  BY DEF AskCancel, StopFails, output, tables, TurnTyped, LogTyped, TablesTyped, CallsTyped
<1>4. SessionTyped'
  BY DEF AskCancel, StopFails, ending, TurnTyped, SessionTyped
<1>5. PastTyped'
  BY <1>2 DEF AskCancel, StopFails, TurnTyped, PastTyped
<1> QED BY <1>1, <1>3, <1>4, <1>5 DEF TurnTyped

LEMMA AppendCancelledTyped == ASSUME TurnTyped, AppendCancelled PROVE TurnTyped'
<1>1. canc \in CancType /\ owned \subseteq Message /\ turnOf \subseteq Message
  BY DEF TurnTyped, TablesTyped
<1>2. \A m \in Message : [canc EXCEPT !.step = "place", !.m = m] \in CancType
  BY <1>1 DEF CancType, CancSteps
<1>3. [canc EXCEPT !.step = "marks", !.left = owned, !.base = owned, !.held = TRUE] \in CancType
  BY <1>1 DEF CancType, CancSteps
<1>4. \/ \E m \in Message :
           /\ turnOf' = turnOf \cup {m} /\ owned' = {m}
           /\ canc' = [canc EXCEPT !.step = "place", !.m = m]
      \/ /\ turnOf' = turnOf /\ owned' = owned
         /\ canc' = [canc EXCEPT !.step = "marks", !.left = owned, !.base = owned, !.held = TRUE]
  BY Zenon DEF AppendCancelled
<1>5. canc' \in CancType
  BY Zenon, <1>2, <1>3, <1>4
<1>6. owned' \subseteq Message /\ turnOf' \subseteq Message
  BY Zenon, <1>1, <1>4
<1>7. endings' = Append(endings, "cancelled")
      /\ UNCHANGED <<shown, tools, host, ids, known, status, lives, ending, call,
                     late, stop, spoiled, faults, calls>>
  BY Zenon DEF AppendCancelled
<1>8. endings' \in Seq(Kinds)
  BY <1>7 DEF TurnTyped, LogTyped, Kinds
<1> QED BY <1>5, <1>6, <1>7, <1>8 DEF TurnTyped, LogTyped, TablesTyped, SessionTyped, PastTyped,
                                      CallsTyped, lives, ending

LEMMA ToActivitiesTyped ==
  ASSUME TurnTyped, TurnToActivities PROVE canc' \in CancType /\ ids' \subseteq Activity
<1>1. ids \in SUBSET Activity
  BY DEF TurnTyped, TablesTyped
<1>2. [Free EXCEPT !.step = "tools", !.acts = ids] \in CancType
  BY <1>1 DEF Free, CancType, CancSteps
<1> QED BY Zenon, <1>2 DEF TurnToActivities

LEMMA PlaceTyped == ASSUME TurnTyped, Place PROVE TurnTyped'
<1>1. canc' \in CancType /\ ids' \subseteq Activity
  BY ToActivitiesTyped DEF Place
<1>2. shown' \in [Message -> Statuses]
  BY DEF Place, TurnTyped, LogTyped, Statuses, Kinds
<1>3. UNCHANGED <<tools, endings, owned, turnOf, host, known, status, active, requested, mark,
                  session, kind, acts, msgs, call, late, stop, spoiled, faults, calls>>
  BY DEF Place, lives, ending
<1> QED BY <1>1, <1>2, <1>3 DEF TurnTyped, LogTyped, TablesTyped, SessionTyped, PastTyped,
                                CallsTyped

LEMMA MarkMessageTyped ==
  ASSUME TurnTyped, NEW m \in Message, MarkMessage(m)
  PROVE  TurnTyped'
<1>1. canc' \in CancType /\ ids' \subseteq Activity /\ spoiled' \in BOOLEAN
  <2>1. [Free EXCEPT !.broke = TRUE] \in CancType /\ [canc EXCEPT !.left = @ \ {m}] \in CancType
    <3>1. canc \in CancType
      BY DEF TurnTyped
    <3>2. [canc EXCEPT !.left = @ \ {m}] \in CancType
      BY <3>1 DEF CancType
    <3> QED BY <3>2 DEF Free, CancType, CancSteps
  <2>2. ids \subseteq Activity /\ spoiled \in BOOLEAN
    BY DEF TurnTyped, TablesTyped, PastTyped
  <2>3. \/ canc' = [Free EXCEPT !.broke = TRUE] /\ spoiled' = TRUE /\ ids' = ids
        \/ TurnToActivities /\ spoiled' = spoiled
        \/ canc' = [canc EXCEPT !.left = @ \ {m}] /\ ids' = ids /\ spoiled' = spoiled
    BY Zenon DEF MarkMessage
  <2>4. CASE TurnToActivities /\ spoiled' = spoiled
    BY <2>2, <2>4, ToActivitiesTyped
  <2> QED BY Zenon, <2>1, <2>2, <2>3, <2>4
<1>2. shown' \in [Message -> Statuses]
  BY DEF MarkMessage, TurnTyped, LogTyped, Statuses, Kinds
<1>3. UNCHANGED <<tools, endings, owned, turnOf, host, known, status, active, requested, mark,
                  session, kind, acts, msgs, call, late, stop, faults, calls>>
  BY DEF MarkMessage, lives, ending
<1> QED BY <1>1, <1>2, <1>3 DEF TurnTyped, LogTyped, TablesTyped, SessionTyped, PastTyped,
                                CallsTyped

LEMMA CancelActivityTyped ==
  ASSUME TurnTyped, NEW a \in Activity, CancelActivity(a)
  PROVE  TurnTyped'
<1>1. /\ tools' \in [Activity -> Statuses] /\ known' \subseteq Activity
      /\ status' \in [Activity -> {Absent, "running"} \cup Closed]
  BY EndingTyped DEF CancelActivity, Closed
<1>2. canc' \in CancType
  <2>1. canc \in CancType
    BY DEF TurnTyped
  <2>2. [canc EXCEPT !.acts = @ \ {a}] \in CancType
    BY <2>1 DEF CancType
  <2> QED BY Zenon, <2>2 DEF CancelActivity
<1>3. UNCHANGED <<shown, endings, owned, turnOf, host, ids, active, requested, mark, session,
                  kind, acts, msgs, call, late, stop, spoiled, faults, calls>>
  BY DEF CancelActivity, lives, ending
<1> QED BY <1>1, <1>2, <1>3 DEF TurnTyped, LogTyped, TablesTyped, SessionTyped, PastTyped,
                                CallsTyped

LEMMA CancelEndsTyped == ASSUME TurnTyped, CancelDone \/ CancelFails PROVE TurnTyped'
<1>1. canc' \in CancType
  <2>1. [Free EXCEPT !.broke = TRUE] \in CancType
    BY DEF Free, CancType, CancSteps
  <2> QED BY Zenon, <2>1, FreeTyped DEF CancelDone, CancelFails
<1>2. faults' \in 0..MaxFaults
  BY FaultTyped DEF CancelDone, CancelFails, TurnTyped, PastTyped
<1>3. LogTyped' /\ TablesTyped' /\ CallsTyped'
  BY DEF CancelDone, CancelFails, output, tables, TurnTyped, LogTyped, TablesTyped, CallsTyped
<1>4. SessionTyped'
  BY DEF CancelDone, CancelFails, lives, ending, TurnTyped, SessionTyped
<1>5. PastTyped'
  BY <1>2 DEF CancelDone, CancelFails, TurnTyped, PastTyped
<1> QED BY <1>1, <1>3, <1>4, <1>5 DEF TurnTyped

LEMMA CancellingTyped == ASSUME TurnTyped, Cancelling \/ AskCancel PROVE TurnTyped'
BY StoppedTyped, AskCancelTyped, AppendCancelledTyped, PlaceTyped, MarkMessageTyped,
   CancelActivityTyped, CancelEndsTyped
DEF Cancelling

LEMMA CompleteTyped ==
  ASSUME TurnTyped,
         CompleteCancelled \/ CompleteStopped \/ \E k \in Kinds : Complete(k)
  PROVE  TurnTyped'
<1>1. late' \subseteq Message \cup Activity
  <2>1. call["task"] \in CallType
    BY DEF TurnTyped, CallsTyped, Caller
  <2>2. Output(call["task"]) \subseteq Message \cup Activity
    BY <2>1, OutputTyped
  <2>3. Torn
    BY Zenon DEF CompleteCancelled, CompleteStopped, Complete
  <2> QED BY <2>2, <2>3 DEF Torn, TurnTyped, PastTyped
<1>2. CASE CompleteCancelled
  <2>1. /\ session' = "over" /\ call' \in TornCalls /\ canc' = LetGo /\ mark' = FALSE
        /\ turnOf' = turnOf \ owned /\ owned' = {} /\ known' = known \ ids /\ ids' = {}
        /\ status' = [a \in Activity |-> IF a \in ids THEN Absent ELSE status[a]]
        /\ active' = IF active = "this" THEN "none" ELSE active
        /\ stop' = IF canc.step \in {"append", "place", "marks"} THEN "lost" ELSE stop
        /\ UNCHANGED <<output, host, requested, kind, acts, msgs, spoiled, faults, calls>>
    BY Zenon, <1>2 DEF CompleteCancelled
  <2>2. canc' \in CancType
    <3>1. canc \in CancType
      BY DEF TurnTyped
    <3>2. LetGo \in CancType
      BY <3>1 DEF LetGo, CancType
    <3> QED BY <2>1, <3>2
  <2>3. CallsTyped'
    BY <2>1, TornTyped DEF TurnTyped, CallsTyped
  <2>4. LogTyped' /\ TablesTyped'
    BY <2>1 DEF output, TurnTyped, LogTyped, TablesTyped
  <2>5. SessionTyped' /\ PastTyped'
    BY <1>1, <2>1 DEF TurnTyped, SessionTyped, PastTyped
  <2> QED BY <2>2, <2>3, <2>4, <2>5 DEF TurnTyped
<1>3. CASE CompleteStopped
  <2>1. /\ session' = "over" /\ call' \in TornCalls
        /\ UNCHANGED <<output, tables, lives, kind, acts, msgs, canc, stop, spoiled, faults, calls>>
    BY Zenon, <1>3 DEF CompleteStopped
  <2>2. CallsTyped'
    BY <2>1, TornTyped DEF TurnTyped, CallsTyped
  <2> QED BY <1>1, <2>1, <2>2 DEF TurnTyped, output, tables, lives, LogTyped, TablesTyped,
                                  SessionTyped, PastTyped
<1>4. ASSUME NEW k \in Kinds, Complete(k) PROVE TurnTyped'
  <2>1. PICK torn \in IF k = "cancelled" THEN TornCalls ELSE {call} :
          call' = [w \in Caller |-> IF torn[w] = Quiet THEN Quiet
                                    ELSE [torn[w] EXCEPT !.late = TRUE]]
    BY Zenon, <1>4 DEF Complete
  <2>2. /\ session' = "ending" /\ kind' = k
        /\ UNCHANGED <<output, tables, lives, acts, msgs, canc, stop, spoiled, faults, calls>>
    BY Zenon, <1>4 DEF Complete
  <2>3. CallsTyped'
    <3>1. torn \in [Caller -> CallType]
      BY TornTyped DEF TurnTyped, CallsTyped
    <3>2. \A w \in Caller : torn[w] \in CallType /\ [torn[w] EXCEPT !.late = TRUE] \in CallType
      BY <3>1, LateTyped
    <3> QED BY <2>1, <3>2, QuietTyped DEF CallsTyped
  <2> QED BY <1>1, <2>2, <2>3 DEF TurnTyped, output, tables, lives, LogTyped, TablesTyped,
                                  SessionTyped, PastTyped
<1> QED BY <1>2, <1>3, <1>4

LEMMA StoreEndingTyped == ASSUME TurnTyped, StoreEnding PROVE TurnTyped'
<1>1. endings' \in Seq(Kinds)
  BY DEF StoreEnding, TurnTyped, LogTyped, SessionTyped
<1> QED BY <1>1 DEF StoreEnding, lives, TurnTyped, LogTyped, TablesTyped, SessionTyped, PastTyped,
                    CallsTyped

LEMMA CompleteActivityTyped ==
  ASSUME TurnTyped, NEW a \in Activity, CompleteActivity(a)
  PROVE  TurnTyped'
<1>1. /\ tools' \in [Activity -> Statuses] /\ known' \subseteq Activity
      /\ status' \in [Activity -> {Absent, "running"} \cup Closed]
  BY EndingTyped DEF CompleteActivity, Closed
<1> QED BY <1>1 DEF CompleteActivity, lives, TurnTyped, LogTyped, TablesTyped, SessionTyped,
                    PastTyped, CallsTyped

LEMMA TakeMessagesTyped == ASSUME TurnTyped, TakeMessages PROVE TurnTyped'
<1>1. canc \in CancType
  BY DEF TurnTyped
<1>2. LetGo \in CancType
  BY <1>1 DEF LetGo, CancType
<1>3. /\ session' = "messages" /\ msgs' = owned /\ owned' = {} /\ canc' = LetGo
      /\ UNCHANGED <<output, turnOf, host, ids, known, status, lives, kind, acts, call,
                     late, stop, spoiled, faults, calls>>
  BY Zenon DEF TakeMessages
<1> QED BY <1>2, <1>3 DEF output, lives, TurnTyped, LogTyped, TablesTyped, SessionTyped,
                          PastTyped, CallsTyped

LEMMA CompleteMessageTyped ==
  ASSUME TurnTyped, NEW m \in Message, CompleteMessage(m)
  PROVE  TurnTyped'
<1>1. shown' \in [Message -> Statuses]
  BY DEF CompleteMessage, TurnTyped, LogTyped, SessionTyped, Statuses
<1> QED BY <1>1 DEF CompleteMessage, tables, lives, TurnTyped, LogTyped, TablesTyped,
                    SessionTyped, PastTyped, CallsTyped

LEMMA OverTyped == ASSUME TurnTyped, Finalize \/ CompleteFails \/ OtherTurn PROVE TurnTyped'
<1>1. faults' \in 0..MaxFaults
  BY FaultTyped DEF Finalize, CompleteFails, OtherTurn, TurnTyped, PastTyped
<1>2. LogTyped' /\ TablesTyped' /\ CallsTyped' /\ canc' \in CancType
  BY DEF Finalize, CompleteFails, OtherTurn, output, tables, TurnTyped, LogTyped, TablesTyped,
         CallsTyped
<1>3. SessionTyped'
  BY DEF Finalize, CompleteFails, OtherTurn, lives, ending, TurnTyped, SessionTyped, Kinds, Closed
<1>4. PastTyped'
  BY <1>1 DEF Finalize, CompleteFails, OtherTurn, TurnTyped, PastTyped
<1> QED BY <1>2, <1>3, <1>4 DEF TurnTyped

LEMMA TurnStepTyped == ASSUME TurnTyped, CallShape, TurnSteps PROVE TurnTyped'
<1>1. CASE Completing
  BY <1>1, CompleteTyped, StoreEndingTyped, CompleteActivityTyped, TakeMessagesTyped,
     CompleteMessageTyped, OverTyped
  DEF Completing
<1> QED BY <1>1, HermesTyped, CancellingTyped, OverTyped DEF TurnSteps

-----------------------------------------------------------------------------
(* The cards.                                                              *)
HandSteps == {"ready", "expire", "resolve", "reset", "clear", "turn", "pick", "event"}

Saying  == (\E d \in Card, what \in {"answer", "nothing"} : Tell(d, what)) \/ TellNobody
Handing  == \/ \E d \in Card, v \in Done : Settle(d, v)
            \/ \E d \in Card : Expire(d)
            \/ \E d \in Card, step \in HandSteps : Wait(d, step)

LEMMA HandlerTyped ==
  ASSUME CardsTyped, CardShape, UNCHANGED <<Rest, troubled>>, Saying, Handing
  PROVE  CardsTyped'
<1>1. told' \in [Card -> Seq({"answer", "nothing"})] /\ waiting' \subseteq Card
  <2>1. CASE TellNobody
    BY <2>1 DEF TellNobody, CardsTyped
  <2>2. ASSUME NEW d \in Card, NEW what \in {"answer", "nothing"}, Tell(d, what)
        PROVE  told' \in [Card -> Seq({"answer", "nothing"})] /\ waiting' \subseteq Card
    <3>1. Append(told[d], what) \in Seq({"answer", "nothing"})
      BY DEF CardsTyped
    <3> QED BY <2>2, <3>1 DEF Tell, CardsTyped
  <2> QED BY <2>1, <2>2 DEF Saying
<1>2. /\ table' \in Seq(Card) /\ Len(table') <= Capacity
      /\ hand' \in [step : HandSteps, c : Card \cup {Nobody}, v : Done]
  <2>1. ASSUME NEW d \in Card, NEW v \in Done, Settle(d, v) PROVE <1>2
    <3>1. Without(d) \in Seq(Card) /\ Len(Without(d)) <= Len(table)
      BY WithoutFacts DEF CardShape
    <3> DEFINE t == Without(d)
    <3>2. table' = t /\ t \in Seq(Card) /\ Len(t) <= Len(table)
      BY <2>1, <3>1 DEF Settle
    <3> HIDE DEF t
    <3>3. Len(t) \in Nat /\ Len(table) \in Nat /\ Capacity \in Nat
      BY <3>2, CapacityAssumption DEF CardsTyped
    <3>4. hand' \in [step : HandSteps, c : Card \cup {Nobody}, v : Done]
      BY <2>1 DEF Settle, HandSteps
    <3> QED BY <3>2, <3>3, <3>4 DEF CardsTyped
  <2>2. ASSUME NEW d \in Card, Expire(d) PROVE <1>2
    BY <2>2 DEF Expire, CardsTyped, HandSteps, Done
  <2>3. ASSUME NEW d \in Card, NEW step \in HandSteps, Wait(d, step) PROVE <1>2
    BY <2>3 DEF Wait, Ready, CardsTyped, Done
  <2> QED BY <2>1, <2>2, <2>3 DEF Handing
<1> QED BY <1>1, <1>2 DEF CardsTyped, Rest, HandSteps

LEMMA FrameTyped ==
  ASSUME CardsTyped, CardShape, NEW c \in Card,
         \/ TouchOld(c) \/ Approve(c) \/ Confirm(c) \/ Reset(c) \/ KeepHistory(c) \/ Answer(c)
         \/ CancelInput(c) \/ CancelClarify(c) \/ PickModel(c)
  PROVE  CardsTyped'
<1>1. UNCHANGED <<Rest, troubled>>
  BY Zenon DEF TouchOld, Approve, Confirm, Reset, KeepHistory, Answer, CancelInput, CancelClarify,
               PickModel
<1>2. Saying
  BY DEF TouchOld, Approve, Confirm, Reset, KeepHistory, Answer, CancelInput, CancelClarify,
         PickModel, Saying, CardsTyped
<1>3. Handing
  <2>1. {"resolved", "cancelled"} \subseteq Done
        /\ {"resolve", "reset", "turn", "pick"} \subseteq HandSteps
    BY DEF Done, HandSteps
  <2> QED BY <2>1 DEF TouchOld, Approve, Confirm, Reset, KeepHistory, Answer, CancelInput,
                      CancelClarify, PickModel, Handing
<1> QED BY <1>1, <1>2, <1>3, HandlerTyped

LEMMA HandledTyped ==
  ASSUME CardsTyped, CardShape, Handled,
         \/ Confirmed \/ Forgotten \/ Cleared \/ ClarifyCancelled
         \/ \E v \in {"resolved", "failed"} : ModelPicked(v)
  PROVE  CardsTyped'
<1>1. hand.c \in Card
  BY DEF Confirmed, Forgotten, Cleared, ClarifyCancelled, ModelPicked, Handled
<1>2. UNCHANGED <<Rest, troubled>>
  BY Zenon DEF Confirmed, Forgotten, Cleared, ClarifyCancelled, ModelPicked
<1>3. Saying
  BY <1>1 DEF Confirmed, Forgotten, Cleared, ClarifyCancelled, ModelPicked, Saying
<1>4. Handing
  <2>1. {"resolved", "cancelled", "failed"} \subseteq Done /\ "clear" \in HandSteps
    BY DEF Done, HandSteps
  <2> QED BY <1>1, <2>1 DEF Confirmed, Forgotten, Cleared, ClarifyCancelled, ModelPicked, Handing
<1> QED BY <1>2, <1>3, <1>4, HandlerTyped

LEMMA VerdictTyped ==
  ASSUME CardsTyped, CardShape, Handled, Verdict \/ HandlerFails \/ CancelRaised
  PROVE  CardsTyped'
<1>1. hand.c \in Card /\ hand.v \in Done
  BY DEF Verdict, HandlerFails, CancelRaised, Handled
<1>2. Ready \in [step : HandSteps, c : Card \cup {Nobody}, v : Done]
  BY DEF Ready, HandSteps, Done
<1>3. CASE Verdict
  <2>1. Without(hand.c) \in Seq(Card) /\ Len(Without(hand.c)) <= Len(table)
    BY WithoutFacts DEF CardShape
  <2> DEFINE t == Without(hand.c)
  <2>2. table' = t /\ t \in Seq(Card) /\ Len(t) <= Len(table)
    BY <1>3, <2>1 DEF Verdict
  <2> HIDE DEF t
  <2>3. Len(t) \in Nat /\ Len(table) \in Nat /\ Capacity \in Nat
    BY <2>2, CapacityAssumption DEF CardsTyped
  <2>4. verdicts' \in [Card -> Seq(Done)]
    <3>1. Append(verdicts[hand.c], hand.v) \in Seq(Done)
      BY <1>1 DEF CardsTyped
    <3> QED BY <1>1, <1>3, <3>1 DEF Verdict, CardsTyped
  <2>5. table' \in Seq(Card) /\ Len(table') <= Capacity
    BY <2>2, <2>3 DEF CardsTyped
  <2>6. hand' = Ready
        /\ UNCHANGED <<asks, ofTurn, old, picked, asked, waiting, told, evicted, troubled>>
    BY <1>3 DEF Verdict
  <2> QED BY <1>2, <2>4, <2>5, <2>6 DEF CardsTyped, HandSteps
<1>4. CASE HandlerFails \/ CancelRaised
  BY <1>1, <1>2, <1>4 DEF HandlerFails, CancelRaised, CardsTyped, cards, Rest, HandSteps
<1> QED BY <1>3, <1>4

LEMMA EnterTyped ==
  ASSUME CardsTyped, CardShape, Unasked, NEW c \in Card, NEW k \in Asks,
         Ask(c, k) \/ AskFails(c, k)
  PROVE  CardsTyped'
<1>1. Enter(c, k)
  BY DEF Ask, AskFails
<1>2. ~Contains(table, c)
  BY <1>1 DEF Enter, Unasked
<1> DEFINE t == IF Len(table) < Capacity THEN Append(table, c) ELSE Append(Tail(table), c)
<1>3. t \in Seq(Card) /\ (Len(table) <= Capacity => Len(t) <= Capacity)
  <2> HIDE DEF t
  <2>1. \A u : u = t => u \in Seq(Card) /\ (Len(table) <= Capacity => Len(u) <= Capacity)
    BY <1>2, EnterTable DEF CardShape, t
  <2> QED BY <2>1
<1>4. table' = t
  BY <1>1 DEF Enter
<1> HIDE DEF t
<1>5. table' \in Seq(Card) /\ Len(table') <= Capacity
  BY <1>3, <1>4 DEF CardsTyped
<1>6. evicted' \subseteq Card
  <2>1. ASSUME ~(Len(table) < Capacity) PROVE Head(table) \in Card
    <3>1. table # <<>>
      BY <2>1, CapacityAssumption
    <3> QED BY <3>1 DEF CardsTyped
  <2> QED BY <1>1, <2>1 DEF Enter, CardsTyped
<1>7. asks' \in [Card -> Asks \cup {Absent}]
  BY <1>1 DEF Enter, CardsTyped
<1>8. ofTurn' \subseteq Card /\ UNCHANGED <<old, picked, hand, told, verdicts>>
  BY <1>1 DEF Enter, CardsTyped
<1>9. asked' \subseteq Card /\ waiting' \subseteq Card /\ troubled' \subseteq Card
  BY DEF Ask, AskFails, CardsTyped
<1> QED BY <1>5, <1>6, <1>7, <1>8, <1>9 DEF CardsTyped

LEMMA CardStepTyped ==
  ASSUME CardsTyped, CardBase, CardSteps PROVE CardsTyped'
<1>1. CardShape /\ Unasked /\ Handled
  BY DEF CardBase
<1>2. ASSUME NEW c \in Card, Age(c) \/ GiveUp(c) \/ Pick(c) PROVE CardsTyped'
  BY <1>2 DEF Age, GiveUp, Pick, CardsTyped, cards
<1> QED BY <1>1, <1>2, FrameTyped, HandledTyped, VerdictTyped, EnterTyped DEF CardSteps

(* What the cards do to the turn.                                          *)
LEMMA CardTurnTyped == ASSUME TurnTyped, CardSteps PROVE TurnTyped'
<1>1. CASE UNCHANGED turnVars
  BY <1>1 DEF turnVars, output, tables, lives, ending, TurnTyped, LogTyped, TablesTyped,
              SessionTyped, PastTyped, CallsTyped
<1>2. ASSUME NEW c \in Card, NEW k \in Asks, Ask(c, k) \/ AskFails(c, k) PROVE TurnTyped'
  <2>1. faults' \in 0..MaxFaults
    BY <1>2, FaultTyped DEF Ask, AskFails, TurnTyped, PastTyped
  <2>2. Enter(c, k)
    BY <1>2 DEF Ask, AskFails
  <2>3. Calls(k) /\ UNCHANGED <<output, tables, lives, ending, call, canc, late, stop, spoiled>>
    BY Zenon, <2>2 DEF Enter
  <2>4. PastTyped'
    BY <2>1, <2>3 DEF TurnTyped, PastTyped, Calls
  <2> QED BY <2>3, <2>4 DEF output, tables, lives, ending, TurnTyped, LogTyped, TablesTyped,
                            SessionTyped, CallsTyped
<1>3. ASSUME NEW c \in Card, CancelClarify(c) PROVE TurnTyped'
  <2>1. CASE /\ Cancel
             /\ UNCHANGED <<output, tables, active, requested, ending, late, spoiled, calls, faults>>
    BY <2>1, CancelTyped DEF output, tables, ending, TurnTyped, LogTyped, TablesTyped,
                             SessionTyped, PastTyped
  <2> QED BY <1>1, <1>3, <2>1 DEF CancelClarify
<1>4. CASE HandlerFails
  <2>1. faults' \in 0..MaxFaults
    BY <1>4, FaultTyped DEF HandlerFails, TurnTyped, PastTyped
  <2>2. UNCHANGED <<output, tables, lives, ending, call, canc, late, stop, spoiled, calls>>
    BY <1>4 DEF HandlerFails
  <2> QED BY <2>1, <2>2 DEF output, tables, lives, ending, TurnTyped, LogTyped, TablesTyped,
                            SessionTyped, PastTyped, CallsTyped
<1>5. \/ UNCHANGED turnVars
      \/ \E c \in Card : (\E k \in Asks : Ask(c, k) \/ AskFails(c, k)) \/ CancelClarify(c)
      \/ HandlerFails
  BY Zenon DEF CardSteps, Age, GiveUp, TouchOld, Approve, Confirm, Reset, KeepHistory, Answer,
               CancelInput, Pick, PickModel, Confirmed, Forgotten, Cleared, ClarifyCancelled,
               CancelRaised, ModelPicked, Verdict
<1> QED BY <1>1, <1>2, <1>3, <1>4, <1>5

LEMMA TypesStep ==
  ASSUME TurnTyped, CardsTyped, CardBase, CallShape, [Next]_vars
  PROVE  TurnTyped' /\ CardsTyped'
<1>1. ASSUME UNCHANGED cardVars PROVE CardsTyped'
  BY <1>1 DEF cardVars, cards, CardsTyped
<1>2. ASSUME UNCHANGED turnVars PROVE TurnTyped'
  BY <1>2 DEF turnVars, output, tables, lives, ending, TurnTyped, LogTyped, TablesTyped,
              SessionTyped, PastTyped, CallsTyped
<1>3. CASE CardSteps
  BY <1>3, CardStepTyped, CardTurnTyped
<1>4. CASE (TurnSteps \/ AskCancel) /\ UNCHANGED cardVars
  BY <1>1, <1>4, TurnStepTyped, CancellingTyped
<1> QED BY <1>1, <1>2, <1>3, <1>4 DEF Next, vars

LEMMA TypesInit == ASSUME Init, Scripts # {} PROVE TurnTyped /\ CardsTyped
<1>1. PastTyped
  <2>1. PICK s \in Scripts : TRUE
    OBVIOUS
  <2>2. s \in Seq(STRING)
    BY TurnAssumption
  <2>3. IsPrefix(<<>>, s)
    BY <2>2 DEF IsPrefix
  <2>4. late = {} /\ stop = "no" /\ spoiled = FALSE /\ calls = <<>> /\ faults = 0
    BY DEF Init, TurnInit
  <2>5. 0 \in 0..MaxFaults
    BY TurnAssumption
  <2> QED BY <2>1, <2>3, <2>4, <2>5 DEF PastTyped
<1>2. LogTyped /\ TablesTyped
  BY DEF Init, TurnInit, LogTyped, TablesTyped, Statuses
<1>3. SessionTyped
  BY DEF Init, TurnInit, SessionTyped, Kinds, Closed
<1>4. CallsTyped /\ canc \in CancType
  BY QuietTyped, FreeTyped DEF Init, TurnInit, CallsTyped
<1>5. CardsTyped
  BY CapacityAssumption DEF Init, CardsTyped, Ready, Done
<1> QED BY <1>1, <1>2, <1>4, <1>3, <1>5 DEF TurnTyped

(* The tables of a turn (_assistant_messages_by_turn and the rest) name    *)
(* messages and activities only, and _action_cards never holds more than   *)
(* its capacity, whatever Hermes asks and the client does.                 *)
THEOREM CardsTypeCorrect == ASSUME Scripts # {} PROVE Spec => []TypeOK
<1>1. Init => TurnTyped /\ CardsTyped
  BY TypesInit
<1>2. TurnTyped /\ CardsTyped /\ CardBase /\ CallShape /\ [Next]_vars => (TurnTyped /\ CardsTyped)'
  BY TypesStep
<1>3. Spec => []CardBase /\ []CallShape
  <2>1. IInv /\ kind \in Kinds /\ CardBase /\ Cut => CardBase
    OBVIOUS
  <2>2. OutInv => CallShape
    BY DEF OutInv
  <2> QED BY <2>1, <2>2, CardInvariance, OutputInvariance, PTL
<1>4. TurnTyped /\ CardsTyped => TypeOK
  BY TypedParts
<1> QED BY <1>1, <1>2, <1>3, <1>4, PTL DEF Spec

===============================================================================
