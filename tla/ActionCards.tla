----------------------------- MODULE ActionCards -----------------------------
(***************************************************************************)
(* Action cards (adapter.py): what Hermes asks the user through the chat   *)
(* while a turn runs, and how the answers, cancellations and expiries of   *)
(* the client's chat_action frames reach it.  The turn is the one of       *)
(* TurnOutput: cancelling a question cancels it.                           *)
(*                                                                         *)
(* The frames of a client are handled one at a time (`hand'), and a        *)
(* handler is cut at its awaits.  Hermes is external: it waits for the     *)
(* answer to a card, and may stop waiting at any time.                     *)
(***************************************************************************)
EXTENDS TurnOutput

CONSTANTS
  Card,       \* action_ids
  Capacity    \* of _action_cards: 1000 in the code

ASSUME CapacityAssumption == Capacity \in Nat \ {0}

VARIABLES
  table,      \* _action_cards, in the order of creation
  asks,       \* what each card asks
  ofTurn,     \* cards whose record names the turn
  old,        \* cards whose expires_at has passed
  picked,     \* model pickers at the stage "model"
  asked,      \* cards that are in the chat log
  hand,       \* the handler in progress
  waiting,    \* cards whose answer Hermes waits for
  \* history
  told,       \* what Hermes was told of each card
  verdicts,   \* the terminal events of each card in the chat log
  evicted,    \* cards that fell out of the table
  troubled    \* cards a failure left half handled

cards    == <<table, asks, ofTurn, old, picked, asked>>
cardVars == <<cards, hand, waiting, told, verdicts, evicted, troubled>>
vars     == <<turnVars, cardVars>>

(* Approvals of commands, confirmations of slash commands, the adapter's   *)
(* own confirmation of a reset, and input: questions of the agent, of an   *)
(* update in progress, and the choice of a model.                          *)
Asks  == {"approval", "confirm", "reset", "clarify", "update", "model"}
Done  == {"resolved", "cancelled", "expired", "failed"}
Ready == [step |-> "ready", c |-> Nobody, v |-> "resolved"]

TypeOK ==
  /\ TurnTypeOK
  /\ table \in Seq(Card) /\ Len(table) <= Capacity
  /\ asks \in [Card -> Asks \cup {Absent}]
  /\ ofTurn \subseteq Card /\ old \subseteq Card /\ picked \subseteq Card
  /\ asked \subseteq Card /\ waiting \subseteq Card
  /\ hand \in [step : {"ready", "expire", "resolve", "reset", "clear", "turn", "pick", "event"},
               c : Card \cup {Nobody}, v : Done]
  /\ told \in [Card -> Seq({"answer", "nothing"})]
  /\ verdicts \in [Card -> Seq(Done)]
  /\ evicted \subseteq Card /\ troubled \subseteq Card

Init ==
  /\ TurnInit
  /\ table = <<>> /\ asks = [c \in Card |-> Absent]
  /\ ofTurn = {} /\ old = {} /\ picked = {} /\ asked = {} /\ waiting = {}
  /\ hand = Ready
  /\ told = [c \in Card |-> <<>>] /\ verdicts = [c \in Card |-> <<>>]
  /\ evicted = {} /\ troubled = {}

-----------------------------------------------------------------------------
(* Asking.                                                                 *)

(* A turn of the agent asks for approvals and clarifications; commands ask *)
(* the rest, at any time; a reset only when no turn is active.             *)
MayAsk(k) ==
  CASE k \in {"approval", "clarify"} -> session = "running"
    [] k = "reset" -> active = "none" /\ hand = Ready /\ canc.step = "free"
    [] OTHER -> TRUE

(* _create_action_card enters the record and drops the oldest ones.        *)
Enter(c, k) ==
  /\ Calls(k)
  /\ asks[c] = Absent /\ c = (CHOOSE d \in Card : asks[d] = Absent)
  /\ MayAsk(k)
  /\ asks' = [asks EXCEPT ![c] = k]
  /\ ofTurn' = IF active = "this" THEN ofTurn \cup {c} ELSE ofTurn
  /\ table' = IF Len(table) < Capacity THEN Append(table, c) ELSE Append(Tail(table), c)
  /\ evicted' = IF Len(table) < Capacity THEN evicted ELSE evicted \cup {Head(table)}
  /\ UNCHANGED <<output, tables, lives, ending, call, canc, late, stop, spoiled,
                 old, picked, hand, told, verdicts>>

(* The client knows of the card when its event is in the log.              *)
Ask(c, k) ==
  /\ Enter(c, k)
  /\ asked' = asked \cup {c}
  /\ waiting' = IF k \in {"reset", "model"} THEN waiting ELSE waiting \cup {c}
  /\ UNCHANGED <<troubled, faults>>

AskFails(c, k) ==
  /\ Fault
  /\ Enter(c, k)
  /\ troubled' = troubled \cup {c}
  /\ UNCHANGED <<asked, waiting>>

(* expires_at passes; nothing happens until somebody touches the card.     *)
Age(c) ==
  /\ Contains(table, c) /\ c \notin old
  /\ old' = old \cup {c}
  /\ UNCHANGED <<turnVars, table, asks, ofTurn, picked, asked, hand, waiting, told, verdicts,
                 evicted, troubled>>

(* Hermes no longer waits: a timeout of its own, or its session ended.     *)
GiveUp(c) ==
  /\ c \in waiting
  /\ waiting' = waiting \ {c}
  /\ UNCHANGED <<turnVars, cards, hand, told, verdicts, evicted, troubled>>

-----------------------------------------------------------------------------
(* A frame about a card of the table arrives; about any other card, it is  *)
(* answered STALE_ACTION.                                                  *)

Arrives(c)   == hand = Ready /\ canc.step = "free" /\ c \in asked /\ Contains(table, c)
Valid(c, ks) == Arrives(c) /\ c \notin old /\ asks[c] \in ks

Tell(c, what) == told' = [told EXCEPT ![c] = Append(@, what)] /\ waiting' = waiting \ {c}
TellNobody    == UNCHANGED <<told, waiting>>

(* _action_cards.pop(action_id, None)                                      *)
Without(c) == IF Contains(table, c)
              THEN RemoveAt(table, CHOOSE i \in DOMAIN table : table[i] = c) ELSE table

Settle(c, v) ==
  /\ table' = Without(c)
  /\ hand' = [step |-> "event", c |-> c, v |-> v]

(* _emit_action_expired removes the card when its event is in the log.     *)
Expire(c) == hand' = [step |-> "expire", c |-> c, v |-> "expired"] /\ table' = table
Wait(c, step) == hand' = [Ready EXCEPT !.step = step, !.c = c] /\ table' = table

Rest == <<asks, ofTurn, old, picked, asked, verdicts, evicted>>

\* Mutant: expires the card without a word to Hermes.
BugTouchOld(c) ==
  /\ Arrives(c) /\ c \in old
  /\ TellNobody
  /\ Expire(c)
  /\ UNCHANGED <<turnVars, Rest, troubled>>

(* The card has expired: the agent's question is answered with nothing,    *)
(* an update with no.                                                      *)
TouchOld(c) ==
  /\ Arrives(c) /\ c \in old
  /\ IF asks[c] = "update" \/ (asks[c] = "clarify" /\ c \in waiting)
     THEN Tell(c, "nothing") ELSE TellNobody
  /\ Expire(c)
  /\ UNCHANGED <<turnVars, Rest, troubled>>

(* approval.respond: Hermes is told the session, not the card, and takes   *)
(* the answer for one of the commands that wait there.                     *)
Approve(c) ==
  /\ Valid(c, {"approval"})
  /\ LET pending == {d \in waiting : asks[d] = "approval"} IN
     IF pending = {} THEN TellNobody /\ Expire(c)
     ELSE (\E d \in pending : Tell(d, "answer")) /\ Settle(c, "resolved")
  /\ UNCHANGED <<turnVars, Rest, troubled>>

(* confirm.respond: Hermes runs the command.                               *)
Confirm(c) ==
  /\ Valid(c, {"confirm"})
  /\ IF c \in waiting THEN Tell(c, "answer") /\ Wait(c, "resolve")
                      ELSE TellNobody /\ Expire(c)
  /\ UNCHANGED <<turnVars, Rest, troubled>>

Confirmed ==
  /\ hand.step = "resolve"
  /\ Settle(hand.c, "resolved")
  /\ TellNobody
  /\ UNCHANGED <<turnVars, Rest, troubled>>

(* The reset is refused while a turn is active; a cancelled one is done.   *)
Reset(c) ==
  /\ Valid(c, {"reset"}) /\ active = "none"
  /\ Wait(c, "reset")
  /\ TellNobody
  /\ UNCHANGED <<turnVars, Rest, troubled>>

KeepHistory(c) ==
  /\ Valid(c, {"reset"})
  /\ Settle(c, "resolved")
  /\ TellNobody
  /\ UNCHANGED <<turnVars, Rest, troubled>>

(* Hermes has forgotten its history; session.reset is appended.            *)
Forgotten ==
  /\ hand.step = "reset"
  /\ Tell(hand.c, "answer")
  /\ Wait(hand.c, "clear")
  /\ UNCHANGED <<turnVars, Rest, troubled>>

Cleared ==
  /\ hand.step = "clear"
  /\ Settle(hand.c, "resolved")
  /\ TellNobody
  /\ UNCHANGED <<turnVars, Rest, troubled>>

(* input.respond: an agent's question may be lost, an update's answer goes *)
(* into a file whoever reads it.                                           *)
Answer(c) ==
  /\ Valid(c, {"clarify", "update"})
  /\ IF asks[c] = "update" \/ c \in waiting THEN Tell(c, "answer") /\ Settle(c, "resolved")
                                            ELSE TellNobody /\ Expire(c)
  /\ UNCHANGED <<turnVars, Rest, troubled>>

(* input.cancel of an update, which means no, or of a choice of model.     *)
CancelInput(c) ==
  /\ Valid(c, {"update", "model"})
  /\ IF asks[c] = "update" THEN Tell(c, "nothing") ELSE TellNobody
  /\ Settle(c, "cancelled")
  /\ UNCHANGED <<turnVars, Rest, troubled>>

\* Mutant: cancels the question, and lets its turn run.
BugCancelClarify(c) ==
  /\ Valid(c, {"clarify"})
  /\ UNCHANGED turnVars
  /\ Wait(c, "turn")
  /\ TellNobody
  /\ UNCHANGED <<Rest, troubled>>

(* input.cancel of an agent's question first cancels the turn that asked,  *)
(* unless another one is active.                                           *)
CancelClarify(c) ==
  /\ Valid(c, {"clarify"})
  /\ IF c \in ofTurn /\ active \in {"none", "this"}
     THEN /\ Cancel
          /\ UNCHANGED <<output, tables, active, requested, ending, late, spoiled, calls, faults>>
     ELSE UNCHANGED turnVars
  /\ Wait(c, "turn")
  /\ TellNobody
  /\ UNCHANGED <<Rest, troubled>>

(* _cancel_active_turn has returned, or raised.                            *)
ClarifyCancelled ==
  /\ hand.step = "turn" /\ canc.step = "free" /\ ~canc.broke
  /\ IF hand.c \in waiting THEN Tell(hand.c, "nothing") /\ Settle(hand.c, "cancelled")
                           ELSE TellNobody /\ Expire(hand.c)
  /\ UNCHANGED <<turnVars, Rest, troubled>>

CancelRaised ==
  /\ hand.step = "turn" /\ canc.step = "free" /\ canc.broke
  /\ hand' = Ready
  /\ troubled' = troubled \cup {hand.c}
  /\ UNCHANGED <<turnVars, table, Rest, told, waiting>>

(* _handle_model_picker_action: first the provider, and back, then the     *)
(* model, which a callback of Hermes sets.                                 *)
Pick(c) ==
  /\ Valid(c, {"model"})
  /\ picked' = IF c \in picked THEN picked \ {c} ELSE picked \cup {c}
  /\ UNCHANGED <<turnVars, table, asks, ofTurn, old, asked, hand, waiting, told, verdicts,
                 evicted, troubled>>

PickModel(c) ==
  /\ Valid(c, {"model"}) /\ c \in picked
  /\ Wait(c, "pick")
  /\ TellNobody
  /\ UNCHANGED <<turnVars, Rest, troubled>>

ModelPicked(v) ==
  /\ hand.step = "pick"
  /\ Settle(hand.c, v)
  /\ IF v = "resolved" THEN Tell(hand.c, "answer") ELSE TellNobody
  /\ UNCHANGED <<turnVars, Rest, troubled>>

\* Mutant: leaves the card in the table for the next frame.
BugVerdict ==
  /\ hand.step \in {"event", "expire"}
  /\ verdicts' = [verdicts EXCEPT ![hand.c] = Append(@, hand.v)]
  /\ hand' = Ready
  /\ UNCHANGED <<turnVars, cards, waiting, told, evicted, troubled>>

(* The terminal event is in the log, and the frame is answered.            *)
Verdict ==
  /\ hand.step \in {"event", "expire"}
  /\ verdicts' = [verdicts EXCEPT ![hand.c] = Append(@, hand.v)]
  /\ table' = Without(hand.c)
  /\ hand' = Ready
  /\ UNCHANGED <<turnVars, asks, ofTurn, old, picked, asked, waiting, told, evicted, troubled>>

(* An append, or the command of Hermes, raises: where the card has not     *)
(* left the table, it stays there for another try.                         *)
HandlerFails ==
  /\ Fault
  /\ hand.step \in {"resolve", "reset", "clear", "event", "expire"}
  /\ hand' = Ready
  /\ troubled' = troubled \cup {hand.c}
  /\ UNCHANGED <<output, tables, lives, ending, call, canc, late, stop, spoiled, calls,
                 cards, waiting, told, verdicts, evicted>>

-----------------------------------------------------------------------------
CardSteps ==
  \/ \E c \in Card :
       \/ \E k \in Asks : Ask(c, k) \/ AskFails(c, k)
       \/ Age(c) \/ GiveUp(c) \/ TouchOld(c)
       \/ Approve(c) \/ Confirm(c) \/ Reset(c) \/ KeepHistory(c) \/ Answer(c)
       \/ CancelInput(c) \/ CancelClarify(c) \/ Pick(c) \/ PickModel(c)
  \/ Confirmed \/ Forgotten \/ Cleared \/ ClarifyCancelled \/ CancelRaised
  \/ \E v \in {"resolved", "failed"} : ModelPicked(v)
  \/ Verdict \/ HandlerFails

Next ==
  \/ TurnSteps /\ UNCHANGED cardVars
  \/ hand = Ready /\ AskCancel /\ UNCHANGED cardVars
  \/ CardSteps

Spec == Init /\ [][Next]_vars

-----------------------------------------------------------------------------
(* Properties.                                                             *)

(* A card gets one verdict, and it is what Hermes was told, once.          *)
(* Approvals are told by the session and not by the card; the answer to an *)
(* update may come when nobody reads it.                                   *)
CardTellsTruth ==
  \A c \in Card :
    /\ Len(verdicts[c]) <= 1
    /\ verdicts[c] # <<>> /\ c \notin troubled /\ asks[c] # "approval" =>
         CASE verdicts[c][1] = "resolved"  -> told[c] = <<"answer">> \/ asks[c] = "reset"
           [] verdicts[c][1] = "cancelled" -> told[c] = <<"nothing">> \/ asks[c] = "model"
           [] OTHER -> told[c] \in {<<>>, <<"nothing">>}

(* The turn whose question the user cancelled is ended: it does not go on  *)
(* without an answer.                                                      *)
CancelledQuestionEndsTurn ==
  \A c \in ofTurn :
    asks[c] = "clarify" /\ Contains(verdicts[c], "cancelled") => endings # <<>> \/ spoiled

(* A question of the agent or of an update that Hermes waits for can be    *)
(* answered: its card is in the table, or is being handled, unless newer   *)
(* cards pushed it out.  (An expired approval or confirmation is not told  *)
(* to Hermes, and an approval may be answered in the place of another.)    *)
WaitingIsAnswerable ==
  \A c \in waiting \ (evicted \cup troubled) :
    asks[c] \in {"clarify", "update"} => Contains(table, c) \/ hand.c = c
=============================================================================
