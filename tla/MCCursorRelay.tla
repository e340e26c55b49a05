---------------------------- MODULE MCCursorRelay ----------------------------
(***************************************************************************)
(* Small instances of CursorRelay for TLC.                                 *)
(***************************************************************************)
EXTENDS CursorRelay, TLC

PushSymmetry == Permutations(Push)

\* Pushes against a thread that uses the same chat.
Pushing ==
    /\ \A q \in Pager : page[q].pc = "off"
    /\ clock = 0
    /\ \A c \in Chat : row[c].latest + session <= 3

\* A client that pages through a log while a thread changes it.
Paging ==
    /\ \A p \in Push : push[p].pc = "off"
    /\ session = 0

Scope == Pushing \/ Paging

=============================================================================
