----------------------------- MODULE MCChatStore -----------------------------
(***************************************************************************)
(* Small instances of ChatStore for TLC.  The state space is kept finite   *)
(* by the guards on MaxClock, MaxSeq and MaxTailers in ChatStore itself;   *)
(* callers are interchangeable, so they are a symmetry set.                *)
(***************************************************************************)
EXTENDS ChatStore, TLC

CONSTANT Contended  \* the chat that several callers use

ThreadSymmetry == Permutations(Thread)

Busy == {t \in Thread : thread[t].pc # "idle"}

\* Callers that overlap on one chat.
Races ==
    /\ \A c \in Chat \ {Contended} : ~Present(c)
    /\ \A t \in Busy : thread[t].chat \in {Contended, NoChat}
    /\ \A c \in Chat : tailers[c] = 0
    /\ \A d \in dedup : d.chat = Contended

\* Chats that compete for their place, with one caller at a time.
Crowd ==
    /\ Cardinality(Busy) <= 1
    /\ \A c \in Chat : row[c].latest <= 1
    /\ clock <= 1
    /\ tailers[Inbox] = 0
    /\ dedup = {}

Scope == Races \/ Crowd

=============================================================================
