----------------------------- MODULE EventStream -----------------------------
(***************************************************************************)
(* What a chat's log promises the readers subscribed to it, without        *)
(* threads, locks, log objects or wake-ups: a reader that starts at a      *)
(* position gets the following events one by one, none skipped and none    *)
(* twice, until it stops or is refused because its position is no longer   *)
(* in the log.  A reader goes astray when the log is removed under it, or  *)
(* when the log object it waits on is thrown away; nothing is promised to  *)
(* it from then on.                                                        *)
(***************************************************************************)
EXTENDS Integers

CONSTANT Reader

VARIABLES
    end,    \* sequence number of the newest event
    floor,  \* readers below it are refused
    state,  \* of each reader
    pos     \* last event a reading reader got

vars == <<end, floor, state, pos>>

Init ==
    /\ end = 0
    /\ floor = 0
    /\ state = [r \in Reader |-> "off"]
    /\ pos = [r \in Reader |-> 0]

\* Append, trim, or replace all by one tombstone; or start from nothing.
LogChanges == end' \in {end, end + 1} /\ floor' \in floor..end'
LogRemoved == end' = 0 /\ floor' = 0

Leave(R, as) ==
    /\ state' = [r \in Reader |-> IF r \in R THEN as ELSE state[r]]
    /\ pos' = [r \in Reader |-> IF r \in R THEN 0 ELSE pos[r]]

Reading == {r \in Reader : state[r] = "reading"}

Change == LogChanges /\ UNCHANGED <<state, pos>>

Remove == LogRemoved /\ Leave(Reading, "astray")

\* The process goes down with all its readers.
Shutdown == (LogChanges \/ LogRemoved) /\ Leave(Reader, "off")

Lose == Leave(Reading, "astray") /\ UNCHANGED <<end, floor>>

\* At any position, whether or not the log has it.
Start(r) ==
    /\ state[r] = "off"
    /\ state' = [state EXCEPT ![r] = "reading"]
    /\ pos'[r] \in Nat
    /\ pos' = [pos EXCEPT ![r] = pos'[r]]
    /\ UNCHANGED <<end, floor>>

Stop(r) ==
    /\ state[r] # "off"
    /\ Leave({r}, "off")
    /\ UNCHANGED <<end, floor>>

Get(r) ==
    /\ state[r] = "reading"
    /\ pos[r] < end
    /\ pos' = [pos EXCEPT ![r] = @ + 1]
    /\ UNCHANGED <<end, floor, state>>

Refuse(r) ==
    /\ state[r] = "reading"
    /\ pos[r] < floor \/ pos[r] > end
    /\ Stop(r)

Next ==
    \/ Change
    \/ Remove
    \/ Shutdown
    \/ Lose
    \/ \E r \in Reader : Stop(r) \/ Get(r) \/ Refuse(r) \/ Start(r)

Safety == Init /\ [][Next]_vars

Spec == Safety /\ \A r \in Reader : WF_vars(Get(r) \/ Refuse(r))

=============================================================================
