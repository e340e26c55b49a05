------------------------------ MODULE MCTurns ------------------------------
(* An instance of Turns for TLC: one message of each kind.                 *)
EXTENDS Turns

CONSTANTS c, q, s

MCMsgs == {c, q, s}
MCVia  == (c :> "chat") @@ (q :> "queue") @@ (s :> "steer")
=============================================================================
