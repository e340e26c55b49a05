------------------------------- MODULE MCSession -------------------------------
(* Relays to rank, one of them the last that dropped us, against the clock of   *)
(* disconnect.                                                                  *)
EXTENDS Session

CONSTANTS r1, r2, r3
MCTwo == {r1, r2}
MCThree == {r1, r2, r3}
================================================================================
