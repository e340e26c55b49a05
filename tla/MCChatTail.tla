----------------------------- MODULE MCChatTail ------------------------------
(***************************************************************************)
(* Small instances of ChatTail for TLC.                                    *)
(***************************************************************************)
EXTENDS ChatTail, TLC

SubSymmetry == Permutations(Sub)

=============================================================================
