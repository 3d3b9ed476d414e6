---------------------------- MODULE MCDialogue ----------------------------
(* Dialogue for TLC. *)
EXTENDS Dialogue, TLC

CONSTANTS l1, l2

MCOneListener == {l1}
MCTwoListeners == {l1, l2}
===========================================================================
