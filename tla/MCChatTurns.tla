---------------------------- MODULE MCChatTurns -----------------------------
(* Values of the constants of ChatTurns for the model checker. *)
EXTENDS ChatTurns, TLC

CONSTANTS left, right   \* two browser tabs on the session

MCSockets  == {left, right}
MCSymmetry == Permutations(MCSockets)
=============================================================================
