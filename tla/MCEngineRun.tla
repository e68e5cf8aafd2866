---------------------------- MODULE MCEngineRun -----------------------------
(* Values of the constants of EngineRun for the model checker. *)
EXTENDS EngineRun

\* No usage_metadata, a call within the cap, a call that can overshoot it.
MCCallTokens == {0, 1, 3}
=============================================================================
