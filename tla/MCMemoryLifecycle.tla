-------------------------- MODULE MCMemoryLifecycle ---------------------------
(* Values for the constants of MemoryLifecycle. *)
EXTENDS MemoryLifecycle, TLC

CONSTANTS a1, a2, p1, p2, plain, odd

TtlValue == [c \in Classes |-> IF c = "persistent" THEN MaxAge ELSE 0]

Interchangeable == Permutations(Promoters) \cup Permutations(Agents)
=============================================================================
