----------------------------- MODULE MCRegistry -----------------------------
(* Two clients; the two values of Clients are interchangeable.             *)
EXTENDS Registry, TLC

CONSTANTS c1, c2
Two == {c1, c2}
Interchangeable == Permutations(Two)
=============================================================================
