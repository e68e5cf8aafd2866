---------------------------- MODULE ChainLineage ----------------------------
(***************************************************************************)
(* What task chaining promises, whoever interleaves with whom: an external *)
(* fire (an operator, a webhook, a scheduler tick, an event) opens a       *)
(* lineage; its successors extend that lineage; within one lineage no task *)
(* is admitted twice and no more than Cap tasks are admitted at all.       *)
(* TaskLifecycle implements this specification.                            *)
(***************************************************************************)
EXTENDS Naturals, FiniteSets

CONSTANTS Roots,  \* the external fires
          Tasks,  \* task names
          Cap     \* CHAIN_DEPTH_CAP

VARIABLE ran      \* ran[r]: the tasks admitted so far in the lineage of r

Init == ran = [r \in Roots |-> {}]

Admit(r, t) ==
    /\ t \notin ran[r]
    /\ Cardinality(ran[r]) < Cap
    /\ ran' = [ran EXCEPT ![r] = @ \cup {t}]

Next == \E r \in Roots, t \in Tasks : Admit(r, t)

Spec == Init /\ [][Next]_ran
=============================================================================
