-------------------------- MODULE MCTaskLifecycle --------------------------
(* Values of the constants of TaskLifecycle for the model checker. *)
EXTENDS TaskLifecycle

CONSTANTS a, b, c

\* Chains: a and b succeed into each other (a cycle), a failed a fires itself
\* (a self-cycle), a failed b fires c, which needs approval.
ChainTasks == {a, b, c}
ChainSuccess == [t \in ChainTasks |-> IF t = a THEN b ELSE IF t = b THEN a ELSE NoTask]
ChainFailure == [t \in ChainTasks |-> IF t = a THEN a ELSE IF t = b THEN c ELSE NoTask]

\* Operators: one task.
OneTask == {a}
FiresItself == [t \in OneTask |-> a]
NoSuccessor == [t \in OneTask |-> NoTask]
=============================================================================
