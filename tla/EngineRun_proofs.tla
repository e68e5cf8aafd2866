-------------------------- MODULE EngineRun_proofs --------------------------
(***************************************************************************)
(* Theorems about EngineRun and about Guardrails, whose checks the engine  *)
(* makes of what it sends and delivers, for every value of their constants.*)
(*                                                                         *)
(* The inductive invariant IInv of EngineRun is proved in four layers,     *)
(* each on top of the types: the call budgets, the token budget, the       *)
(* ledger of what was charged and billed, and what the end of the run      *)
(* writes.                                                                 *)
(*                                                                         *)
(* GuardInv has a part for the edits (EditInv) and one for the check that  *)
(* runs (CheckInv), which meet in the rows.  ResolvedInForce compares what *)
(* the code resolves with the documented order of overrides.  What a check *)
(* sends on rests on the lemmas about Redaction: sorting lists each place  *)
(* once (PlacesListed), and cutting from the last hit to the first leaves  *)
(* what stands before the cut as it was (Cleared).                         *)
(***************************************************************************)
EXTENDS EngineRun, Guardrails, FiniteSetTheorems, SequenceTheorems, WellFoundedInduction, TLAPS

Base   == TypeOK /\ Prompted /\ Concluded
Calls  == Ticked /\ CallsWithinBudget
Tokens == Measured /\ TokensOvershootByOneCall
Costs  == Ledger /\ Settled
Ending == Closing /\ DeliverableIsBacked

USE EngineConstants

LEMMA InitAll == Init => IInv
<1> SUFFICES ASSUME Init PROVE IInv
  OBVIOUS
<1> USE DEF Init
<1>1. TypeOK
  <2>1. <<>> \in Seq(Roles)
    OBVIOUS
  <2>2. graph \in [messages : Seq(Roles), response : {"none", "final", "tool"}]
    BY <2>1 DEF State
  <2>3. node \in Nodes
    BY DEF Nodes, LoopNodes
  <2> QED
    BY <2>2, <2>3 DEF TypeOK
<1>2. Prompted /\ Concluded /\ Ticked /\ CallsWithinBudget
  BY DEF Prompted, Concluded, LoopNodes, Ticked, CallsWithinBudget
<1>3. Measured /\ TokensOvershootByOneCall
  BY DEF Measured, TokensOvershootByOneCall
<1>4. Ledger /\ Settled /\ Closing /\ DeliverableIsBacked
  BY DEF Ledger, Settled, Closing, DeliverableIsBacked
<1> QED
  BY <1>1, <1>2, <1>3, <1>4 DEF IInv

-----------------------------------------------------------------------------
(* Types.                                                                  *)

Graphs == [messages : Seq(Roles), response : {"none", "final", "tool"}]

LEMMA ReportType ==
  ASSUME TypeOK, NEW error \in BOOLEAN, Report(error)
  PROVE  /\ node' = "invoke" /\ hinted' \in BOOLEAN
         /\ graph' \in Graphs /\ Len(graph.messages') > 0
<1> DEFINE more == IF error /\ ~hinted THEN <<"system", "tool">> ELSE <<"tool">>
<1>a. /\ <<"system", "tool">> \in Seq(Roles) /\ Len(<<"system", "tool">>) = 2
      /\ <<"tool">> \in Seq(Roles) /\ Len(<<"tool">>) = 1
  BY DEF Roles
<1>6. more = <<"system", "tool">> \/ more = <<"tool">>
  OBVIOUS
<1>1. more \in Seq(Roles) /\ Len(more) > 0
  BY <1>a, <1>6
<1>c. graph.messages \in Seq(Roles)
  BY DEF TypeOK
<1> HIDE DEF more
<1>2. graph' = State(graph.messages \o more, "none")
  BY DEF Report, more
<1>3. graph.messages \o more \in Seq(Roles) /\ Len(graph.messages \o more) > 0
  BY <1>1, <1>c, ConcatProperties
<1> QED
  BY <1>2, <1>3 DEF more, Report, State, TypeOK, Graphs

\* What Interrupted leaves behind.
LEMMA InterruptedType ==
  ASSUME TypeOK, Interrupted
  PROVE  /\ spent' \in Nat /\ events' \in Nat /\ missed' \in Nat /\ call' = 0
         /\ tracked' = tracked /\ billed' = billed /\ lost' = lost
<1>1. PICK n \in CallTokens \cup {0} : spent' = spent + n
  BY DEF Interrupted
<1> QED
  BY <1>1 DEF TypeOK, Interrupted, Keep, Miss

LEMMA NextBase ==
  ASSUME Base, [Next]_vars
  PROVE  Base'
<1> USE DEF Base
<1>g. graph \in Graphs /\ graph.messages \in Seq(Roles)
  BY DEF TypeOK, Graphs
<1>1. CASE Prepare
  <2>1. graph' \in Graphs /\ Len(graph.messages') > 0
    BY <1>1 DEF Prepare, State, Graphs, Roles
  <2>2. TypeOK'
    BY <1>1, <2>1 DEF Prepare, TypeOK, Graphs, Nodes, LoopNodes, budget, ghosts, meter, costs, output
  <2>3. Prompted' /\ Concluded'
    BY <1>1, <2>1 DEF Prepare, Prompted, Concluded, TypeOK, LoopNodes, budget, ghosts, meter, costs, output
  <2> QED
    BY <2>2, <2>3
<1>2. CASE Invoke
  <2>0. [graph.messages EXCEPT ![1] = "system"] \in Seq(Roles)
    BY <1>2, <1>g, ExceptSeq DEF Invoke, Prompted, Roles
  <2>1. graph' \in Graphs
    BY <1>2, <1>g, <2>0 DEF Invoke, State, Graphs
  <2>2. TypeOK'
    BY <1>2, <2>1 DEF Invoke, WithinCalls, Fail, TypeOK, Graphs, Nodes, LoopNodes, meter, costs, output
  <2>3. Prompted' /\ Concluded'
    BY <1>2, <2>1 DEF Invoke, WithinCalls, Fail, Prompted, Concluded, TypeOK, LoopNodes, meter, costs, output
  <2> QED
    BY <2>2, <2>3
<1>3. ASSUME NEW n \in CallTokens, NEW kind \in {"final", "tool"}, Answer(n, kind)
      PROVE  Base'
  <2>0. n \in Nat /\ node' = "recording" /\ largest' \in {n, largest}
    BY <1>3 DEF Answer
  <2>1. graph' \in Graphs
    BY <1>3, <1>g DEF Answer, State, Graphs
  <2>2. TypeOK'
    BY <1>3, <2>0, <2>1 DEF Answer, TypeOK, Graphs, Nodes, LoopNodes, budget, output
  <2>3. Prompted' /\ Concluded'
    BY <1>3, <2>1 DEF Answer, Prompted, Concluded, TypeOK, LoopNodes, budget, output
  <2> QED
    BY <2>2, <2>3
<1>4. CASE Record
  <2>2. TypeOK'
    BY <1>4 DEF Record, Keep, Miss, Fail, TypeOK, Graphs, Nodes, LoopNodes, ghosts, output
  <2>3. Prompted' /\ Concluded'
    BY <1>4 DEF Record, Keep, Miss, Fail, Prompted, Concluded, TypeOK, LoopNodes, ghosts, output
  <2> QED
    BY <2>2, <2>3
<1>5. CASE Guardrail
  <2>1. graph' \in Graphs
    BY <1>5, <1>g DEF Guardrail, State, Graphs
  <2>2. TypeOK'
    BY <1>5, <2>1 DEF Guardrail, TypeOK, Graphs, Nodes, LoopNodes, budget, ghosts, meter, costs, output
  <2>3. Prompted' /\ Concluded'
    BY <1>5, <2>1 DEF Guardrail, Prompted, Concluded, TypeOK, LoopNodes, budget, ghosts, meter, costs, output
  <2> QED
    BY <2>2, <2>3
<1>6. CASE Classify
  <2>1. graph' \in Graphs
    BY <1>6 DEF Classify, State, Graphs
  <2>2. TypeOK'
    BY <1>6, <2>1 DEF Classify, TypeOK, Graphs, Nodes, LoopNodes, budget, ghosts, meter, costs, output
  <2>3. Prompted' /\ Concluded'
    BY <1>6, <2>1 DEF Classify, Prompted, Concluded, TypeOK, LoopNodes, budget, ghosts, meter, costs, output
  <2> QED
    BY <2>2, <2>3
<1>7. CASE Deny
  <2>1. /\ node' = "invoke" /\ hinted' \in BOOLEAN
        /\ graph' \in Graphs /\ Len(graph.messages') > 0
    BY <1>7, ReportType DEF Deny
  <2>2. TypeOK'
    BY <1>7, <2>1 DEF Deny, TypeOK, Graphs, Nodes, LoopNodes, budget, ghosts, meter, costs, output
  <2>3. Prompted' /\ Concluded'
    BY <1>7, <2>1 DEF Deny, Prompted, Concluded, TypeOK, LoopNodes, budget, ghosts, meter, costs, output
  <2> QED
    BY <2>2, <2>3
<1>8. CASE Dispatch
  <2>1. Report(TRUE) => /\ node' = "invoke" /\ hinted' \in BOOLEAN
                        /\ graph' \in Graphs /\ Len(graph.messages') > 0
    BY ReportType
  <2>2. TypeOK'
    <3>1. /\ graph' \in Graphs /\ hinted' \in BOOLEAN
          /\ node' \in {"invoke", "tool", "settling"} /\ final' \in {final, "failed"}
      BY <1>8, <1>g, <2>1 DEF Dispatch, Fail, TypeOK
    <3>2. tool_calls' = tool_calls + 1 /\ dispatched' \in {dispatched, dispatched + 1}
      BY <1>8 DEF Dispatch
    <3>3. /\ iterations' = iterations /\ model_calls' = model_calls
          /\ tokens_used' = tokens_used /\ called' = called /\ largest' = largest
          /\ UNCHANGED <<costs, expired, row, output>>
      BY <1>8 DEF Dispatch
    <3> QED
      BY <3>1, <3>2, <3>3 DEF TypeOK, Graphs, Nodes, LoopNodes, meter, costs, output
  <2>3. Prompted' /\ Concluded'
    BY <1>8, <2>1 DEF Dispatch, Fail, Prompted, Concluded, TypeOK, LoopNodes, meter, costs, output
  <2> QED
    BY <2>2, <2>3
<1>9. ASSUME NEW error \in BOOLEAN, ToolReturns(error) PROVE Base'
  <2>1. /\ node' = "invoke" /\ hinted' \in BOOLEAN
        /\ graph' \in Graphs /\ Len(graph.messages') > 0
    BY <1>9, ReportType DEF ToolReturns
  <2>2. TypeOK'
    BY <1>9, <2>1 DEF ToolReturns, TypeOK, Graphs, Nodes, LoopNodes, budget, ghosts, meter, costs, output
  <2>3. Prompted' /\ Concluded'
    BY <1>9, <2>1 DEF ToolReturns, Prompted, Concluded, TypeOK, LoopNodes, budget, ghosts, meter, costs, output
  <2> QED
    BY <2>2, <2>3
<1>10. CASE Raise
  <2>1. /\ spent' \in Nat /\ events' \in Nat /\ missed' \in Nat /\ call' = 0
        /\ tracked' = tracked /\ billed' = billed /\ lost' = lost
    BY <1>10, InterruptedType DEF Raise
  <2>2. TypeOK'
    BY <1>10, <2>1 DEF Raise, Fail, TypeOK, Graphs, Nodes, LoopNodes, budget, ghosts, output
  <2>3. Prompted' /\ Concluded'
    BY <1>10, <2>1 DEF Raise, Fail, Prompted, Concluded, TypeOK, LoopNodes, budget, ghosts, output
  <2> QED
    BY <2>2, <2>3
<1>11. CASE Timeout
  <2>1. /\ spent' \in Nat /\ events' \in Nat /\ missed' \in Nat /\ call' = 0
        /\ tracked' = tracked /\ billed' = billed /\ lost' = lost
    BY <1>11, InterruptedType DEF Timeout
  <2>2. TypeOK'
    BY <1>11, <2>1 DEF Timeout, Fail, TypeOK, Graphs, Nodes, LoopNodes, budget, ghosts, output
  <2>3. Prompted' /\ Concluded'
    BY <1>11, <2>1 DEF Timeout, Fail, Prompted, Concluded, TypeOK, LoopNodes, budget, ghosts, output
  <2> QED
    BY <2>2, <2>3
<1>12. CASE Settle
  <2>1. /\ Usage \in Nat /\ billed' \in Nat /\ lost' \in BOOLEAN
        /\ node' \in {"reflecting", "writing"}
    BY <1>12 DEF Settle, Usage, TypeOK
  <2>2. TypeOK'
    BY <1>12, <2>1 DEF Settle, TypeOK, Graphs, Nodes, LoopNodes, budget, ghosts, meter, output
  <2>3. Prompted' /\ Concluded'
    BY <1>12, <2>1 DEF Settle, Prompted, Concluded, TypeOK, LoopNodes, budget, ghosts, meter, output
  <2> QED
    BY <2>2, <2>3
<1>13. CASE Reflect
  <2>2. TypeOK'
    BY <1>13 DEF Reflect, TypeOK, Graphs, Nodes, LoopNodes, budget, ghosts, meter, costs, output
  <2>3. Prompted' /\ Concluded'
    BY <1>13 DEF Reflect, Prompted, Concluded, TypeOK, LoopNodes, budget, ghosts, meter, costs, output
  <2> QED
    BY <2>2, <2>3
<1>14. CASE Write
  <2>1. /\ file' \in BOOLEAN /\ meta' \in BOOLEAN /\ node' = "committing"
    BY <1>14 DEF Write, TypeOK
  <2>2. TypeOK'
    BY <1>14, <2>1 DEF Write, TypeOK, Graphs, Nodes, LoopNodes, budget, ghosts, meter, costs, output
  <2>3. Prompted' /\ Concluded'
    BY <1>14 DEF Write, Prompted, Concluded, TypeOK, LoopNodes, budget, ghosts, meter, costs, output
  <2> QED
    BY <2>2, <2>3
<1>15. CASE Expire
  <2>2. TypeOK'
    BY <1>15 DEF Expire, TypeOK, Graphs, Nodes, LoopNodes, budget, ghosts, meter, costs, output
  <2>3. Prompted' /\ Concluded'
    BY <1>15 DEF Expire, Prompted, Concluded, TypeOK, LoopNodes, budget, ghosts, meter, costs, output
  <2> QED
    BY <2>2, <2>3
<1>16. CASE Crash
  <2>2. TypeOK'
    BY <1>16 DEF Crash, TypeOK, Graphs, Nodes, LoopNodes, budget, ghosts, meter, costs, output
  <2>3. Prompted' /\ Concluded'
    BY <1>16 DEF Crash, Prompted, Concluded, TypeOK, LoopNodes, budget, ghosts, meter, costs, output
  <2> QED
    BY <2>2, <2>3
<1>17. CASE Commit
  <2>1. final \in {"completed", "failed"}
    BY <1>17 DEF Commit, Concluded, TypeOK, LoopNodes
  <2>2. TypeOK'
    BY <1>17, <2>1 DEF Commit, TypeOK, Graphs, Nodes, LoopNodes, budget, ghosts, meter, costs, output
  <2>3. Prompted' /\ Concluded'
    BY <1>17, <2>1 DEF Commit, Prompted, Concluded, TypeOK, LoopNodes, budget, ghosts, meter, costs, output
  <2> QED
    BY <2>2, <2>3
<1>18. CASE UNCHANGED vars
  <2>2. TypeOK'
    BY <1>18 DEF vars, TypeOK, Graphs, Nodes, LoopNodes, budget, ghosts, meter, costs, output
  <2>3. Prompted' /\ Concluded'
    BY <1>18 DEF vars, Prompted, Concluded, TypeOK, LoopNodes, budget, ghosts, meter, costs, output
  <2> QED
    BY <2>2, <2>3
<1> QED
  BY <1>1, <1>2, <1>3, <1>4, <1>5, <1>6, <1>7, <1>8, <1>9, <1>10,
     <1>11, <1>12, <1>13, <1>14, <1>15, <1>16, <1>17, <1>18 DEF Next, Loop, Finalize

-----------------------------------------------------------------------------
(* The call budgets.                                                       *)

LEMMA NextCalls ==
  ASSUME Base, Calls, [Next]_vars
  PROVE  Calls'
<1> USE DEF Base, Calls
<1>1. CASE Invoke
  BY <1>1 DEF Invoke, WithinCalls, TypeOK, Ticked, CallsWithinBudget
<1>2. CASE Dispatch
  <2>1. /\ tool_calls' = tool_calls + 1
        /\ \/ dispatched' = dispatched
           \/ tool_calls < MaxToolCalls /\ dispatched' = dispatched + 1
        /\ UNCHANGED <<iterations, model_calls, called>>
    BY <1>2 DEF Dispatch
  <2> QED
    BY <2>1 DEF TypeOK, Ticked, CallsWithinBudget
<1>3. CASE UNCHANGED <<iterations, model_calls, tool_calls, called, dispatched>>
  BY <1>3 DEF Ticked, CallsWithinBudget
<1>4. Invoke \/ Dispatch \/ UNCHANGED <<iterations, model_calls, tool_calls, called, dispatched>>
  BY DEF Next, Loop, Finalize, Prepare, Answer, Record, Guardrail, Classify, Deny, ToolReturns,
         Raise, Timeout, Settle, Reflect, Write, Commit, Expire, Crash,
         budget, ghosts, vars
<1> QED
  BY <1>1, <1>2, <1>3, <1>4

-----------------------------------------------------------------------------
(* The token budget.                                                       *)

LEMMA NextTokens ==
  ASSUME Base, Tokens, [Next]_vars
  PROVE  Tokens'
<1> USE DEF Base, Tokens
<1>1. ASSUME NEW n \in CallTokens, NEW kind \in {"final", "tool"}, Answer(n, kind)
      PROVE  Tokens'
  <2>1. n \in Nat /\ node \in LoopNodes
    BY <1>1 DEF Answer, LoopNodes
  <2> QED
    BY <1>1, <2>1 DEF Answer, TypeOK, Measured, TokensOvershootByOneCall, budget
<1>2. CASE Record
  <2>1. node \in LoopNodes /\ call' = 0 /\ largest' = largest
    BY <1>2 DEF Record, LoopNodes, ghosts
  <2>2. TokenCap # 0 => tokens_used <= TokenCap /\ tokens_used' = tokens_used + call
    BY <1>2, <2>1 DEF Record, TokensOvershootByOneCall
  <2>3. node' \in LoopNodes => ~OverTokens
    BY <1>2 DEF Record, Fail, LoopNodes
  <2> QED
    BY <2>1, <2>2, <2>3 DEF OverTokens, TypeOK, Measured, TokensOvershootByOneCall
<1>3. CASE /\ UNCHANGED <<tokens_used, largest>> /\ call' \in {call, 0}
           /\ node' \in LoopNodes => node \in LoopNodes
  BY <1>3 DEF TypeOK, Measured, TokensOvershootByOneCall
<1>4. \/ Record \/ \E n \in CallTokens, kind \in {"final", "tool"} : Answer(n, kind)
      \/ /\ UNCHANGED <<tokens_used, largest>> /\ call' \in {call, 0}
         /\ node' \in LoopNodes => node \in LoopNodes
  BY DEF Next, Loop, Finalize, Prepare, Invoke, Guardrail, Classify, Deny, Dispatch,
         ToolReturns, Raise, Timeout, Interrupted, Report, Fail, Settle, Reflect, Write,
         Commit, Expire, Crash, LoopNodes, budget, ghosts, meter, costs, vars
<1> QED
  BY <1>1, <1>2, <1>3, <1>4

-----------------------------------------------------------------------------
(* What was charged, tracked, written and billed.                          *)

LEMMA NextCosts ==
  ASSUME Base, Costs, [Next]_vars
  PROVE  Costs'
<1> USE DEF Base, Costs
<1>0. /\ events \in Nat /\ missed \in Nat /\ call \in Nat /\ spent \in Nat /\ tracked \in Nat
      /\ events' \in Nat /\ missed' \in Nat /\ call' \in Nat /\ tracked' \in Nat
  BY NextBase DEF TypeOK
<1>a. tracked = events + missed + call
  BY DEF Ledger
<1>1. ASSUME NEW n \in CallTokens, NEW kind \in {"final", "tool"}, Answer(n, kind)
      PROVE  Costs'
  <2>1. n \in Nat /\ node = "calling" /\ node' = "recording" /\ call = 0 /\ spent = tracked
    BY <1>1 DEF Answer, Ledger, LoopNodes
  <2>2. spent' = tracked' /\ tracked' = events' + missed' + call'
    BY <1>1, <2>1 DEF Answer, Ledger, TypeOK
  <2>3. spent' = tracked' + 0
    BY <2>2, <1>1 DEF Answer, TypeOK
  <2> QED
    BY <2>1, <2>2, <2>3 DEF Ledger, Settled
<1>2. CASE Record
  <2>1. node = "recording" /\ node' \in {"settling", "guardrail"} /\ spent = tracked
    BY <1>2 DEF Record, Fail, Ledger, LoopNodes
  <2>2. call' = 0 /\ spent' = spent /\ tracked' = tracked
    BY <1>2 DEF Record
  <2>3. events' + missed' = events + missed + call
    BY <1>2 DEF Record, Keep, Miss, TypeOK
  <2>4. tracked' = events' + missed' + call' /\ spent' = tracked' + 0 /\ spent' = tracked'
    <3>1. events' + missed' + call' = events' + missed'
      BY <1>0, <2>2
    <3> QED
      BY <1>0, <1>a, <2>1, <2>2, <2>3, <3>1
  <2> QED
    BY <2>1, <2>2, <2>4 DEF Ledger, Settled
<1>3. CASE Raise \/ Timeout
  <2>1. Interrupted /\ node \in LoopNodes /\ node' = "settling"
    BY <1>3 DEF Raise, Timeout, Fail, LoopNodes
  <2>2. PICK n \in CallTokens \cup {0} : spent' = spent + n
    BY <2>1 DEF Interrupted
  <2>3. call' = 0 /\ tracked' = tracked /\ events' + missed' = events + missed + call
    BY <2>1 DEF Interrupted, Keep, Miss, TypeOK
  <2>4. spent' = tracked' + n
    BY <2>1, <2>2, <2>3 DEF Ledger
  <2>5. tracked' = events' + missed' + call'
    <3>1. events' + missed' + call' = events' + missed'
      BY <1>0, <2>3
    <3> QED
      BY <1>0, <1>a, <2>3, <3>1
  <2> QED
    BY <2>1, <2>3, <2>4, <2>5 DEF Ledger, Settled, LoopNodes
<1>4. CASE Settle
  <2>1. node = "settling" /\ node' \in {"reflecting", "writing"}
    BY <1>4 DEF Settle
  <2>2. UNCHANGED <<spent, tracked, call, events, missed>>
    BY <1>4 DEF Settle, meter
  <2>3. Ledger'
    BY <2>1, <2>2 DEF Ledger, LoopNodes
  <2>4. ~lost' => billed' = Usage
    BY <1>4 DEF Settle, TypeOK
  <2> QED
    BY <2>2, <2>3, <2>4 DEF Settled, Usage
<1>5. CASE /\ UNCHANGED costs
           /\ node' \in LoopNodes => node \in LoopNodes
           /\ node' \in {"recording", "crashed"} \/ node # "recording"
           /\ node = "crashed" => node' = "crashed"
           /\ node' \in {"reflecting", "writing", "committing", "ended", "raised"}
                 => node \in {"reflecting", "writing", "committing", "ended", "raised"}
  <2>1. UNCHANGED <<spent, tracked, call, events, missed, billed, lost>>
    BY <1>5 DEF costs, meter
  <2>2. Ledger'
    BY <1>5, <2>1 DEF Ledger
  <2>3. Settled'
    BY <1>5, <2>1 DEF Settled, Usage
  <2> QED
    BY <2>2, <2>3
<1>6. \/ \E n \in CallTokens, kind \in {"final", "tool"} : Answer(n, kind)
      \/ Record \/ Raise \/ Timeout \/ Settle
      \/ /\ UNCHANGED costs
         /\ node' \in LoopNodes => node \in LoopNodes
         /\ node' \in {"recording", "crashed"} \/ node # "recording"
         /\ node = "crashed" => node' = "crashed"
         /\ node' \in {"reflecting", "writing", "committing", "ended", "raised"}
               => node \in {"reflecting", "writing", "committing", "ended", "raised"}
  BY DEF Next, Loop, Finalize, Prepare, Invoke, Guardrail, Classify, Deny, Dispatch,
         ToolReturns, Report, Fail, Reflect, Write, Commit, Expire, Crash,
         LoopNodes, vars
<1> QED
  BY <1>1, <1>2, <1>3, <1>4, <1>5, <1>6

-----------------------------------------------------------------------------
(* The end of the run.                                                     *)

LEMMA NextEnding ==
  ASSUME Base, Ending, [Next]_vars
  PROVE  Ending'
<1> USE DEF Base, Ending
<1>1. CASE Write
  BY <1>1 DEF Write, Closing, DeliverableIsBacked, LoopNodes
<1>2. CASE Commit
  BY <1>2 DEF Commit, Closing, DeliverableIsBacked, TypeOK
<1>3. CASE /\ UNCHANGED <<row, file, meta, deliverable>>
           /\ node \in {"ended", "raised", "crashed"} => node' = node
           /\ node = "committing" => node' \in {"committing", "crashed"}
           /\ node \notin LoopNodes => final' = final
  BY <1>3 DEF Closing, DeliverableIsBacked, LoopNodes
<1>4. \/ Write \/ Commit
      \/ /\ UNCHANGED <<row, file, meta, deliverable>>
         /\ node \in {"ended", "raised", "crashed"} => node' = node
         /\ node = "committing" => node' \in {"committing", "crashed"}
         /\ node \notin LoopNodes => final' = final
  BY DEF Next, Loop, Finalize, Prepare, Invoke, Answer, Record, Guardrail, Classify, Deny,
         Dispatch, ToolReturns, Report, Fail, Raise, Timeout, Settle, Reflect, Expire,
         Crash, LoopNodes, output, vars
<1> QED
  BY <1>1, <1>2, <1>3, <1>4

-----------------------------------------------------------------------------
(* The theorems.                                                           *)

\* The inductive invariant holds of every behaviour of a run.
THEOREM Invariance == Spec => []IInv
<1>1. Init => IInv
  BY InitAll
<1>2. IInv /\ [Next]_vars => IInv'
  <2> SUFFICES ASSUME IInv, [Next]_vars PROVE IInv'
    OBVIOUS
  <2>1. Base /\ Calls /\ Tokens /\ Costs /\ Ending
    BY DEF IInv, Base, Calls, Tokens, Costs, Ending
  <2>2. Base' /\ Calls' /\ Tokens' /\ Costs' /\ Ending'
    BY <2>1, NextBase, NextCalls, NextTokens, NextCosts, NextEnding
  <2> QED
    BY <2>2 DEF IInv, Base, Calls, Tokens, Costs, Ending
<1> QED
  BY <1>1, <1>2, PTL DEF Spec

\* Every variable of a run keeps its type; in particular the row only ever
\* shows one of the three states of engine.run().
THEOREM RunTypes == Spec => []TypeOK
<1>1. IInv => TypeOK
  BY DEF IInv
<1> QED
  BY <1>1, Invariance, PTL

\* Whatever the model answers and the tools do, BudgetGuard bounds the calls
\* made and the tools started, for every budget.
THEOREM BudgetsBoundCalls == Spec => []CallsWithinBudget
<1>1. IInv => CallsWithinBudget
  BY DEF IInv
<1> QED
  BY <1>1, Invariance, PTL

\* max_tokens_per_run is overshot by at most the largest answer, for every
\* cap and every size of answer.
THEOREM TokenCapHolds == Spec => []TokensOvershootByOneCall
<1>1. IInv => TokensOvershootByOneCall
  BY DEF IInv
<1> QED
  BY <1>1, Invariance, PTL

\* What a closed run is not billed is a call that was cut off and the answers
\* whose ModelCallEventRow is missing, and nothing else.
THEOREM BillingIsAccounted == Spec => []ShortfallIsAccounted
<1>1. IInv => ShortfallIsAccounted
  <2> SUFFICES ASSUME IInv, row # "running", ~lost
               PROVE  \E n \in CallTokens \cup {0} :
                         spent = billed + n + (IF events = 0 THEN 0 ELSE missed)
    BY DEF ShortfallIsAccounted
  <2>1. node = "ended" /\ TypeOK
    BY DEF IInv, Closing
  <2>2. billed = Usage /\ call = 0
    BY <2>1 DEF IInv, Settled, Ledger
  <2>3. PICK n \in CallTokens \cup {0} : spent = tracked + n
    BY DEF IInv, Ledger
  <2>4. tracked = events + missed
    BY <2>1, <2>2 DEF IInv, Ledger, TypeOK
  <2>5. n \in Nat
    OBVIOUS
  <2>6. CASE events = 0
    BY <2>1, <2>2, <2>3, <2>5, <2>6 DEF Usage, TypeOK
  <2>7. CASE events # 0
    BY <2>1, <2>2, <2>3, <2>4, <2>5, <2>7 DEF Usage, TypeOK
  <2> QED
    BY <2>6, <2>7
<1> QED
  BY <1>1, Invariance, PTL

\* A DeliverableRow is never ahead of its file or of the run's completion.
THEOREM DeliverablesAreBacked == Spec => []DeliverableIsBacked
<1>1. IInv => DeliverableIsBacked
  BY DEF IInv
<1> QED
  BY <1>1, Invariance, PTL

-----------------------------------------------------------------------------
(* Guardrails.                                                             *)

HIDE EngineConstants

\* A set of natural numbers that has an element has a least one, and if it has
\* a bound a greatest one.
LEMMA LeastExists ==
  ASSUME NEW S \in SUBSET Nat, S # {}
  PROVE  \E i \in S : \A j \in S : i <= j
<1> DEFINE R == {ss \in Nat \X Nat : ss[1] < ss[2]}
<1>1. IsWellFoundedOn(R, Nat)
  BY NatLessThanWellFounded DEF OpToRel
<1>2. \A i, j \in Nat : <<j, i>> \notin R => i <= j
  OBVIOUS
<1> HIDE DEF R
<1>3. PICK i \in S : \A j \in S : <<j, i>> \notin R
  BY <1>1, WFMin
<1>4. \A j \in S : i <= j
  <2> TAKE j \in S
  <2>1. i \in Nat /\ j \in Nat
    OBVIOUS
  <2> QED
    BY <1>2, <1>3, <2>1
<1> QED
  BY <1>4

Bounded(S) == \E n \in Nat : \A i \in S : i <= n

LEMMA LeastIs ==
  ASSUME NEW S \in SUBSET Nat, S # {}
  PROVE  Least(S) \in S /\ \A j \in S : Least(S) <= j
BY LeastExists DEF Least

LEMMA GreatestIs ==
  ASSUME NEW S \in SUBSET Nat, S # {}, Bounded(S)
  PROVE  Greatest(S) \in S /\ \A j \in S : j <= Greatest(S)
<1> DEFINE U == {u \in Nat : \A j \in S : j <= u}
<1>1. U \in SUBSET Nat /\ U # {}
  BY DEF Bounded
<1>2. PICK u \in U : \A v \in U : u <= v
  BY ONLY <1>1, LeastExists
<1>3. u \in S
  <2> SUFFICES ASSUME u \notin S PROVE FALSE
    OBVIOUS
  <2>1. \A j \in S : j <= u - 1
    <3> TAKE j \in S
    <3>1. j \in Nat /\ u \in Nat /\ j <= u /\ j # u
      OBVIOUS
    <3> QED
      BY ONLY <3>1
  <2>2. u - 1 \in Nat
    <3>1. PICK j \in S : TRUE
      OBVIOUS
    <3>2. j \in Nat /\ u \in Nat /\ j <= u - 1
      BY <2>1
    <3> QED
      BY ONLY <3>2
  <2>3. u - 1 \in U
    BY <2>1, <2>2
  <2> QED
    BY <1>2, <2>2, <2>3
<1>4. \E i \in S : \A j \in S : j <= i
  BY <1>3
<1> QED
  BY <1>4 DEF Greatest

LEMMA LevelNames == Levels = {"allow", "warn", "redact", "shadow_block", "block"}
<1>1. DOMAIN LevelOrder = 1..5
  BY DEF LevelOrder
<1>2. /\ LevelOrder[1] = "allow" /\ LevelOrder[2] = "warn" /\ LevelOrder[3] = "redact"
      /\ LevelOrder[4] = "shadow_block" /\ LevelOrder[5] = "block"
  BY DEF LevelOrder
<1>3. 1..5 = {1, 2, 3, 4, 5}
  OBVIOUS
<1>4. Levels = {LevelOrder[i] : i \in {1, 2, 3, 4, 5}}
  BY <1>1, <1>3 DEF Levels
<1> QED
  BY <1>2, <1>4

\* The columns of a row are not taken for a missing row.
LEMMA NoRowIsNoValue == \A v \in Values : v # NoRow
BY LevelNames DEF Values, NoRow

-----------------------------------------------------------------------------
(* What a check resolves is what its rows and grants have in force.        *)

Grant == [owner : Agents \cup {Everyone}, class : Classes, scopes : SUBSET Scopes,
          level : Levels, lasting : BOOLEAN, live : BOOLEAN]

\* A point has at most one latest row, and the last row list_all returns is it.
LEMMA LatestIs ==
  ASSUME NEW rs, RowsTyped(rs), Bounded(DOMAIN rs), NEW p
  PROVE  LET latest == {i \in RowsOf(rs, p) : \A j \in RowsOf(rs, p) : j <= i}
         IN  /\ RowsOf(rs, p) = {} => latest = {} /\ RowFor(rs, p) = NoRow
             /\ RowsOf(rs, p) # {} =>
                  \E i \in DOMAIN rs : latest = {i} /\ RowFor(rs, p) = rs[i].values
                                       /\ rs[i].values \in Values
<1>1. RowsOf(rs, p) \in SUBSET Nat /\ Bounded(RowsOf(rs, p)) /\ RowsOf(rs, p) \subseteq DOMAIN rs
  BY DEF RowsOf, RowsTyped, Bounded
<1>2. CASE RowsOf(rs, p) = {}
  BY <1>2 DEF RowFor
<1>3. CASE RowsOf(rs, p) # {}
  <2> DEFINE i == Greatest(RowsOf(rs, p))
  <2>1. i \in RowsOf(rs, p) /\ \A j \in RowsOf(rs, p) : j <= i
    BY <1>1, <1>3, GreatestIs
  <2>2. RowFor(rs, p) = rs[i].values
    BY <1>3 DEF RowFor
  <2> HIDE DEF i
  <2>3. \A k \in RowsOf(rs, p) : (\A j \in RowsOf(rs, p) : j <= k) => k = i
    <3> SUFFICES ASSUME NEW k \in RowsOf(rs, p), \A j \in RowsOf(rs, p) : j <= k
                 PROVE  k = i
      OBVIOUS
    <3>1. i <= k /\ k <= i /\ i \in Nat /\ k \in Nat
      BY <1>1, <2>1
    <3> QED
      BY ONLY <3>1
  <2>4. rs[i].values \in Values
    BY <1>1, <2>1 DEF RowsTyped
  <2> QED
    BY <1>1, <1>3, <2>1, <2>2, <2>3, <2>4
<1> QED
  BY <1>2, <1>3

\* resolve_policy, written as a cascade of fallbacks over the rows and the
\* active grants, gives each class the level that the documented order gives it:
\* of the grants, the agent's row, the global row and the default that cover the
\* scope, the first, and of several grants the newest.
THEOREM ResolvedInForce ==
  ASSUME NEW rs, RowsTyped(rs), Bounded(DOMAIN rs), grants \in Seq(Grant),
         NEW agent \in Agents \cup {Nobody}, NEW scope \in Scopes, NEW c \in Classes
  PROVE  ResolvePolicy(rs, ActiveGrants(agent), agent, scope)[c].level
           = LevelInForce(rs, grants, agent, scope, c)
<1> DEFINE covering == {g \in ActiveGrants(agent) : grants[g].class = c /\ scope \in grants[g].scopes}
           grant  == IF covering = {} THEN 0 ELSE Greatest(covering)
           own    == IF agent = Nobody THEN NoRow ELSE RowFor(rs, <<agent, c>>)
           global == RowFor(rs, <<Global, c>>)
           Latest(p) == {i \in RowsOf(rs, p) : \A j \in RowsOf(rs, p) : j <= i}
           Ranked(rank, p) == {<<rank, i, rs[i].values.level>> :
                                 i \in {j \in Latest(p) : scope \in rs[j].values.scopes}}
           Third  == {<<3, g, grants[g].level>> : g \in covering}
           Second == IF agent = Nobody THEN {} ELSE Ranked(2, <<agent, c>>)
           First  == Ranked(1, <<Global, c>>)
           zero   == <<0, 0, IF scope \in Defaults[c].scopes THEN Defaults[c].level ELSE "allow">>
           all    == Third \cup Second \cup First \cup {zero}
           Covers(r) == r # NoRow /\ scope \in r.scopes
           level  == IF grant # 0 THEN grants[grant].level
                     ELSE IF Covers(own) THEN own.level
                     ELSE IF Covers(global) THEN global.level
                     ELSE zero[3]
           Best(o) == \A p \in all : p[1] < o[1] \/ (p[1] = o[1] /\ p[2] <= o[2])
<1>1. ResolvePolicy(rs, ActiveGrants(agent), agent, scope)[c].level = level
  BY DEF ResolvePolicy, LevelAt, GrantFor
<1>2. covering = {g \in DOMAIN grants : /\ grants[g].live /\ grants[g].class = c /\ scope \in grants[g].scopes
                                        /\ grants[g].owner \in (IF agent = Nobody THEN Agents ELSE {agent})
                                                               \cup {Everyone}}
  <2>1. \A g \in DOMAIN grants : grants[g] \in Grant
    OBVIOUS
  <2>2. \A g \in DOMAIN grants : grants[g].owner \in Agents \cup {Everyone}
    BY <2>1 DEF Grant
  <2> QED
    BY <2>2 DEF ActiveGrants
<1>3. Overrides(rs, grants, agent, scope, c) = all
  BY <1>2 DEF Overrides
<1>4. /\ grant = 0 <=> covering = {}
      /\ covering # {} => grant \in covering /\ \A g \in covering : g <= grant
      /\ covering \in SUBSET Nat
  <2>1. covering \subseteq DOMAIN grants /\ DOMAIN grants = 1..Len(grants) /\ Len(grants) \in Nat
    BY <1>2
  <2>2. covering \in SUBSET Nat /\ Bounded(covering) /\ 0 \notin covering
    BY <2>1 DEF Bounded
  <2> HIDE DEF covering
  <2> QED
    BY <2>2, GreatestIs
<1>5. /\ ~Covers(own) => Second = {}
      /\ Covers(own) => \E i \in Nat : Second = {<<2, i, own.level>>}
  <2>1. CASE agent = Nobody
    BY <2>1
  <2>2. CASE agent # Nobody
    <3>1. CASE RowsOf(rs, <<agent, c>>) = {}
      BY <2>2, <3>1, LatestIs
    <3>2. CASE RowsOf(rs, <<agent, c>>) # {}
      <4>1. PICK i \in DOMAIN rs : Latest(<<agent, c>>) = {i} /\ own = rs[i].values /\ own \in Values
        BY <2>2, <3>2, LatestIs
      <4>2. i \in Nat /\ own # NoRow
        BY <4>1, NoRowIsNoValue DEF RowsTyped
      <4>3. Second = {<<2, k, rs[k].values.level>> : k \in {j \in {i} : scope \in rs[j].values.scopes}}
        BY <2>2, <4>1
      <4> HIDE DEF own, Second
      <4> QED
        BY <4>1, <4>2, <4>3
    <3> QED
      BY <3>1, <3>2
  <2> QED
    BY <2>1, <2>2
<1>6. /\ ~Covers(global) => First = {}
      /\ Covers(global) => \E i \in Nat : First = {<<1, i, global.level>>}
  <2>1. CASE RowsOf(rs, <<Global, c>>) = {}
    BY <2>1, LatestIs
  <2>2. CASE RowsOf(rs, <<Global, c>>) # {}
    <3>1. PICK i \in DOMAIN rs : Latest(<<Global, c>>) = {i} /\ global = rs[i].values /\ global \in Values
      BY <2>2, LatestIs
    <3>2. i \in Nat /\ global # NoRow
      BY <3>1, NoRowIsNoValue DEF RowsTyped
    <3>3. First = {<<1, k, rs[k].values.level>> : k \in {j \in {i} : scope \in rs[j].values.scopes}}
      BY <3>1
    <3> HIDE DEF global, First
    <3> QED
      BY <3>1, <3>2, <3>3
  <2> QED
    BY <2>1, <2>2
<1> HIDE DEF covering, grant, own, global, Second, First, zero
<1>7. zero[1] = 0 /\ zero[2] = 0
  BY DEF zero
<1>8. (\E o \in all : Best(o)) /\ \A o \in all : Best(o) => o[3] = level
  <2>1. CASE covering # {}
    <3>1. <<3, grant, grants[grant].level>> \in all /\ grant # 0 /\ grant \in Nat
      BY <1>4, <2>1
    <3>2. \A p \in Second \cup First \cup {zero} : p[1] \in Nat /\ p[1] < 3
      BY <1>5, <1>6, <1>7
    <3>3. Best(<<3, grant, grants[grant].level>>)
      BY <1>4, <2>1, <3>2
    <3>4. ASSUME NEW o \in all, Best(o)
          PROVE  o[3] = level
      <4>1. o \in Third
        <5>1. 3 < o[1] \/ (3 = o[1] /\ grant <= o[2])
          BY <3>1, <3>4
        <5>2. o \in Third \/ (o[1] \in Nat /\ o[1] < 3)
          BY <3>2
        <5> QED
          BY <5>1, <5>2
      <4>2. PICK g \in covering : o = <<3, g, grants[g].level>>
        BY <4>1
      <4>3. grant <= g /\ g <= grant /\ g \in Nat
        BY <1>4, <2>1, <3>1, <3>4, <4>2
      <4>4. g = grant
        BY <3>1, <4>3
      <4> QED
        BY <3>1, <4>2, <4>4
    <3> QED
      BY <3>1, <3>3, <3>4
  <2>2. CASE covering = {}
    <3>1. Third = {} /\ grant = 0
      BY <1>4, <2>2
    <3>2. CASE Covers(own)
      <4>1. PICK i \in Nat : Second = {<<2, i, own.level>>}
        BY <1>5, <3>2
      <4>2. \A p \in First \cup {zero} : p[1] \in Nat /\ p[1] < 2
        BY <1>6, <1>7
      <4>3. all = {<<2, i, own.level>>} \cup First \cup {zero} /\ level = own.level
        BY <3>1, <3>2, <4>1
      <4> HIDE DEF all, level
      <4>4. Best(<<2, i, own.level>>) /\ <<2, i, own.level>> \in all
        BY <4>2, <4>3
      <4>5. ASSUME NEW o \in all, Best(o)
            PROVE  o[3] = level
        <5>1. 2 < o[1] \/ (2 = o[1] /\ i <= o[2])
          BY <4>4, <4>5
        <5>2. o = <<2, i, own.level>>
          BY <4>2, <4>3, <5>1
        <5> QED
          BY <4>3, <5>2
      <4> QED
        BY <4>4, <4>5
    <3>3. CASE ~Covers(own) /\ Covers(global)
      <4>1. PICK i \in Nat : First = {<<1, i, global.level>>}
        BY <1>6, <3>3
      <4>2. all = {<<1, i, global.level>>} \cup {zero} /\ level = global.level
        BY <1>5, <3>1, <3>3, <4>1
      <4> HIDE DEF all, level
      <4> QED
        BY <1>7, <4>2
    <3>4. CASE ~Covers(own) /\ ~Covers(global)
      <4>1. all = {zero} /\ level = zero[3]
        BY <1>5, <1>6, <3>1, <3>4
      <4> HIDE DEF all, level
      <4> QED
        BY <1>7, <4>1
    <3> QED
      BY <3>2, <3>3, <3>4
  <2> QED
    BY <2>1, <2>2
<1>9. LevelInForce(rs, grants, agent, scope, c) = (CHOOSE o \in all : Best(o))[3]
  BY <1>3 DEF LevelInForce
<1> HIDE DEF all, Best, level
<1> QED
  BY <1>1, <1>8, <1>9

-----------------------------------------------------------------------------
(* Types.                                                                  *)

Edit == [kind : {"category", "policy", "revert", "detector"}, request : Requests,
         row : Nat, read : {NoRow} \cup Values]

LEMMA ValueMade ==
  ASSUME NEW l \in Levels, NEW sc \in SUBSET Scopes, NEW st \in Styles, NEW fl \in Int,
         NEW co \in Answers, NEW of \in SUBSET Rules
  PROVE  [level |-> l, scopes |-> sc, style |-> st, floor |-> fl, consensus |-> co,
          off |-> of] \in Values
BY DEF Values

\* What a request makes of a row is a row, but for a revert.
LEMMA WrittenType ==
  ASSUME NEW r \in Requests, NEW v \in {NoRow} \cup Values
  PROVE  /\ r.kind \in {"category", "policy", "revert", "detector"} /\ r.point \in Points
         /\ r.kind = "revert" => Written(v, r) = NoRow
         /\ r.kind # "revert" => Written(v, r) \in Values
<1> DEFINE old == IF v = NoRow THEN Blank ELSE v
<1>1. /\ r.kind \in {"category", "policy", "revert", "detector"} /\ r.point \in Points
      /\ r.kind \in {"category", "policy"} => r.body \in Bodies
      /\ r.kind = "detector" => r.rule \in Rules /\ r.on \in BOOLEAN
  BY DEF Requests
<1>2. old \in Values
  <2>1. Blank \in Values
    <3>1. "allow" \in Levels /\ Inherit \in Styles /\ Inherit \in Answers /\ NoFloor \in Int
      <4>1. "allow" \in Levels
        BY LevelNames
      <4>2. Inherit \in Styles /\ Inherit \in Answers
        BY DEF Styles, Answers
      <4>3. NoFloor \in Int
        BY DEF NoFloor
      <4> QED
        BY <4>1, <4>2, <4>3
    <3>2. {} \in SUBSET Scopes /\ {} \in SUBSET Rules
      OBVIOUS
    <3> QED
      BY ONLY <3>1, <3>2, ValueMade DEF Blank
  <2> QED
    BY <2>1
<1>3. r.point[2] \in Classes
  BY <1>1, GuardrailConstants
<1>4. CASE r.kind = "category"
  <2>1. Written(v, r) = [level |-> r.body.level, scopes |-> r.body.scopes, style |-> r.body.style,
              floor |-> r.body.floor, consensus |-> r.body.consensus, off |-> old.off]
    BY <1>4 DEF Written
  <2>2. r.body \in [level : Levels, scopes : SUBSET Scopes, style : Styles, floor : Int,
                       consensus : Answers]
    BY <1>1, <1>4, GuardrailConstants
  <2>3. old.off \in SUBSET Rules
    BY <1>2 DEF Values
  <2> HIDE DEF old
  <2> QED
    BY <1>1, <1>4, <2>1, <2>2, <2>3 DEF Values
<1>5. CASE r.kind = "policy"
  <2>1. Written(v, r) = [old EXCEPT !.level = r.body.level, !.scopes = r.body.scopes]
    BY <1>5 DEF Written
  <2>2. r.body \in [level : Levels, scopes : SUBSET Scopes, style : Styles, floor : Int,
                       consensus : Answers]
    BY <1>1, <1>5, GuardrailConstants
  <2> HIDE DEF old
  <2> QED
    BY <1>1, <1>2, <1>5, <2>1, <2>2 DEF Values
<1>6. CASE r.kind = "detector"
  <2> DEFINE c == r.point[2]
  <2>1. PICK l, sc, of : /\ l = (IF v = NoRow THEN Defaults[c].level ELSE old.level)
                         /\ sc = (IF v = NoRow THEN Defaults[c].scopes ELSE old.scopes)
                         /\ of = (IF r.on THEN old.off \ {r.rule} ELSE old.off \cup {r.rule})
    OBVIOUS
  <2>2. Written(v, r) = [old EXCEPT !.level = l, !.scopes = sc, !.off = of]
    BY <1>6, <2>1 DEF Written
  <2>3. old.level \in Levels /\ old.scopes \in SUBSET Scopes /\ old.off \in SUBSET Rules
    BY <1>2 DEF Values
  <2>4. Defaults[c].level \in Levels /\ Defaults[c].scopes \in SUBSET Scopes
    BY <1>3, GuardrailConstants
  <2>5. l \in Levels /\ sc \in SUBSET Scopes /\ of \in SUBSET Rules
    BY <1>1, <1>6, <2>1, <2>3, <2>4
  <2> HIDE DEF old
  <2> QED
    BY <1>1, <1>2, <1>6, <2>2, <2>5 DEF Values
<1>7. CASE r.kind = "revert"
  BY <1>1, <1>7 DEF Written
<1> QED
  BY <1>1, <1>4, <1>5, <1>6, <1>7

\* What an UPDATE leaves of the columns read, written and found.
LEMMA MergedType ==
  ASSUME NEW new \in Values, NEW old \in Values, NEW read
  PROVE  LET v == [f \in DOMAIN old |-> IF new[f] # read[f] THEN new[f] ELSE old[f]]
         IN  v \in Values /\ (read = old => v = new)
<1> DEFINE Fields == {"level", "scopes", "style", "floor", "consensus", "off"}
           v == [f \in DOMAIN old |-> IF new[f] # read[f] THEN new[f] ELSE old[f]]
<1>1. DOMAIN old = Fields /\ DOMAIN new = Fields
  BY DEF Values
<1>2. \A f \in Fields : v[f] = new[f] \/ v[f] = old[f]
  BY <1>1
<1>3. v = [f \in Fields |-> v[f]]
  BY <1>1
<1> HIDE DEF v
<1>4. v = [level |-> v.level, scopes |-> v.scopes, style |-> v.style, floor |-> v.floor,
           consensus |-> v.consensus, off |-> v.off]
  BY <1>3
<1>5. /\ v.level \in Levels /\ v.scopes \in SUBSET Scopes /\ v.style \in Styles /\ v.floor \in Int
      /\ v.consensus \in Answers /\ v.off \in SUBSET Rules
  BY <1>2 DEF Values
<1>6. v \in Values
  <2>1. [level |-> v.level, scopes |-> v.scopes, style |-> v.style, floor |-> v.floor,
           consensus |-> v.consensus, off |-> v.off] \in Values
    BY ONLY <1>5, ValueMade
  <2> QED
    BY ONLY <1>4, <2>1
<1>7. read = old => v = new
  <2> SUFFICES ASSUME read = old PROVE v = new
    OBVIOUS
  <2>1. \A f \in Fields : v[f] = new[f]
    BY <1>1 DEF v
  <2>2. new = [f \in Fields |-> new[f]]
    BY <1>1 DEF Values
  <2> QED
    BY <1>3, <2>1, <2>2
<1> QED
  BY <1>6, <1>7 DEF v

-----------------------------------------------------------------------------
(* The edits.                                                              *)

Open(c) == edit[c] # NoEdit

PointOf(c) == edit[c].request.point

\* An edit whose point no other edit has met finds the only row of that point,
\* as it read it.
Undisturbed(c) ==
  LET e == edit[c]
  IN  /\ e.row = 0 => RowsOf(rows, PointOf(c)) = {}
      /\ e.row # 0 => e.row \in RowsOf(rows, PointOf(c)) /\ e.read = rows[e.row].values

Single(rs, p) == \A i, j \in RowsOf(rs, p) : i = j

\* Unless it has been raced, a point has one row at most, an edit of it is the
\* only one and knows that row, and the row is what was asked for.
EditInv ==
  /\ Bounded(DOMAIN rows)
  /\ \A c \in Clients : Open(c) =>
        /\ edit[c].kind = edit[c].request.kind
        /\ edit[c].row = 0 <=> edit[c].read = NoRow
        /\ edit[c].kind = "revert" => edit[c].row # 0
        /\ PointOf(c) \notin raced => Undisturbed(c)
  /\ \A c, d \in Clients : c # d /\ Open(c) /\ Open(d) /\ PointOf(c) = PointOf(d)
                             => PointOf(c) \in raced
  /\ \A p \in Points \ raced : Single(rows, p)
  /\ EditsTakeEffect

EditTypes ==
  /\ RowsTyped(rows) /\ edit \in [Clients -> {NoEdit} \cup Edit]
  /\ edits \in 0..MaxEdits
  /\ asked \in [Points -> {NoRow} \cup Values] /\ raced \subseteq Points

LEMMA OpenEdit ==
  ASSUME EditTypes, NEW c \in Clients, Open(c)
  PROVE  edit[c] \in Edit /\ edit[c].request \in Requests /\ PointOf(c) \in Points
         /\ edit[c].row \in Nat /\ edit[c].read \in {NoRow} \cup Values
<1>1. edit[c] \in Edit
  BY DEF EditTypes, Open
<1> QED
  BY <1>1, WrittenType DEF Edit, PointOf

\* What a point resolves to when it has one row, or none.
LEMMA OneRow ==
  ASSUME NEW rs, RowsTyped(rs), Bounded(DOMAIN rs), NEW p, Single(rs, p)
  PROVE  /\ RowsOf(rs, p) = {} => RowFor(rs, p) = NoRow
         /\ \A i \in RowsOf(rs, p) : RowFor(rs, p) = rs[i].values /\ RowFor(rs, p) \in Values
<1>1. CASE RowsOf(rs, p) = {}
  BY <1>1 DEF RowFor
<1>2. CASE RowsOf(rs, p) # {}
  <2>1. PICK k \in DOMAIN rs :
          /\ {i \in RowsOf(rs, p) : \A j \in RowsOf(rs, p) : j <= i} = {k}
          /\ RowFor(rs, p) = rs[k].values /\ rs[k].values \in Values
    BY <1>2, LatestIs
  <2> QED
    BY <2>1 DEF Single
<1> QED
  BY <1>1, <1>2

\* Rows of a point that a step leaves alone.
LEMMA OthersKept ==
  ASSUME NEW p, RowsOf(rows', p) = RowsOf(rows, p),
         \A i \in RowsOf(rows, p) : rows'[i] = rows[i],
         RowsTyped(rows), Bounded(DOMAIN rows)
  PROVE  /\ Single(rows, p) => Single(rows', p)
         /\ RowFor(rows', p) = RowFor(rows, p)
<1>1. RowsOf(rows, p) # {} => Greatest(RowsOf(rows, p)) \in RowsOf(rows, p)
  <2>1. RowsOf(rows, p) \in SUBSET Nat /\ Bounded(RowsOf(rows, p))
    BY DEF RowsOf, RowsTyped, Bounded
  <2> QED
    BY <2>1, GreatestIs
<1> QED
  BY <1>1 DEF Single, RowFor

LEMMA BeginInv ==
  ASSUME EditTypes, EditInv, NEW c \in Clients, BeginEdit(c)
  PROVE  EditTypes' /\ EditInv'
<1>1. PICK r \in Requests :
        /\ edit[c] = NoEdit /\ edits < MaxEdits /\ edits' = edits + 1
        /\ r.kind = "revert" => FirstRow(r.point) # 0
        /\ edit' = [edit EXCEPT ![c] =
             [kind |-> r.kind, request |-> r, row |-> FirstRow(r.point),
              read |-> IF FirstRow(r.point) = 0 THEN NoRow ELSE rows[FirstRow(r.point)].values]]
        /\ raced' = raced \cup {p \in {r.point} : \E d \in Clients \ {c} :
                                     edit[d] # NoEdit /\ edit[d].request.point = p}
        /\ UNCHANGED <<rows, asked>>
  BY DEF BeginEdit
<1> DEFINE seen == FirstRow(r.point)
<1>2. r.point \in Points /\ r.kind \in {"category", "policy", "revert", "detector"}
  BY WrittenType
<1>3. /\ seen = 0 => RowsOf(rows, r.point) = {}
      /\ seen # 0 => seen \in RowsOf(rows, r.point)
      /\ seen \in Nat
      /\ seen # 0 => rows[seen].values \in Values
  <2>1. RowsOf(rows, r.point) \in SUBSET Nat /\ 0 \notin RowsOf(rows, r.point)
    BY DEF EditTypes, RowsTyped, RowsOf
  <2>2. CASE RowsOf(rows, r.point) = {}
    BY <2>2 DEF FirstRow
  <2>3. CASE RowsOf(rows, r.point) # {}
    <3>1. seen \in RowsOf(rows, r.point)
      BY <2>1, <2>3, LeastIs DEF FirstRow
    <3>2. \A i \in RowsOf(rows, r.point) : i \in DOMAIN rows
      BY DEF RowsOf
    <3>3. rows[seen].values \in Values
      BY <3>1, <3>2 DEF EditTypes, RowsTyped
    <3> QED
      BY <2>1, <2>3, <3>1, <3>3
  <2> QED
    BY <2>2, <2>3
<1> DEFINE e == [kind |-> r.kind, request |-> r, row |-> seen,
                 read |-> IF seen = 0 THEN NoRow ELSE rows[seen].values]
<1>4. e \in Edit /\ e # NoEdit
  BY <1>2, <1>3 DEF Edit, NoEdit
<1>5. edit'[c] = e /\ (\A d \in Clients \ {c} : edit'[d] = edit[d])
  BY <1>1 DEF EditTypes
<1>6. EditTypes'
  <2>1. edit' \in [Clients -> {NoEdit} \cup Edit]
    BY <1>1, <1>4 DEF EditTypes
  <2>2. edits' \in 0..MaxEdits
    BY <1>1, GuardrailConstants DEF EditTypes
  <2> QED
    BY <1>1, <1>2, <2>1, <2>2 DEF EditTypes
<1>7. /\ e.kind = e.request.kind
      /\ e.row = 0 <=> e.read = NoRow
      /\ e.kind = "revert" => e.row # 0
      /\ e.request.point = r.point /\ e.row = seen
      /\ e.row # 0 => e.read = rows[e.row].values
  BY <1>1, <1>3, NoRowIsNoValue
<1> HIDE DEF e, seen
<1>8. ASSUME NEW d \in Clients, Open(d)'
      PROVE  /\ edit'[d].kind = edit'[d].request.kind
             /\ edit'[d].row = 0 <=> edit'[d].read = NoRow
             /\ edit'[d].kind = "revert" => edit'[d].row # 0
             /\ PointOf(d)' \notin raced' => Undisturbed(d)'
  <2>1. CASE d = c
    BY <1>1, <1>3, <1>5, <1>7, <2>1 DEF Undisturbed, PointOf
  <2>2. CASE d # c
    <3>1. Open(d) /\ edit'[d] = edit[d] /\ PointOf(d)' = PointOf(d)
      BY <1>5, <1>8, <2>2 DEF Open, PointOf
    <3>2. Undisturbed(d) => Undisturbed(d)'
      BY <1>1, <3>1 DEF Undisturbed
    <3> QED
      BY <1>1, <3>1, <3>2 DEF EditInv
  <2> QED
    BY <2>1, <2>2
<1>9. ASSUME NEW d \in Clients, NEW f \in Clients, d # f, Open(d)', Open(f)', PointOf(d)' = PointOf(f)'
      PROVE  PointOf(d)' \in raced'
  <2>1. CASE d # c /\ f # c
    <3>1. Open(d) /\ Open(f) /\ PointOf(d) = PointOf(f) /\ PointOf(d)' = PointOf(d)
      BY <1>5, <1>9, <2>1 DEF Open, PointOf
    <3> QED
      BY <1>1, <1>9, <3>1 DEF EditInv
  <2>2. ASSUME NEW g \in Clients \ {c}, Open(g)', PointOf(g)' = r.point
        PROVE  r.point \in raced'
    BY <1>1, <1>5, <2>2 DEF Open, PointOf
  <2>3. PointOf(c)' = r.point
    BY <1>5, <1>7 DEF PointOf
  <2> QED
    BY <1>9, <2>1, <2>2, <2>3
<1>10. (Bounded(DOMAIN rows) /\ (\A p \in Points \ raced : Single(rows, p)) /\ EditsTakeEffect)'
  BY <1>1 DEF EditInv, EditsTakeEffect
<1> QED
  BY <1>6, <1>8, <1>9, <1>10 DEF EditInv

LEMMA FailInv ==
  ASSUME EditTypes, EditInv, NEW c \in Clients, FailEdit(c)
  PROVE  EditTypes' /\ EditInv'
<1>1. edit' = [edit EXCEPT ![c] = NoEdit] /\ UNCHANGED <<rows, edits, asked, raced>>
  BY DEF FailEdit
<1>2. \A d \in Clients : Open(d)' => d # c /\ Open(d) /\ edit'[d] = edit[d] /\ PointOf(d)' = PointOf(d)
  BY <1>1 DEF EditTypes, Open, PointOf
<1>3. EditTypes'
  BY <1>1 DEF EditTypes
<1>4. \A d \in Clients : Open(d)' /\ Undisturbed(d) => Undisturbed(d)'
  BY <1>1, <1>2 DEF Undisturbed
<1> QED
  BY <1>1, <1>2, <1>3, <1>4 DEF EditInv, EditsTakeEffect

\* What a commit does to the rows: one is changed, added or removed.
LEMMA RowsWritten ==
  ASSUME EditTypes, EditInv, NEW c \in Clients, CommitEdit(c)
  PROVE  /\ RowsTyped(rows') /\ Bounded(DOMAIN rows')
         /\ \A i \in DOMAIN rows : i # edit[c].row =>
              i \in DOMAIN rows' /\ rows'[i] = rows[i]
         /\ \/ /\ edit[c].kind = "revert" /\ DOMAIN rows' = DOMAIN rows \ {edit[c].row}
            \/ /\ edit[c].kind # "revert" /\ edit[c].row = 0
               /\ \E n : /\ n \notin DOMAIN rows /\ DOMAIN rows' = DOMAIN rows \cup {n}
                        /\ rows'[n].point = PointOf(c)
                        /\ rows'[n].values = Written(NoRow, edit[c].request)
            \/ /\ edit[c].kind # "revert" /\ edit[c].row \in DOMAIN rows
               /\ DOMAIN rows' = DOMAIN rows
               /\ rows'[edit[c].row].point = rows[edit[c].row].point
               /\ edit[c].read = rows[edit[c].row].values =>
                    rows'[edit[c].row].values = Written(edit[c].read, edit[c].request)
<1> DEFINE e == edit[c]
           Row == [point : Points, values : Values]
<1>1. /\ Open(c)
      /\ e.kind # "revert" => e.row \in DOMAIN rows \cup {0}
      /\ rows' = IF e.kind = "revert" THEN Deleted(e)
                 ELSE IF e.row = 0 THEN Inserted(e) ELSE Updated(e)
  BY DEF CommitEdit, Open
<1>2. /\ e \in Edit /\ e.request \in Requests /\ e.request.point \in Points
      /\ e.row \in Nat /\ e.read \in {NoRow} \cup Values
      /\ e.kind = e.request.kind
      /\ e.row = 0 <=> e.read = NoRow
  BY <1>1, OpenEdit DEF EditInv, PointOf
<1>3. /\ DOMAIN rows \in SUBSET (Nat \ {0}) /\ Bounded(DOMAIN rows)
      /\ \A i \in DOMAIN rows : rows[i] \in Row
  BY DEF EditTypes, EditInv, RowsTyped
<1> HIDE DEF e
<1>4. CASE e.kind = "revert"
  <2>1. rows' = [i \in DOMAIN rows \ {e.row} |-> rows[i]]
    BY <1>1, <1>4 DEF Deleted
  <2>2. DOMAIN rows' = DOMAIN rows \ {e.row} /\ \A i \in DOMAIN rows' : rows'[i] = rows[i]
    BY <2>1
  <2>3. RowsTyped(rows') /\ Bounded(DOMAIN rows')
    BY <1>3, <2>2 DEF RowsTyped, Bounded
  <2> QED
    BY <1>4, <2>2, <2>3 DEF e
<1>5. CASE e.kind # "revert" /\ e.row = 0
  <2> DEFINE n == NewId
             v == Written(NoRow, e.request)
  <2>1. n \in Nat \ {0} /\ n \notin DOMAIN rows /\ \A i \in DOMAIN rows : i <= n
    <3>1. CASE DOMAIN rows = {}
      BY <3>1 DEF NewId
    <3>2. CASE DOMAIN rows # {}
      <4>1. Greatest(DOMAIN rows) \in DOMAIN rows /\ \A i \in DOMAIN rows : i <= Greatest(DOMAIN rows)
        BY <1>3, <3>2, GreatestIs
      <4>2. n = Greatest(DOMAIN rows) + 1
        BY <3>2 DEF NewId
      <4>3. Greatest(DOMAIN rows) \in Nat
        BY <1>3, <4>1
      <4>4. \A i \in DOMAIN rows : i \in Nat /\ i <= Greatest(DOMAIN rows)
        BY <1>3, <4>1
      <4> HIDE DEF n
      <4> QED
        BY <4>2, <4>3, <4>4
    <3> QED
      BY <3>1, <3>2
  <2>2. rows' = [i \in DOMAIN rows \cup {n} |->
                   IF i = n THEN [point |-> e.request.point, values |-> v] ELSE rows[i]]
    BY <1>1, <1>5 DEF Inserted
  <2>3. v \in Values
    BY <1>2, <1>5, WrittenType
  <2> HIDE DEF n, v
  <2>4. /\ DOMAIN rows' = DOMAIN rows \cup {n}
        /\ rows'[n] = [point |-> e.request.point, values |-> v]
        /\ \A i \in DOMAIN rows : rows'[i] = rows[i]
    BY <2>1, <2>2
  <2>5. RowsTyped(rows')
    <3>1. rows'[n] \in Row
      BY <1>2, <2>3, <2>4
    <3> QED
      BY <1>3, <2>1, <2>4, <3>1 DEF RowsTyped
  <2>6. Bounded(DOMAIN rows')
    BY <2>1, <2>4 DEF Bounded
  <2>7. \E k : /\ k \notin DOMAIN rows /\ DOMAIN rows' = DOMAIN rows \cup {k}
              /\ rows'[k].point = e.request.point
              /\ rows'[k].values = Written(NoRow, e.request)
    BY <2>1, <2>4 DEF v
  <2> QED
    BY <1>5, <2>4, <2>5, <2>6, <2>7 DEF e, PointOf
<1>6. CASE e.kind # "revert" /\ e.row # 0
  <2> DEFINE new == Written(e.read, e.request)
             old == rows[e.row].values
             v   == [f \in DOMAIN old |-> IF new[f] # e.read[f] THEN new[f] ELSE old[f]]
  <2>1. e.row \in DOMAIN rows /\ rows[e.row] \in Row
    BY <1>1, <1>3, <1>6
  <2>2. rows' = [rows EXCEPT ![e.row].values = v]
    BY <1>1, <1>6 DEF Updated
  <2>3. new \in Values /\ old \in Values
    BY <1>2, <1>6, <2>1, WrittenType
  <2>4. v \in Values /\ (e.read = old => v = new)
    BY ONLY <2>3, MergedType
  <2> HIDE DEF v, new
  <2>5. /\ DOMAIN rows' = DOMAIN rows
        /\ rows'[e.row] = [rows[e.row] EXCEPT !.values = v]
        /\ \A i \in DOMAIN rows : i # e.row => rows'[i] = rows[i]
    BY <2>1, <2>2
  <2>6. rows'[e.row] \in Row /\ rows'[e.row].values = v /\ rows'[e.row].point = rows[e.row].point
    BY <2>1, <2>4, <2>5
  <2>7. RowsTyped(rows') /\ Bounded(DOMAIN rows')
    BY <1>3, <2>5, <2>6 DEF RowsTyped
  <2> QED
    BY <1>6, <2>1, <2>4, <2>5, <2>6, <2>7 DEF e, new
<1> QED
  BY <1>4, <1>5, <1>6

LEMMA CommitInv ==
  ASSUME EditTypes, EditInv, NEW c \in Clients, CommitEdit(c)
  PROVE  EditTypes' /\ EditInv'
<1> DEFINE e == edit[c]
           p == PointOf(c)
<1>1. /\ Open(c)
      /\ asked' = [asked EXCEPT ![p] = Written(asked[p], e.request)]
      /\ raced' = raced \cup {q \in Points : /\ e.row \in DOMAIN rows
                                            /\ rows[e.row].point # p
                                            /\ q \in {p, rows[e.row].point}}
      /\ edit' = [edit EXCEPT ![c] = NoEdit]
      /\ edits' = edits
  BY DEF CommitEdit, Open, PointOf
<1>2. /\ e.request \in Requests /\ p \in Points /\ e.kind = e.request.kind /\ e.row \in Nat
      /\ e.row = 0 <=> e.read = NoRow
      /\ e.kind = "revert" => e.row # 0
      /\ e.read \in {NoRow} \cup Values
  BY <1>1, OpenEdit DEF EditInv
<1>3. /\ RowsTyped(rows') /\ Bounded(DOMAIN rows') /\ RowsTyped(rows) /\ Bounded(DOMAIN rows)
      /\ \A i \in DOMAIN rows : i # e.row => i \in DOMAIN rows' /\ rows'[i] = rows[i]
  BY RowsWritten DEF EditTypes, EditInv
<1>4. \/ /\ e.kind = "revert" /\ DOMAIN rows' = DOMAIN rows \ {e.row}
      \/ /\ e.kind # "revert" /\ e.row = 0
         /\ \E n : /\ n \notin DOMAIN rows /\ DOMAIN rows' = DOMAIN rows \cup {n}
                  /\ rows'[n].point = p
                  /\ rows'[n].values = Written(NoRow, e.request)
      \/ /\ e.kind # "revert" /\ e.row \in DOMAIN rows
         /\ DOMAIN rows' = DOMAIN rows
         /\ rows'[e.row].point = rows[e.row].point
         /\ e.read = rows[e.row].values => rows'[e.row].values = Written(e.read, e.request)
  BY RowsWritten
<1>5. /\ \A d \in Clients : Open(d)' => d # c /\ Open(d) /\ edit'[d] = edit[d] /\ PointOf(d)' = PointOf(d)
      /\ raced \subseteq raced'
  BY <1>1 DEF EditTypes, Open, PointOf
<1>6. EditTypes'
  <2>1. edit' \in [Clients -> {NoEdit} \cup Edit]
    BY <1>1 DEF EditTypes
  <2>2. asked[p] \in {NoRow} \cup Values
    BY <1>2 DEF EditTypes
  <2>3. Written(asked[p], e.request) \in {NoRow} \cup Values
    BY <1>2, <2>2, WrittenType
  <2>4. asked' \in [Points -> {NoRow} \cup Values]
    BY <1>1, <2>3 DEF EditTypes
  <2> HIDE DEF p
  <2> QED
    BY <1>1, <1>3, <2>1, <2>4 DEF EditTypes
\* Points of other edits.
<1>7. ASSUME NEW q \in Points \ raced', q # p
      PROVE  /\ RowsOf(rows', q) = RowsOf(rows, q)
             /\ \A i \in RowsOf(rows, q) : rows'[i] = rows[i]
             /\ Single(rows', q) /\ RowFor(rows', q) = asked'[q]
  <2>1. e.row \in DOMAIN rows => rows[e.row].point # q
    BY <1>1, <1>2, <1>7
  <2>2. \A i \in DOMAIN rows : rows[i].point = q => i \in DOMAIN rows' /\ rows'[i] = rows[i]
    BY <1>3, <2>1
  <2>3. ASSUME NEW i \in DOMAIN rows', rows'[i].point = q
        PROVE  i \in DOMAIN rows /\ rows[i].point = q
    <3>1. i \in DOMAIN rows
      BY <1>4, <1>7, <2>3
    <3>2. CASE i # e.row
      BY <1>3, <2>3, <3>1, <3>2
    <3>3. CASE i = e.row
      <4>1. e.row # 0 /\ e.kind # "revert"
        BY <1>3, <1>4, <2>3, <3>1, <3>3 DEF RowsTyped
      <4> QED
        BY <1>4, <2>1, <2>3, <3>1, <3>3, <4>1
    <3> QED
      BY <3>2, <3>3
  <2>4. RowsOf(rows', q) = RowsOf(rows, q) /\ \A i \in RowsOf(rows, q) : rows'[i] = rows[i]
    BY <2>2, <2>3 DEF RowsOf
  <2>5. Single(rows, q) /\ RowFor(rows, q) = asked[q] /\ asked'[q] = asked[q]
    BY <1>1, <1>5, <1>7 DEF EditInv, EditsTakeEffect, EditTypes
  <2> QED
    BY <1>3, <2>4, <2>5, OthersKept
\* The point of this one.
<1>8. ASSUME p \notin raced
      PROVE  Single(rows', p) /\ RowFor(rows', p) = asked'[p]
  <2>1. /\ Single(rows, p) /\ RowFor(rows, p) = asked[p]
        /\ e.row = 0 => RowsOf(rows, p) = {}
        /\ e.row # 0 => e.row \in RowsOf(rows, p) /\ e.read = rows[e.row].values
    BY <1>1, <1>2, <1>8 DEF EditInv, EditsTakeEffect, Undisturbed
  <2>2. asked[p] = e.read
    BY <1>2, <1>3, <2>1, OneRow
  <2>3. asked'[p] = Written(e.read, e.request)
    BY <1>1, <1>2, <2>2 DEF EditTypes
  <2>4. CASE e.kind = "revert"
    <3>1. RowsOf(rows', p) = {}
      <4>1. DOMAIN rows' = DOMAIN rows \ {e.row} /\ \A i \in DOMAIN rows' : rows'[i] = rows[i]
        BY <1>3, <1>4, <2>4
      <4>2. \A i \in RowsOf(rows, p) : i = e.row
        BY <1>2, <2>1, <2>4 DEF Single
      <4> QED
        BY <4>1, <4>2 DEF RowsOf
    <3>2. Written(e.read, e.request) = NoRow
      BY <1>2, <2>4, WrittenType
    <3> QED
      BY <2>3, <3>1, <3>2 DEF Single, RowFor
  <2>5. CASE e.kind # "revert" /\ e.row = 0
    <3>1. PICK n : /\ n \notin DOMAIN rows /\ DOMAIN rows' = DOMAIN rows \cup {n}
                   /\ rows'[n].point = p
                   /\ rows'[n].values = Written(NoRow, e.request)
      BY <1>3, <1>4, <2>5 DEF RowsTyped
    <3>2. RowsOf(rows', p) = {n}
      <4>1. \A i \in DOMAIN rows : rows'[i] = rows[i] /\ rows[i].point # p
        BY <1>3, <2>1, <2>5 DEF RowsTyped, RowsOf
      <4> QED
        BY <3>1, <4>1 DEF RowsOf
    <3>3. Single(rows', p)
      BY <3>2 DEF Single
    <3>4. RowFor(rows', p) = rows'[n].values
      BY <1>3, <3>2, <3>3, OneRow
    <3> QED
      BY <1>2, <2>3, <2>5, <3>1, <3>3, <3>4
  <2>6. CASE e.kind # "revert" /\ e.row # 0
    <3>1. /\ DOMAIN rows' = DOMAIN rows /\ e.row \in DOMAIN rows
          /\ rows'[e.row].point = rows[e.row].point
          /\ rows'[e.row].values = Written(e.read, e.request)
      BY <1>4, <2>1, <2>6
    <3>2. RowsOf(rows', p) = RowsOf(rows, p)
      <4>1. \A i \in DOMAIN rows : rows'[i].point = rows[i].point
        BY <1>3, <3>1
      <4> QED
        BY <3>1, <4>1 DEF RowsOf
    <3>3. Single(rows', p)
      BY <2>1, <3>2 DEF Single
    <3>4. RowFor(rows', p) = rows'[e.row].values
      BY <1>3, <2>1, <2>6, <3>2, <3>3, OneRow
    <3> QED
      BY <2>3, <3>1, <3>3, <3>4
  <2> QED
    BY <2>4, <2>5, <2>6
<1>9. \A q \in Points \ raced' : Single(rows', q) /\ RowFor(rows', q) = asked'[q]
  BY <1>5, <1>7, <1>8
<1>10. ASSUME NEW d \in Clients, Open(d)', PointOf(d)' \notin raced'
       PROVE  Undisturbed(d)'
  <2>1. d # c /\ Open(d) /\ edit'[d] = edit[d] /\ PointOf(d)' = PointOf(d) /\ PointOf(d) \notin raced
    BY <1>5, <1>10
  <2>2. PointOf(d) # p /\ PointOf(d) \in Points
    BY <1>1, <2>1, OpenEdit DEF EditInv
  <2>3. /\ RowsOf(rows', PointOf(d)) = RowsOf(rows, PointOf(d))
        /\ \A i \in RowsOf(rows, PointOf(d)) : rows'[i] = rows[i]
    BY <1>7, <1>10, <2>1, <2>2
  <2>4. Undisturbed(d)
    BY <2>1 DEF EditInv
  <2> HIDE DEF p
  <2> QED
    BY <2>1, <2>3, <2>4 DEF Undisturbed
<1> HIDE DEF e, p
<1>11. \A d \in Clients : Open(d)' =>
         /\ edit'[d].kind = edit'[d].request.kind
         /\ edit'[d].row = 0 <=> edit'[d].read = NoRow
         /\ edit'[d].kind = "revert" => edit'[d].row # 0
  BY <1>5 DEF EditInv
<1>12. \A d, f \in Clients : d # f /\ Open(d)' /\ Open(f)' /\ PointOf(d)' = PointOf(f)'
                                => PointOf(d)' \in raced'
  BY <1>5 DEF EditInv
<1> QED
  BY <1>3, <1>6, <1>9, <1>10, <1>11, <1>12 DEF EditInv, EditsTakeEffect

-----------------------------------------------------------------------------
(* Redaction: sorting, fusing and cutting, for every text and every hits.   *)

Keys == Int \X Int \X Int

\* Keys and places order any set of places.
LEMMA BeforeOrders ==
  ASSUME NEW I \in SUBSET Nat, NEW key, \A i \in I : key[i] \in Keys
  PROVE  /\ \A i \in I : ~Before(key, i, i)
         /\ \A i, j \in I : i # j => Before(key, i, j) \/ Before(key, j, i)
         /\ \A i, j, k \in I : Before(key, i, j) /\ Before(key, j, k) => Before(key, i, k)
<1>1. \A i \in I : key[i][1] \in Int /\ key[i][2] \in Int /\ key[i][3] \in Int /\ i \in Int
  <2>1. \A t \in Keys : t[1] \in Int /\ t[2] \in Int /\ t[3] \in Int
    BY DEF Keys
  <2> TAKE i \in I
  <2>2. key[i] \in Keys /\ i \in Int
    OBVIOUS
  <2> QED
    BY <2>1, <2>2
<1>2. \A i \in I : ~Before(key, i, i)
  <2> TAKE i \in I
  <2>1. \A x \in Int : ~(x < x)
    OBVIOUS
  <2> QED
    BY <1>1, <2>1 DEF Before
<1>3. \A i, j \in I : i # j => Before(key, i, j) \/ Before(key, j, i)
  BY <1>1 DEF Before
<1>4. \A i, j, k \in I : Before(key, i, j) /\ Before(key, j, k) => Before(key, i, k)
  BY <1>1 DEF Before
<1> QED
  BY <1>2, <1>3, <1>4

\* Places lists a finite set of places, each once and in the order of the keys:
\* the number of places before one is injective, hence onto 1..Cardinality(I).
LEMMA PlacesListed ==
  ASSUME NEW I \in SUBSET Nat, IsFiniteSet(I), NEW key, \A i \in I : key[i] \in Keys
  PROVE  /\ Cardinality(I) \in Nat /\ Places(I, key) \in [1..Cardinality(I) -> I]
         /\ \A k, l \in 1..Cardinality(I) :
              k < l => Before(key, Places(I, key)[k], Places(I, key)[l])
         /\ \A i \in I : \E k \in 1..Cardinality(I) : Places(I, key)[k] = i
<1> DEFINE n == Cardinality(I)
           P == Places(I, key)
           ahead(i) == {j \in I : Before(key, j, i)}
           count == [i \in I |-> Cardinality(ahead(i))]
           rank == [i \in I |-> count[i] + 1]
<1>1. /\ \A i \in I : ~Before(key, i, i)
      /\ \A i, j \in I : i # j => Before(key, i, j) \/ Before(key, j, i)
      /\ \A i, j, k \in I : Before(key, i, j) /\ Before(key, j, k) => Before(key, i, k)
  BY BeforeOrders
<1>2. n \in Nat
  BY FS_CardinalityType
<1>3. ASSUME NEW i \in I
      PROVE  IsFiniteSet(ahead(i)) /\ count[i] \in 0..n - 1
  <2>1. IsFiniteSet(I \ {i}) /\ Cardinality(I \ {i}) = n - 1
    BY FS_RemoveElement
  <2>2. ahead(i) \in SUBSET (I \ {i})
    BY <1>1
  <2>3. IsFiniteSet(ahead(i)) /\ Cardinality(ahead(i)) <= n - 1
    BY <2>1, <2>2, FS_Subset
  <2>4. Cardinality(ahead(i)) \in Nat
    BY <2>3, FS_CardinalityType
  <2> QED
    BY <1>2, <2>3, <2>4
<1>4. ASSUME NEW i \in I, NEW j \in I, Before(key, i, j)
      PROVE  count[i] < count[j]
  <2>1. ahead(i) \cup {i} \in SUBSET ahead(j)
    BY <1>1, <1>4
  <2>2. i \notin ahead(i)
    BY <1>1
  <2>3. /\ IsFiniteSet(ahead(i) \cup {i})
        /\ Cardinality(ahead(i) \cup {i}) = Cardinality(ahead(i)) + 1
    BY <1>3, <2>2, FS_AddElement
  <2>4. Cardinality(ahead(i) \cup {i}) <= Cardinality(ahead(j))
    BY <1>3, <2>1, FS_Subset
  <2>5. count[i] \in Int /\ count[j] \in Int
    BY <1>3
  <2> QED
    BY <2>3, <2>4, <2>5
<1>5. ASSUME NEW k \in 1..n, NEW i \in I, count[i] = k - 1
      PROVE  P[k] \in I /\ count[P[k]] = k - 1
  <2>1. P[k] = CHOOSE p \in I : Cardinality(ahead(p)) = k - 1
    BY DEF Places
  <2>2. Cardinality(ahead(i)) = k - 1
    BY <1>5
  <2> HIDE DEF ahead
  <2>3. P[k] \in I /\ Cardinality(ahead(P[k])) = k - 1
    BY <2>1, <2>2
  <2> QED
    BY <2>3
<1>6. P = [k \in 1..n |-> P[k]]
  <2> DEFINE at(k) == CHOOSE p \in I : Cardinality(ahead(p)) = k - 1
  <2>1. P = [k \in 1..n |-> at(k)]
    BY DEF Places
  <2> HIDE DEF at
  <2> QED
    BY <2>1
<1>7. \A i \in I : count[i] \in 0..n - 1
  BY <1>3
<1>8. \A i, j \in I : count[i] = count[j] => i = j
  <2> TAKE i, j \in I
  <2>1. i # j => count[i] < count[j] \/ count[j] < count[i]
    BY <1>1, <1>4
  <2> QED
    BY <1>7, <2>1
<1> HIDE DEF ahead, count, n, P
<1>9. rank \in Surjection(I, 1..n)
  <2>1. rank \in [I -> 1..n]
    BY <1>2, <1>7
  <2>2. \A i, j \in I : rank[i] = rank[j] => i = j
    BY <1>2, <1>7, <1>8
  <2>3. rank \in Injection(I, 1..n)
    BY <2>1, <2>2 DEF Injection, IsInjective
  <2>4. IsFiniteSet(1..n) /\ Cardinality(1..n) = n
    BY <1>2, FS_Interval
  <2>5. n = Cardinality(I)
    BY DEF n
  <2> HIDE DEF rank
  <2> QED
    BY <2>3, <2>4, <2>5, FS_Injection
<1>10. ASSUME NEW k \in 1..n
       PROVE  P[k] \in I /\ count[P[k]] = k - 1
  <2>1. PICK i \in I : rank[i] = k
    BY <1>9 DEF Surjection
  <2>2. count[i] = k - 1
    BY <1>2, <1>7, <2>1
  <2> QED
    BY <1>5, <2>2
<1>11. P \in [1..n -> I]
  BY <1>6, <1>10
<1>12. ASSUME NEW k \in 1..n, NEW l \in 1..n, k < l
       PROVE  Before(key, P[k], P[l])
  <2>1. P[k] \in I /\ P[l] \in I /\ count[P[k]] = k - 1 /\ count[P[l]] = l - 1
    BY <1>10
  <2>2. ~(count[P[l]] < count[P[k]]) /\ P[k] # P[l]
    BY <1>2, <1>12, <2>1
  <2>3. ~Before(key, P[l], P[k])
    BY <1>4, <2>1, <2>2
  <2> QED
    BY <1>1, <2>1, <2>2, <2>3
<1>13. ASSUME NEW i \in I
       PROVE  \E k \in 1..n : P[k] = i
  <2> DEFINE k == count[i] + 1
  <2>1. k \in 1..n /\ k - 1 = count[i]
    BY <1>2, <1>7
  <2> HIDE DEF k
  <2>2. P[k] \in I /\ count[P[k]] = count[i]
    BY <1>10, <2>1
  <2>3. P[k] = i
    BY <1>8, <2>2
  <2> QED
    BY <2>1, <2>3
<1> QED
  BY <1>2, <1>11, <1>12, <1>13 DEF n, P


\* A sorted sequence has the elements of the unsorted one.
LEMMA SortedSeq ==
  ASSUME NEW S, NEW s \in Seq(S), NEW key, \A i \in DOMAIN s : key[i] \in Keys,
         NEW P, P = Places(DOMAIN s, key)
  PROVE  /\ Sorted(s, key) \in Seq(S) /\ Len(Sorted(s, key)) = Len(s)
         /\ P \in [DOMAIN s -> DOMAIN s]
         /\ \A k \in DOMAIN s : Sorted(s, key)[k] = s[P[k]]
         /\ \A k, l \in DOMAIN s : k < l => Before(key, P[k], P[l])
         /\ \A i \in DOMAIN s : \E k \in DOMAIN s : P[k] = i
<1> DEFINE n == Len(s)
<1>1. n \in Nat /\ DOMAIN s = 1..n /\ s \in [1..n -> S]
  BY LenProperties
<1> HIDE DEF n
<1>2. IsFiniteSet(1..n) /\ Cardinality(1..n) = n /\ 1..n \in SUBSET Nat
  <2>1. IsFiniteSet(1..n) /\ Cardinality(1..n) = IF 1 > n THEN 0 ELSE n - 1 + 1
    BY <1>1, FS_Interval
  <2> QED
    BY <1>1, <2>1
<1>3. /\ P \in [1..n -> 1..n]
      /\ \A k, l \in 1..n : k < l => Before(key, P[k], P[l])
      /\ \A i \in 1..n : \E k \in 1..n : P[k] = i
  <2> DEFINE D == DOMAIN s
  <2>1. D \in SUBSET Nat /\ IsFiniteSet(D) /\ \A i \in D : key[i] \in Keys
    BY <1>1, <1>2
  <2>2. D = 1..n /\ Cardinality(D) = n /\ P = Places(D, key)
    BY <1>1, <1>2
  <2> HIDE DEF D
  <2>3. /\ Places(D, key) \in [1..Cardinality(D) -> D]
        /\ \A k, l \in 1..Cardinality(D) :
             k < l => Before(key, Places(D, key)[k], Places(D, key)[l])
        /\ \A i \in D : \E k \in 1..Cardinality(D) : Places(D, key)[k] = i
    BY <2>1, PlacesListed
  <2> QED
    BY ONLY <2>2, <2>3
<1>4. Sorted(s, key) = [k \in 1..n |-> s[P[k]]]
  BY <1>1 DEF Sorted
<1>5. Sorted(s, key) \in [1..n -> S]
  BY <1>1, <1>3, <1>4
<1>6. Sorted(s, key) \in Seq(S) /\ Len(Sorted(s, key)) = n
  BY <1>1, <1>5
<1> QED
  BY <1>1, <1>3, <1>4, <1>6 DEF n

\* The places in I, in their order.
LEMMA InPlaceListed ==
  ASSUME NEW I \in SUBSET Nat, IsFiniteSet(I), NEW n, n = Cardinality(I)
  PROVE  /\ n \in Nat /\ InPlace(I) \in [1..n -> I]
         /\ \A k, l \in 1..n : k < l => InPlace(I)[k] < InPlace(I)[l]
         /\ \A i \in I : \E k \in 1..n : InPlace(I)[k] = i
<1> DEFINE key == [i \in I |-> <<0, 0, 0>>]
<1>1. \A i \in I : key[i] \in Keys
  BY DEF Keys
<1>2. \A i, j \in I : Before(key, i, j) => i < j
  BY DEF Before
<1> HIDE DEF key
<1>3. /\ n \in Nat /\ Places(I, key) \in [1..n -> I]
      /\ \A k, l \in 1..n : k < l => Before(key, Places(I, key)[k], Places(I, key)[l])
      /\ \A i \in I : \E k \in 1..n : Places(I, key)[k] = i
  BY <1>1, PlacesListed
<1>4. InPlace(I) = Places(I, key)
  BY DEF InPlace, key
<1> QED
  BY <1>2, <1>3, <1>4

\* What is taken from a sequence are elements of it.
LEMMA TakenSeq ==
  ASSUME NEW S, NEW s \in Seq(S), NEW I \in SUBSET DOMAIN s
  PROVE  Taken(s, I) \in Seq(S)
<1> DEFINE n == Cardinality(I)
<1>1. Len(s) \in Nat /\ DOMAIN s = 1..Len(s) /\ s \in [1..Len(s) -> S]
  BY LenProperties
<1>2. I \in SUBSET Nat /\ IsFiniteSet(I)
  <2>1. IsFiniteSet(1..Len(s))
    BY <1>1, FS_Interval
  <2> QED
    BY <1>1, <2>1, FS_Subset
<1>3. n \in Nat /\ InPlace(I) \in [1..n -> I]
  BY <1>2, InPlaceListed
<1>4. Taken(s, I) = [k \in 1..n |-> s[InPlace(I)[k]]]
  BY DEF Taken
<1> HIDE DEF n
<1>5. Taken(s, I) \in [1..n -> S]
  BY <1>1, <1>3, <1>4
<1> QED
  BY <1>3, <1>5

-----------------------------------------------------------------------------
\* The most confident of some hits is one of them.
LEMMA MostConfidentIn ==
  ASSUME NEW hits \in Seq(Hits), NEW I \in SUBSET DOMAIN hits, I # {}
  PROVE  MostConfident(hits, I) \in Hits
<1> DEFINE key == [i \in I |-> <<-hits[i].conf, 0, 0>>]
           n == Cardinality(I)
<1>1. Len(hits) \in Nat /\ DOMAIN hits = 1..Len(hits) /\ hits \in [1..Len(hits) -> Hits]
  BY LenProperties
<1>2. I \in SUBSET Nat /\ IsFiniteSet(I)
  <2>1. IsFiniteSet(1..Len(hits))
    BY <1>1, FS_Interval
  <2> QED
    BY <1>1, <2>1, FS_Subset
<1>3. \A i \in I : key[i] \in Keys
  <2> TAKE i \in I
  <2>1. hits[i] \in Hits
    BY <1>1
  <2>2. hits[i].conf \in Int
    BY <2>1 DEF Hits
  <2> QED
    BY <2>2 DEF Keys
<1>4. MostConfident(hits, I) = hits[Places(I, key)[1]]
  BY DEF MostConfident
<1> HIDE DEF key, n
<1>5. /\ n \in Nat /\ Places(I, key) \in [1..n -> I]
      /\ \A i \in I : \E k \in 1..n : Places(I, key)[k] = i
  <2>1. n = Cardinality(I)
    BY DEF n
  <2> QED
    BY <1>2, <1>3, <2>1, PlacesListed
<1>6. 1 \in 1..n
  BY <1>5
<1>7. Places(I, key)[1] \in I
  BY <1>5, <1>6
<1> QED
  BY <1>1, <1>4, <1>7

\* Fusing a cluster gives a hit that covers what one hit of it covers.
LEMMA FusedHitIn ==
  ASSUME NEW hits \in Seq(Hits), NEW cluster \in SUBSET DOMAIN hits, cluster # {}
  PROVE  FusedHit(hits, cluster) \in Hits
<1> DEFINE checksummed == {i \in cluster : hits[i].tier = "tier1"}
           primary == MostConfident(hits, IF checksummed # {} THEN checksummed ELSE cluster)
           others == {i \in cluster : hits[i].tier # primary.tier}
           second == hits[Least(others)]
<1>1. primary \in Hits
  BY MostConfidentIn
<1>2. CASE others = {}
  BY <1>1, <1>2 DEF FusedHit
<1>3. CASE others # {}
  <2>1. others \in SUBSET Nat
    BY LenProperties
  <2>2. Least(others) \in DOMAIN hits
    BY <1>3, <2>1, LeastIs
  <2>3. second.rules \in SUBSET Rules
    <3>1. second \in Hits
      BY <2>2, LenProperties
    <3> QED
      BY <3>1 DEF Hits
  <2> DEFINE conf == IF primary.conf = 10 THEN 10 ELSE primary.conf + 1
             rules == primary.rules \cup second.rules
  <2>4. FusedHit(hits, cluster)
          = [primary EXCEPT !.tier = "consensus", !.conf = conf, !.rules = rules]
    BY <1>3 DEF FusedHit
  <2> HIDE DEF primary, second
  <2>5. conf \in 0..10 /\ rules \in SUBSET Rules
    BY <1>1, <2>3 DEF Hits
  <2> HIDE DEF conf, rules
  <2> QED
    BY <1>1, <2>4, <2>5 DEF Hits
<1> QED
  BY <1>2, <1>3

LEMMA FusedHits ==
  ASSUME NEW raw \in Seq(Hits)
  PROVE  FuseHits(raw) \in Seq(Hits)
<1> DEFINE hits == ByClass(raw)
           starts == Starts(hits)
           n == Cardinality(starts)
<1>1. hits \in Seq(Hits)
  <2> DEFINE seen(i) == Least({j \in DOMAIN raw : raw[j].class = raw[i].class})
             key == [i \in DOMAIN raw |-> <<seen(i), raw[i].lo, raw[i].hi>>]
  <2>1. \A i \in DOMAIN raw : key[i] \in Keys
    <3> TAKE i \in DOMAIN raw
    <3> DEFINE same == {j \in DOMAIN raw : raw[j].class = raw[i].class}
    <3>1. same \in SUBSET Nat /\ i \in same
      BY LenProperties
    <3>2. Least(same) \in Int
      BY <3>1, LeastIs
    <3>3. raw[i].lo \in Int /\ raw[i].hi \in Int
      BY DEF Hits
    <3> QED
      BY <3>2, <3>3 DEF Keys
  <2>2. hits = Sorted(raw, key)
    BY DEF ByClass
  <2> HIDE DEF key, hits
  <2> QED
    BY <2>1, <2>2, SortedSeq
<1> HIDE DEF hits
<1>2. Len(hits) \in Nat /\ DOMAIN hits = 1..Len(hits)
  BY <1>1, LenProperties
<1>3. starts \in SUBSET Nat /\ IsFiniteSet(starts) /\ starts \in SUBSET DOMAIN hits
  <2>1. IsFiniteSet(1..Len(hits))
    BY <1>2, FS_Interval
  <2>2. starts \in SUBSET (1..Len(hits))
    BY <1>2 DEF Starts
  <2> QED
    BY <1>2, <2>1, <2>2, FS_Subset
<1> HIDE DEF starts
<1>4. n \in Nat /\ InPlace(starts) \in [1..n -> starts]
  BY <1>3, InPlaceListed
<1> HIDE DEF n
<1>5. ASSUME NEW k \in 1..n
      PROVE  FusedHit(hits, ClusterAt(hits, InPlace(starts)[k])) \in Hits
  <2> DEFINE i == InPlace(starts)[k]
  <2>1. i \in DOMAIN hits /\ i \in Nat
    BY <1>2, <1>3, <1>4
  <2> HIDE DEF i
  <2>2. i + 1 .. i = {}
    BY <2>1
  <2>3. i \in ClusterAt(hits, i) /\ ClusterAt(hits, i) \in SUBSET DOMAIN hits
    BY <2>1, <2>2 DEF ClusterAt
  <2> QED
    BY <1>1, <2>3, FusedHitIn DEF i
<1>6. FuseHits(raw) = [k \in 1..n |-> FusedHit(hits, ClusterAt(hits, InPlace(starts)[k]))]
  BY DEF FuseHits, hits, starts, n
<1>7. FuseHits(raw) \in [1..n -> Hits]
  BY <1>5, <1>6
<1> QED
  BY <1>4, <1>7
-----------------------------------------------------------------------------
\* One replacement of _apply_redactions.
Cut(out, h, policy) == Splice(out, h, RenderMask(policy[h.class].style, h))

\* f[k] is the text after the first k replacements.
CutsOf(f, n, text, hits, policy) ==
  f = [k \in 0..n |-> IF k = 0 THEN text ELSE Cut(f[k - 1], hits[k], policy)]

\* The texts after 0, 1, .. replacements exist: the least number of them for
\* which they did not would be one more than one for which they do.
LEMMA CutsExist ==
  ASSUME NEW n \in Nat, NEW text, NEW hits, NEW policy
  PROVE  \E f : CutsOf(f, n, text, hits, policy)
<1> DEFINE Made(f, m) == CutsOf(f, m, text, hits, policy)
           missing == {m \in Nat : ~\E f : Made(f, m)}
<1>1. SUFFICES ASSUME missing # {} PROVE FALSE
  OBVIOUS
<1>2. PICK m \in missing : \A i \in missing : m <= i
  <2>1. missing \in SUBSET Nat
    OBVIOUS
  <2> HIDE DEF missing
  <2> QED
    BY <1>1, <2>1, LeastExists
<1>3. m # 0
  <2> SUFFICES ASSUME m = 0 PROVE FALSE
    OBVIOUS
  <2> DEFINE f == [k \in 0..0 |-> text]
  <2>1. Made(f, 0)
    BY DEF CutsOf
  <2> HIDE DEF f
  <2> QED
    BY <2>1
<1>4. m - 1 \in Nat /\ m - 1 \notin missing
  BY <1>2, <1>3
<1>5. PICK f : Made(f, m - 1)
  BY <1>4
<1> DEFINE g == [k \in 0..m |-> IF k = m THEN Cut(f[m - 1], hits[m], policy) ELSE f[k]]
<1>6. ASSUME NEW k \in 0..m
      PROVE  g[k] = IF k = 0 THEN text ELSE Cut(g[k - 1], hits[k], policy)
  <2>1. CASE k = m
    <3>1. m - 1 \in 0..m /\ m - 1 # m
      BY <1>4
    <3>2. g[k - 1] = f[m - 1]
      BY <2>1, <3>1
    <3> QED
      BY <1>3, <2>1, <3>2
  <2>2. CASE k # m /\ k # 0
    <3>1. k \in 0..m - 1 /\ k - 1 \in 0..m /\ k - 1 # m
      BY <1>4, <2>2
    <3>2. g[k - 1] = f[k - 1] /\ g[k] = f[k]
      BY <2>2, <3>1
    <3>3. f[k] = Cut(f[k - 1], hits[k], policy)
      BY <1>5, <2>2, <3>1 DEF CutsOf
    <3> QED
      BY <2>2, <3>2, <3>3
  <2>3. CASE k # m /\ k = 0
    <3>1. 0 \in 0..m - 1
      BY <1>4
    <3>2. f[0] = text
      BY <1>5, <3>1 DEF CutsOf
    <3> QED
      BY <2>3, <3>2
  <2> QED
    BY <2>1, <2>2, <2>3
<1>7. Made(g, m)
  <2>1. g = [k \in 0..m |-> g[k]]
    OBVIOUS
  <2> HIDE DEF g
  <2> QED
    BY <1>6, <2>1 DEF CutsOf
<1> QED
  BY <1>2, <1>7

LEMMA MaskIs ==
  ASSUME NEW h \in Hits, NEW style, NEW m, m = RenderMask(style, h)
  PROVE  /\ m \in Seq(Nat) /\ Shown(style, h) \subseteq h.lo + 1 .. h.hi
         /\ \A i \in 1..Len(m) : m[i] = Mark \/ m[i] \in Shown(style, h)
         /\ \A x \in Shown(style, h) : \E i \in 1..Len(m) : m[i] = x
         /\ \A i, j \in 1..Len(m) : i < j /\ m[i] # Mark /\ m[j] # Mark => m[i] < m[j]
<1>1. h.lo \in Nat /\ h.hi \in Nat /\ h.lo < h.hi
  BY GuardrailConstants DEF Hits
<1>2. CASE style \in {"last", "first"}
  <2> DEFINE n == h.hi - h.lo
  <2>1. Shown(style, h) \in SUBSET (h.lo + 1 .. h.hi)
    BY <1>2 DEF Shown, Matched, Digits, Outermost
  <2>2. m = [i \in 1..n |-> IF h.lo + i \in Shown(style, h) THEN h.lo + i ELSE Mark]
    BY <1>2 DEF RenderMask
  <2>3. n \in Nat /\ h.lo + n = h.hi
    BY <1>1
  <2> HIDE DEF n
  <2>4. m \in [1..n -> Nat]
    BY <1>1, <2>2, <2>3 DEF Mark
  <2>5. m \in Seq(Nat) /\ Len(m) = n
    BY <2>3, <2>4
  <2>6. ASSUME NEW x \in Shown(style, h) PROVE \E i \in 1..n : m[i] = x
    <3>1. x - h.lo \in 1..n /\ h.lo + (x - h.lo) = x
      BY <1>1, <2>1, <2>3
    <3> QED
      BY <2>2, <3>1
  <2>7. \A i \in 1..n : m[i] = Mark \/ (m[i] = h.lo + i /\ h.lo + i \in Shown(style, h))
    BY <2>2
  <2> QED
    BY <1>1, <2>1, <2>3, <2>5, <2>6, <2>7
<1>3. CASE style = "strip"
  <2>1. m = <<>> /\ Shown(style, h) = {}
    BY <1>3 DEF RenderMask, Shown
  <2> QED
    BY <2>1
<1>4. CASE style = "initial" /\ InitialsOf(h) # {}
  <2> DEFINE I == InitialsOf(h)
             n == Cardinality(I)
             N == 3 * n - 1
             at == InPlace(I)
  <2>1. Shown(style, h) = I /\ I \in SUBSET (h.lo + 1 .. h.hi)
    BY <1>4 DEF Shown, InitialsOf, Matched
  <2>2. I \in SUBSET Nat /\ IsFiniteSet(I)
    <3>1. IsFiniteSet(h.lo + 1 .. h.hi)
      BY <1>1, FS_Interval
    <3> QED
      BY <1>1, <2>1, <3>1, FS_Subset
  <2>3. m = [i \in 1..N |-> IF i % 3 = 1 THEN at[(i + 2) \div 3] ELSE Mark]
    BY <1>4 DEF RenderMask, Initials
  <2> HIDE DEF I
  <2>4. /\ n \in Nat /\ at \in [1..n -> I]
        /\ \A k, l \in 1..n : k < l => at[k] < at[l]
        /\ \A x \in I : \E k \in 1..n : at[k] = x
    BY <2>2, InPlaceListed
  <2> HIDE DEF n, at
  <2>5. n # 0
    BY <1>4, <2>4 DEF I
  <2>6. N \in Nat /\ \A i \in 1..N : i % 3 = 1 => (i + 2) \div 3 \in 1..n
    BY <2>4, <2>5
  <2>7. ASSUME NEW k \in 1..n
        PROVE  3 * k - 2 \in 1..N /\ (3 * k - 2) % 3 = 1 /\ (3 * k - 2 + 2) \div 3 = k
    BY <2>4
  <2>8. \A i, j \in 1..N : i < j /\ i % 3 = 1 /\ j % 3 = 1 => (i + 2) \div 3 < (j + 2) \div 3
    BY <2>6
  <2> HIDE DEF N
  <2>9. m \in [1..N -> Nat]
    <3>1. \A i \in 1..N : i % 3 = 1 => at[(i + 2) \div 3] \in Nat
      BY <2>2, <2>4, <2>6
    <3> QED
      BY <2>3, <3>1 DEF Mark
  <2>10. m \in Seq(Nat) /\ Len(m) = N
    BY <2>6, <2>9
  <2>11. \A i \in 1..N : m[i] # Mark => i % 3 = 1 /\ m[i] = at[(i + 2) \div 3]
    BY <2>3
  <2>12. ASSUME NEW x \in I PROVE \E i \in 1..N : m[i] = x
    <3>1. PICK k \in 1..n : at[k] = x
      BY <2>4
    <3>2. m[3 * k - 2] = at[k]
      BY <2>3, <2>7
    <3> QED
      BY <2>7, <3>1, <3>2
  <2>13. \A i \in 1..N : m[i] = Mark \/ m[i] \in I
    BY <2>4, <2>6, <2>11
  <2>14. \A i, j \in 1..N : i < j /\ m[i] # Mark /\ m[j] # Mark => m[i] < m[j]
    BY <2>4, <2>6, <2>8, <2>11
  <2> QED
    BY <2>1, <2>10, <2>12, <2>13, <2>14
<1>5. CASE style \notin {"last", "first", "strip"} /\ ~(style = "initial" /\ InitialsOf(h) # {})
  <2> DEFINE n == PlaceholderLength
  <2>1. m = [i \in 1..n |-> Mark] /\ Shown(style, h) = {}
    BY <1>5 DEF RenderMask, Shown
  <2>2. n \in Nat
    BY DEF PlaceholderLength
  <2> HIDE DEF n
  <2>3. m \in [1..n -> Nat]
    BY <2>1 DEF Mark
  <2>4. m \in Seq(Nat) /\ Len(m) = n
    BY <2>2, <2>3
  <2> QED
    BY <2>1, <2>4
<1> QED
  BY <1>2, <1>3, <1>4, <1>5

LEMMA SpliceIs ==
  ASSUME NEW out \in Seq(Nat), NEW h \in Hits, h.hi <= Len(out), NEW m \in Seq(Nat),
         NEW new, new = Splice(out, h, m)
  PROVE  /\ new \in Seq(Nat) /\ Len(new) = h.lo + Len(m) + (Len(out) - h.hi)
         /\ \A i \in 1..Len(new) :
              new[i] = IF i <= h.lo THEN out[i]
                       ELSE IF i <= h.lo + Len(m) THEN m[i - h.lo]
                       ELSE out[i - h.lo - Len(m) + h.hi]
<1> DEFINE lo == h.lo
           hi == h.hi
           before == SubSeq(out, 1, lo)
           after == SubSeq(out, hi + 1, Len(out))
<1>1. lo \in Nat /\ hi \in Nat /\ lo < hi
  BY GuardrailConstants DEF Hits
<1>2. Len(out) \in Nat /\ Len(m) \in Nat /\ \A i \in 1..Len(out) : out[i] \in Nat
  BY LenProperties
<1>3. new = (before \o m) \o after
  <2>1. lo < Len(out)
    BY <1>1, <1>2
  <2> QED
    BY <2>1 DEF Splice
<1>4. /\ before \in Seq(Nat) /\ Len(before) = lo
      /\ \A i \in 1..lo : before[i] = out[i]
  <2>1. \A i \in 1..lo : out[i] \in Nat
    BY <1>1, <1>2
  <2> HIDE DEF lo
  <2> QED
    BY <1>1, <2>1, SubSeqProperties
<1>5. /\ after \in Seq(Nat) /\ Len(after) = Len(out) - hi
      /\ \A i \in 1..Len(out) - hi : after[i] = out[hi + i]
  <2>1. \A i \in hi + 1 .. Len(out) : out[i] \in Nat
    BY <1>1, <1>2
  <2> HIDE DEF hi
  <2>2. hi + 1 \in Int /\ Len(out) \in Int /\ hi <= Len(out)
    BY <1>1, <1>2 DEF hi
  <2>3. /\ after \in Seq(Nat)
        /\ Len(after) = IF hi + 1 <= Len(out) THEN Len(out) - (hi + 1) + 1 ELSE 0
        /\ \A i \in 1..Len(out) - (hi + 1) + 1 : after[i] = out[hi + 1 + i - 1]
    BY <2>1, <2>2, SubSeqProperties
  <2> HIDE DEF after
  <2>4. Len(out) - (hi + 1) + 1 = Len(out) - hi
    BY <1>1, <2>2
  <2>5. Len(after) = Len(out) - hi
    BY <1>1, <2>2, <2>3
  <2>6. ASSUME NEW i \in 1..Len(out) - hi
        PROVE  after[i] = out[hi + i]
    <3>1. i \in 1..Len(out) - (hi + 1) + 1
      BY <2>4
    <3>2. after[i] = out[hi + 1 + i - 1]
      BY <2>3, <3>1
    <3>3. hi + 1 + i - 1 = hi + i
      BY <1>1
    <3> QED
      BY <3>2, <3>3
  <2> QED
    BY <2>3, <2>5, <2>6
<1> HIDE DEF before, after, lo, hi
<1>6. /\ before \o m \in Seq(Nat) /\ Len(before \o m) = lo + Len(m)
      /\ \A i \in 1..lo + Len(m) : (before \o m)[i] = IF i <= lo THEN before[i] ELSE m[i - lo]
  BY <1>4, ConcatProperties
<1>7. /\ new \in Seq(Nat) /\ Len(new) = lo + Len(m) + (Len(out) - hi)
      /\ \A i \in 1..Len(new) :
           new[i] = IF i <= lo + Len(m) THEN (before \o m)[i] ELSE after[i - (lo + Len(m))]
  <2> DEFINE front == before \o m
  <2>1. front \in Seq(Nat) /\ Len(front) = lo + Len(m) /\ new = front \o after
    BY <1>3, <1>6
  <2> HIDE DEF front
  <2>2. /\ front \o after \in Seq(Nat) /\ Len(front \o after) = Len(front) + Len(after)
        /\ \A i \in 1..Len(front) + Len(after) :
             (front \o after)[i] = IF i <= Len(front) THEN front[i] ELSE after[i - Len(front)]
    <3>1. front \in Seq(Nat) /\ after \in Seq(Nat)
      BY <1>5, <2>1
    <3> QED
      BY ONLY <3>1, ConcatProperties
  <2> QED
    BY <1>5, <2>1, <2>2 DEF front
<1>8. ASSUME NEW i \in 1..Len(new)
      PROVE  new[i] = IF i <= lo THEN out[i]
                      ELSE IF i <= lo + Len(m) THEN m[i - lo]
                      ELSE out[i - lo - Len(m) + hi]
  <2>1. CASE i <= lo
    BY <1>1, <1>2, <1>4, <1>6, <1>7, <2>1
  <2>2. CASE lo < i /\ i <= lo + Len(m)
    <3>1. i \in 1..lo + Len(m) /\ ~(i <= lo)
      BY <1>1, <1>2, <1>7, <2>2
    <3>2. new[i] = m[i - lo]
      BY <1>6, <1>7, <2>2, <3>1
    <3> QED
      BY <2>2, <3>1, <3>2
  <2>3. CASE lo + Len(m) < i
    <3> DEFINE j == i - (lo + Len(m))
    <3>1. j \in 1..Len(out) - hi /\ hi + j = i - lo - Len(m) + hi /\ j \in Int
      BY <1>1, <1>2, <1>7, <2>3
    <3>2. new[i] = after[j]
      BY <1>1, <1>2, <1>7, <2>3
    <3> HIDE DEF j
    <3>3. new[i] = out[i - lo - Len(m) + hi]
      BY <1>5, <3>1, <3>2
    <3> QED
      BY <1>1, <1>2, <2>3, <3>3
  <2> QED
    BY <1>1, <1>2, <2>1, <2>2, <2>3
<1> QED
  BY <1>7, <1>8 DEF lo, hi

\* A text of which the characters after L have been dealt with: the first L
\* stand as they were, and of the others those in open show, in their order.
Cleared(out, L, open) ==
  /\ out \in Seq(Nat) /\ L \in 0..Len(out)
  /\ \A i \in 1..L : out[i] = i
  /\ \A i \in L + 1 .. Len(out) : out[i] = Mark \/ out[i] \in open
  /\ \A x \in open : \E i \in L + 1 .. Len(out) : out[i] = x
  /\ \A i, j \in L + 1 .. Len(out) :
       i < j /\ out[i] # Mark /\ out[j] # Mark => out[i] < out[j]

\* A replacement before everything dealt with so far leaves that as it is.
LEMMA CutClears ==
  ASSUME NEW out, NEW L, NEW open \in SUBSET (L + 1 .. TextLength), Cleared(out, L, open),
         L <= TextLength, NEW h \in Hits, h.hi <= L, NEW policy,
         NEW new, new = Cut(out, h, policy)
  PROVE  Cleared(new, h.lo, Shown(policy[h.class].style, h) \cup (h.hi + 1 .. L) \cup open)
<1> DEFINE lo == h.lo
           hi == h.hi
           shown == Shown(policy[h.class].style, h)
           m == RenderMask(policy[h.class].style, h)
           all == shown \cup (hi + 1 .. L) \cup open
           p == Len(m)
           q == Len(out)
           r == Len(new)
<1>1. lo \in Nat /\ hi \in Nat /\ lo < hi
  BY GuardrailConstants DEF Hits
<1>2. /\ m \in Seq(Nat) /\ shown \in SUBSET (lo + 1 .. hi)
      /\ \A i \in 1..p : m[i] = Mark \/ m[i] \in shown
      /\ \A x \in shown : \E i \in 1..p : m[i] = x
      /\ \A i, j \in 1..p : i < j /\ m[i] # Mark /\ m[j] # Mark => m[i] < m[j]
  BY MaskIs
<1>3. /\ out \in Seq(Nat) /\ L \in 0..q /\ q \in Nat /\ p \in Nat /\ L \in Nat /\ hi <= L /\ hi <= q
  <2>1. q \in Nat /\ p \in Nat
    BY <1>2, LenProperties DEF Cleared
  <2> QED
    BY <1>1, <2>1 DEF Cleared
<1>4. /\ new \in Seq(Nat) /\ r = lo + p + (q - hi)
      /\ \A i \in 1..r : new[i] = IF i <= lo THEN out[i]
                                    ELSE IF i <= lo + p THEN m[i - lo]
                                    ELSE out[i - lo - p + hi]
  <2>1. new = Splice(out, h, m)
    BY DEF Cut
  <2> QED
    BY <1>2, <1>3, <2>1, SpliceIs
<1>5. /\ \A i \in 1..L : out[i] = i
      /\ \A i \in L + 1 .. q : out[i] = Mark \/ out[i] \in open
      /\ \A x \in open : \E i \in L + 1 .. q : out[i] = x
      /\ \A i, j \in L + 1 .. q : i < j /\ out[i] # Mark /\ out[j] # Mark => out[i] < out[j]
  BY DEF Cleared
<1>6. open \in SUBSET (L + 1 .. TextLength) /\ TextLength \in Nat /\ Mark = 0
  BY GuardrailConstants DEF Mark
<1> DEFINE back(i) == i - lo - p + hi
<1> HIDE DEF shown, m, p, q, r, lo, hi
<1>7. r \in Nat /\ lo \in 0..r
  BY <1>1, <1>3, <1>4
<1>8. ASSUME NEW i \in lo + 1 .. r
      PROVE  /\ i <= lo + p => i - lo \in 1..p /\ new[i] = m[i - lo]
             /\ ~(i <= lo + p) => back(i) \in hi + 1 .. q /\ new[i] = out[back(i)]
  <2>1. i \in 1..r /\ ~(i <= lo) /\ i \in Int
    BY <1>1, <1>7
  <2>2. i <= lo + p => i - lo \in 1..p
    BY <1>1, <1>3, <2>1
  <2>3. ~(i <= lo + p) => back(i) \in hi + 1 .. q
    BY <1>1, <1>3, <1>4, <2>1
  <2> QED
    BY <1>4, <2>1, <2>2, <2>3
<1>9. \A i \in 1..lo : new[i] = i
  <2> TAKE i \in 1..lo
  <2>1. i \in 1..r /\ i <= lo /\ i \in 1..L
    BY <1>1, <1>3, <1>7
  <2> QED
    BY <1>4, <1>5, <2>1
\* the part of the old text that follows the replaced characters
<1>10. ASSUME NEW k \in hi + 1 .. q
       PROVE  /\ out[k] = Mark \/ out[k] \in (hi + 1 .. L) \cup open
              /\ out[k] # Mark => out[k] \in Nat /\ hi < out[k]
  <2>1. CASE k <= L
    <3>1. k \in 1..L /\ k \in hi + 1 .. L
      BY <1>1, <1>3, <2>1
    <3>2. out[k] = k
      BY <1>5, <3>1
    <3> QED
      BY <1>1, <1>3, <3>1, <3>2
  <2>2. CASE ~(k <= L)
    <3>1. k \in L + 1 .. q
      BY <1>1, <1>3, <2>2
    <3>2. out[k] = Mark \/ out[k] \in open
      BY <1>5, <3>1
    <3>3. \A x \in open : x \in Nat /\ hi < x
      BY <1>1, <1>3, <1>6
    <3> QED
      BY <3>2, <3>3
  <2> QED
    BY <2>1, <2>2
<1>11. ASSUME NEW k \in hi + 1 .. q, NEW l \in hi + 1 .. q, k < l, out[k] # Mark, out[l] # Mark
       PROVE  out[k] < out[l]
  <2>1. CASE l <= L
    <3>1. k \in 1..L /\ l \in 1..L
      BY <1>1, <1>3, <1>11, <2>1
    <3> QED
      BY <1>5, <1>11, <3>1
  <2>2. CASE k <= L /\ ~(l <= L)
    <3>1. k \in 1..L /\ l \in L + 1 .. q
      BY <1>1, <1>3, <2>2
    <3>2. out[k] = k /\ out[l] \in open
      BY <1>5, <1>11, <3>1
    <3>3. \A x \in open : x \in Nat /\ L < x
      BY <1>3, <1>6
    <3>4. out[l] \in Nat /\ L < out[l]
      BY <3>2, <3>3
    <3> QED
      BY <1>3, <2>2, <3>1, <3>2, <3>4
  <2>3. CASE ~(k <= L)
    <3>1. k \in L + 1 .. q /\ l \in L + 1 .. q
      BY <1>1, <1>3, <1>11, <2>3
    <3> QED
      BY <1>5, <1>11, <3>1
  <2> QED
    BY <2>1, <2>2, <2>3
<1>12. ASSUME NEW i \in lo + 1 .. r
       PROVE  new[i] = Mark \/ new[i] \in all
  <2>1. CASE i <= lo + p
    BY <1>2, <1>8, <2>1
  <2>2. CASE ~(i <= lo + p)
    <3>1. back(i) \in hi + 1 .. q /\ new[i] = out[back(i)]
      BY <1>8, <2>2
    <3> HIDE DEF back
    <3>2. out[back(i)] = Mark \/ out[back(i)] \in (hi + 1 .. L) \cup open
      BY <1>10, <3>1
    <3> QED
      BY <3>1, <3>2
  <2> QED
    BY <2>1, <2>2
<1>13. ASSUME NEW x \in all
       PROVE  \E i \in lo + 1 .. r : new[i] = x
  <2>1. CASE x \in shown
    <3>1. PICK k \in 1..p : m[k] = x
      BY <1>2, <2>1
    <3>2. k + lo \in lo + 1 .. r /\ k + lo <= lo + p /\ (k + lo) - lo = k
      BY <1>1, <1>3, <1>4
    <3>3. new[k + lo] = m[(k + lo) - lo]
      BY <1>8, <3>2
    <3> QED
      BY <3>1, <3>2, <3>3
  <2>2. ASSUME NEW k \in hi + 1 .. q, out[k] = x
        PROVE  \E i \in lo + 1 .. r : new[i] = x
    <3> DEFINE i == k - hi + p + lo
    <3>1. i \in lo + 1 .. r /\ ~(i <= lo + p) /\ back(i) = k
      BY <1>1, <1>3, <1>4
    <3> HIDE DEF i, back
    <3>2. new[i] = out[back(i)]
      BY <1>8, <3>1 DEF back
    <3> QED
      BY <2>2, <3>1, <3>2
  <2>3. CASE x \in hi + 1 .. L
    <3>1. x \in hi + 1 .. q /\ x \in 1..L
      BY <1>1, <1>3, <2>3
    <3>2. out[x] = x
      BY <1>5, <3>1
    <3> QED
      BY <2>2, <3>1, <3>2
  <2>4. CASE x \in open
    <3>1. PICK k \in L + 1 .. q : out[k] = x
      BY <1>5, <2>4
    <3>2. k \in hi + 1 .. q
      BY <1>1, <1>3
    <3> QED
      BY <2>2, <3>1, <3>2
  <2> QED
    BY <2>1, <2>3, <2>4
<1>14. ASSUME NEW i \in lo + 1 .. r, NEW j \in lo + 1 .. r, i < j, new[i] # Mark, new[j] # Mark
       PROVE  new[i] < new[j]
  <2>1. CASE j <= lo + p
    <3>1. i <= lo + p /\ i - lo < j - lo
      BY <1>1, <1>3, <1>14, <2>1
    <3>2. /\ i - lo \in 1..p /\ new[i] = m[i - lo]
          /\ j - lo \in 1..p /\ new[j] = m[j - lo]
      BY <1>8, <2>1, <3>1
    <3> QED
      BY <1>2, <1>14, <3>1, <3>2
  <2>2. CASE i <= lo + p /\ ~(j <= lo + p)
    <3>1. i - lo \in 1..p /\ new[i] = m[i - lo]
      BY <1>8, <2>2
    <3>2. new[i] \in shown
      BY <1>2, <1>14, <3>1
    <3>3. new[i] \in Int /\ new[i] <= hi
      <4>1. \A x \in shown : x \in Int /\ x <= hi
        BY <1>1, <1>2
      <4> QED
        BY <3>2, <4>1
    <3>4. back(j) \in hi + 1 .. q /\ new[j] = out[back(j)]
      BY <1>8, <2>2
    <3> HIDE DEF back
    <3>5. new[j] \in Nat /\ hi < new[j]
      BY <1>10, <1>14, <3>4
    <3> QED
      BY <1>1, <3>3, <3>5
  <2>3. CASE ~(i <= lo + p)
    <3>1. ~(j <= lo + p) /\ back(i) < back(j)
      BY <1>1, <1>3, <1>14, <2>3
    <3>2. /\ back(i) \in hi + 1 .. q /\ new[i] = out[back(i)]
          /\ back(j) \in hi + 1 .. q /\ new[j] = out[back(j)]
      BY <1>8, <2>3, <3>1
    <3> HIDE DEF back
    <3> QED
      BY <1>11, <1>14, <3>1, <3>2
  <2> QED
    BY <2>1, <2>2, <2>3
<1> HIDE DEF all
<1>15. Cleared(new, lo, all)
  BY <1>4, <1>7, <1>9, <1>12, <1>13, <1>14 DEF Cleared, r
<1> QED
  BY <1>15 DEF all, lo, hi, shown

\* What a hit takes out of the text for good.
Hides(h, policy) == (h.lo + 1 .. h.hi) \ Shown(policy[h.class].style, h)

\* Hits that do not overlap are cut one before the other.
LEMMA ByStartDescends ==
  ASSUME NEW cut \in Seq(Hits),
         \A i, j \in DOMAIN cut : i # j => ~Overlap(cut[i], cut[j]),
         NEW ordered, ordered = ByStart(cut)
  PROVE  /\ ordered \in Seq(Hits) /\ Len(ordered) = Len(cut)
         /\ \A k, l \in DOMAIN cut : k < l => ordered[l].hi <= ordered[k].lo
         /\ \A k \in DOMAIN cut : \E i \in DOMAIN cut : ordered[k] = cut[i]
         /\ \A i \in DOMAIN cut : \E k \in DOMAIN cut : ordered[k] = cut[i]
<1> DEFINE D == DOMAIN cut
           key == [i \in D |-> <<-cut[i].lo, 0, 0>>]
           P == Places(D, key)
<1>1. D = 1..Len(cut) /\ Len(cut) \in Nat /\ D \in SUBSET Nat /\ \A i \in D : cut[i] \in Hits
  BY LenProperties
<1>2. \A i \in D : cut[i].lo \in Nat /\ cut[i].hi \in Nat /\ cut[i].lo < cut[i].hi
  <2>1. \A h \in Hits : h.lo \in Nat /\ h.hi \in Nat /\ h.lo < h.hi
    BY GuardrailConstants DEF Hits
  <2> QED
    BY <1>1, <2>1
<1>3. \A i \in D : key[i] \in Keys
  BY <1>2 DEF Keys
<1>4. ordered = Sorted(cut, key)
  BY DEF ByStart
<1>5. \A i \in D : key[i][1] = -cut[i].lo
  OBVIOUS
<1> HIDE DEF key
<1>6. /\ ordered \in Seq(Hits) /\ Len(ordered) = Len(cut)
      /\ P \in [D -> D]
      /\ \A k \in D : ordered[k] = cut[P[k]]
      /\ \A k, l \in D : k < l => Before(key, P[k], P[l])
      /\ \A i \in D : \E k \in D : P[k] = i
  BY <1>3, <1>4, SortedSeq
<1>7. /\ \A i \in D : ~Before(key, i, i)
      /\ \A i, j \in D : Before(key, i, j) => cut[j].lo <= cut[i].lo
  <2>1. \A i \in D : ~Before(key, i, i)
    BY <1>1, <1>3, BeforeOrders
  <2>2. ASSUME NEW i \in D, NEW j \in D, Before(key, i, j)
        PROVE  cut[j].lo <= cut[i].lo
    <3>1. key[i][1] < key[j][1] \/ key[i][1] = key[j][1]
      BY <2>2 DEF Before
    <3> QED
      BY <1>2, <1>5, <3>1
  <2> QED
    BY <2>1, <2>2
<1> HIDE DEF P
<1>8. ASSUME NEW k \in D, NEW l \in D, k < l
      PROVE  ordered[l].hi <= ordered[k].lo
  <2>1. P[k] \in D /\ P[l] \in D /\ Before(key, P[k], P[l])
    BY <1>6, <1>8
  <2>2. P[k] # P[l] /\ cut[P[l]].lo <= cut[P[k]].lo
    BY <1>7, <2>1
  <2>3. ~Overlap(cut[P[k]], cut[P[l]])
    BY <2>1, <2>2
  <2>4. cut[P[l]].hi <= cut[P[k]].lo
    BY <1>2, <2>1, <2>2, <2>3 DEF Overlap
  <2> QED
    BY <1>6, <2>4
<1> QED
  BY <1>6, <1>8

LEMMA RedactionHides ==
  ASSUME NEW cut \in Seq(Hits), NEW policy,
         \A i, j \in DOMAIN cut : i # j => ~Overlap(cut[i], cut[j]),
         NEW out, out = ApplyRedactions(Text, cut, policy),
         NEW hidden, hidden = UNION {Hides(cut[i], policy) : i \in DOMAIN cut}
  PROVE  /\ {out[i] : i \in DOMAIN out} \ {Mark} = (1..TextLength) \ hidden
         /\ \A i, j \in {k \in DOMAIN out : out[k] # Mark} : i < j => out[i] < out[j]
<1> DEFINE ordered == ByStart(cut)
           n == Len(ordered)
           texts == CHOOSE f : CutsOf(f, n, Text, ordered, policy)
<1>1. n \in Nat /\ DOMAIN cut = 1..n /\ TextLength \in Nat
  BY ByStartDescends, LenProperties, GuardrailConstants
<1>2. /\ ordered \in Seq(Hits) /\ \A k \in 1..n : ordered[k] \in Hits
      /\ \A k, l \in 1..n : k < l => ordered[l].hi <= ordered[k].lo
      /\ \A k \in 1..n : \E i \in 1..n : ordered[k] = cut[i]
      /\ \A i \in 1..n : \E k \in 1..n : ordered[k] = cut[i]
  <2>1. /\ ordered \in Seq(Hits) /\ Len(ordered) = Len(cut)
        /\ \A k, l \in DOMAIN cut : k < l => ordered[l].hi <= ordered[k].lo
        /\ \A k \in DOMAIN cut : \E i \in DOMAIN cut : ordered[k] = cut[i]
        /\ \A i \in DOMAIN cut : \E k \in DOMAIN cut : ordered[k] = cut[i]
    BY ByStartDescends
  <2>2. \A k \in 1..n : ordered[k] \in Hits
    BY <2>1, LenProperties
  <2> HIDE DEF ordered, n
  <2> QED
    BY <1>1, <2>1, <2>2
<1>3. out = texts[n]
  BY DEF ApplyRedactions, CutsOf, Cut
<1> HIDE DEF ordered, n
<1>4. texts = [k \in 0..n |-> IF k = 0 THEN Text ELSE Cut(texts[k - 1], ordered[k], policy)]
  <2>1. CutsOf(texts, n, Text, ordered, policy)
    BY <1>1, CutsExist
  <2> QED
    BY <2>1 DEF CutsOf
<1> HIDE DEF texts
<1>5. \A h \in Hits : h.lo \in Nat /\ h.hi \in Nat /\ h.lo < h.hi /\ h.hi <= TextLength
  BY GuardrailConstants DEF Hits
<1> DEFINE gone(k) == UNION {Hides(ordered[j], policy) : j \in 1..k}
           L(k) == IF k = 0 THEN TextLength ELSE ordered[k].lo
           open(k) == (L(k) + 1 .. TextLength) \ gone(k)
           Done(k) == Cleared(texts[k], L(k), open(k))
           failing == {k \in 0..n : ~Done(k)}
<1>6. ASSUME NEW k \in 0..n
      PROVE  gone(k) \in SUBSET (L(k) + 1 .. TextLength)
  <2> SUFFICES ASSUME NEW j \in 1..k, NEW x \in Hides(ordered[j], policy)
               PROVE  x \in L(k) + 1 .. TextLength
    BY DEF gone
  <2>1. j \in 1..n /\ k \in 1..n /\ k # 0 /\ (j = k \/ j < k)
    BY <1>1
  <2>2. /\ ordered[j] \in Hits /\ ordered[k] \in Hits
        /\ j = k \/ ordered[k].hi <= ordered[j].lo
    BY <1>2, <2>1
  <2>3. /\ ordered[k].lo \in Nat /\ ordered[j].lo \in Nat /\ ordered[j].hi \in Nat
        /\ ordered[k].hi \in Nat /\ ordered[k].lo < ordered[k].hi /\ ordered[j].hi <= TextLength
    BY <1>5, <2>2
  <2>4. ordered[k].lo <= ordered[j].lo
    BY <2>2, <2>3
  <2>5. x \in ordered[j].lo + 1 .. ordered[j].hi
    BY DEF Hides
  <2>6. L(k) = ordered[k].lo
    BY <2>1
  <2> HIDE DEF L
  <2> QED
    BY <1>1, <2>3, <2>4, <2>5, <2>6
<1>7. Done(0)
  <2>1. texts[0] = Text
    BY <1>1, <1>4
  <2>2. Text \in Seq(Nat) /\ Len(Text) = TextLength /\ \A i \in 1..TextLength : Text[i] = i
    <3>1. Text \in [1..TextLength -> Nat]
      BY <1>1 DEF Text
    <3> QED
      BY <1>1, <3>1 DEF Text
  <2>3. L(0) = TextLength /\ open(0) = {}
    BY <1>1
  <2> HIDE DEF open, L
  <2> QED
    BY <1>1, <2>1, <2>2, <2>3 DEF Cleared
<1>8. ASSUME NEW k \in 1..n, Done(k - 1)
      PROVE  Done(k)
  <2> DEFINE h == ordered[k]
             shown == Shown(policy[h.class].style, h)
  <2>1. k - 1 \in 0..n /\ k \in 0..n /\ k # 0
    BY <1>1
  <2>2. h \in Hits /\ L(k) = h.lo
    BY <1>2, <2>1
  <2>3. texts[k] = Cut(texts[k - 1], h, policy)
    BY <1>4, <2>1
  <2>4. /\ h.hi <= L(k - 1) /\ L(k - 1) <= TextLength /\ L(k - 1) \in Nat
    <3>1. CASE k - 1 = 0
      BY <1>1, <1>5, <2>2, <3>1
    <3>2. CASE k - 1 # 0
      <4>1. k - 1 \in 1..n /\ k - 1 < k
        BY <2>1, <3>2
      <4>2. ordered[k - 1] \in Hits /\ h.hi <= ordered[k - 1].lo
        BY <1>2, <4>1
      <4>3. ordered[k - 1].lo \in Nat /\ ordered[k - 1].lo <= TextLength
        BY <1>1, <1>5, <4>2
      <4> QED
        BY <3>2, <4>2, <4>3
    <3> QED
      BY <3>1, <3>2
  <2>5. gone(k) = gone(k - 1) \cup Hides(h, policy)
    <3>1. 1..k = (1..k - 1) \cup {k}
      BY <1>1
    <3> QED
      BY <3>1
  <2>6. gone(k - 1) \in SUBSET (L(k - 1) + 1 .. TextLength)
    BY <1>6, <2>1
  <2>7. open(k) = shown \cup (h.hi + 1 .. L(k - 1)) \cup open(k - 1)
    <3>1. h.lo \in Nat /\ h.hi \in Nat /\ h.lo < h.hi /\ shown \in SUBSET (h.lo + 1 .. h.hi)
      BY <1>5, <2>2, MaskIs
    <3>2. open(k) = (h.lo + 1 .. TextLength) \ (gone(k - 1) \cup ((h.lo + 1 .. h.hi) \ shown))
      BY <2>2, <2>5 DEF Hides
    <3> DEFINE lo == h.lo
               hi == h.hi
               M == L(k - 1)
               G == gone(k - 1)
    <3>3. /\ lo \in Nat /\ hi \in Nat /\ M \in Nat /\ lo < hi /\ hi <= M /\ M <= TextLength
          /\ shown \in SUBSET (lo + 1 .. hi) /\ G \in SUBSET (M + 1 .. TextLength)
      BY <2>4, <2>6, <3>1
    <3>4. /\ open(k) = (lo + 1 .. TextLength) \ (G \cup ((lo + 1 .. hi) \ shown))
          /\ open(k - 1) = (M + 1 .. TextLength) \ G
      BY <3>2
    <3> HIDE DEF open, shown, lo, hi, M, G
    <3>5. (lo + 1 .. TextLength) \ (G \cup ((lo + 1 .. hi) \ shown))
            = shown \cup (hi + 1 .. M) \cup ((M + 1 .. TextLength) \ G)
      <4> DEFINE N == TextLength
                 old == G \cup ((lo + 1 .. hi) \ shown)
                 new == shown \cup (hi + 1 .. M) \cup ((M + 1 .. N) \ G)
      <4>1. N \in Nat
        BY <1>1
      <4> HIDE DEF N
      <4>2. \A x \in shown : x \in Int /\ lo < x /\ x <= hi
        BY ONLY <3>3
      <4>3. \A x \in G : x \in Int /\ M < x
        BY ONLY <3>3 DEF N
      <4>4. ASSUME NEW x \in lo + 1 .. N
            PROVE  x \notin old <=> x \in new
        <5>1. x \in Int /\ lo < x /\ x <= N
          BY <3>3, <4>1
        <5>2. CASE x <= hi
          BY ONLY <3>3, <4>1, <4>3, <5>1, <5>2
        <5>3. CASE hi < x /\ x <= M
          BY ONLY <3>3, <4>1, <4>2, <4>3, <5>1, <5>3
        <5>4. CASE M < x
          BY ONLY <3>3, <4>1, <4>2, <5>1, <5>4
        <5> QED
          BY <3>3, <5>1, <5>2, <5>3, <5>4
      <4>5. new \in SUBSET (lo + 1 .. N)
        <5>1. M <= N
          BY <3>3 DEF N
        <5> QED
          BY ONLY <3>3, <4>1, <4>2, <5>1
      <4> HIDE DEF old, new
      <4>6. (lo + 1 .. N) \ old = new
        BY <4>4, <4>5
      <4> QED
        BY <4>6 DEF N, old, new
    <3> QED
      BY <3>4, <3>5 DEF hi, M
  <2>8. open(k - 1) \in SUBSET (L(k - 1) + 1 .. TextLength)
    OBVIOUS
  <2> HIDE DEF open, L, gone
  <2>9. Cleared(texts[k], h.lo, shown \cup (h.hi + 1 .. L(k - 1)) \cup open(k - 1))
    BY <1>8, <2>2, <2>3, <2>4, <2>8, CutClears
  <2> QED
    BY <2>2, <2>7, <2>9
<1>9. Done(n)
  <2> SUFFICES ASSUME ~Done(n) PROVE FALSE
    OBVIOUS
  <2>1. failing \in SUBSET Nat /\ n \in failing
    BY <1>1
  <2> HIDE DEF Done
  <2>2. PICK k \in 0..n : ~Done(k) /\ \A j \in failing : k <= j
    BY <2>1, LeastExists
  <2>3. k \in 1..n /\ k - 1 \in 0..n /\ ~(k <= k - 1)
    BY <1>1, <1>7, <2>2
  <2>4. Done(k - 1)
    BY <2>2, <2>3
  <2> QED
    BY <1>8, <2>2, <2>3, <2>4
<1>10. L(n) \in Nat /\ L(n) <= TextLength
  <2>1. CASE n = 0
    BY <1>1, <2>1
  <2>2. CASE n # 0
    <3>1. n \in 1..n /\ ordered[n] \in Hits
      BY <1>1, <1>2, <2>2
    <3>2. /\ ordered[n].lo \in Nat /\ ordered[n].hi \in Nat
          /\ ordered[n].lo < ordered[n].hi /\ ordered[n].hi <= TextLength
      BY <1>5, <3>1
    <3> QED
      BY <1>1, <2>2, <3>2
  <2> QED
    BY <2>1, <2>2
<1>11. gone(n) = hidden
  BY <1>1, <1>2
<1>12. hidden \in SUBSET (L(n) + 1 .. TextLength)
  <2>1. n \in 0..n
    BY <1>1
  <2> QED
    BY <1>6, <1>11, <2>1
<1> DEFINE M == L(n)
           shows == (M + 1 .. TextLength) \ hidden
<1>13. Cleared(out, M, shows)
  BY <1>3, <1>9, <1>11
<1>14. /\ M \in Nat /\ M <= TextLength /\ hidden \in SUBSET (M + 1 .. TextLength)
       /\ out \in Seq(Nat) /\ Len(out) \in Nat /\ M <= Len(out) /\ DOMAIN out = 1..Len(out)
       /\ \A i \in 1..M : out[i] = i
       /\ \A i \in M + 1 .. Len(out) : out[i] = Mark \/ out[i] \in shows
       /\ \A x \in shows : \E i \in M + 1 .. Len(out) : out[i] = x
       /\ \A i, j \in M + 1 .. Len(out) :
            i < j /\ out[i] # Mark /\ out[j] # Mark => out[i] < out[j]
  <2>1. M \in Nat /\ M <= TextLength /\ hidden \in SUBSET (M + 1 .. TextLength)
    BY <1>10, <1>12
  <2> HIDE DEF M, shows
  <2>2. out \in Seq(Nat) /\ M \in 0..Len(out)
    BY <1>13 DEF Cleared
  <2>3. Len(out) \in Nat /\ DOMAIN out = 1..Len(out)
    BY <2>2, LenProperties
  <2>4. M <= Len(out)
    BY <2>2, <2>3
  <2> QED
    BY <1>13, <2>1, <2>2, <2>3, <2>4 DEF Cleared
<1> HIDE DEF M
<1>15. \A x \in shows : x \in Nat /\ M < x /\ x <= TextLength /\ x \notin hidden
  BY <1>1, <1>14
<1>16. Mark = 0
  BY DEF Mark
<1> HIDE DEF shows
<1>17. ASSUME NEW i \in DOMAIN out, out[i] # Mark
       PROVE  out[i] \in (1..TextLength) \ hidden
  <2>1. CASE i <= M
    <3>1. i \in 1..M /\ out[i] = i
      BY <1>14, <2>1
    <3>2. \A x \in hidden : x \in Int /\ M < x
      <4>1. M \in Nat /\ hidden \in SUBSET (M + 1 .. TextLength)
        BY <1>14
      <4> QED
        BY ONLY <1>1, <4>1
    <3> QED
      BY <1>1, <1>14, <3>1, <3>2
  <2>2. CASE ~(i <= M)
    <3>1. i \in M + 1 .. Len(out)
      BY <1>14, <2>2
    <3>2. out[i] \in shows
      BY <1>14, <1>17, <3>1
    <3> QED
      BY <1>1, <1>14, <1>15, <3>2
  <2> QED
    BY <2>1, <2>2
<1>18. ASSUME NEW x \in (1..TextLength) \ hidden
       PROVE  x # Mark /\ \E i \in DOMAIN out : out[i] = x
  <2>1. CASE x <= M
    <3>1. x \in 1..M /\ x \in DOMAIN out
      BY <1>1, <1>14, <2>1
    <3> QED
      BY <1>14, <1>16, <3>1
  <2>2. CASE ~(x <= M)
    <3>1. x \in shows
      BY <1>1, <1>14, <2>2 DEF shows
    <3>2. PICK i \in M + 1 .. Len(out) : out[i] = x
      BY <1>14, <3>1
    <3>3. i \in DOMAIN out
      BY <1>14
    <3> QED
      BY <1>16, <3>2, <3>3
  <2> QED
    BY <2>1, <2>2
<1>19. ASSUME NEW i \in DOMAIN out, NEW j \in DOMAIN out, out[i] # Mark, out[j] # Mark, i < j
       PROVE  out[i] < out[j]
  <2>1. CASE j <= M
    <3>1. i \in 1..M /\ j \in 1..M
      BY <1>14, <1>19, <2>1
    <3> QED
      BY <1>14, <1>19, <3>1
  <2>2. CASE i <= M /\ ~(j <= M)
    <3>1. i \in 1..M /\ j \in M + 1 .. Len(out)
      BY <1>14, <2>2
    <3>2. out[i] = i /\ out[j] \in shows
      BY <1>14, <1>19, <3>1
    <3>3. out[j] \in Nat /\ M < out[j]
      BY <1>15, <3>2
    <3> QED
      BY <1>14, <2>2, <3>1, <3>2, <3>3
  <2>3. CASE ~(i <= M)
    <3>1. i \in M + 1 .. Len(out) /\ j \in M + 1 .. Len(out)
      BY <1>14, <1>19, <2>3
    <3> QED
      BY <1>14, <1>19, <3>1
  <2> QED
    BY <2>1, <2>2, <2>3
<1> QED
  BY <1>17, <1>18, <1>19

-----------------------------------------------------------------------------
(* The checks.                                                             *)

GrantTypes == grants \in Seq(Grant) /\ Len(grants) \in 0..MaxGrants

\* Of the rows and the grants a running check goes by, one stood with the other
\* at some moment, unless both have changed since the rows were read.
CheckInv ==
  /\ CheckTyped
  /\ check.pc = "rows" =>
       /\ DOMAIN check = {"pc", "agent", "scope", "rows", "lived", "moved"}
       /\ Bounded(DOMAIN check.rows)
       /\ "rows" \notin check.moved => check.rows = rows
       /\ check.moved # {"rows", "grants"} =>
            \A c \in Classes :
              LevelInForce(check.rows, grants, check.agent, check.scope, c) \in check.lived[c]
  /\ check.pc \in {"passed", "blocked", "refused"} =>
       {"pc", "agent", "scope", "levels", "lived", "moved"} \subseteq DOMAIN check
  /\ LevelWasInForce
  /\ RedactedIsHidden

\* A change of the rows or of the grants leaves the running check its moment.
LEMMA WatchInv ==
  ASSUME CheckInv, NEW what \in {"rows", "grants"}, Watch(what, rows', grants'),
         what = "rows" => grants' = grants, what = "grants" => rows' = rows
  PROVE  CheckInv'
<1>1. CASE check.pc # "rows"
  <2>1. check' = check
    BY <1>1 DEF Watch
  <2> QED
    BY <1>1, <2>1 DEF CheckInv, CheckTyped, LevelWasInForce, RedactedIsHidden
<1>2. CASE check.pc = "rows"
  <2> DEFINE lived == [c \in Classes |-> check.lived[c] \cup
                         {LevelInForce(rows', grants', check.agent, check.scope, c)}]
  <2>1. check' = [check EXCEPT !.moved = check.moved \cup {what}, !.lived = lived]
    BY <1>2 DEF Watch
  <2> HIDE DEF lived
  <2>2. DOMAIN check = {"pc", "agent", "scope", "rows", "lived", "moved"}
    BY <1>2 DEF CheckInv
  <2>3. /\ DOMAIN check' = DOMAIN check /\ check'.pc = "rows" /\ check'.agent = check.agent
        /\ check'.scope = check.scope /\ check'.rows = check.rows
        /\ check'.moved = check.moved \cup {what} /\ check'.lived = lived
    BY <1>2, <2>1, <2>2
  <2>4. CheckTyped'
    BY <1>2, <2>3 DEF CheckInv, CheckTyped, lived
  <2>5. "rows" \notin check'.moved => check'.rows = rows'
    BY <1>2, <2>3 DEF CheckInv
  <2>6. ASSUME check'.moved # {"rows", "grants"}, NEW c \in Classes
        PROVE  LevelInForce(check.rows, grants', check.agent, check.scope, c) \in lived[c]
    <3>1. check.moved \subseteq {"rows", "grants"}
      BY <1>2 DEF CheckInv, CheckTyped
    <3>2. CASE what = "rows"
      <4>1. check.moved # {"rows", "grants"} /\ grants' = grants
        BY <2>3, <2>6, <3>2
      <4>2. LevelInForce(check.rows, grants, check.agent, check.scope, c) \in check.lived[c]
        BY <1>2, <4>1 DEF CheckInv
      <4> QED
        BY <4>1, <4>2 DEF lived
    <3>3. CASE what = "grants"
      <4>1. "rows" \notin check.moved /\ rows' = rows
        BY <2>3, <2>6, <3>1, <3>3
      <4>2. check.rows = rows'
        BY <1>2, <4>1 DEF CheckInv
      <4> QED
        BY <4>2 DEF lived
    <3> QED
      BY <3>2, <3>3
  <2>7. LevelWasInForce'
    BY <2>3 DEF LevelWasInForce
  <2>8. RedactedIsHidden'
    BY <2>3 DEF RedactedIsHidden
  <2> QED
    BY <1>2, <2>2, <2>3, <2>4, <2>5, <2>6, <2>7, <2>8 DEF CheckInv
<1> QED
  BY <1>1, <1>2

LEMMA ReadInv ==
  ASSUME RowsTyped(rows), Bounded(DOMAIN rows), ReadRows
  PROVE  CheckInv'
<1>1. PICK agent \in Agents \cup {Nobody}, scope \in Scopes :
        check' = [pc |-> "rows", agent |-> agent, scope |-> scope, rows |-> rows,
                  lived |-> [c \in Classes |-> {LevelInForce(rows, grants, agent, scope, c)}],
                  moved |-> {}]
  BY DEF ReadRows, RowsRead
<1>2. UNCHANGED <<rows, grants>>
  BY DEF ReadRows
<1>3. /\ DOMAIN check' = {"pc", "agent", "scope", "rows", "lived", "moved"}
      /\ check'.pc = "rows" /\ check'.agent = agent /\ check'.scope = scope /\ check'.rows = rows
      /\ check'.lived = [c \in Classes |-> {LevelInForce(rows, grants, agent, scope, c)}]
      /\ check'.moved = {}
  BY <1>1
<1>4. CheckTyped'
  BY <1>2, <1>3 DEF CheckTyped
<1>5. LevelWasInForce'
  BY <1>3 DEF LevelWasInForce
<1>6. RedactedIsHidden'
  BY <1>3 DEF RedactedIsHidden
<1> QED
  BY <1>2, <1>3, <1>4, <1>5, <1>6 DEF CheckInv

\* The hits a check cuts out are hits in the text, and what it passes shows
\* nothing of them but what their masks keep.
LEMMA DecideHides ==
  ASSUME Decide
  PROVE  RedactedIsHidden'
<1>1. PICK policy, raw, pc, class, cut :
        /\ raw \in Findings
        /\ check' = Decided(pc, class, cut, policy)
        /\ \/ cut = <<>>
           \/ \E enabled : cut = HitsAt("redact", Accepted(FuseHits(
                              RunClassifiers(raw, enabled)), policy), policy)
  BY DEF Decide
<1>2. cut \in Seq(Hits)
  <2>1. CASE cut = <<>>
    BY <2>1
  <2>2. ASSUME NEW enabled, cut = HitsAt("redact", Accepted(FuseHits(
                              RunClassifiers(raw, enabled)), policy), policy)
        PROVE  cut \in Seq(Hits)
    <3> DEFINE ran == RunClassifiers(raw, enabled)
               fused == FuseHits(ran)
               accepted == Accepted(fused, policy)
    <3>1. raw \in Seq(Hits)
      BY <1>1, FindingsAreHits
    <3>2. ran \in Seq(Hits)
      BY <3>1, TakenSeq DEF RunClassifiers
    <3> HIDE DEF ran
    <3>3. fused \in Seq(Hits)
      BY <3>2, FusedHits
    <3> HIDE DEF fused
    <3>4. accepted \in Seq(Hits)
      BY <3>3, TakenSeq DEF Accepted
    <3> HIDE DEF accepted
    <3>5. HitsAt("redact", accepted, policy) \in Seq(Hits)
      BY <3>4, TakenSeq DEF HitsAt
    <3> QED
      BY <2>2, <3>5 DEF ran, fused, accepted
  <2> QED
    BY <1>1, <2>1, <2>2
<1> DEFINE styles == [c \in Classes |-> policy[c].style]
           out == ApplyRedactions(Text, cut, policy)
           hidden == UNION {Hides(cut[i], policy) : i \in DOMAIN cut}
<1>3. check'.cut = cut /\ check'.style = styles /\ check'.out = out
  BY <1>1 DEF Decided
<1>4. \A i \in DOMAIN cut : styles[cut[i].class] = policy[cut[i].class].style
  <2> TAKE i \in DOMAIN cut
  <2>1. cut[i] \in Hits
    BY <1>2, LenProperties
  <2>2. cut[i].class \in Classes
    BY <2>1 DEF Hits
  <2> QED
    BY <2>2
<1>5. hidden = UNION {(cut[i].lo + 1 .. cut[i].hi) \ Shown(styles[cut[i].class], cut[i]) :
                        i \in DOMAIN cut}
  BY <1>4 DEF Hides
<1>6. (\A i, j \in DOMAIN cut : i # j => ~Overlap(cut[i], cut[j])) =>
        /\ {out[i] : i \in DOMAIN out} \ {Mark} = (1..TextLength) \ hidden
        /\ \A i, j \in {k \in DOMAIN out : out[k] # Mark} : i < j => out[i] < out[j]
  BY <1>2, RedactionHides
<1> HIDE DEF styles, out, hidden
<1> QED
  BY <1>3, <1>5, <1>6 DEF RedactedIsHidden

LEMMA DecideInv ==
  ASSUME CheckInv, GrantTypes, Decide
  PROVE  CheckInv'
<1>1. PICK policy, pc, class, cut :
        /\ check.pc = "rows" /\ pc \in {"blocked", "passed"}
        /\ policy = ResolvePolicy(check.rows, ActiveGrants(check.agent), check.agent, check.scope)
        /\ check' = Decided(pc, class, cut, policy)
  BY DEF Decide
<1> DEFINE levels == [c \in Classes |-> policy[c].level]
<1>3. /\ check'.pc \in {"blocked", "passed"} /\ check'.agent = check.agent
      /\ check'.scope = check.scope /\ check'.levels = levels
      /\ check'.lived = check.lived /\ check'.moved = check.moved
      /\ {"pc", "agent", "scope", "levels", "lived", "moved"} \subseteq DOMAIN check'
  BY <1>1 DEF Decided
<1>4. \A c \in Classes : levels[c] = LevelInForce(check.rows, grants, check.agent, check.scope, c)
  <2> TAKE c \in Classes
  <2>1. /\ RowsTyped(check.rows) /\ Bounded(DOMAIN check.rows)
        /\ check.agent \in Agents \cup {Nobody} /\ check.scope \in Scopes
    BY <1>1 DEF CheckInv, CheckTyped
  <2>2. ResolvePolicy(check.rows, ActiveGrants(check.agent), check.agent, check.scope)[c].level
          = LevelInForce(check.rows, grants, check.agent, check.scope, c)
    BY <2>1, ResolvedInForce DEF GrantTypes
  <2> QED
    BY <1>1, <2>2
<1>5. DOMAIN levels = Classes
  OBVIOUS
<1> HIDE DEF levels
<1>6. CheckTyped'
  BY <1>1, <1>3, <1>5 DEF CheckInv, CheckTyped
<1>7. LevelWasInForce'
  BY <1>1, <1>3, <1>4 DEF CheckInv, LevelWasInForce
<1> QED
  BY <1>3, <1>6, <1>7, DecideHides DEF CheckInv

LEMMA NotifyInv ==
  ASSUME CheckInv, NotifyBlock
  PROVE  CheckInv'
<1>1. check.pc = "blocked" /\ check' = [check EXCEPT !.pc = "refused"]
  BY DEF NotifyBlock
<1>2. {"pc", "agent", "scope", "levels", "lived", "moved"} \subseteq DOMAIN check
  BY <1>1 DEF CheckInv
<1>3. /\ DOMAIN check' = DOMAIN check /\ check'.pc = "refused" /\ check'.agent = check.agent
      /\ check'.scope = check.scope /\ check'.levels = check.levels /\ check'.lived = check.lived
      /\ check'.moved = check.moved
  BY <1>1, <1>2
<1>4. CheckTyped'
  BY <1>1, <1>3 DEF CheckInv, CheckTyped
<1>5. LevelWasInForce'
  BY <1>1, <1>3 DEF CheckInv, LevelWasInForce
<1>6. RedactedIsHidden'
  BY <1>3 DEF RedactedIsHidden
<1> QED
  BY <1>2, <1>3, <1>4, <1>5, <1>6 DEF CheckInv

LEMMA GrantInv ==
  ASSUME GrantTypes, CheckInv, CreateGrant \/ RevokeGrant \/ GrantLapses
  PROVE  GrantTypes' /\ CheckInv'
<1>1. CASE CreateGrant
  <2>1. PICK b \in GrantBodies :
          grants' = Append(grants, [owner |-> b.owner, class |-> b.class, scopes |-> b.scopes,
                                    level |-> b.level, lasting |-> b.lasting, live |-> TRUE])
    BY <1>1 DEF CreateGrant
  <2>2. Len(grants) < MaxGrants /\ Watch("grants", rows', grants') /\ rows' = rows
    BY <1>1 DEF CreateGrant
  <2>3. b \in [owner : Agents \cup {Everyone}, class : Classes, scopes : SUBSET Scopes,
              level : Levels, lasting : BOOLEAN]
    BY GuardrailConstants
  <2>4. PICK g \in Grant : grants' = Append(grants, g)
    BY <2>1, <2>3 DEF Grant
  <2>5. GrantTypes'
    BY <2>2, <2>4, GuardrailConstants DEF GrantTypes
  <2> QED
    BY <2>2, <2>5, WatchInv
<1>2. ASSUME NEW g \in DOMAIN grants, NEW by, EndGrant(g, by)
      PROVE  GrantTypes' /\ CheckInv'
  <2>1. grants' = [grants EXCEPT ![g].live = FALSE] /\ Watch("grants", rows', grants') /\ rows' = rows
    BY <1>2 DEF EndGrant
  <2>2. grants[g] \in Grant
    BY DEF GrantTypes
  <2>3. PICK k \in Grant : k = [grants[g] EXCEPT !.live = FALSE]
    BY <2>2 DEF Grant
  <2>4. grants' = [grants EXCEPT ![g] = k]
    BY <2>1, <2>3
  <2>5. GrantTypes'
    BY <2>4 DEF GrantTypes
  <2> QED
    BY <2>1, <2>5, WatchInv
<1> QED
  BY <1>1, <1>2 DEF RevokeGrant, GrantLapses

-----------------------------------------------------------------------------
GuardInv == EditTypes /\ GrantTypes /\ EditInv /\ CheckInv

LEMMA GuardStarts == GuardInit => GuardInv
<1> SUFFICES ASSUME GuardInit PROVE GuardInv
  OBVIOUS
<1> USE DEF GuardInit
<1>1. DOMAIN rows = {} /\ Len(grants) = 0 /\ check.pc = "idle"
  BY DEF NoCheck
<1>2. RowsTyped(rows) /\ Bounded(DOMAIN rows)
  BY <1>1 DEF RowsTyped, Bounded
<1>3. EditTypes
  BY <1>2, GuardrailConstants DEF EditTypes
<1>4. GrantTypes
  BY <1>1, GuardrailConstants DEF GrantTypes
<1>5. EditInv
  <2>1. \A p : RowsOf(rows, p) = {}
    BY <1>1 DEF RowsOf
  <2>2. \A c \in Clients : ~Open(c)
    BY DEF Open
  <2> QED
    BY <1>2, <2>1, <2>2 DEF EditInv, EditsTakeEffect, Single, RowFor
<1>6. CheckInv
  BY <1>1 DEF CheckInv, CheckTyped, LevelWasInForce, RedactedIsHidden
<1> QED
  BY <1>3, <1>4, <1>5, <1>6 DEF GuardInv

LEMMA GuardSteps ==
  ASSUME GuardInv, [GuardNext]_guardVars
  PROVE  GuardInv'
<1>1. ASSUME UNCHANGED <<rows, grants, check>>
      PROVE  GrantTypes' /\ CheckInv'
  BY <1>1 DEF GuardInv, GrantTypes, CheckInv, CheckTyped, LevelWasInForce, RedactedIsHidden
<1>2. ASSUME UNCHANGED <<rows, edit, edits, asked, raced>>
      PROVE  EditTypes' /\ EditInv'
  <2>1. \A c : (Open(c) <=> Open(c)') /\ PointOf(c)' = PointOf(c) /\ (Undisturbed(c) => Undisturbed(c)')
    BY <1>2 DEF Open, PointOf, Undisturbed
  <2> QED
    BY <1>2, <2>1 DEF GuardInv, EditTypes, EditInv, EditsTakeEffect
<1>3. ASSUME NEW c \in Clients, BeginEdit(c)
      PROVE  GuardInv'
  <2>1. UNCHANGED <<rows, grants, check>>
    BY <1>3 DEF BeginEdit
  <2> QED
    BY <1>1, <1>3, <2>1, BeginInv DEF GuardInv
<1>4. ASSUME NEW c \in Clients, FailEdit(c)
      PROVE  GuardInv'
  <2>1. UNCHANGED <<rows, grants, check>>
    BY <1>4 DEF FailEdit
  <2> QED
    BY <1>1, <1>4, <2>1, FailInv DEF GuardInv
<1>5. ASSUME NEW c \in Clients, CommitEdit(c)
      PROVE  GuardInv'
  <2>1. Watch("rows", rows', grants') /\ grants' = grants
    BY <1>5 DEF CommitEdit
  <2>2. CheckInv' /\ GrantTypes'
    BY <2>1, WatchInv DEF GuardInv, GrantTypes
  <2> QED
    BY <1>5, <2>2, CommitInv DEF GuardInv
<1>6. CASE CreateGrant \/ RevokeGrant \/ GrantLapses
  <2>1. UNCHANGED <<rows, edit, edits, asked, raced>>
    BY <1>6 DEF CreateGrant, RevokeGrant, GrantLapses, EndGrant
  <2> QED
    BY <1>2, <1>6, <2>1, GrantInv DEF GuardInv
<1>7. CASE ReadRows \/ Decide \/ NotifyBlock
  <2>1. UNCHANGED <<rows, grants, edit, edits, asked, raced>>
    BY <1>7 DEF ReadRows, Decide, NotifyBlock
  <2>2. CheckInv'
    BY <1>7, ReadInv, DecideInv, NotifyInv DEF GuardInv, EditTypes, EditInv
  <2> QED
    BY <1>2, <2>1, <2>2 DEF GuardInv, GrantTypes
<1>8. CASE WindowPasses \/ UNCHANGED guardVars
  <2>1. UNCHANGED <<rows, grants, edit, check, edits, asked, raced>>
    BY <1>8 DEF WindowPasses, guardVars
  <2> QED
    BY <1>1, <1>2, <2>1 DEF GuardInv
<1> QED
  BY <1>3, <1>4, <1>5, <1>6, <1>7, <1>8 DEF GuardNext

LEMMA GuardInvariance == GuardSpec => []GuardInv
BY GuardStarts, GuardSteps, PTL DEF GuardSpec

\* Type correctness of the policy rows, grants, edits and checks, for any number
\* of agents, classes, clients and edits.
THEOREM GuardTypes == GuardSpec => []GuardTypeOK
<1>1. GuardInv => GuardTypeOK
  BY DEF GuardInv, EditTypes, GrantTypes, CheckInv, GuardTypeOK, Edit, Grant
<1> QED
  BY <1>1, GuardInvariance, PTL

\* A check applies to each class a level that was in force, by the documented
\* order, at some moment of the check, unless rows and grants both changed
\* between its two reads.
THEOREM LevelsWereInForce == GuardSpec => []LevelWasInForce
<1>1. GuardInv => LevelWasInForce
  BY DEF GuardInv, CheckInv
<1> QED
  BY <1>1, GuardInvariance, PTL

\* What checks resolve for a point is what the committed edits of it ask for,
\* column by column, unless two of them have overlapped.
THEOREM EditsApply == GuardSpec => []EditsTakeEffect
<1>1. GuardInv => EditsTakeEffect
  BY DEF GuardInv, EditInv
<1> QED
  BY <1>1, GuardInvariance, PTL

\* A text that passes shows, of the characters of the hits it was redacted of,
\* what their masks keep and nothing else, for any text, detectors and policy,
\* unless two of these hits overlap.
THEOREM RedactionsHide == GuardSpec => []RedactedIsHidden
<1>1. GuardInv => RedactedIsHidden
  BY DEF GuardInv, CheckInv
<1> QED
  BY <1>1, GuardInvariance, PTL
=============================================================================
