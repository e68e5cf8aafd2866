----------------------------- MODULE EngineRun ------------------------------
(***************************************************************************)
(* One RuntimeEngine.run() after its preflight: the LangGraph loop under   *)
(* asyncio.wait_for, the BudgetGuard counters, the cost of each model call, *)
(* then the finalization that records cost, writes the deliverable and     *)
(* closes the run row.                                                     *)
(*                                                                         *)
(* The model, the tools and the clock are the environment: every answer,   *)
(* error and delay they may produce is a choice here.                      *)
(***************************************************************************)
EXTENDS Naturals, Sequences

CONSTANTS
    MaxIterations,  \* BudgetGuard.max_iterations
    MaxModelCalls,  \* BudgetGuard.max_model_calls
    MaxToolCalls,   \* BudgetGuard.max_tool_calls
    TokenCap,       \* BudgetGuard.max_tokens_per_run; 0 stands for None
    CallTokens,     \* what one model call may cost; 0: no usage_metadata
    Reflection,     \* agent.spec.runtime.reflection
    FileOutput      \* task.spec.output.type = "file"

ASSUME EngineConstants ==
    /\ MaxIterations \in Nat /\ MaxModelCalls \in Nat /\ MaxToolCalls \in Nat
    /\ TokenCap \in Nat
    /\ CallTokens \subseteq Nat
    /\ Reflection \in BOOLEAN /\ FileOutput \in BOOLEAN

VARIABLES
    node,         \* where run() is
    graph,        \* the LangGraph state: messages and response
    hinted,       \* _saw_structured_error
    iterations, model_calls, tool_calls, tokens_used,   \* BudgetGuard
    called,       \* model.ainvoke calls made
    dispatched,   \* tools started
    largest,      \* the largest answer so far, in tokens
    spent,        \* tokens the provider has charged for
    tracked,      \* tokens on the CostTracker
    call,         \* tokens of the answer whose ModelCallEventRow is pending
    events,       \* tokens of the run's ModelCallEventRows
    missed,       \* tokens of answers whose ModelCallEventRow was not written
    billed,       \* tokens of the CostEventRow, 0 before it is written
    lost,         \* record_usage failed
    final,        \* final_state
    expired,      \* max_runtime seconds have passed
    row,          \* TaskRunRow.state
    file,         \* the deliverable file exists
    meta,         \* deliverable_meta is set
    deliverable   \* the DeliverableRow exists

budget == <<iterations, model_calls, tool_calls, tokens_used>>
ghosts == <<called, dispatched, largest>>
meter  == <<call, events, missed>>
costs  == <<spent, tracked, meter, billed, lost>>
output == <<file, meta, deliverable>>
vars   == <<node, graph, hinted, budget, ghosts, costs, final, expired, row, output>>

LoopNodes == {"prepare", "invoke", "calling", "recording", "guardrail",
              "classify", "run_tool", "tool"}

Nodes == LoopNodes \cup {"settling", "reflecting", "writing", "committing",
                         "ended", "raised", "crashed"}

Roles == {"system", "user", "tool"}

\* StateGraph(dict) has a single root channel: what a node returns replaces
\* the whole state, so a key it leaves out is gone for the nodes after it.
State(messages, response) == [messages |-> messages, response |-> response]

Init ==
    /\ node = "prepare"
    /\ graph = State(<<>>, "none")
    /\ hinted = FALSE
    /\ iterations = 0 /\ model_calls = 0 /\ tool_calls = 0 /\ tokens_used = 0
    /\ called = 0 /\ dispatched = 0 /\ largest = 0
    /\ spent = 0 /\ tracked = 0 /\ call = 0 /\ events = 0 /\ missed = 0
    /\ billed = 0 /\ lost = FALSE
    /\ final = "none"
    /\ expired = FALSE
    /\ row = "running"
    /\ file = FALSE /\ meta = FALSE /\ deliverable = FALSE

\* _run_loop raised: BudgetExceeded, PermissionDenied or anything else.
Fail ==
    /\ node' = "settling"
    /\ final' = "failed"

-----------------------------------------------------------------------------
(* The graph.                                                              *)

Prepare ==
    /\ node = "prepare"
    /\ node' = "invoke"
    /\ graph' = State(<<"system", "user">>, "none")
    /\ UNCHANGED <<hinted, budget, ghosts, costs, final, expired, row, output>>

\* Mutant: compare, then increment.
WithinCalls_Late == iterations <= MaxIterations /\ model_calls <= MaxModelCalls

\* tick_iter, tick_model: each increments, then compares.
WithinCalls == iterations < MaxIterations /\ model_calls < MaxModelCalls

Invoke ==
    /\ node = "invoke"
    /\ iterations' = iterations + 1
    /\ model_calls' = IF iterations < MaxIterations THEN model_calls + 1 ELSE model_calls
    /\ \/ /\ WithinCalls
          /\ node' = "calling"
          /\ called' = called + 1
          /\ graph' = State([graph.messages EXCEPT ![1] = "system"], graph.response)
          /\ UNCHANGED final
       \/ /\ ~WithinCalls
          /\ Fail
          /\ UNCHANGED <<called, graph>>
    /\ UNCHANGED <<hinted, tool_calls, tokens_used, dispatched, largest, costs,
                   expired, row, output>>

\* _track_token_usage adds the answer to the CostTracker and opens a session
\* for its ModelCallEventRow ...
Answer(n, kind) ==
    /\ node = "calling"
    /\ node' = "recording"
    /\ graph' = State(graph.messages, kind)
    /\ spent' = spent + n
    /\ tracked' = tracked + n
    /\ call' = n
    /\ largest' = IF n > largest THEN n ELSE largest
    /\ UNCHANGED <<hinted, budget, called, dispatched, events, missed, billed, lost, final,
                   expired, row, output>>

\* The row is written, or telemetry failed and the error was swallowed.
Keep == events' = events + call /\ UNCHANGED missed
Miss == missed' = missed + call /\ UNCHANGED events

\* Mutant: the answer itself is not counted before the comparison.
OverTokens_Late == TokenCap # 0 /\ call > 0 /\ tokens_used > TokenCap

\* tick_tokens: adds, then compares.
OverTokens == TokenCap # 0 /\ call > 0 /\ tokens_used + call > TokenCap

\* ... then ticks the token budget.
Record ==
    /\ node = "recording"
    /\ Keep \/ Miss
    /\ call' = 0
    /\ tokens_used' = IF TokenCap # 0 THEN tokens_used + call ELSE tokens_used
    /\ \/ OverTokens /\ Fail
       \/ ~OverTokens /\ node' = "guardrail" /\ UNCHANGED final
    /\ UNCHANGED <<graph, hinted, iterations, model_calls, tool_calls, ghosts, spent, tracked,
                   billed, lost, expired, row, output>>

\* Returns the response and nothing else.
Guardrail ==
    /\ node = "guardrail"
    /\ node' = "classify"
    /\ graph' = State(<<>>, graph.response)
    /\ UNCHANGED <<hinted, budget, ghosts, costs, final, expired, row, output>>

\* A final answer ends the graph; a tool call routes to run_tool.
Classify ==
    /\ node = "classify"
    /\ \/ /\ graph.response = "final"
          /\ node' = "settling"
          /\ final' = "completed"
       \/ /\ graph.response = "tool"
          /\ node' = "run_tool"
          /\ UNCHANGED final
    /\ graph' = State(<<>>, "none")
    /\ UNCHANGED <<hinted, budget, ghosts, costs, expired, row, output>>

\* run_tool appends the result, or the error, of the call to the messages; the
\* first error of a run is preceded by a system message that explains errors.
Report(error) ==
    /\ node' = "invoke"
    /\ hinted' = (hinted \/ error)
    /\ graph' = State(graph.messages \o (IF error /\ ~hinted THEN <<"system", "tool">>
                                                              ELSE <<"tool">>), "none")

\* Not in the allowlist or missing a permission: raised before tick_tool.
Deny ==
    /\ node = "run_tool"
    /\ Report(TRUE)
    /\ UNCHANGED <<budget, ghosts, costs, final, expired, row, output>>

\* tick_tool, then config, arguments and secrets, then the plugin starts, in a
\* sandboxed process or in this one.
Dispatch ==
    /\ node = "run_tool"
    /\ tool_calls' = tool_calls + 1
    /\ \/ /\ tool_calls >= MaxToolCalls
          /\ Fail
          /\ UNCHANGED <<graph, hinted, dispatched>>
       \/ /\ tool_calls < MaxToolCalls
          /\ Report(TRUE)
          /\ UNCHANGED <<final, dispatched>>
       \/ /\ tool_calls < MaxToolCalls
          /\ node' = "tool"
          /\ dispatched' = dispatched + 1
          /\ UNCHANGED <<graph, hinted, final>>
    /\ UNCHANGED <<iterations, model_calls, tokens_used, called, largest, costs,
                   expired, row, output>>

\* The tool answers or fails; run_sandboxed kills a child that times out.
ToolReturns(error) ==
    /\ node = "tool"
    /\ Report(error)
    /\ UNCHANGED <<budget, ghosts, costs, final, expired, row, output>>

\* What the costs become when the loop is cut short: a call that ends without
\* an answer may have been charged for, an answer that was being recorded is
\* kept or missed.
Interrupted ==
    /\ spent' \in {spent + n : n \in IF node = "calling" THEN CallTokens ELSE {0}}
    /\ Keep \/ Miss
    /\ call' = 0
    /\ UNCHANGED <<tracked, billed, lost>>

\* A node raises: the provider, the guardrail (DATA_CLASS_BLOCKED), storage.
Raise ==
    /\ node \in {"prepare", "invoke", "calling", "guardrail"}
    /\ Fail
    /\ Interrupted
    /\ UNCHANGED <<graph, hinted, budget, ghosts, expired, row, output>>

\* Mutant: the timeout covers the model call only.
Timeout_ModelOnly ==
    /\ node = "calling"
    /\ expired' = TRUE
    /\ Fail
    /\ Interrupted
    /\ UNCHANGED <<graph, hinted, budget, ghosts, row, output>>

\* asyncio.wait_for cancels the loop wherever it waits.
Timeout ==
    /\ node \in LoopNodes
    /\ expired' = TRUE
    /\ Fail
    /\ Interrupted
    /\ UNCHANGED <<graph, hinted, budget, ghosts, row, output>>

-----------------------------------------------------------------------------
(* Finalization, which no wait_for covers.                                 *)

\* Mutant: the per-call rows are used whenever an answer was tracked.
Usage_Events == events

\* What record_usage bills: the per-call rows when there are any, else the
\* tracker.  An answer without tokens writes no row, so there are rows when
\* they have tokens.
Usage == IF events # 0 THEN events ELSE tracked

\* record_usage: on success and on failure; its error is logged and swallowed.
Settle ==
    /\ node = "settling"
    /\ \/ billed' = Usage /\ UNCHANGED lost
       \/ lost' = TRUE /\ UNCHANGED billed
    /\ node' = IF Reflection /\ final = "completed" THEN "reflecting" ELSE "writing"
    /\ UNCHANGED <<graph, hinted, budget, ghosts, spent, tracked, meter, final, expired,
                   row, output>>

\* The wall clock passes max_runtime after the loop: nobody is listening.
Expire ==
    /\ node \in {"settling", "reflecting", "writing", "committing"}
    /\ ~expired
    /\ expired' = TRUE
    /\ UNCHANGED <<node, graph, hinted, budget, ghosts, costs, final, row, output>>

\* reflect() calls the model once more, outside the budgets and without a
\* wait_for; an error is swallowed.
Reflect ==
    /\ node = "reflecting"
    /\ node' = "writing"
    /\ UNCHANGED <<graph, hinted, budget, ghosts, costs, final, expired, row, output>>

\* Mutant: the metadata is kept when the write fails.
Write_KeepMeta ==
    /\ node = "writing"
    /\ node' = "committing"
    /\ meta' = (final = "completed" /\ FileOutput)
    /\ file' \in {FALSE, meta'}
    /\ UNCHANGED <<graph, hinted, budget, ghosts, costs, final, expired, row,
                   deliverable>>

\* _write_engine_deliverable.  No file for an empty result or without a data
\* volume; a failed write is logged.
Write ==
    /\ node = "writing"
    /\ node' = "committing"
    /\ \/ /\ final = "completed" /\ FileOutput
          /\ file' = TRUE /\ meta' = TRUE
       \/ UNCHANGED <<file, meta>>
    /\ UNCHANGED <<graph, hinted, budget, ghosts, costs, final, expired, row, deliverable>>

\* One session: runs.finish and the DeliverableRow.  If its commit fails,
\* neither is written and the error leaves run().
Commit ==
    /\ node = "committing"
    /\ \/ /\ node' = "ended"
          /\ row' = final
          /\ deliverable' = meta
       \/ /\ node' = "raised"
          /\ UNCHANGED <<row, deliverable>>
    /\ UNCHANGED <<graph, hinted, budget, ghosts, costs, final, expired, file,
                   meta>>

-----------------------------------------------------------------------------
\* The process dies.
Crash ==
    /\ node \notin {"ended", "raised", "crashed"}
    /\ node' = "crashed"
    /\ UNCHANGED <<graph, hinted, budget, ghosts, costs, final, expired, row, output>>

-----------------------------------------------------------------------------
Loop ==
    \/ Prepare \/ Invoke \/ Guardrail \/ Classify \/ Deny \/ Dispatch \/ Record \/ Raise
    \/ \E n \in CallTokens, kind \in {"final", "tool"} : Answer(n, kind)
    \/ \E error \in BOOLEAN : ToolReturns(error)

Finalize == Settle \/ Reflect \/ Write \/ Commit

Next == Loop \/ Timeout \/ Finalize \/ Expire \/ Crash

\* Nothing is assumed of the model or of the tools: wait_for's timer ends a
\* loop that hangs, and the reflection call, which nothing times when the
\* provider is ollama, need not return.  The rest of the finalization runs.
Fairness == WF_vars(Timeout) /\ WF_vars(Settle \/ Write \/ Commit)

Spec == Init /\ [][Next]_vars /\ Fairness

-----------------------------------------------------------------------------
TypeOK ==
    /\ node \in Nodes
    /\ graph \in [messages : Seq(Roles), response : {"none", "final", "tool"}]
    /\ hinted \in BOOLEAN
    /\ iterations \in Nat /\ model_calls \in Nat /\ tool_calls \in Nat
    /\ tokens_used \in Nat
    /\ called \in Nat /\ dispatched \in Nat /\ largest \in Nat
    /\ call \in Nat /\ events \in Nat /\ missed \in Nat
    /\ spent \in Nat /\ tracked \in Nat /\ billed \in Nat /\ lost \in BOOLEAN
    /\ final \in {"none", "completed", "failed"}
    /\ expired \in BOOLEAN
    /\ row \in {"running", "completed", "failed"}
    /\ file \in BOOLEAN /\ meta \in BOOLEAN /\ deliverable \in BOOLEAN

\* However the run goes, the model is called and tools are started no more
\* often than the budgets allow: every path from a tick to the action it
\* guards goes through the comparison.
CallsWithinBudget ==
    /\ called <= MaxIterations /\ called <= MaxModelCalls
    /\ dispatched <= MaxToolCalls

\* tick_tokens learns of a call after it was made, so the cap is overshot by
\* less than one call, and no call follows the one that overshot it.
TokensOvershootByOneCall ==
    TokenCap # 0 =>
        /\ tokens_used <= TokenCap + largest
        /\ node \in LoopNodes => tokens_used <= TokenCap

\* If record_usage succeeded, what the provider charged a closed run and the
\* run was not billed is at most one call that was cut off, and, once any
\* ModelCallEventRow was written, the answers whose own row was not: the
\* tracker still holds them but record_usage no longer asks it.  The
\* reflection call, which is never tracked, is outside spent.
ShortfallIsAccounted ==
    (row # "running" /\ ~lost) =>
        \E n \in CallTokens \cup {0} :
            spent = billed + n + (IF events = 0 THEN 0 ELSE missed)

\* A DeliverableRow is backed by its file and by a completed run: the file is
\* written first, and the row commits with the run's end.
DeliverableIsBacked ==
    deliverable => file /\ row = "completed"

\* A run closes its row unless the process dies, the final commit fails or the
\* reflection call never returns, whatever the model and the tools do in the
\* loop.
RunCloses ==
    node = "prepare" ~> \/ row # "running" \/ node \in {"raised", "crashed"}
                        \/ [](node = "reflecting")

-----------------------------------------------------------------------------
(* The inductive invariant behind the theorems of EngineRun_proofs.        *)

\* invoke overwrites messages[0], so there is one; a run that left the loop
\* has a final state.
Prompted == node = "invoke" => Len(graph.messages) > 0

Concluded == node \notin LoopNodes \cup {"crashed"} => final # "none"

\* A call follows a tick that passed, so the counters bound the calls.
Ticked ==
    /\ called <= iterations /\ called <= model_calls
    /\ dispatched <= tool_calls

\* The answer being recorded is one of those largest is about.
Measured == call <= largest

\* In the loop every token charged is on the tracker; a call cut off ends the
\* loop.  The tracker is what was written, missed or is being written.
Ledger ==
    /\ tracked = events + missed + call
    /\ node # "recording" /\ node # "crashed" => call = 0
    /\ node \in LoopNodes => spent = tracked
    /\ \E n \in CallTokens \cup {0} : spent = tracked + n

\* Once settled, the bill stands: nothing is tracked after the loop.
Settled ==
    (node \in {"reflecting", "writing", "committing", "ended", "raised"} /\ ~lost)
        => billed = Usage

\* What the end of the run writes, and when.
Closing ==
    /\ row # "running" => node = "ended"
    /\ meta => /\ node \in {"committing", "ended", "raised", "crashed"}
               /\ file /\ final = "completed"
    /\ deliverable => node = "ended"

IInv == /\ TypeOK /\ Prompted /\ Concluded
        /\ Ticked /\ CallsWithinBudget
        /\ Measured /\ TokensOvershootByOneCall
        /\ Ledger /\ Settled
        /\ Closing /\ DeliverableIsBacked

=============================================================================
