--------------------------- MODULE TaskLifecycle ----------------------------
(***************************************************************************)
(* One fire of a task, from execute_task_by_name to the dispatch of its    *)
(* successor, interleaved at every await with other fires, with the        *)
(* operator's endpoints, with the scheduler and with a process crash.      *)
(*                                                                         *)
(* The persistent state is the TaskRow.state column and the TaskRunRow     *)
(* rows; both survive a crash.  A fire is a coroutine: its program counter *)
(* and locals do not.  An endpoint that checks a row and then writes it is *)
(* two steps (the SELECT and the COMMIT are separate awaits); one that     *)
(* writes unconditionally is one step.                                     *)
(*                                                                         *)
(* lifecycle.py uses TaskRunRow without importing it, so at this commit    *)
(* every run_once raises NameError once it has set the result; nothing     *)
(* after that point runs.  RunRowImported = FALSE is that code; TRUE is the *)
(* same code with the import, for what the unreached part would do.        *)
(***************************************************************************)
EXTENDS Naturals, Sequences, FiniteSets

CONSTANTS
    Tasks,          \* registered task names
    NoTask,         \* the empty on_success / on_failure
    OnSuccess,      \* task.spec.on_success, per task
    OnFailure,      \* task.spec.on_failure, per task
    NeedsApproval,  \* tasks with spec.approval.required
    ChainDepthCap,  \* CHAIN_DEPTH_CAP
    DlqThreshold,   \* the literal 3 of _update_consecutive_failures
    RunRowImported, \* lifecycle.py imports the TaskRunRow its code names
    Clients,        \* concurrent HTTP requests
    RequestKinds,   \* the endpoints exercised
    MaxFires,       \* bound: fires in a behaviour
    MaxCrashes      \* bound: process crashes in a behaviour

ASSUME ConstantsOK ==
    /\ NoTask \notin Tasks
    /\ OnSuccess \in [Tasks -> Tasks \cup {NoTask}]
    /\ OnFailure \in [Tasks -> Tasks \cup {NoTask}]
    /\ NeedsApproval \subseteq Tasks
    /\ ChainDepthCap \in Nat \ {0}
    /\ DlqThreshold \in Nat \ {0}
    /\ RunRowImported \in BOOLEAN
    /\ RequestKinds \subseteq {"trigger", "webhook", "ack", "update",
                               "pause", "stop", "approve", "freeze", "cancel"}
    /\ MaxFires \in Nat
    /\ MaxCrashes \in Nat

VARIABLES
    up,         \* the process is running
    crashes,    \* crashes so far
    frozen,     \* GlobalPosture.frozen
    taskState,  \* TaskRow.state
    job,        \* what each fire was started with
    nextFire,   \* next unused fire identifier
    alive,      \* the fires whose coroutine exists
    pc,         \* where the coroutine of each fire is
    seen,       \* the latest row and its counter, as a fire read them
    runState,   \* TaskRunRow.state of the row each fire created
    result,     \* what finish() closed that row with: run_once's result.state
    failures,   \* TaskRunRow.consecutive_failures of that row
    latest,     \* per task, the fire whose row has the greatest started_at
    req         \* the request each client has in flight

system == <<up, crashes, frozen>>
fires  == <<job, nextFire, alive>>
rows   == <<runState, result, failures, latest>>
vars   == <<system, taskState, fires, pc, seen, rows, req>>

Fires == 1..MaxFires

TaskStates == {"created", "scheduled", "running", "paused", "sleeping",
               "completed", "failed", "stopped", "dlq"}

\* The states trigger_now and fire_webhook put back to "scheduled".
Resettable == {"completed", "failed", "stopped", "sleeping"}

Outcomes == {"completed", "failed"}

FinalPcs == {"dropped", "held", "raised", "unbound", "done"}

Pcs == {"unused", "start", "marked", "looping", "closed", "resulted",
        "counting", "counted"} \cup FinalPcs

Job == [task : Tasks, src : {"tick", "request", "chain"}, chain : Seq(Tasks),
        root : Nat, parent : Nat]

NoJob == [task |-> NoTask, src |-> "none", chain |-> <<>>, root |-> 0, parent |-> 0]

Nothing == [lrow |-> 0, cf |-> 0]

Requests == [kind : {"trigger", "webhook", "ack", "update", "cancel"}, task : Tasks,
             seen : TaskStates, lrow : Fires \cup {0}]

NoReq == [kind |-> "idle", task |-> NoTask, seen |-> "created", lrow |-> 0]

TaskOf(f) == job[f].task

\* The coroutine of f has steps left to take.
Live(f) == f \in alive /\ pc[f] \notin FinalPcs

\* f got past the chain guard of execute_task_by_name.
Admitted(f) == pc[f] \notin {"unused", "start", "dropped"}

InChain(t, chain) == \E i \in 1..Len(chain) : chain[i] = t

\* The coroutine of f moves between two awaits.
Move(f, from, to) ==
    /\ f \in alive
    /\ pc[f] = from
    /\ pc' = [pc EXCEPT ![f] = to]

Init ==
    /\ up = TRUE
    /\ crashes = 0
    /\ frozen = FALSE
    /\ taskState = [t \in Tasks |-> "created"]
    /\ job = [f \in Fires |-> NoJob]
    /\ nextFire = 1
    /\ alive = {}
    /\ pc = [f \in Fires |-> "unused"]
    /\ seen = [f \in Fires |-> Nothing]
    /\ runState = [f \in Fires |-> "none"]
    /\ result = [f \in Fires |-> "none"]
    /\ failures = [f \in Fires |-> 0]
    /\ latest = [t \in Tasks |-> 0]
    /\ req = [c \in Clients |-> NoReq]

-----------------------------------------------------------------------------
(* Fires start: asyncio.create_task(execute_task_by_name(...)).            *)

Spawn(j) ==
    /\ job' = [job EXCEPT ![nextFire] = j]
    /\ alive' = alive \cup {nextFire}
    /\ nextFire' = nextFire + 1

\* A fire from outside: an empty triggered_by_chain, a lineage of its own.
SpawnExternal(t, src) ==
    /\ nextFire \in Fires
    /\ Spawn([task |-> t, src |-> src, chain |-> <<>>, root |-> nextFire,
              parent |-> 0])
    /\ pc' = [pc EXCEPT ![nextFire] = "start"]

\* A cron or interval tick.  APScheduler runs a job with max_instances = 1,
\* and job_runner awaits the whole run.
Tick(t) ==
    /\ up
    /\ ~ \E f \in Fires : Live(f) /\ TaskOf(f) = t /\ job[f].src = "tick"
    /\ SpawnExternal(t, "tick")
    /\ UNCHANGED <<system, taskState, seen, rows, req>>

-----------------------------------------------------------------------------
(* execute_task_by_name and Lifecycle.run_once.                            *)

\* Chain guards, then the task row and YAML, then the run window.  The last
\* two are inputs: a missing or unreadable YAML and a closed window end the
\* fire with nothing written.
Drop(f) ==
    /\ Move(f, "start", "dropped")
    /\ UNCHANGED <<system, taskState, fires, seen, rows, req>>

ChainAllows(f) ==
    /\ Len(job[f].chain) < ChainDepthCap
    /\ ~InChain(TaskOf(f), job[f].chain)

\* The guards pass and run_once marks the task before it calls the engine.
Admit(f) ==
    /\ ChainAllows(f)
    /\ TaskOf(f) \notin NeedsApproval
    /\ Move(f, "start", "marked")
    /\ taskState' = [taskState EXCEPT ![TaskOf(f)] = "running"]
    /\ UNCHANGED <<system, fires, seen, rows, req>>

\* The approval gate: the task is paused and run_once raises.
Hold(f) ==
    /\ ChainAllows(f)
    /\ TaskOf(f) \in NeedsApproval
    /\ Move(f, "start", "held")
    /\ taskState' = [taskState EXCEPT ![TaskOf(f)] = "paused"]
    /\ UNCHANGED <<system, fires, seen, rows, req>>

\* engine.run() raises: _preflight, when the posture is frozen or a hard-stop
\* budget is spent (an input here), or the session that closes the row.  It
\* leaves run_once too, and the executor logs it.
EngineRaises(f) ==
    /\ Move(f, "marked", "raised") \/ Move(f, "looping", "raised")
    /\ UNCHANGED <<system, taskState, fires, seen, rows, req>>

OpenRow(f) ==
    /\ ~frozen
    /\ Move(f, "marked", "looping")
    /\ runState' = [runState EXCEPT ![f] = "running"]
    /\ latest' = [latest EXCEPT ![TaskOf(f)] = f]
    /\ UNCHANGED <<system, taskState, fires, seen, result, failures, req>>

\* The graph ended, timed out or raised; TaskRunRepository.finish, whatever
\* the row says by then.
CloseRow(f, outcome) ==
    /\ Move(f, "looping", "closed")
    /\ runState' = [runState EXCEPT ![f] = outcome]
    /\ result' = [result EXCEPT ![f] = outcome]
    /\ UNCHANGED <<system, taskState, fires, seen, failures, latest, req>>

\* Mutant: the task is marked completed because engine.run() returned.
SetResult_Returned(f) ==
    /\ Move(f, "closed", "resulted")
    /\ taskState' = [taskState EXCEPT ![TaskOf(f)] = "completed"]
    /\ UNCHANGED <<system, fires, seen, rows, req>>

SetResult(f) ==
    /\ Move(f, "closed", "resulted")
    /\ taskState' = [taskState EXCEPT ![TaskOf(f)] = result[f]]
    /\ UNCHANGED <<system, fires, seen, rows, req>>

\* A step after the result raises out of run_once: always the first use of
\* TaskRunRow, for the trigger metadata or the counter; with the import in
\* place, only a session of those two that fails.
ResultOnly(f) ==
    /\ Move(f, "resulted", "unbound")
    /\ UNCHANGED <<system, taskState, fires, seen, rows, req>>

\* _update_consecutive_failures selects the latest row of the task (not
\* necessarily this fire's) ...
CountRead(f) ==
    /\ RunRowImported
    /\ Move(f, "resulted", "counting")
    /\ LET l == latest[TaskOf(f)]
       IN seen' = [seen EXCEPT ![f] = [lrow |-> l, cf |-> failures[l]]]
    /\ UNCHANGED <<system, taskState, fires, rows, req>>

\* Mutant: a success does not reset the counter.
NewCount_NoReset(f) == seen[f].cf + 1

NewCount(f) == IF result[f] = "completed" THEN 0 ELSE seen[f].cf + 1

\* Mutant: the DLQ notification, sent inside the session, waits for its lock.
CountCommit_NotifyWaits(f) ==
    /\ NewCount(f) < DlqThreshold
    /\ Move(f, "counting", "counted")
    /\ failures' = [failures EXCEPT ![seen[f].lrow] = NewCount(f)]
    /\ seen' = [seen EXCEPT ![f] = Nothing]
    /\ UNCHANGED <<system, taskState, fires, runState, result, latest, req>>

\* ... and commits the counter it computed from what it read.
CountCommit(f) ==
    /\ Move(f, "counting", "counted")
    /\ failures' = IF NewCount(f) = seen[f].cf THEN failures
                   ELSE [failures EXCEPT ![seen[f].lrow] = NewCount(f)]
    /\ taskState' = IF NewCount(f) >= DlqThreshold
                    THEN [taskState EXCEPT ![TaskOf(f)] = "dlq"]
                    ELSE taskState
    /\ seen' = [seen EXCEPT ![f] = Nothing]
    /\ UNCHANGED <<system, fires, runState, result, latest, req>>

Successor(f) == IF result[f] = "completed"
                THEN OnSuccess[TaskOf(f)] ELSE OnFailure[TaskOf(f)]

\* Mutant: the successor is told of its parent only.
ChainJob_ParentOnly(f) ==
    [task |-> Successor(f), src |-> "chain", chain |-> <<TaskOf(f)>>,
     root |-> job[f].root, parent |-> f]

\* The lineage handed on is the one run_once was given, this task included.
ChainJob(f) ==
    [task |-> Successor(f), src |-> "chain",
     chain |-> Append(job[f].chain, TaskOf(f)), root |-> job[f].root, parent |-> f]

\* No successor (or the bound MaxFires is reached): run_once returns.
Return(f) ==
    /\ Move(f, "counted", "done")
    /\ Successor(f) = NoTask \/ nextFire \notin Fires
    /\ UNCHANGED <<system, taskState, fires, seen, rows, req>>

\* Mutant: the successor is dispatched while the run is still open.
Dispatch_BeforeClose(f) ==
    /\ f \in alive
    /\ pc[f] = "looping"
    /\ Successor(f) # NoTask
    /\ nextFire \in Fires
    /\ Spawn(ChainJob(f))
    /\ pc' = [pc EXCEPT ![f] = "done", ![nextFire] = "start"]
    /\ UNCHANGED <<system, taskState, seen, rows, req>>

\* asyncio.create_task for the successor, then run_once returns.
Dispatch(f) ==
    /\ f \in alive
    /\ pc[f] = "counted"
    /\ Successor(f) # NoTask
    /\ nextFire \in Fires
    /\ Spawn(ChainJob(f))
    /\ pc' = [pc EXCEPT ![f] = "done", ![nextFire] = "start"]
    /\ UNCHANGED <<system, taskState, seen, rows, req>>

-----------------------------------------------------------------------------
(* The operator's endpoints, the webhook and the Telegram bot.             *)

Accepts(kind, t) ==
    \/ kind = "trigger" /\ taskState[t] \notin {"running", "dlq"}
    \/ kind = "ack"     /\ taskState[t] = "dlq"
    \/ kind = "update"  /\ taskState[t] # "running"
    \/ kind = "webhook"

\* The SELECT of an endpoint that checks before it writes; a refusal answers
\* 404 or 409 and leaves no trace.
Read(c, kind, t) ==
    /\ up
    /\ req[c] = NoReq
    /\ Accepts(kind, t)
    /\ LET l == latest[t]
           counted == kind = "ack" /\ l # 0 /\ failures[l] # 0
       IN req' = [req EXCEPT ![c] = [kind |-> kind, task |-> t,
                                     seen |-> taskState[t],
                                     lrow |-> IF counted THEN l ELSE 0]]
    /\ UNCHANGED <<system, taskState, fires, pc, seen, rows>>

\* trigger_now and fire_webhook: reset a passive state, commit, fire.
CommitFire(c) ==
    /\ up
    /\ req[c].kind \in {"trigger", "webhook"}
    /\ taskState' = IF req[c].seen \in Resettable
                    THEN [taskState EXCEPT ![req[c].task] = "scheduled"]
                    ELSE taskState
    /\ SpawnExternal(req[c].task, "request")
    /\ req' = [req EXCEPT ![c] = NoReq]
    /\ UNCHANGED <<system, seen, rows>>

CommitAck(c) ==
    /\ up
    /\ req[c].kind = "ack"
    /\ taskState' = [taskState EXCEPT ![req[c].task] = "scheduled"]
    /\ failures' = IF req[c].lrow = 0 THEN failures
                   ELSE [failures EXCEPT ![req[c].lrow] = 0]
    /\ req' = [req EXCEPT ![c] = NoReq]
    /\ UNCHANGED <<system, fires, pc, seen, runState, result, latest>>

\* update_task rewrites the YAML, then upserts the state it read at the start.
CommitUpdate(c) ==
    /\ up
    /\ req[c].kind = "update"
    /\ taskState' = [taskState EXCEPT ![req[c].task] = req[c].seen]
    /\ req' = [req EXCEPT ![c] = NoReq]
    /\ UNCHANGED <<system, fires, pc, seen, rows>>

\* pause_task, stop_task and approve_task write whatever the state was.
Overwrite(kind, t, state) ==
    /\ up
    /\ kind \in RequestKinds
    /\ taskState' = [taskState EXCEPT ![t] = state]
    /\ UNCHANGED <<system, fires, pc, seen, rows, req>>

Pause(t)   == Overwrite("pause", t, "paused")
Stop(t)    == Overwrite("stop", t, "stopped")
Approve(t) == Overwrite("approve", t, "scheduled")

\* Telegram's /cancel: _cancel_run reads the row of a run that has not ended ...
CancelRead(c, f) ==
    /\ up
    /\ "cancel" \in RequestKinds
    /\ req[c] = NoReq
    /\ runState[f] = "running"
    /\ req' = [req EXCEPT ![c] = [kind |-> "cancel", task |-> TaskOf(f),
                                  seen |-> "running", lrow |-> f]]
    /\ UNCHANGED <<system, taskState, fires, pc, seen, rows>>

\* ... and commits "stopped" over whatever the row has become.
CommitCancel(c) ==
    /\ up
    /\ req[c].kind = "cancel"
    /\ runState' = [runState EXCEPT ![req[c].lrow] = "stopped"]
    /\ req' = [req EXCEPT ![c] = NoReq]
    /\ UNCHANGED <<system, taskState, fires, pc, seen, result, failures, latest>>

SetFrozen(b) ==
    /\ up
    /\ "freeze" \in RequestKinds
    /\ frozen' = b
    /\ UNCHANGED <<up, crashes, taskState, fires, pc, seen, rows, req>>

-----------------------------------------------------------------------------
(* Process crash and restart.  The start-up of the web app reconciles chat *)
(* turns and restarts event sources; it writes no TaskRow or TaskRunRow.   *)

Crash ==
    /\ up
    /\ crashes < MaxCrashes
    /\ up' = FALSE
    /\ crashes' = crashes + 1
    /\ alive' = {}
    /\ req' = [c \in Clients |-> NoReq]
    /\ UNCHANGED <<frozen, taskState, job, nextFire, pc, seen, rows>>

Restart ==
    /\ ~up
    /\ up' = TRUE
    /\ UNCHANGED <<crashes, frozen, taskState, fires, pc, seen, rows, req>>

-----------------------------------------------------------------------------
Step(f) ==
    \/ Drop(f) \/ Admit(f) \/ Hold(f) \/ EngineRaises(f) \/ OpenRow(f)
    \/ \E o \in Outcomes : CloseRow(f, o)
    \/ SetResult(f) \/ ResultOnly(f) \/ CountRead(f) \/ CountCommit(f)
    \/ Return(f) \/ Dispatch(f)

Endpoint ==
    \/ \E c \in Clients, k \in RequestKinds, t \in Tasks : Read(c, k, t)
    \/ \E c \in Clients : CommitFire(c) \/ CommitAck(c) \/ CommitUpdate(c)
    \/ \E c \in Clients, f \in Fires : CancelRead(c, f)
    \/ \E c \in Clients : CommitCancel(c)
    \/ \E t \in Tasks : Pause(t) \/ Stop(t) \/ Approve(t)
    \/ \E b \in BOOLEAN : SetFrozen(b)

Next ==
    \/ \E f \in Fires : Step(f)
    \/ \E t \in Tasks : Tick(t)
    \/ Endpoint
    \/ Crash
    \/ Restart

\* asyncio runs every ready coroutine, so a started fire keeps moving, but
\* engine.run() need not return: its loop is under wait_for, the reflection
\* call after it is not.  A supervisor restarts the process.
Fairness ==
    /\ \A f \in Fires : WF_vars(pc[f] # "looping" /\ Step(f))
    /\ WF_vars(Restart)

Spec == Init /\ [][Next]_vars /\ Fairness

-----------------------------------------------------------------------------
TypeOK ==
    /\ up \in BOOLEAN
    /\ crashes \in 0..MaxCrashes
    /\ frozen \in BOOLEAN
    /\ taskState \in [Tasks -> TaskStates]
    /\ job \in [Fires -> Job \cup {NoJob}]
    /\ nextFire \in 1..(MaxFires + 1)
    /\ alive \subseteq Fires
    /\ pc \in [Fires -> Pcs]
    /\ seen \in [Fires -> [lrow : Fires \cup {0}, cf : Nat]]
    /\ runState \in [Fires -> {"none", "running", "stopped"} \cup Outcomes]
    /\ result \in [Fires -> {"none"} \cup Outcomes]
    /\ failures \in [Fires -> Nat]
    /\ latest \in [Tasks -> Fires \cup {0}]
    /\ req \in [Clients -> Requests \cup {NoReq}]

\* Whatever fires, endpoints and crashes interleave, a lineage of chained
\* fires admits no task twice and stays within CHAIN_DEPTH_CAP: the guards of
\* execute_task_by_name on the chain that run_once extends and hands on.
LineageOf(r) == {f \in Fires : job[f].root = r /\ Admitted(f)}

Ran == [r \in Fires |-> {TaskOf(f) : f \in LineageOf(r)}]

Lineage == INSTANCE ChainLineage WITH Roots <- Fires, Cap <- ChainDepthCap,
                                      ran <- Ran

ChainsFollowLineage == Lineage!Spec

\* The runs of t whose failure _update_consecutive_failures has recorded.
FailuresCounted(t) ==
    {f \in Fires : /\ TaskOf(f) = t
                   /\ result[f] = "failed"
                   /\ pc[f] \in {"counted", "done"}}

\* A task is dead-lettered only by runs of its own that failed, at least
\* DlqThreshold of them: reading the latest row and committing the counter in
\* two steps may lose an increment but never invents one.
DlqIsEarned ==
    \A t \in Tasks : taskState[t] = "dlq" =>
        Cardinality(FailuresCounted(t)) >= DlqThreshold

\* The row of f holds the outcome it was closed with, unless a /cancel that had
\* read it before has written over it.
Holds(f) == runState[f] \in {result[f], "stopped"}

\* A chained fire starts only after its parent's run row is closed, and is the
\* successor that outcome calls for: run_once dispatches after engine.run()
\* has committed, from the same result.
SuccessorFollowsClosedRun ==
    \A f \in Fires : job[f].parent # 0 =>
        LET p == job[f].parent
        IN result[p] \in Outcomes /\ Holds(p) /\ TaskOf(f) = Successor(p)

\* "completed" and "failed" in the task list are never ahead of the run log:
\* some run of the task closed with that outcome before, and its row says so
\* unless a /cancel overwrote it.  set_state(result) comes after runs.finish,
\* and a crash or an edit in between loses the outcome rather than reporting
\* one that did not happen.
OutcomesAreRecorded ==
    \A t \in Tasks : taskState[t] \in Outcomes =>
        \E f \in Fires : TaskOf(f) = t /\ result[f] = taskState[t] /\ Holds(f)

\* Every fire ends: it is dropped, held, done, or raised, or the process died
\* under it.  No interleaving leaves a coroutine of run_once waiting, but for
\* an engine.run() that never returns.
EveryFireEnds ==
    \A f \in Fires : pc[f] = "start" ~> (~Live(f) \/ [](pc[f] = "looping"))

-----------------------------------------------------------------------------
(* The inductive invariant behind the theorems of TaskLifecycle_proofs.    *)

ClosedPcs == {"closed", "resulted", "unbound", "counting", "counted", "done"}

\* Identifiers from nextFire on are untouched; the others belong to a task, and
\* a /cancel has read the row of one of those.
Allocated ==
    /\ \A f \in Fires : f >= nextFire =>
          /\ pc[f] = "unused" /\ job[f] = NoJob /\ f \notin alive
          /\ runState[f] = "none" /\ result[f] = "none" /\ failures[f] = 0
    /\ \A f \in Fires : f < nextFire =>
          /\ pc[f] # "unused" /\ job[f] \in Job /\ job[f].root \in 1..f
    /\ \A c \in Clients : req[c].kind = "cancel" => req[c].lrow \in 1 .. nextFire - 1

\* A task's latest row is a row of that task, and is there once one of its
\* fires has opened one; a closed fire has an outcome.
RowsOwned ==
    /\ \A t \in Tasks : latest[t] # 0 => TaskOf(latest[t]) = t
    /\ \A f \in Fires : pc[f] \in ClosedPcs \cup {"looping"} => latest[TaskOf(f)] # 0
    /\ \A f \in Fires : pc[f] \in ClosedPcs <=> result[f] \in Outcomes
    /\ \A f \in Fires : pc[f] \in ClosedPcs => Holds(f)
    /\ \A f \in Fires : pc[f] = "counting" =>
          seen[f].lrow # 0 /\ TaskOf(seen[f].lrow) = TaskOf(f)

\* No counter, read or stored, exceeds the failures recorded for its task.
Earned(n, t) == n <= Cardinality(FailuresCounted(t))

CountersEarned ==
    /\ \A f \in Fires : Earned(failures[f], TaskOf(f))
    /\ \A f \in Fires : pc[f] = "counting" => Earned(seen[f].cf, TaskOf(f))
    /\ \A c \in Clients : req[c].seen = "dlq" => Earned(DlqThreshold, req[c].task)

\* Of two fires of one lineage the earlier is done and in the chain of the
\* later; a chained fire's parent is done and called for it.
LineagesLinear ==
    /\ \A f, g \in Fires : (f < g /\ g < nextFire /\ job[f].root = job[g].root)
          => pc[f] = "done" /\ InChain(TaskOf(f), job[g].chain)
    /\ \A f \in Fires : job[f].parent # 0 =>
          LET p == job[f].parent
          IN p \in Fires /\ pc[p] = "done" /\ TaskOf(f) = Successor(p)

\* An outcome a task or an edit in flight shows is the outcome of a run.
OutcomesSeen ==
    \A c \in Clients : req[c].seen \in Outcomes =>
        \E f \in Fires : TaskOf(f) = req[c].task /\ result[f] = req[c].seen

IInv == /\ TypeOK /\ Allocated /\ RowsOwned
        /\ CountersEarned /\ DlqIsEarned
        /\ LineagesLinear
        /\ OutcomesSeen /\ OutcomesAreRecorded

=============================================================================
