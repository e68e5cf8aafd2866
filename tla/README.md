# EmberSpark in TLA+

EmberSpark runs LLM agents as scheduled tasks. This directory holds TLA+ models
of its server, the TLC configurations that check them on small instances, and
TLAPS proofs of central theorems for all values of the constants. Paths below
are relative to `src/`; the Python package is `src/spark/`.

| Module | Models | Checked by | Proved in |
|---|---|---|---|
| `ChainLineage` | what chains promise: bounded lineages without repetition | refined by `TaskLifecycle` | |
| `TaskLifecycle` | fires, run rows, failure counter, endpoints, crash | `lifecycle_chains`, `lifecycle_operators` | `TaskLifecycle_proofs` |
| `EngineRun` | one run of the engine: graph, budgets, timeout, billing, files | `engine_bounds` | `EngineRun_proofs` |
| `ChatTurns` | chat sockets, background turns, broker, session deletion | `chat_tabs` | `ChatTurns_proofs` |
| `ToolCalls` | a tool call through gate, sandbox child, plugin and service | `tool_plugins` | `ToolCalls_proofs` |
| `MemoryLifecycle` | rows and vectors of long-term memory and the jobs that write them | `memory_store` | `MemoryLifecycle_proofs` |
| `SecretsVault` | the age vault: its files and the processes that hold it in memory | through `VaultClients` | `VaultClients_proofs` |
| `VaultClients` | forensic captures and the cloud-drive token in that vault | `vault_server` | `VaultClients_proofs` |
| `Registry` | YAML, row and job of a task; a webhook trigger and its credential | `registry_edits` | `Registry_proofs` |
| `EventSources` | Telegram bot, row poller, file watcher | `event_sources` | `ToolCalls_proofs` |
| `Redaction` | fusing, gating and cutting out detector hits (pure) | through `Guardrails` | `EngineRun_proofs` |
| `Guardrails` | policy rows, grants, toggles, and the checks made against them | `guard_policy` | `EngineRun_proofs` |
| `Ledger` | prices, call rows, enrichment, cost events, budgets of several runs | `ledger_budgets` | `ChatTurns_proofs` |
| `Alerts` | notifications, their watchers and the edits that raise incidents | `alerts_bell` | `Alerts_proofs` |

Each checked module `M` has an `MCM.tla` with the values of its constants and a
`.cfg` per run. `PROJECT.json` relates every definition to the lines it models,
and lists runs, mutants, hazards and theorems.

## 1. Inventory

**Task lifecycle** (`scheduler/executor.py`, `runtime/lifecycle.py`,
`scheduler/scheduler.py`, `persistence/repositories.py`).
State: `TaskRow.state`, `TaskRunRow` (state, `consecutive_failures`), and one
coroutine per fire. Operations: fire (tick, request or chain), chain guard,
approval gate, run, set the result, count failures, dead-letter, dispatch the
successor. The rows survive a crash, the coroutines do not. Hard: nothing
serialises two fires of one task; every `session_scope` is an await point; the
steps after the engine may fail one by one; Telegram's `/cancel` writes a run's row
it read some awaits ago; the successor is a detached task.
Correct when: an outcome shown is one that happened, a task is dead-lettered
only for failures of its own, chains end, a successor follows its parent.

**Scheduler API** (`web/api/scheduler.py`). Trigger, webhook fire, pause, stop,
approve, ack-DLQ and update write `TaskRow.state` beside the runs; create and
update keep YAML, row and job of a task, creation and deletion of a trigger its
row and its secret, in separate steps. Correct when these agree at rest, a deleted
trigger stays closed and the rate limit holds.

**Event sources** (`scheduler/events/`). Three detached loops with their memory
in the process: `last_update_id`, the seen set, the queue of changes. Hard:
restarts, repeated updates, handlers that wait. Correct when nothing is taken
twice in a life of the server and nothing visible is left for ever.

**Runtime engine** (`runtime/engine.py`). A LangGraph loop invoke → guardrail →
classify → (run_tool →) invoke, under `asyncio.wait_for`; then reflection,
the deliverable file, and a transaction that closes the run. State: graph state
(replaced by what each node returns), `BudgetGuard`, `CostTracker`,
`model_call_events`, `TaskRunRow`, `DeliverableRow`, the file. Hard: a timeout
may cancel the loop between an answer and its bookkeeping; persistence errors
are swallowed in one place and fatal in another. Correct when budgets bound the
work, the bill accounts for the answers, files and rows agree and a run closes
unless its reflection hangs.

**Tool runtime, sandbox, plugins** (`plugins/`, `sandbox/`). The server checks
allowlist, permissions and budget, loads the operator's configuration, starts a
child and waits under a timeout; the plugin in the child acts on the outside in
one or more parts. Hard: a part may have been done although its answer is lost;
a cancelled await leaves the child running, and a killed child what it started;
the configuration is edited after it was loaded. Correct when answers claim no more than was done, nothing
happens after an answer but what was started before it, and changes are those the operator allows.

**Cost tracking** (`cost/`). Per-run tracker, per-call rows, prices by bucket,
late enrichment of reported charges, one cost event per run, budgets checked in
the preflight. Hard: the provider charges for calls that end without an answer and
for those made after the bill. Correct when a spent hard stop refuses runs and a bill
lacks only calls of these kinds and those whose row was lost.

**Chat** (`web/api/chat.py`, `web/api/chat_broker.py`,
`memory/session_memory.py`). A WebSocket per tab, a detached task per turn, an
in-memory broker with a registry by session, `ChatTurnRow` and session history.
Hard: tabs race to begin a turn, drop, reconnect in mid-turn, delete the session
under a running turn; storage may fail at each step. Correct when a viewer sees
each chunk once, a completed turn has its answer, the newest turn can be found,
and a session is never blocked by a turn that ended.

**Long-term memory** (`memory/`). Rows of `long_term_memory_index` and vectors
in Chroma, written by promotion, consolidation, synthesis, consensus, global
sync, pruning and the review endpoints. Hard: check, vector and row are three
steps, the last of which may fail after the second; jobs work on rows they read
before awaiting a model. Correct when
quarantine holds through every job, a hidden memory is carried by a visible one,
and what retrieval may return is indexed.

**Secrets vault and forensic capture** (`secrets/`, `forensic/`). Two files, read
whole into each process and written whole; captures keep their key in the vault
and their rows in the database. Hard: crashes inside rotation, a CLI that rotates
the vault or creates a new one beside the server, wipes that fail half-way. Correct when the vault opens after a restart,
an acknowledged secret stays, and a wiped capture cannot be read.

**Data-class guardrails** (`privacy/`). Policy rows, grants and detector toggles
that operators edit; checks that read them in two SELECTs, resolve, redact and
report. Correct when the level applied was in force, edits take effect, and a
redacted text shows of a hit what its mask style keeps, and all else.

**Notifications** (`notifications/`, `errors/notify.py`). `notify()` with the
preferences row its first call creates, the grants watcher, the deliverables
watcher, incidents told from inside an edit's session. Correct when the operator
is told once of what lasts and at all of what is critical.

**How they interact.** A tick, a source, an endpoint or a finished parent spawns
a fire (`execute_task_by_name`), which awaits `run_once`, which awaits
`Engine.run`, which calls model and tools, each tool in a sandbox child. The
engine returns a `RunResult` and writes the run row; lifecycle writes the task
row from it. Endpoints share the rows with all fires, checks and watchers.
Everything in the server runs on one asyncio loop: code between two awaits is
atomic, and an action of the models is such a stretch, ending with its commit;
a `session_scope` commits or rolls back as one. Two modules that model the two
sides of an interface agree on it: `TaskLifecycle` takes a run as opening and
closing its row, which `EngineRun` details; `EngineRun` takes a tool call as one
that returns or not, which `ToolCalls` details; `EngineRun` has one run's calls
and bill, `Ledger` takes a run as its calls and adds the others, enrichment and
budgets. `VaultClients` and `Guardrails` are compositions by `EXTENDS`: their
actions call the operations of `SecretsVault` and `Redaction`.

### Not modelled

- Learning, skills and reflection (`learning/`, `skills/`): statistical choices
  and prompts, one row per update. The store of memories they write is in
  `MemoryLifecycle`; contradiction links, credit and penalty of citations and
  score decay (`memory/lifecycle.py:30-109`, `193-216`) only change scores, which
  are nondeterministic there.
- The log hash chain and its retention (`logging/`): an append-only file. The one
  ordering hazard, at `logging/retention.py:123`, is listed without a property.
- Providers, the persistence engine, configuration loading: the environment of
  the other modules.
- Web app, authentication, CLI, daemon, frontend: start-up is `Restart` or
  `StartUp` in the modules; the rest is presentation and packaging.
- `errors/remediation.py`: a table of texts, without state.

## 2. The modules

### TaskLifecycle

A fire is a coroutine with a program counter `pc[f]`; `alive` holds those whose
coroutine exists. `taskState`, `runState`, `failures` and `latest` are columns
of the database and survive `Crash`.

| Code | Actions |
|---|---|
| `executor.execute_task_by_name` | `Drop`, `Admit` (chain guard), `Dispatch` / `Return` |
| `lifecycle.run_once` | `Hold` (approval), `Admit` (state running), `EngineRaises`, `OpenRow`, `CloseRow`, `SetResult`, `ResultOnly` |
| `_update_consecutive_failures` | `CountRead`, `CountCommit` |
| `run_once`, lines 176-199: the chain dispatch | `Return` (no successor), `Dispatch` |
| cron/interval tick | `Tick` |
| `trigger_now`, `fire_webhook` | `Read`, `CommitFire` |
| `ack_dlq`, `update_task` | `Read`, `CommitAck` / `CommitUpdate` |
| `pause`, `stop`, `approve` | `Overwrite`, `Approve` |
| Telegram's `/cancel` (`_cancel_run`) | `CancelRead`, `CommitCancel` |
| freeze, unfreeze | `SetFrozen` |
| process | `Crash`, `Restart` |

`lifecycle.py` names `TaskRunRow` at lines 155 and 206 and imports it nowhere:
at this commit `run_once` raises `NameError` after it has set the task's result.
`RunRowImported = FALSE` is the code as it stands; `TRUE` is the same code with
the import, so that the counter, the dead-letter rule and the chains, which are
written and documented but unreachable, are still examined. A fire may end right
after its result in either case, so the runs, which have `TRUE`, cover the
behaviours of both; the theorems hold for both values.

`ChainLineage` is the abstract specification: sets of lineages that grow by a
task that is not yet in them, to at most `ChainDepthCap` tasks. The refinement
maps the detailed state to the lineages of the fires that were admitted.

`runState` is the column; `result` is the outcome the fire closed it with. They
differ once a `/cancel` that had read the running row writes `stopped` over it.

### EngineRun

One run from preflight to close. `pc` is the node of the graph, or the phase
after it. Each node is one or more actions as its awaits require: `Invoke`,
`Answer`, `Keep`/`Miss` (the per-call row, whose failure is only logged),
`Record`/`OverTokens`; `Guardrail`; `Classify`; `Deny`/`Dispatch`,
`ToolReturns`/`Report`. `Timeout` is `wait_for` cancelling whatever of these is
pending; `Raise` is any other exception; `Usage`/`Settle` bill; `Reflect`,
`Expire`, `Write` and `Commit` close. `Crash` may occur anywhere. Messages are
their roles, in order; what they say is left out. Tokens of a call are any
member of `CallTokens`. The graph is `StateGraph(dict)`, so the value a node
returns replaces the whole state: `Guardrail` and `Classify` keep only what
their Python returns.

### ChatTurns

One session, the tabs `Sockets`, turns `1..MaxTurns`. A socket goes through
`Connect`, `Resume`/`Subscribe`, `Send`, `Guard`, `Register`, `Started`,
`Forward`, `Leave`; a turn through `Launch`, `Chunk`, `Flush`, `Answer`,
`Store`, `Complete` or the error path `Apologise`, `RowFails`, `RowError`,
`Done`. `Discard` is the end of a broker. `CheckDelete` and `CommitDelete` are
the two halves of `delete_session`. `Restart` is a process crash with
start-up's reconciliation of turn rows, which may itself fail and is then only
logged. A failing write is an alternative action wherever the code awaits one.
The history keeps answers only; pruning to 500 entries, user and error texts,
citations, tool calls, titles and costs are left out.

### ToolCalls

A plugin is what it asks of the operator's configuration before it acts
(`needs`), how many separate changes a complete call makes (`parts`), and what it
does when one fails (`fails`); the definitions `ReadStates` .. `ForecastByKey` are
the built-in plugins' operations in these terms. `Load` is the gate and the
configuration, `Dispatch` validation, secrets and the child's start; `PartDone`,
`PartLost`, `PartFails`, `Respond`, `Refuse` and `ChildDies` are the child;
`Timeout` and `Cancel` end the server's wait, and only the first kills the child.
It kills that one process: what a plugin has started (`Spawns`: git, the shell, the
cloud drive's program) is gone with it where the child has a pid namespace, and else
may be left (`Left`, child `"orphan"`) to finish the part it is at (`OrphanEnds`).
`Namespaced` says which; in container mode and under seatbelt it is `FALSE`.
The operator saves, resets and outdates configurations and sets secrets
(`SavePluginConfig`, `ResetPluginConfig`, `ChangeSchema`, `SetSecret`). What is
sent, and to whom within an allowlist, is left out.

### MemoryLifecycle

Every writer is a draft that goes through `Begin` (its check, from a state that
may be stale), `Index` (the vector) and `Commit` or `CommitFails` (the row). The
checks are `PromoteCheck`, `ConsolidateRead`, `ConsensusRead`, `SynthesisRead` and
`GlobalRead`. `PruneSweep` deletes vectors before `PruneCommit` deletes rows.
Of the review endpoints, approval and deletion change the vector inside their session
(`ApproveIndex`, `DeleteVector`) and commit later or fail to (`DeskCommit`,
`DeskFails`); `ActivateOnly`, `Quarantine` and `Reclass` only write the row.
Similarity, scores and what the model merges are nondeterministic: a job may choose
any set of rows its thresholds allow, consolidation in any namespace. `texts` of a
row is its provenance, the texts it was made from; `hash` is what it is looked up by.
A merged text may be new, or have the hash of a member (`Answers`): the model may
repeat one, and an empty answer falls back to the first member's summary. New texts
are not told apart (`NoHash`) and not grouped by consensus.

### SecretsVault and VaultClients

An identity is a number, a vault file the identity it is encrypted to and its
secrets, so decryption is equality. `Unlock` reads both files; `Store` and
`Remove` change a process's copy and `Flush` it whole; a failed write
(`StoreFails`, `RemoveFails`) has changed the copy already. Rotation is
`RotateIdentity`, `RotateVault`, `RotateClean`, with `Exit`, the death of a
process, between any two. Creation is `FindNone` (start-up's `auto_init`, or
`init-age-vault` where a file is missing) or, with `--force`, `EraseVault` and
`EraseIdentity`; then `CreateIdentity` and `CreateVault`. `VaultClients` adds `StartKey`, `StartRow`,
`Record` of a `ForensicWriter`, `WipeKey` and `WipeRows` of a wipe, and a token
that is pasted, discarded, read by a probe and written back.

### Registry

A request is a step counter per client; it writes YAML, row, job and secret in
the order of the endpoint, any of which may fail. A number stands for the
content a request submits and for the credential it draws. `Verify`,
`CountFire` and `FireStops` are a webhook's delivery.

At this commit `add_job` always fails, since `job_runner` is a nested function,
which APScheduler's SQLAlchemy job store cannot pickle; `SparkScheduler.start`
raises and the server goes on without a scheduler (`web/app.py:238-249`). The
model has a failure that may occur or not, so it covers that and its repair.

### EventSources

`Poll` takes the updates after the offset and starts handlers for them; a
handler may reply, start a run, cancel one (a read and a later write). `Fetch` and
`Tell` are the row poller's pass and its fire; `FileChanges`, `Burst` and
`BurstEnds` the file watcher. `Dies` is a source whose task raised.

### Redaction and Guardrails

`Redaction` is pure: a text of n characters is `<<1, .., n>>`, so that what is
left of it can be told apart from what was cut; `Kinds` says which are digits,
letters or neither. `RenderMask` is the replacement and `Shown` what it keeps:
LAST_4 and FIRST_4 mask digits only when the hit has `Kept` of them (4 in the code),
and all but the outer characters when it has not; INITIAL keeps the initials. An edit reads its row in
`BeginEdit` and writes it in `CommitEdit`; a check reads the rows in `ReadRows` and
the grants in `Decide`, where it resolves, classifies and redacts. What
detectors report is the constant `Findings`, sequences of `Hits`: a hit has at
least one character of the text (`FindingsAreHits`). A stable sort by a key and a
filter are both said by counting: the k-th place is the one that k - 1 places come
before (`Places`). The cuts are a recursive function over their number. Both forms
can be proved about; the folds and filters of the library take an operator, which
the provers cannot instantiate. As in the code, a hit joins a cluster when it
overlaps the last hit of it, so that two fused hits of one class may still overlap.

### Ledger

A run is `Call`, the budget check (`ListAll`, then one `Check` per budget),
`Answered` with `Keep` or `Miss` per model call, `Sum`, `Close`. `Silent` is a call
that is charged and not accounted: it reports no usage, is cut off by `wait_for`,
or fails after the provider worked. `Afterwards` is a call made once the cost
event is written: a run's reflection, a chat's title. `Enrich` replaces
a computed price by the reported one at any later time. `Upsert` and `Delete`
are the operator's, `NewDay` the clock. A chat turn closes in the same way but is
not checked, and a turn whose loop raises is `Unbilled`. `Honest` is what it
takes for the price table to be right: a provider that charges by it, and whose
answers count cached tokens as part of the prompt's.

### Alerts

`notify()` is `LoadPrefs`, `MakePrefs` or not, `Insert`, each a session, for
each of the callers that may be in it: the two watchers, each edit and each
refused gate. `lock` is the edit whose session is open and has written: SQLite
has one writer, and the insert of another session waits for it and fails after
`busy_timeout`. The watcher's tick is three checks over the due grants.
A new file is queued for the deliverables watcher by `Write` and `RecordFile`; a
renamed one by `MoveFile`, under the name that is gone, as the observer does it.

## 3. Runs

| Run | Instance | Shows |
|---|---|---|
| `lifecycle_chains` | 3 tasks; cycle, self-cycle, approval; 3 fires, 1 crash | `SuccessorFollowsClosedRun`, `ChainsFollowLineage` (refinement), `EveryFireEnds` |
| `lifecycle_operators` | 1 task that fires itself, every endpoint and `/cancel`, 2 fires, 1 crash | `DlqIsEarned`, `OutcomesAreRecorded` |
| `engine_bounds` | 3 iterations, 3 model calls, 1 tool call, cap of 3 tokens, reflection and file | `CallsWithinBudget`, `TokensOvershootByOneCall`, `ShortfallIsAccounted`, `DeliverableIsBacked`, `RunCloses` |
| `chat_tabs` | 2 interchangeable tabs, 2 turns, 2 chunks | `NoChunkTwice`, `CompletedIsAnswered`, `NewestIsFound`, `EndedTurnsUnblock` |
| `tool_plugins` | one call of any plugin operation, no pid namespace, 2 chunks, 2 recipients, 1 edit | `AnswersAreHonest`, `NothingAfterTheAnswer`, `ChangesAreAllowed` |
| `memory_store` | 2 agents, a plain and a suspect text, 2 promotions, clusters of any size, 3 memories, 2 writers at once, 2 edits or failures | `DuplicatesAreRaces`, `SuspectsNeedApproval`, `SupersededIsCarried`, `VisibleIsIndexed` |
| `vault_server` | server and one CLI, 1 capture, 1 probe, 2 identities, 2 pastes, 1 failed write | `OpensUnlessRekeyed`, `AcknowledgedIsKept`, `WipedIsShredded`, `LastPasteStands` |
| `registry_edits` | 2 clients, 3 contents, 3 fires, limit 2, 1 crash | `RevokedStaysRevoked`, `DriftIsAccidental`, `FloodIsARace` |
| `event_sources` | 2 rows, batch cap 1, queue cap 1, 2 outside events, 1 crash | `OncePerLife`, `NewRowsAreTold`, `EverySourceGoesOn` |
| `guard_policy` | 1 agent, 2 classes, 2 rules, 2 points, 2 editors, 2 edits, 1 grant, a text of 8 characters | `LevelWasInForce`, `EditsTakeEffect`, `RedactedIsHidden` |
| `ledger_budgets` | a task's run with 1 call and a chat turn with 2, 2 budgets, 1 edit, 1 day | `SpentMeansRefused`, `BillsAreAccounted` |
| `alerts_bell` | 2 grants, the freeze, an engine's file and two of a plugin's, 1 gate, 3 events | `OneOpenAlert`, `IncidentsAreTold`, `EngineFilesAreQuiet`, `ExpiringIsTold` |

Why the bounds suffice to be interesting. Two fires of one task are enough to
overlap on the counter and on `update_task`'s stale write; three fires walk the
chain to its cap of 2 and meet the cycle; one crash may hit any step and the
fires left over run beside it. Three model calls with one tool call reach every
budget, in every order of budget, token cap and timeout. Two turns make the end
of an old turn race the start of a new one; two chunks separate a flushed chunk
from a streamed one. A call never looks at another call, so one is enough for
`ToolCalls`; its theorems are for any number. Three memories are a text in two
namespaces and what a job makes of them; `MinCluster = 1` allows every cluster that
the code's 5 would, and smaller ones. `Namespaced = FALSE` allows every step that
`TRUE` does. `MaxIds` counts a memory from its check on: a check whose memory
could not be stored any more would change nothing. Two identities are one rotation or one re-creation, and a
second paste is what a late probe overwrites. Three contents are a creation, an
update and a re-creation; three fires exceed the limit of two. A cap of one with
two rows overfills a batch. Two clients overlap once, which is all an edit can
do to another. One day passed is a period begun. Eight characters are a text
(`Jo 1-234`) with a word and enough digits for either rule of a mask.

Bounds that are not in the code: `MaxFires` and `MaxCrashes` (lifecycle, registry,
sources), `MaxTurns`, `Chunks` of a turn, `MaxEdits`, `MaxUpsets`, `MaxBusy`,
`MaxIds`, `MaxAge`, `MaxKeys`, `MaxFailures`, `MaxPastes`, `MaxRequests`,
`MaxEvents`, `MaxGrants`, `MaxCalls` of `Ledger`, `MaxDays`. Made smaller than in
the code: `DlqThreshold` (2 for 3), `ChainDepthCap` (2), `BatchCap` (1 for 50),
`PendingCap` (1 for 500), `MinSample` (2 for 10), `MinCluster` (1 for 5), `Kept` (2
for 4), the rate limit.
Symmetry is used for tabs, promoters and agents, clients and editors, in runs
without liveness.

Deadlock is checked in `chat_tabs`, where a tab can always reconnect. In the
other runs the system stops when the bounded events are used up.

### Excuses

Where the code lets a property fail in a known race, the property names the race
as an exception, kept in a history variable (`excused`, `behind`, `torn`,
`slips`, `raced`, `unindexed`, `late`, `unseen`) or a state (`"orphan"`; `Deleting`, a
deletion that has not committed), and holds everywhere else. The exceptions
are the flaws of section 3's list below; a property without them is the
specification of the repaired code.

### Where code and documentation disagree

Read off the source while modelling; the models have the behaviour of the code.

| The code | The documentation |
|---|---|
| `NameError` at `runtime/lifecycle.py:206`: no successor is ever dispatched | `wiki/Scheduling-Guide.md:219` |
| the failure counter is never written; with the import it would live on the newest run row, which each run creates afresh | `docs/scheduling.md:179` |
| `running` is set before the preflight, which may refuse; nothing puts it back | `docs/scheduling.md:417` |
| approving writes `scheduled`; the next fire is held again | `docs/scheduling.md:218` |
| `guardrail` drops the messages: after a tool call the model sees neither the objective nor the tool's result | comment at `runtime/engine.py:1080` |
| reflection runs outside `wait_for` | `wiki/Concepts-Budgets.md:117` |
| the check for a running chat turn is separated from registration by two awaits | comment at `web/api/chat.py:417` |
| a crash inside `rotate` loses the vault (`secrets/age_vault.py:347-355`) | `wiki/Secrets-Guide.md:103-107` |
| a failed verification is rolled back with its count, so a trigger is never locked out | docstring at `web/api/scheduler.py:1605` |
| overlapping first edits leave two policy rows of one point | docstring at `persistence/learning_models.py:250` |
| spans of overlapping hits shift each other | comment at `privacy/guardrails.py:516` |
| call rows are not deduplicated | comment at `cost/tracker.py:135` |
| concurrent runs each pass the check, so the worst case is not the limit | `wiki/Concepts-Budgets.md:113` |
| exceeding a budget is audited as critical | `wiki/Cost-And-Budgets.md:94` |
| reflection, a chat's title and a call that `wait_for` cuts off are charged and write no call row | `wiki/Cost-And-Budgets.md:11` |
| `on_moved` queues `event.src_path`, the name before the move, so a file written by rename is not announced (`notifications/deliverables_watcher.py:47-49`) | comment at `notifications/deliverables_watcher.py:48` |
| `last_4` and `first_4` leave every letter and separator of a hit with four digits (`privacy/mask.py:73-99`) | `wiki/Filtering-Page.md:109` |
| approval upserts the vector before a commit that may fail, and the global pool copies a row whatever its status (`web/api/memory.py:472-489`) | comment at `memory/promotion.py:167` |

Seen on the way. `web/api/chat.py:1311` uses a name that is not defined there, in
a `try` that swallows the error. A client that drops while the started frame is
sent (`chat.py:472`) leaves a registered broker without a task. A chat turn whose
loop raises writes no cost event. Telegram's `/cancel` is overwritten by the
engine's closing write, or overwrites the outcome of a run that closed meanwhile
(`scheduler/events/telegram_bot.py:517-533`). Reflection with Ollama has no timeout
(`providers/factory.py:119-132`), so its run may stay `running`. `init-age-vault
--force` beside a running server leaves a vault that the server's next write encrypts
to the old identity (`cli/main.py:1146`). A plugin's program may outlive the timeout
that killed the plugin (`sandbox/executor.py:132`). The file watcher ends when its fire raises (`file_changed.py:57`). A failed flush leaves the
vault's copy in memory changed (`secrets/age_vault.py:303`), two rotations side
by side can leave no identity on disk, and a wipe goes on
after it failed to remove the key (`forensic/reader.py:138`). An incident is told
before its edit commits, and is lost if that edit itself created the posture row
(`persistence/learning_repos.py:325`). Data-class checks without an agent use the
grants of every agent; a block counts as told before it was
(`privacy/guardrails.py:777`).

## 4. Fairness

`TaskLifecycle`: weak fairness of each fire's step, except while its engine runs,
and of `Restart`. Asyncio runs every ready coroutine, and the service is
restarted by its supervisor. Ticks, endpoints, crashes and the return of the engine
are not fair: `EveryFireEnds` allows an engine that never returns, which is what
`RunCloses` of `EngineRun` shows to be possible.

`EngineRun`: weak fairness of `Timeout` (the `wait_for` timer) and of the local steps
that close a run (`Settle`, `Write`, `Commit`). The model and the tools need never
answer in the loop. Reflection is outside `wait_for`, and the Ollama client has no
timeout (`providers/factory.py:119-132`): nothing is assumed of it, and `RunCloses` says
that a run closes unless its process dies, its last commit fails, or it is in
reflection for ever.

`EventSources`: weak fairness of the loops' own steps and of the end of what they
await (`Tell`, `BurstEnds`): they are loops with an interval, and what they await
is under timeouts. A lost request is made again. Neither the outside, nor the
handlers of updates, nor the operator is fair.

`Alerts`: weak fairness of the watcher's tick, of the calls of `notify()` it and
the edits make, and of an edit's commit or failure. Nothing makes a tick succeed:
`ExpiringIsTold` holds although checks, inserts and the server may fail, because
such faults are bounded and the next tick tries again.

The other modules state no fairness; only safety is checked there.

## 5. Proofs

Each theorem holds for every value of the module's constants that its `ASSUME`
allows: any number of tasks, tabs, calls, processes, and any bound. Three proof
modules are about two components each: `EngineRun_proofs` also about `Guardrails`,
`ToolCalls_proofs` about `EventSources`, `ChatTurns_proofs` about `Ledger`. The
second component names its specification apart (`GuardSpec`, `FeedSpec`, `BillSpec`);
no proof of one uses the other.

`TaskLifecycle_proofs`, from `ConstantsOK` alone: `TypeInvariant`,
`DeadLettersAreEarned`, `ShownOutcomesAreRecorded`, `SuccessorsFollowClosedRuns`
and `ImplementsChainLineage` (`Spec => ChainsFollowLineage`).
The inductive invariant is `IInv`. `DlqIsEarned` is not inductive: a fire
commits a counter it read some steps ago, and an endpoint writes back a state
it saw some steps ago. So `CountersEarned` says of every counter, in a row or in
a fire's locals, that as many runs of that task failed, and `OutcomesSeen` says
of every state an endpoint holds that the outcome it would write back is still
justified: this is stable because the outcome a run closed with (`result`) does
not change, though its row may be overwritten by a `/cancel` (`Holds`).
`Allocated` and `RowsOwned` say that identifiers not yet allocated are
untouched and that a row agrees with the program counter of its fire. `LineagesLinear`
says a chain's tasks are distinct and at most the cap; with it, each `Admit`
is a step of `ChainLineage` and every other step a stutter.

`EngineRun_proofs`, from that module's assumptions on its constants: `RunTypes`,
`BudgetsBoundCalls`, `TokenCapHolds`, `BillingIsAccounted`, `DeliverablesAreBacked`,
all from `Invariance` (`Spec => []IInv`). Its parts: `Ticked` (a call in flight has been
ticked), `Measured` (an answer being recorded is at most the largest one),
`Ledger` (what was charged is the kept rows, the missed ones and at most one
answer being recorded), `Settled` (the same, once billed), `Closing`
(row, file and phase agree), `Prompted` and `Concluded` (shape of the messages).

`ChatTurns_proofs`. From `ChatConstants` (finitely many sockets), for any number
of tabs, turns and chunks: `TurnTypes`, `ViewersSeeEachChunkOnce`,
`CompletedTurnsAreAnswered`, `NewestTurnIsFound` and `EndedTurnsLeave`, again
from `Invariance`. `NoChunkTwice` is the one that needs work:
it is about what the client has seen, while what makes it hold is spread over the row that was replayed, the
pump's queue and the task. `Ascending` says that what was seen, followed by the
queue, is one ascending run with the done event at its end; `Behind`, that a
viewer of a turn that may still publish has only chunks already published;
`Unpublished`, that the row a resuming client replays is not ahead of the task.
`Owned` keeps a second handler from starting a turn that runs already, `Attached`
says which viewers have a queue at all. For `CompletedIsAnswered`, `Kept` carries the
stored answer from the append to the update of the row across a deletion.
`Reserved` only says that the bound `MaxTurns` is respected: a message on its way
holds a turn number.

`ToolCalls_proofs`: `CallTypes`, `AnswersStayHonest`, `AnswersAreFinal`,
`ChangesStayAllowed`, with and without a pid namespace. A step touches one call, or is an edit that marks the calls
of a plugin, so the invariant is about each call alone: `Paired` relates the
server's wait to the child, `Progressing` what a child at work has done to
what it counts, `Current` what the call has loaded to the operator's row. The two
action properties then need only that whatever changes something outside is a
child's step (`OnlyPartsChange`).

`VaultClients_proofs`: `VaultTypes`, `VaultOpens`, `AcknowledgedStays`,
`WipedStaysShredded` and `LastPasteWins`, for any number of processes, names,
captures and probes. `VInv` is about the vault, whoever calls it: `Carried` says
that every copy in memory agrees with what was acknowledged, but for the names
others have written since (`behind`); `Keyed` that, until `torn`, at most one
rotation or creation is under way and the identities on disk, in memory and of the
vault file fit its step. A process that holds an identity that was replaced under it
is what `behind` records under `Identity`; its next write sets `torn`. The operations of `SecretsVault` keep it, so each action of a client
only adds its own part: `KeysAreServers` and `KeysStayAway` for the captures' keys,
`OnePaste` for the token. The proof goes from one CLI to any number of them, and so met what
the run cannot: two rotations side by side can leave no identity on disk, which
`torn` now records.

`MemoryLifecycle_proofs`: `MemoryInvariance`, `MemoryTypes`, `MemoryDuplicates`,
`MemoryApproval`, `MemoryCarried`, `MemoryIndexed`, for any number of agents, texts,
promotions and memories. The properties are about rows, and what makes them hold is in
the drafts: `WriterOk` says what each writer may be about to store, `FromOk` that
it still carries what its sources say, `DeskOk` what the approval or deletion that
has not committed has done already, `Unborn` that an id with a vector and no
row belongs to one draft and is nobody's source. `Carries` adds to
`SupersededIsCarried` why pruning takes a hidden memory first: it is the older one,
and of the class with the shorter window. An operator's settings may order the
windows otherwise: a carrier is promised only where they do not (`Tiered`). `Counted` counts the rows that promotions
made of a text and the promotions of it in flight together, which a commit leaves
unchanged; what jobs make of texts may repeat a hash and is not counted.
The proof goes beyond the run's bounds in one case: a hidden
memory that an operator gives a longer retention may outlive its carrier.

`Registry_proofs`: `RegistryTypes`, `EditsAgree`, `LimitHolds`,
`RevokedHooksStayClosed`, for any number of clients, requests and fires and any
limit, over the one task, agent and trigger of the model. `Midway` says how far the one
edit under way has taken file, row, job and ScheduleRow, so that `Edited` carries
their agreement from one rest to the next; it claims nothing once edits overlap,
a step fails or the process dies. `Unrevoked` follows a credential from the request
that drew it through the vault to the row: one that was revoked is in none of
them. `Counting` compares the burst with the total a fire has read, not only with
the row's.

`Alerts_proofs`, from `AlertConstants` (grants, files and gates are disjoint):
`AlertTypes`, `RemindersAreSingle`, `EditsAreReported`, `FilesAreAnnounced`, for
any number of grants, edits, files and gates. The properties are about rows;
`Calls` says what the `notify()` a caller is in may store, and that the watcher's
target has no open row, which holds because nobody else tells of it.
`Reported` and `Announced` extend the two other properties to what is open, queued
or being told. `Written` bounds the versions of the posture row.

`EventSources` (in `ToolCalls_proofs`), from `EventAssumption` (finitely many rows; a
batch and a queue hold something): `FeedTypes`, `EventsAreTakenOnce`, `RowsAreTold`,
for any number of rows, updates, changes and restarts. A life is counted by the
crashes before it, so "once per life" is a bound on a count and not inductive:
`UpdateInv` lets an update that the bot has yet to handle have one handler less, and says
that its batch is the run of updates after `last`; `RowInv` does the same with the
rows seen and not being fired. `NewRowsAreTold` needs that a row is late only once
the first pass is over, which marks without telling.

`Guardrails` (in `EngineRun_proofs`), from `GuardrailConstants` and `FindingsAreHits`:
`ResolvedInForce`, `GuardTypes`, `LevelsWereInForce`, `EditsApply`, `RedactionsHide`,
for any texts, detectors' hits, mask styles, agents, scopes, classes, editors and
numbers of edits and grants. `ResolvedInForce` is about the pure part: what the
code's loop over rows and grants resolves is what the documented order of overrides
gives, for any rows; that the last of several matching rows decides needs a greatest
index, which well-foundedness of the naturals gives. `CheckInv` says that the rows a
check holds stood, together with the grants of now, at some moment of the check,
unless both have changed; `EditInv` that a point that was not raced has one row at
most, and one edit, which knows that row.

`RedactionsHide` is about what `Redaction` computes for any hits. The number of places
that come before a place differs from place to place, so by the finiteness of their
set every number is taken: sorting lists each place once (`PlacesListed`). Fusing,
gating and taking a level therefore yield hits of the text again (`FusedHits`,
`TakenSeq`). The library's induction theorems take an operator as a parameter and cannot
be used for the cuts: `CutsExist` and `Cleared` are proved by the least number of cuts
for which they would fail. `Cleared` says of the text after the first k cuts that it is
the text as it was up to where the k-th hit starts, and that after that stands, in
order, exactly what the masks keep (`Shown`, of each style) and what none of the k hits
covers; the next hit
starts no later (`ByStartDescends`) and, as no two overlap, ends before.

`Ledger` (in `ChatTurns_proofs`), from `LedgerConstants`: `LedgerTypes`, `SpentIsRefused`,
`BillsAddUp`, for any runs, prices, answers, budgets and lengths of periods.
`Total` is the size of a set of units, so that what a row or an event adds
(`TotalOneMore`, `TotalOneChanged`, `TotalGrows`) follows from facts about cardinality
and needs no induction. `Accounts` says of each run that what was charged is what
its rows, the missed and the unseen calls say, and that a bill, once read, and the later changes
of the rows are what the rows now cost. `Held` is why `SpentMeansRefused` holds: between
the call and the end of the check a budget that was spent is in the list still to be
looked at and, since events are only added, still spent; `SpentStops` shows that then
the check's own sum (events since the start of the period) stops the run, which
takes a little arithmetic about periods (`Periods`). For a priced provider the theorem
needs that its charges follow the table (`Honest`); for the others nothing is assumed.

Left to TLC: the liveness properties (`EveryFireEnds`, `RunCloses`,
`EverySourceGoesOn`, `ExpiringIsTold`), which are beyond the prover. Every safety
invariant of the runs is a theorem.

## 6. What is left

1. `LogChain`: appends, rotation, buckets and verification, the one listed
   component with an ordering hazard that no module covers.
2. `RunRow`: the abstract run (open, closed once, billed once), implemented by
   `EngineRun` and by a run of `Ledger`, in the place of `OpenRow`/`CloseRow` of
   `TaskLifecycle`.
3. Scores of memories and skills, if their thresholds turn out to matter.
