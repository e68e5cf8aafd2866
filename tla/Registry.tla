------------------------------ MODULE Registry ------------------------------
(***************************************************************************)
(* What the operator registers: the YAML and row of a task, its job in the *)
(* scheduler, the YAML and row of its agent, and a webhook trigger with    *)
(* its credential.  One task, one agent and one trigger id are enough: no  *)
(* endpoint reads two of a kind.                                           *)
(*                                                                         *)
(* An endpoint runs without interruption between two awaits, so writing a  *)
(* YAML and loading it back is one step; its check, its upsert and its     *)
(* dealings with the scheduler are others, and requests interleave there.  *)
(* A request's number stands for the content it submits and for the        *)
(* credential it draws.                                                    *)
(*                                                                         *)
(* AddJob may fail, and StartUp may leave the server without a scheduler;  *)
(* both are logged only.  At this commit they always do: job_runner is a   *)
(* nested function, which the SQLAlchemy job store of APScheduler cannot   *)
(* pickle.                                                                 *)
(***************************************************************************)
EXTENDS Naturals, FiniteSets

CONSTANTS
    Clients,     \* concurrent requests
    Limit,       \* rate_limit_per_hour of the trigger
    MaxRequests, \* bound: edits and creations, hence contents and credentials
    MaxFires,    \* bound: webhook fires
    MaxCrashes   \* bound: deaths of the server process

ASSUME RegistryAssumption ==
    /\ IsFiniteSet(Clients)
    /\ Limit \in Nat \ {0}
    /\ MaxRequests \in Nat /\ MaxFires \in Nat /\ MaxCrashes \in Nat

Content == 1..MaxRequests
None    == 0
Modes   == {"bearer", "hmac"}

VARIABLES
    up, crashes, asked,
    scheduler,   \* get_scheduler() is not None
    file,        \* ~/.spark/tasks/{name}.yaml
    row,         \* TaskRow
    job,         \* APScheduler's job store: the content that was scheduled
    listed,      \* ScheduleRow
    agent,       \* ~/.spark/agents/{name}.yaml and the content AgentRow has
    trigger,     \* TriggerRow
    vault,       \* webhook.trigger.{id}.hmac_secret
    req,         \* per client: the request being served
    fires,       \* executions a webhook started
    burst,       \* of these, since last_fired_at was last an hour old
    revoked,     \* credentials of triggers that were deleted
    opened,      \* the credential the last fire was let in with
    slips        \* what may excuse a disagreement: races, failures, crashes

process == <<up, crashes>>
tasks   == <<file, row, job, listed>>
hooks   == <<trigger, vault, revoked>>
fired   == <<fires, burst, opened>>
vars    == <<process, asked, scheduler, tasks, agent, hooks, req, fired, slips>>

NoFile    == [text |-> None, timed |-> FALSE]
Garbled   == [text |-> None, timed |-> TRUE]   \* truncated by a failed dump
NoRow     == [text |-> None, state |-> "none"]
NoTrigger == [mode |-> "none", cred |-> None, total |-> 0, recent |-> FALSE]
Idle      == [op |-> "idle", step |-> "none", n |-> None, timed |-> FALSE,
              auto |-> FALSE, seen |-> "none", total |-> 0, mode |-> "none"]

\* TaskRow.state as the registry sets it; the rest is TaskLifecycle's.
RowStates == {"created", "scheduled"}

Slips == {"overlap", "failure", "crash", "flood", "twins"}
Edits == {"create", "update"}
Ops   == Edits \cup {"agent", "hook", "unhook", "fire"}
Steps == {"checked", "written", "stored", "cleared", "unlisted", "added", "secret",
          "removed", "verified"}

Request  == [op : Ops, step : Steps, n : {None} \cup Content, timed : BOOLEAN,
             auto : BOOLEAN, seen : {"none"} \cup RowStates, total : 0..MaxFires,
             mode : {"none"} \cup Modes]
Requests == Request \cup {Idle}
Files    == [text : {None} \cup Content, timed : BOOLEAN]
Rows     == {NoRow} \cup [text : Content, state : RowStates]
Agents   == [text : {None} \cup Content, valid : BOOLEAN, row : {None} \cup Content]
Triggers == {NoTrigger} \cup
            [mode : Modes, cred : Content, total : 0..MaxFires, recent : BOOLEAN]

TypeOK ==
    /\ up \in BOOLEAN /\ crashes \in 0..MaxCrashes /\ asked \in 0..MaxRequests
    /\ scheduler \in BOOLEAN
    /\ file \in Files /\ row \in Rows /\ agent \in Agents /\ trigger \in Triggers
    /\ job \in {None} \cup Content /\ vault \in {None} \cup Content
    /\ listed \in BOOLEAN
    /\ req \in [Clients -> Requests]
    /\ fires \in 0..MaxFires /\ burst \in 0..MaxFires
    /\ revoked \subseteq Content
    /\ opened \in {None} \cup Content
    /\ slips \subseteq Slips

Init ==
    /\ up = TRUE /\ crashes = 0 /\ asked = 0
    /\ scheduler \in BOOLEAN
    /\ file = NoFile /\ row = NoRow /\ job = None /\ listed = FALSE
    /\ agent = [text |-> None, valid |-> TRUE, row |-> None]
    /\ trigger = NoTrigger /\ vault = None
    /\ req = [c \in Clients |-> Idle]
    /\ fires = 0 /\ burst = 0 /\ revoked = {} /\ opened = None
    /\ slips = {}

-----------------------------------------------------------------------------
(* Requests.                                                               *)

At(c, ops, step) == up /\ req[c].op \in ops /\ req[c].step = step

Goes(c, step) == req' = [req EXCEPT ![c].step = step]

Answer(c) == req' = [req EXCEPT ![c] = Idle]

Editing == {c \in Clients : req[c].op \in Edits}
Hooking == {c \in Clients : req[c].op = "hook"}

\* A request with something of its own to write takes the next number.
Ask(c, r) ==
    /\ up /\ req[c] = Idle /\ asked < MaxRequests
    /\ asked' = asked + 1
    /\ req' = [req EXCEPT ![c] = [r EXCEPT !.n = asked + 1]]

-----------------------------------------------------------------------------
(* POST /tasks and PUT /tasks/{name}.                                      *)

Begin(c, op, timed, auto) ==
    /\ Ask(c, [Idle EXCEPT !.op = op, !.step = "checked", !.timed = timed,
                           !.auto = auto, !.seen = row.state])
    /\ slips' = IF Editing = {} THEN slips ELSE slips \cup {"overlap"}
    /\ UNCHANGED <<process, scheduler, tasks, agent, hooks, fired>>

\* The session that looks for the row: a taken name is refused with 409 and
\* leaves no trace, as does a body that is no Task.
CheckCreate(c, timed, auto) == row = NoRow /\ Begin(c, "create", timed, auto)

\* A missing task, or one that runs (TaskLifecycle), is refused likewise.
CheckUpdate(c, timed) == row # NoRow /\ Begin(c, "update", timed, FALSE)

\* Write the YAML and load it back.
WriteTask(c) ==
    /\ At(c, Edits, "checked")
    /\ file' = [text |-> req[c].n, timed |-> req[c].timed]
    /\ Goes(c, "written")
    /\ UNCHANGED <<process, asked, scheduler, row, job, listed, agent, hooks, fired, slips>>

\* open("w") truncated the file and the dump failed; or the new text does not
\* load: create unlinks it, update puts the bytes it had read back.
WriteFails(c) ==
    /\ At(c, Edits, "checked")
    /\ \/ file' = Garbled
       \/ file' = IF req[c].op = "create" THEN NoFile ELSE file
    /\ Answer(c)
    /\ slips' = slips \cup {"failure"}
    /\ UNCHANGED <<process, asked, scheduler, row, job, listed, agent, hooks, fired>>

\* The upsert of the row and its audit entry, one session.  An update keeps
\* the state it read before it wrote the file.
StoreRow(c) ==
    /\ At(c, Edits, "written")
    /\ row' = [text |-> req[c].n,
               state |-> IF req[c].op = "update" THEN req[c].seen
                         ELSE IF req[c].auto /\ req[c].timed THEN "scheduled" ELSE "created"]
    /\ Goes(c, "stored")
    /\ UNCHANGED <<process, asked, scheduler, file, job, listed, agent, hooks, fired, slips>>

\* That session fails; the file stays as written.
StoreFails(c) ==
    /\ At(c, Edits, "written")
    /\ Answer(c)
    /\ slips' = slips \cup {"failure"}
    /\ UNCHANGED <<process, asked, scheduler, tasks, agent, hooks, fired>>

\* There is nothing to tell the scheduler, or no scheduler.
LeaveJobs(c) ==
    /\ At(c, Edits, "stored")
    /\ ~scheduler \/ (req[c].op = "create" /\ ~(req[c].auto /\ req[c].timed))
    /\ Answer(c)
    /\ slips' = IF scheduler THEN slips ELSE slips \cup {"failure"}
    /\ UNCHANGED <<process, asked, scheduler, tasks, agent, hooks, fired>>

\* Mutant: an edit unschedules only to schedule again.
RemoveJob_IfTimed(c) ==
    /\ At(c, {"update"}, "stored") /\ scheduler
    /\ job' = IF req[c].timed THEN None ELSE job
    /\ Goes(c, "cleared")
    /\ UNCHANGED <<process, asked, scheduler, file, row, listed, agent, hooks, fired, slips>>

\* unschedule: the job goes at once ...
RemoveJob(c) ==
    /\ At(c, {"update"}, "stored") /\ scheduler
    /\ job' = None
    /\ Goes(c, "cleared")
    /\ UNCHANGED <<process, asked, scheduler, file, row, listed, agent, hooks, fired, slips>>

\* ... and its ScheduleRow in a session of its own, which may fail.
Unlist(c, fails) ==
    /\ At(c, {"update"}, "cleared")
    /\ listed' = (listed /\ fails)
    /\ slips' = IF fails THEN slips \cup {"failure"} ELSE slips
    /\ Goes(c, "unlisted")
    /\ UNCHANGED <<process, asked, scheduler, file, row, job, agent, hooks, fired>>

Schedules(c) ==
    /\ scheduler
    /\ \/ At(c, {"update"}, "unlisted")
       \/ At(c, {"create"}, "stored") /\ req[c].auto
    /\ req[c].timed

\* A task without schedule has nothing to add.
SkipJob(c) ==
    /\ At(c, {"update"}, "unlisted") /\ ~req[c].timed
    /\ Answer(c)
    /\ UNCHANGED <<process, asked, scheduler, tasks, agent, hooks, fired, slips>>

\* schedule_task: add_job with replace_existing ...
AddJob(c) ==
    /\ Schedules(c) /\ agent.valid
    /\ job' = req[c].n
    /\ Goes(c, "added")
    /\ UNCHANGED <<process, asked, scheduler, file, row, listed, agent, hooks, fired, slips>>

\* ... unless the agent's YAML does not load or the job store refuses the job.
AddFails(c) ==
    /\ Schedules(c)
    /\ Answer(c)
    /\ slips' = slips \cup {"failure"}
    /\ UNCHANGED <<process, asked, scheduler, tasks, agent, hooks, fired>>

\* The ScheduleRow follows in a session of its own.
List(c, fails) ==
    /\ At(c, Edits, "added")
    /\ listed' = (listed \/ ~fails)
    /\ slips' = IF fails THEN slips \cup {"failure"} ELSE slips
    /\ Answer(c)
    /\ UNCHANGED <<process, asked, scheduler, file, row, job, agent, hooks, fired>>

-----------------------------------------------------------------------------
(* PUT /agents/{name}/yaml, /provider, /memory-sharing, /long-term-memory. *)

\* The full text is validated before it is written, then loaded.
WriteYaml(c) ==
    /\ Ask(c, [Idle EXCEPT !.op = "agent", !.step = "written"])
    /\ agent' = [agent EXCEPT !.text = asked + 1, !.valid = TRUE]
    /\ UNCHANGED <<process, scheduler, tasks, hooks, fired, slips>>

\* A patch needs a file that parses, and what it writes is not validated: the
\* provider's type is any string, and a failed dump truncates the file.
PatchProvider(c) ==
    /\ agent.valid
    /\ Ask(c, [Idle EXCEPT !.op = "agent", !.step = "written"])
    /\ \E ok \in BOOLEAN : agent' = [agent EXCEPT !.text = asked + 1, !.valid = ok]
    /\ UNCHANGED <<process, scheduler, tasks, hooks, fired, slips>>

\* The memory blocks are patched likewise; AgentRow is left as it was.
PatchMemory(c) ==
    /\ agent.valid
    /\ Ask(c, [Idle EXCEPT !.op = "agent", !.step = "stored"])
    /\ \E ok \in BOOLEAN : agent' = [agent EXCEPT !.text = asked + 1, !.valid = ok]
    /\ UNCHANGED <<process, scheduler, tasks, hooks, fired, slips>>

\* Registration of what was loaded, its failure swallowed.
StoreAgent(c) ==
    /\ At(c, {"agent"}, "written")
    /\ \/ agent.valid /\ agent' = [agent EXCEPT !.row = req[c].n]
       \/ UNCHANGED agent
    /\ Goes(c, "stored")
    /\ UNCHANGED <<process, asked, scheduler, tasks, hooks, fired, slips>>

\* The audit entry is a session of its own.
AnswerAgent(c) ==
    /\ At(c, {"agent"}, "stored")
    /\ Answer(c)
    /\ UNCHANGED <<process, asked, scheduler, tasks, agent, hooks, fired, slips>>

-----------------------------------------------------------------------------
(* POST and DELETE /triggers.                                              *)

\* Mutant: a secret that is already in the vault is kept.
DrawSecret_KeepsOld(c, mode) ==
    /\ Ask(c, [Idle EXCEPT !.op = "hook", !.step = "secret", !.mode = mode])
    /\ vault' = IF mode = "hmac" /\ vault = None THEN asked + 1 ELSE vault
    /\ slips' = IF Hooking = {} THEN slips ELSE slips \cup {"twins"}
    /\ UNCHANGED <<process, scheduler, tasks, agent, trigger, revoked, fired>>

\* The credential is drawn; a signing secret goes to the vault before anything
\* is checked.
DrawSecret(c, mode) ==
    /\ Ask(c, [Idle EXCEPT !.op = "hook", !.step = "secret", !.mode = mode])
    /\ vault' = IF mode = "hmac" THEN asked + 1 ELSE vault
    /\ slips' = IF Hooking = {} THEN slips ELSE slips \cup {"twins"}
    /\ UNCHANGED <<process, scheduler, tasks, agent, trigger, revoked, fired>>

\* The session that inserts the row: 404 without the task, IntegrityError on a
\* taken id, and in both cases the secret stays in the vault.
InsertHook(c) ==
    /\ At(c, {"hook"}, "secret")
    /\ trigger' = IF row # NoRow /\ trigger = NoTrigger
                  THEN [mode |-> req[c].mode, cred |-> req[c].n, total |-> 0, recent |-> FALSE]
                  ELSE trigger
    /\ Answer(c)
    /\ UNCHANGED <<process, asked, scheduler, tasks, agent, vault, revoked, fired, slips>>

DeleteHook(c) ==
    /\ up /\ req[c] = Idle /\ trigger # NoTrigger
    /\ trigger' = NoTrigger
    /\ revoked' = revoked \cup {trigger.cred}
    /\ req' = [req EXCEPT ![c] = [Idle EXCEPT !.op = "unhook", !.step = "removed",
                                              !.mode = trigger.mode]]
    /\ UNCHANGED <<process, asked, scheduler, tasks, agent, vault, fired, slips>>

\* After the commit, best effort, by name: the secret of a trigger that was
\* created again in between goes too.
DeleteSecret(c, fails) ==
    /\ At(c, {"unhook"}, "removed")
    /\ vault' = IF req[c].mode = "hmac" /\ ~fails THEN None ELSE vault
    /\ Answer(c)
    /\ UNCHANGED <<process, asked, scheduler, tasks, agent, trigger, revoked, fired, slips>>

-----------------------------------------------------------------------------
(* POST /webhooks/{trigger_id}.                                            *)

\* The credential a caller must have: bearer against the row's hash, a
\* signature against whatever the vault holds.
Expected == IF trigger.mode = "bearer" THEN trigger.cred ELSE vault

\* Mutant: the limit is compared with one fire too many.
WithinLimit_Late == trigger.recent => trigger.total <= Limit

\* fires_total is cumulative; it counts only while the last fire is recent.
WithinLimit == trigger.recent => trigger.total < Limit

Firing == {c \in Clients : req[c].op = "fire"}

\* Verified and below the limit.  A refusal raises, so the session rolls back,
\* the count of failed verifications and the lock included.
Verify(c, k) ==
    /\ up /\ req[c] = Idle
    /\ fires + Cardinality(Firing) < MaxFires
    /\ trigger # NoTrigger /\ k = Expected
    /\ WithinLimit
    /\ opened' = k
    /\ req' = [req EXCEPT ![c] = [Idle EXCEPT !.op = "fire", !.step = "verified", !.n = k,
                                              !.total = trigger.total, !.mode = trigger.mode]]
    /\ slips' = IF Firing = {} THEN slips ELSE slips \cup {"flood"}
    /\ UNCHANGED <<process, asked, scheduler, tasks, agent, hooks, fires, burst>>

\* mark_fired writes the total it read plus one, with the audit entry; then
\* the execution is started.
CountFire(c) ==
    /\ At(c, {"fire"}, "verified")
    /\ trigger # NoTrigger
    /\ trigger' = [trigger EXCEPT !.total = req[c].total + 1, !.recent = TRUE]
    /\ fires' = fires + 1
    /\ burst' = IF trigger.recent THEN burst + 1 ELSE 1
    /\ Answer(c)
    /\ UNCHANGED <<process, asked, scheduler, tasks, agent, vault, revoked, opened, slips>>

\* The event filter holds the payload back, the row is gone at the flush, or
\* the session fails: nothing was counted.
FireStops(c) ==
    /\ At(c, {"fire"}, "verified")
    /\ Answer(c)
    /\ UNCHANGED <<process, asked, scheduler, tasks, agent, hooks, fired, slips>>

\* An hour without a fire.
HourPasses ==
    /\ trigger.recent
    /\ trigger' = [trigger EXCEPT !.recent = FALSE]
    /\ UNCHANGED <<process, asked, scheduler, tasks, agent, vault, revoked, req, fired, slips>>

-----------------------------------------------------------------------------
Crash ==
    /\ up /\ crashes < MaxCrashes
    /\ up' = FALSE /\ crashes' = crashes + 1
    /\ scheduler' = FALSE
    /\ req' = [c \in Clients |-> Idle]
    /\ slips' = IF Editing = {} THEN slips ELSE slips \cup {"crash"}
    /\ UNCHANGED <<asked, tasks, agent, hooks, fired>>

\* Jobs come back from the job store; set_scheduler follows start(), which may
\* raise.
StartUp ==
    /\ ~up
    /\ up' = TRUE
    /\ scheduler' \in BOOLEAN
    /\ UNCHANGED <<crashes, asked, tasks, agent, hooks, req, fired, slips>>

Serve(c) ==
    \/ \E timed, auto \in BOOLEAN : CheckCreate(c, timed, auto)
    \/ \E timed \in BOOLEAN : CheckUpdate(c, timed)
    \/ WriteTask(c) \/ WriteFails(c) \/ StoreRow(c) \/ StoreFails(c)
    \/ LeaveJobs(c) \/ RemoveJob(c) \/ SkipJob(c) \/ AddJob(c) \/ AddFails(c)
    \/ \E fails \in BOOLEAN : Unlist(c, fails) \/ List(c, fails)
    \/ WriteYaml(c) \/ PatchProvider(c) \/ PatchMemory(c)
    \/ StoreAgent(c) \/ AnswerAgent(c)
    \/ \E mode \in Modes : DrawSecret(c, mode)
    \/ InsertHook(c) \/ DeleteHook(c)
    \/ \E fails \in BOOLEAN : DeleteSecret(c, fails)
    \/ \E k \in Content : Verify(c, k)
    \/ CountFire(c) \/ FireStops(c)

Next ==
    \/ \E c \in Clients : Serve(c)
    \/ HourPasses \/ Crash \/ StartUp

Spec == Init /\ [][Next]_vars

-----------------------------------------------------------------------------
\* A trigger that was deleted stays closed: no fire is let in with a
\* credential of a trigger that is gone, although the same id may be created
\* again, the secret lives in another store than the row, its deletion is
\* best effort, and creations overlap deletions.  Not when two creations of the
\* id overlap: the row can be of one and the secret, already revoked, of the
\* other.
RevokedStaysRevoked ==
    [][\A c \in Clients : req'[c].op = "fire" /\ req[c].op # "fire"
           => req'[c].n \notin revoked \/ "twins" \in slips]_vars

\* At rest the task's YAML, its row and its job say the same, unless two edits
\* overlapped, a step failed or the process died inside an edit: no order of
\* creations and updates, with or without schedule, leaves a stale job behind.
DriftIsAccidental ==
    (/\ Editing = {}
     /\ slips \cap {"overlap", "failure", "crash"} = {})
    => /\ file.text = row.text
       /\ job # None <=> listed
       /\ job # None => job = row.text /\ file.timed

\* While the last fire is less than an hour old, a trigger starts no more
\* executions than its limit, unless fires overlapped: the counter is read and
\* written back, and overlapping fires lose counts.
FloodIsARace == "flood" \notin slips => burst <= Limit

-----------------------------------------------------------------------------
(* The inductive invariant behind the theorems of Registry_proofs.         *)

\* Numbers in use have been handed out, and a trigger's fires were started.
Numbered ==
    /\ trigger.cred \in 0..asked /\ vault \in 0..asked /\ revoked \subseteq 1..asked
    /\ \A c \in Clients : req[c] # Idle /\ req[c].op \notin {"fire", "unhook"}
           => req[c].n \in 1..asked
    /\ fires + Cardinality(Firing) <= MaxFires /\ burst <= fires
    /\ trigger.total <= fires /\ \A c \in Firing : req[c].total <= fires
    /\ \A c \in Clients : /\ req[c].op = "update" => req[c].seen # "none"
                          /\ req[c].op = "hook" => req[c].mode # "none"

\* A credential on its way to the row, in the row, or behind a signing trigger
\* is not one of a trigger that is gone.
Unrevoked == "twins" \notin slips =>
    /\ \A c, d \in Hooking : c = d
    /\ trigger.cred \notin revoked
    /\ trigger.mode = "hmac" => vault \notin revoked
    /\ \A c \in Hooking : /\ req[c].n \notin revoked \cup {trigger.cred}
                          /\ req[c].mode = "hmac" => vault \in {None, req[c].n}

\* The count keeps up with the burst, also in the fire that has read it.
Counting == "flood" \notin slips =>
    /\ burst <= Limit
    /\ trigger.recent => burst <= trigger.total
    /\ \A c, d \in Firing : c = d
    /\ \A c \in Firing : trigger.recent => req[c].total = trigger.total /\ trigger.total < Limit

Agree == /\ file.text = row.text
         /\ job # None <=> listed
         /\ job # None => job = row.text /\ file.timed

Quiet == slips \cap {"overlap", "failure", "crash"} = {}

\* How far the one edit has taken file, row, job and ScheduleRow.
Midway(c) ==
    LET r == req[c]
        filed == file = [text |-> r.n, timed |-> r.timed]
        stored == filed /\ row.text = r.n
    IN CASE r.step = "checked"  -> Agree /\ (r.op = "create" => row = NoRow)
         [] r.step = "written"  -> filed /\ (job # None <=> listed) /\ (r.op = "create" => job = None)
         [] r.step = "stored"   -> stored /\ (job # None <=> listed) /\ (r.op = "create" => job = None)
         [] r.step = "cleared"  -> stored /\ job = None
         [] r.step = "unlisted" -> stored /\ job = None /\ ~listed
         [] r.step = "added"    -> stored /\ job = r.n /\ r.timed
         [] OTHER -> FALSE

Edited == Quiet =>
    /\ \A c, d \in Editing : c = d
    /\ Editing = {} => Agree
    /\ \A c \in Editing : Midway(c)

IInv == TypeOK /\ Numbered /\ Unrevoked /\ Counting /\ Edited
=============================================================================
