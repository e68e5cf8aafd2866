--------------------------- MODULE Registry_proofs ----------------------------
(***************************************************************************)
(* Theorems about Registry, for any clients, limit and number of requests. *)
(* A step moves one request: what it leaves alone is shown once, in the    *)
(* frame lemmas, and what it changes in the lemma of its action.           *)
(***************************************************************************)
EXTENDS Registry, TLAPS, FiniteSetTheorems

LEMMA IdleFacts ==
  /\ Idle \notin Request
  /\ Idle.op = "idle" /\ Idle.n = None /\ Idle.total = 0 /\ Idle.mode = "none"
  /\ Idle.seen = "none"
BY DEF Idle, Request, Ops, Edits, None

LEMMA Moved ==
  ASSUME NEW r \in Request, NEW s \in Steps
  PROVE  /\ [r EXCEPT !.step = s] \in Request
         /\ [r EXCEPT !.step = s].step = s /\ [r EXCEPT !.step = s].op = r.op
         /\ [r EXCEPT !.step = s].n = r.n /\ [r EXCEPT !.step = s].timed = r.timed
         /\ [r EXCEPT !.step = s].seen = r.seen /\ [r EXCEPT !.step = s].mode = r.mode
         /\ [r EXCEPT !.step = s].auto = r.auto /\ [r EXCEPT !.step = s].total = r.total
BY DEF Request

LEMMA ReqType ==
  ASSUME TypeOK
  PROVE  req \in [Clients -> Requests]
BY DEF TypeOK

LEMMA FiringFacts ==
  /\ IsFiniteSet(Firing) /\ Cardinality(Firing) \in Nat
  /\ IsFiniteSet(Firing') /\ Cardinality(Firing') \in Nat
<1>1. IsFiniteSet(Firing) /\ IsFiniteSet(Firing')
  BY FS_Subset, RegistryAssumption DEF Firing
<1> QED
  BY <1>1, FS_CardinalityType

-----------------------------------------------------------------------------
(* What a step leaves alone.                                               *)

\* A request that is no creation of a trigger and no fire.
LEMMA HooksAndFiresKept ==
  ASSUME TypeOK, Numbered, Unrevoked, Counting, NEW c \in Clients, NEW new \in Requests,
         req' = [req EXCEPT ![c] = new],
         req[c].op \notin {"hook", "fire"}, new.op \notin {"hook", "fire"},
         new # Idle /\ new.op # "unhook" => new.n \in 1..asked',
         new.op = "update" => new.seen # "none",
         UNCHANGED <<trigger, vault, revoked, fires, burst>>,
         asked' \in {asked, asked + 1}, slips \subseteq slips'
  PROVE  Numbered' /\ Unrevoked' /\ Counting'
<1>1. req'[c] = new /\ \A d \in Clients : d # c => req'[d] = req[d]
  BY ReqType
<1>2. asked \in Nat /\ asked' \in Nat /\ asked <= asked'
  BY RegistryAssumption DEF TypeOK
<1>3. Firing' = Firing /\ Hooking' = Hooking
  BY <1>1 DEF Firing, Hooking
<1>4. Numbered'
  <2>1. trigger.cred \in 0..asked' /\ vault \in 0..asked' /\ revoked \subseteq 1..asked'
    BY <1>2 DEF Numbered
  <2>2. \A d \in Clients : req'[d] # Idle /\ req'[d].op \notin {"fire", "unhook"}
           => req'[d].n \in 1..asked'
    BY <1>1, <1>2 DEF Numbered
  <2>3. \A d \in Firing : req'[d] = req[d]
    BY <1>1 DEF Firing
  <2>4. \A d \in Clients : /\ req'[d].op = "update" => req'[d].seen # "none"
                           /\ req'[d].op = "hook" => req'[d].mode # "none"
    BY <1>1 DEF Numbered
  <2> QED
    BY <1>3, <2>1, <2>2, <2>3, <2>4 DEF Numbered
<1>5. Unrevoked'
  BY <1>1, <1>3 DEF Unrevoked, Hooking
<1>6. Counting'
  BY <1>1, <1>3 DEF Counting, Firing
<1> QED
  BY <1>4, <1>5, <1>6

\* A request that is no edit of the task.
LEMMA EditsKept ==
  ASSUME TypeOK, Edited, NEW c \in Clients, NEW new \in Requests,
         req' = [req EXCEPT ![c] = new],
         req[c].op \notin Edits, new.op \notin Edits,
         UNCHANGED <<file, row, job, listed>>, slips \subseteq slips'
  PROVE  Edited'
<1>1. req'[c] = new /\ \A d \in Clients : d # c => req'[d] = req[d]
  BY ReqType
<1>2. Editing' = Editing /\ \A d \in Editing : req'[d] = req[d]
  BY <1>1 DEF Editing
<1>3. Quiet' => Quiet
  BY DEF Quiet
<1>4. Agree' <=> Agree
  BY DEF Agree
<1>5. \A d \in Editing : Midway(d)' <=> Midway(d)
  BY <1>2, <1>4 DEF Midway
<1> QED
  BY <1>2, <1>3, <1>4, <1>5 DEF Edited

\* The one edit moves on, or begins, or ends.
LEMMA EditMoves ==
  ASSUME TypeOK, Edited, NEW c \in Clients, NEW new \in Requests,
         req' = [req EXCEPT ![c] = new], slips \subseteq slips',
         Quiet' => Editing = {} \/ c \in Editing,
         Quiet' => IF new.op \in Edits THEN Midway(c)' ELSE Agree'
  PROVE  Edited'
<1> SUFFICES ASSUME Quiet'
             PROVE  /\ \A d, e \in Editing' : d = e
                    /\ Editing' = {} => Agree'
                    /\ \A d \in Editing' : Midway(d)'
  BY DEF Edited
<1>1. req'[c] = new /\ \A d \in Clients : d # c => req'[d] = req[d]
  BY ReqType
<1>2. Quiet
  BY DEF Quiet
<1>3. Editing' \subseteq {c}
  BY <1>1, <1>2 DEF Edited, Editing
<1>4. c \in Editing' <=> new.op \in Edits
  BY <1>1 DEF Editing
<1> QED
  BY <1>3, <1>4

-----------------------------------------------------------------------------
(* Edits of the task.                                                      *)

LEMMA BeginInv ==
  ASSUME IInv, NEW c \in Clients, NEW op \in Edits, NEW timed \in BOOLEAN, NEW auto \in BOOLEAN,
         op = "create" => row = NoRow, op = "update" => row # NoRow,
         Begin(c, op, timed, auto)
  PROVE  IInv'
<1> USE DEF IInv
<1>p. PICK new : new = [Idle EXCEPT !.op = op, !.step = "checked", !.timed = timed,
                          !.auto = auto, !.seen = row.state, !.n = asked + 1]
  OBVIOUS
<1>1. /\ req' = [req EXCEPT ![c] = new] /\ asked' = asked + 1 /\ req[c] = Idle
      /\ slips' = (IF Editing = {} THEN slips ELSE slips \cup {"overlap"})
      /\ UNCHANGED <<up, crashes, scheduler, file, row, job, listed, agent, trigger, vault,
                     revoked, fires, burst, opened>>
  BY <1>p DEF Begin, Ask, process, tasks, hooks, fired, Idle
<1>2. asked + 1 \in Content /\ asked' \in 0..MaxRequests /\ asked + 1 \in 1..asked'
  BY <1>1, RegistryAssumption DEF Begin, Ask, TypeOK, Content
<1>3. row.state \in {"none"} \cup RowStates /\ (row # NoRow => row.state # "none")
  BY DEF TypeOK, Rows, NoRow, RowStates
<1>4. /\ new \in Request /\ new.op = op /\ new.step = "checked" /\ new.n = asked + 1
      /\ new.seen = row.state /\ new.timed = timed
  <2>1. new = [op |-> op, step |-> "checked", n |-> asked + 1, timed |-> timed, auto |-> auto,
               seen |-> row.state, total |-> 0, mode |-> "none"]
    BY <1>p DEF Idle
  <2>2. op \in Ops /\ "checked" \in Steps /\ 0 \in 0..MaxFires
    BY RegistryAssumption DEF Ops, Steps
  <2> QED
    BY <1>2, <1>3, <2>1, <2>2 DEF Request
<1>5. TypeOK'
  <2>1. req' \in [Clients -> Requests]
    BY <1>1, <1>4, ReqType DEF Requests
  <2>2. slips' \subseteq Slips
    BY <1>1 DEF TypeOK, Slips
  <2> QED
    BY <1>1, <1>2, <2>1, <2>2 DEF TypeOK
<1>6. Numbered' /\ Unrevoked' /\ Counting'
  BY <1>1, <1>2, <1>3, <1>4, IdleFacts, HooksAndFiresKept DEF Requests, Edits
<1>7. Edited'
  <2>1. Quiet' => Editing = {} /\ Quiet
    BY <1>1 DEF Quiet
  <2>2. Agree' <=> Agree
    BY <1>1 DEF Agree
  <2>3. Quiet' => Midway(c)'
    BY <1>1, <1>4, <2>1, <2>2, ReqType DEF Edited, Midway
  <2> QED
    BY <1>1, <1>4, <2>1, <2>3, EditMoves DEF Requests
<1> QED
  BY <1>5, <1>6, <1>7

\* An edit under way, and what of it stays when it moves on.
LEMMA EditFacts ==
  ASSUME IInv, NEW c \in Clients, NEW op \in Edits, req[c].op = op
  PROVE  /\ req[c] \in Request /\ c \in Editing /\ req[c].n \in Content /\ req[c].n # None
         /\ req[c].n \in 1..asked
         /\ req[c].op \notin {"hook", "fire", "unhook"}
         /\ op = "update" => req[c].seen \in RowStates
         /\ Quiet => Midway(c)
<1>1. req[c] \in Requests /\ req[c] # Idle
  BY ReqType, IdleFacts DEF IInv, Edits
<1>2. req[c] \in Request
  BY <1>1 DEF Requests
<1>3. req[c].n \in 1..asked
  BY <1>1 DEF IInv, Numbered, Edits
<1>4. req[c].n \in Content /\ req[c].n # None
  BY <1>3, RegistryAssumption DEF IInv, TypeOK, Content, None
<1>5. op = "update" => req[c].seen \in RowStates
  BY <1>2 DEF IInv, Numbered, Request
<1> QED
  BY <1>2, <1>3, <1>4, <1>5 DEF IInv, Edited, Editing, Edits

\* What the steps of an edit have in common.
LEMMA EditInv ==
  ASSUME IInv, NEW c \in Clients, req[c].op \in Edits,
         NEW s \in Steps \cup {"none"},
         req' = [req EXCEPT ![c] = IF s = "none" THEN Idle ELSE [req[c] EXCEPT !.step = s]],
         file' \in Files,
         row' \in Rows,
         job' \in {None} \cup Content, listed' \in BOOLEAN,
         slips' \in {slips, slips \cup {"failure"}},
         UNCHANGED <<up, crashes, asked, scheduler, agent, trigger, vault, revoked,
                     fires, burst, opened>>,
         Quiet' => IF s = "none" THEN Agree' ELSE Midway(c)'
  PROVE  IInv'
<1> USE DEF IInv
<1>p. PICK new : new = IF s = "none" THEN Idle ELSE [req[c] EXCEPT !.step = s]
  OBVIOUS
<1>1. /\ req[c] \in Request /\ c \in Editing /\ req[c].n \in 1..asked
      /\ req[c].op \notin {"hook", "fire", "unhook"}
      /\ req[c].op = "update" => req[c].seen \in RowStates
  BY EditFacts
<1>2. /\ new \in Requests /\ (s = "none" => new = Idle /\ new.op \notin Edits)
      /\ s # "none" => new.op = req[c].op /\ new.n = req[c].n /\ new.seen = req[c].seen
  BY <1>p, <1>1, Moved, IdleFacts DEF Requests, Edits
<1>3. req' = [req EXCEPT ![c] = new]
  BY <1>p
<1>4. TypeOK'
  <2>1. req' \in [Clients -> Requests]
    BY <1>2, <1>3, ReqType
  <2>2. slips' \subseteq Slips
    BY DEF TypeOK, Slips
  <2> QED
    BY <2>1, <2>2 DEF TypeOK
<1>5. Numbered' /\ Unrevoked' /\ Counting'
  <2>1. new.op \notin {"hook", "fire"} /\ (new.op = "update" => new.seen # "none")
    BY <1>1, <1>2, IdleFacts DEF RowStates
  <2>2. new # Idle /\ new.op # "unhook" => new.n \in 1..asked'
    BY <1>1, <1>2
  <2> QED
    BY <1>1, <1>2, <1>3, <2>1, <2>2, HooksAndFiresKept
<1>6. Edited'
  <2>1. Quiet' => IF new.op \in Edits THEN Midway(c)' ELSE Agree'
    BY <1>2
  <2> QED
    BY <1>1, <1>2, <1>3, <2>1, EditMoves
<1> QED
  BY <1>4, <1>5, <1>6

LEMMA EditGoes ==
  ASSUME IInv, NEW c \in Clients, req[c].op \in Edits, NEW s \in Steps, Goes(c, s),
         file' \in Files,
         row' \in Rows,
         job' \in {None} \cup Content, listed' \in BOOLEAN,
         slips' \in {slips, slips \cup {"failure"}},
         UNCHANGED <<up, crashes, asked, scheduler, agent, trigger, vault, revoked,
                     fires, burst, opened>>,
         ASSUME Quiet', Quiet, Midway(c), req'[c] \in Request, req'[c].step = s,
                req'[c].op = req[c].op, req'[c].n = req[c].n, req'[c].timed = req[c].timed
         PROVE  Midway(c)'
  PROVE  IInv'
<1>1. s # "none"
  BY DEF Steps
<1>2. req[c] \in Request /\ (Quiet => Midway(c)) /\ (Quiet' => Quiet)
  BY EditFacts DEF Quiet
<1>3. req'[c] = [req[c] EXCEPT !.step = s]
  BY ReqType DEF IInv, Goes
<1>4. Quiet' => Midway(c)'
  BY <1>2, <1>3, Moved
<1>5. req' = [req EXCEPT ![c] = IF s = "none" THEN Idle ELSE [req[c] EXCEPT !.step = s]]
  BY <1>1 DEF Goes
<1> QED
  BY <1>1, <1>4, <1>5, EditInv

LEMMA EditEnds ==
  ASSUME IInv, NEW c \in Clients, req[c].op \in Edits, Answer(c),
         file' \in Files,
         row' \in Rows,
         job' \in {None} \cup Content, listed' \in BOOLEAN,
         slips' \in {slips, slips \cup {"failure"}},
         UNCHANGED <<up, crashes, asked, scheduler, agent, trigger, vault, revoked,
                     fires, burst, opened>>,
         ASSUME Quiet', Quiet, Midway(c)
         PROVE  Agree'
  PROVE  IInv'
<1> PICK s \in Steps \cup {"none"} : s = "none"
  OBVIOUS
<1>1. (Quiet => Midway(c)) /\ (Quiet' => Quiet)
  BY EditFacts DEF Quiet
<1>2. req' = [req EXCEPT ![c] = IF s = "none" THEN Idle ELSE [req[c] EXCEPT !.step = s]]
  BY DEF Answer
<1>3. Quiet' => IF s = "none" THEN Agree' ELSE Midway(c)'
  BY <1>1
<1> QED
  BY <1>2, <1>3, EditInv

LEMMA TaskTypes ==
  ASSUME TypeOK
  PROVE  /\ row \in Rows
         /\ job \in {None} \cup Content /\ listed \in BOOLEAN
         /\ file \in Files
BY DEF TypeOK

LEMMA WriteInv ==
  ASSUME IInv, NEW c \in Clients, WriteTask(c)
  PROVE  IInv'
<1>1. /\ req[c].op \in Edits /\ req[c].step = "checked" /\ Goes(c, "written")
      /\ file' = [text |-> req[c].n, timed |-> req[c].timed]
      /\ UNCHANGED <<up, crashes, asked, scheduler, row, job, listed, agent, trigger, vault,
                     revoked, fires, burst, opened, slips>>
  BY DEF WriteTask, At, process, hooks, fired
<1>2. file' \in Files
  BY <1>1, EditFacts DEF Request, Files
<1>3. ASSUME Midway(c), req'[c].step = "written", req'[c].op = req[c].op, req'[c].n = req[c].n,
             req'[c].timed = req[c].timed
      PROVE  Midway(c)'
  <2>1. Agree /\ (req[c].op = "create" => row = NoRow)
    BY <1>1, <1>3 DEF Midway
  <2>2. req[c].op = "create" => job = None
    BY <2>1 DEF Agree, NoRow
  <2>3. job' # None <=> listed'
    BY <1>1, <2>1 DEF Agree
  <2> QED
    BY <1>1, <1>3, <2>2, <2>3 DEF Midway
<1>4. "written" \in Steps
  BY DEF Steps
<1> QED
  BY <1>1, <1>2, <1>3, <1>4, TaskTypes, EditGoes DEF IInv

LEMMA WriteFailsInv ==
  ASSUME IInv, NEW c \in Clients, WriteFails(c)
  PROVE  IInv'
<1>1. /\ req[c].op \in Edits /\ Answer(c) /\ slips' = slips \cup {"failure"}
      /\ file' \in {Garbled, NoFile, file}
      /\ UNCHANGED <<up, crashes, asked, scheduler, row, job, listed, agent, trigger, vault,
                     revoked, fires, burst, opened>>
  BY DEF WriteFails, At, process, hooks, fired
<1>2. file' \in Files
  <2>1. Garbled \in Files
    BY DEF Garbled, Files
  <2>2. NoFile \in Files
    BY DEF NoFile, Files
  <2> QED
    BY <1>1, <2>1, <2>2, TaskTypes DEF IInv
<1>3. ~Quiet'
  BY <1>1 DEF Quiet
<1> QED
  BY <1>1, <1>2, <1>3, TaskTypes, EditEnds DEF IInv

LEMMA StoreInv ==
  ASSUME IInv, NEW c \in Clients, StoreRow(c)
  PROVE  IInv'
<1>1. /\ req[c].op \in Edits /\ req[c].step = "written" /\ Goes(c, "stored")
      /\ row' = [text |-> req[c].n,
                 state |-> IF req[c].op = "update" THEN req[c].seen
                           ELSE IF req[c].auto /\ req[c].timed THEN "scheduled" ELSE "created"]
      /\ UNCHANGED <<up, crashes, asked, scheduler, file, job, listed, agent, trigger, vault,
                     revoked, fires, burst, opened, slips>>
  BY DEF StoreRow, At, process, hooks, fired
<1>2. row' \in [text : Content, state : RowStates] /\ row'.text = req[c].n
  BY <1>1, EditFacts DEF RowStates
<1>3. ASSUME Midway(c), req'[c].step = "stored", req'[c].op = req[c].op, req'[c].n = req[c].n,
             req'[c].timed = req[c].timed
      PROVE  Midway(c)'
  BY <1>1, <1>2, <1>3 DEF Midway
<1>4. "stored" \in Steps
  BY DEF Steps
<1> QED
  BY <1>1, <1>2, <1>3, <1>4, TaskTypes, EditGoes DEF IInv, Rows

LEMMA RefusedInv ==
  ASSUME IInv, NEW c \in Clients, StoreFails(c) \/ AddFails(c)
  PROVE  IInv'
<1>1. /\ req[c].op \in Edits /\ Answer(c) /\ slips' = slips \cup {"failure"}
      /\ UNCHANGED <<up, crashes, asked, scheduler, file, row, job, listed, agent, trigger,
                     vault, revoked, fires, burst, opened>>
  BY DEF StoreFails, AddFails, Schedules, At, Edits, process, tasks, hooks, fired
<1>2. ~Quiet'
  BY <1>1 DEF Quiet
<1> QED
  BY <1>1, <1>2, TaskTypes, EditEnds DEF IInv

LEMMA LeaveInv ==
  ASSUME IInv, NEW c \in Clients, LeaveJobs(c) \/ SkipJob(c)
  PROVE  IInv'
<1>1. /\ req[c].op \in Edits /\ Answer(c)
      /\ UNCHANGED <<up, crashes, asked, scheduler, file, row, job, listed, agent, trigger,
                     vault, revoked, fires, burst, opened>>
      /\ slips' \in {slips, slips \cup {"failure"}}
  BY DEF LeaveJobs, SkipJob, At, Edits, process, tasks, hooks, fired
<1>2. ASSUME Quiet', Quiet, Midway(c)
      PROVE  Agree'
  <2>1. CASE LeaveJobs(c)
    <3>1. scheduler /\ req[c].op = "create" /\ req[c].step = "stored"
      BY <1>2, <2>1 DEF LeaveJobs, At, Quiet
    <3> QED
      BY <1>1, <1>2, <3>1, EditFacts DEF Midway, Agree
  <2>2. CASE SkipJob(c)
    <3>1. req[c].step = "unlisted"
      BY <2>2 DEF SkipJob, At
    <3> QED
      BY <1>1, <1>2, <3>1, EditFacts DEF Midway, Agree
  <2> QED
    BY <2>1, <2>2
<1> QED
  BY <1>1, <1>2, TaskTypes, EditEnds DEF IInv

LEMMA ClearInv ==
  ASSUME IInv, NEW c \in Clients, RemoveJob(c)
  PROVE  IInv'
<1>1. /\ req[c].op \in Edits /\ req[c].step = "stored" /\ Goes(c, "cleared") /\ job' = None
      /\ UNCHANGED <<up, crashes, asked, scheduler, file, row, listed, agent, trigger, vault,
                     revoked, fires, burst, opened, slips>>
  BY DEF RemoveJob, At, Edits, process, hooks, fired
<1>2. ASSUME Midway(c), req'[c].step = "cleared", req'[c].op = req[c].op, req'[c].n = req[c].n,
             req'[c].timed = req[c].timed
      PROVE  Midway(c)'
  BY <1>1, <1>2 DEF Midway
<1>3. "cleared" \in Steps
  BY DEF Steps
<1> QED
  BY <1>1, <1>2, <1>3, TaskTypes, EditGoes DEF IInv

LEMMA UnlistInv ==
  ASSUME IInv, NEW c \in Clients, NEW fails \in BOOLEAN, Unlist(c, fails)
  PROVE  IInv'
<1>1. /\ req[c].op \in Edits /\ req[c].step = "cleared" /\ Goes(c, "unlisted")
      /\ listed' = (listed /\ fails)
      /\ slips' = (IF fails THEN slips \cup {"failure"} ELSE slips)
      /\ UNCHANGED <<up, crashes, asked, scheduler, file, row, job, agent, trigger, vault,
                     revoked, fires, burst, opened>>
  BY DEF Unlist, At, Edits, process, hooks, fired
<1>2. ASSUME Quiet', Midway(c), req'[c].step = "unlisted", req'[c].op = req[c].op,
             req'[c].n = req[c].n, req'[c].timed = req[c].timed
      PROVE  Midway(c)'
  <2>1. ~fails
    BY <1>1, <1>2 DEF Quiet
  <2> QED
    BY <1>1, <1>2, <2>1 DEF Midway
<1>3. "unlisted" \in Steps /\ listed' \in BOOLEAN /\ slips' \in {slips, slips \cup {"failure"}}
  BY <1>1 DEF Steps
<1> QED
  BY <1>1, <1>2, <1>3, TaskTypes, EditGoes DEF IInv

LEMMA AddInv ==
  ASSUME IInv, NEW c \in Clients, AddJob(c)
  PROVE  IInv'
<1>1. /\ req[c].op \in Edits /\ req[c].step \in {"stored", "unlisted"} /\ Goes(c, "added")
      /\ req[c].timed /\ job' = req[c].n
      /\ UNCHANGED <<up, crashes, asked, scheduler, file, row, listed, agent, trigger, vault,
                     revoked, fires, burst, opened, slips>>
  BY DEF AddJob, Schedules, At, Edits, process, hooks, fired
<1>2. ASSUME Midway(c), req'[c].step = "added", req'[c].op = req[c].op, req'[c].n = req[c].n,
             req'[c].timed = req[c].timed
      PROVE  Midway(c)'
  BY <1>1, <1>2 DEF Midway
<1>3. "added" \in Steps /\ job' \in Content
  BY <1>1, EditFacts DEF Steps
<1> QED
  BY <1>1, <1>2, <1>3, TaskTypes, EditGoes DEF IInv

LEMMA ListInv ==
  ASSUME IInv, NEW c \in Clients, NEW fails \in BOOLEAN, List(c, fails)
  PROVE  IInv'
<1>1. /\ req[c].op \in Edits /\ req[c].step = "added" /\ Answer(c)
      /\ listed' = (listed \/ ~fails)
      /\ slips' = (IF fails THEN slips \cup {"failure"} ELSE slips)
      /\ UNCHANGED <<up, crashes, asked, scheduler, file, row, job, agent, trigger, vault,
                     revoked, fires, burst, opened>>
  BY DEF List, At, process, hooks, fired
<1>2. ASSUME Quiet', Midway(c)
      PROVE  Agree'
  <2>1. listed'
    BY <1>1, <1>2 DEF Quiet
  <2>2. file.text = row.text /\ job = row.text /\ job # None /\ file.timed
    BY <1>1, <1>2, EditFacts DEF Midway
  <2> QED
    BY <1>1, <2>1, <2>2 DEF Agree
<1>3. listed' \in BOOLEAN /\ slips' \in {slips, slips \cup {"failure"}}
  BY <1>1
<1> QED
  BY <1>1, <1>2, <1>3, TaskTypes, EditEnds DEF IInv

-----------------------------------------------------------------------------
(* The agent.                                                              *)

\* A request that is neither edit of the task, creation of a trigger nor fire.
LEMMA OtherInv ==
  ASSUME IInv, NEW c \in Clients, NEW new \in Requests, req' = [req EXCEPT ![c] = new],
         req[c].op \notin Edits \cup {"hook", "fire"}, new.op \notin Edits \cup {"hook", "fire"},
         new # Idle /\ new.op # "unhook" => new.n \in 1..asked',
         agent' \in Agents,
         asked' \in {asked, asked + 1}, asked' <= MaxRequests,
         UNCHANGED <<up, crashes, scheduler, file, row, job, listed, trigger, vault, revoked,
                     fires, burst, opened, slips>>
  PROVE  IInv'
<1> USE DEF IInv
<1>1. TypeOK'
  <2>1. req' \in [Clients -> Requests]
    BY ReqType
  <2>2. asked' \in 0..MaxRequests
    BY RegistryAssumption DEF TypeOK
  <2> QED
    BY <2>1, <2>2 DEF TypeOK
<1>2. Numbered' /\ Unrevoked' /\ Counting'
  BY HooksAndFiresKept DEF Edits
<1>3. Edited'
  BY EditsKept
<1> QED
  BY <1>1, <1>2, <1>3

LEMMA AskFacts ==
  ASSUME IInv, NEW c \in Clients, NEW r, Ask(c, r)
  PROVE  /\ req[c] = Idle /\ req[c].op = "idle" /\ asked' = asked + 1
         /\ asked' \in Content /\ asked' <= MaxRequests /\ asked' \in 1..asked'
         /\ req' = [req EXCEPT ![c] = [r EXCEPT !.n = asked + 1]]
BY RegistryAssumption, IdleFacts DEF IInv, TypeOK, Ask, Content

LEMMA AgentInv ==
  ASSUME IInv, NEW c \in Clients, WriteYaml(c) \/ PatchProvider(c) \/ PatchMemory(c)
  PROVE  IInv'
<1>1. PICK s \in {"written", "stored"}, ok \in BOOLEAN :
         /\ Ask(c, [Idle EXCEPT !.op = "agent", !.step = s])
         /\ agent' = [agent EXCEPT !.text = asked + 1, !.valid = ok]
         /\ UNCHANGED <<up, crashes, scheduler, file, row, job, listed, trigger, vault, revoked,
                        fires, burst, opened, slips>>
  BY DEF WriteYaml, PatchProvider, PatchMemory, process, tasks, hooks, fired
<1>2. PICK new : new = [[Idle EXCEPT !.op = "agent", !.step = s] EXCEPT !.n = asked + 1]
  OBVIOUS
<1>3. /\ req' = [req EXCEPT ![c] = new] /\ req[c].op = "idle" /\ asked' = asked + 1
      /\ asked + 1 \in Content /\ asked' <= MaxRequests /\ asked' \in 1..asked'
  BY <1>1, <1>2, AskFacts
<1>4. new \in Requests /\ new.op = "agent" /\ new.n = asked + 1
  <2>1. new = [op |-> "agent", step |-> s, n |-> asked + 1, timed |-> FALSE, auto |-> FALSE,
               seen |-> "none", total |-> 0, mode |-> "none"]
    BY <1>2 DEF Idle
  <2>2. "agent" \in Ops /\ s \in Steps /\ 0 \in 0..MaxFires
    BY RegistryAssumption DEF Ops, Steps
  <2> QED
    BY <1>3, <2>1, <2>2 DEF Requests, Request
<1>5. agent' \in Agents
  BY <1>1, <1>3 DEF IInv, TypeOK, Agents
<1> QED
  BY <1>1, <1>3, <1>4, <1>5, OtherInv DEF Edits

LEMMA AgentDoneInv ==
  ASSUME IInv, NEW c \in Clients, StoreAgent(c) \/ AnswerAgent(c)
  PROVE  IInv'
<1>1. /\ agent' \in {agent, [agent EXCEPT !.row = req[c].n]}
      /\ UNCHANGED <<up, crashes, asked, scheduler, file, row, job, listed, trigger, vault,
                     revoked, fires, burst, opened, slips>>
  BY DEF StoreAgent, AnswerAgent, At, process, tasks, hooks, fired
<1>2. req[c].op = "agent" /\ (Goes(c, "stored") \/ Answer(c))
  BY DEF StoreAgent, AnswerAgent, At
<1>3. req[c] \in Request /\ req[c].n \in 1..asked /\ req[c] # Idle
  <2>1. req[c] # Idle /\ req[c] \in Requests
    BY <1>2, ReqType, IdleFacts DEF IInv
  <2> QED
    BY <1>2, <2>1 DEF IInv, Numbered, Requests
<1>4. agent' \in Agents
  BY <1>1, <1>3 DEF IInv, TypeOK, Agents, Request
<1>5. PICK new \in Requests :
         /\ req' = [req EXCEPT ![c] = new]
         /\ new = Idle \/ (new.op = "agent" /\ new.n = req[c].n)
  <2>1. CASE Goes(c, "stored")
    <3>1. "stored" \in Steps
      BY DEF Steps
    <3> PICK new : new = [req[c] EXCEPT !.step = "stored"]
      OBVIOUS
    <3>2. new \in Requests /\ new.op = "agent" /\ new.n = req[c].n
      BY <1>2, <1>3, <3>1, Moved DEF Requests
    <3>3. req' = [req EXCEPT ![c] = new]
      BY <2>1 DEF Goes
    <3> QED
      BY <3>2, <3>3
  <2>2. CASE Answer(c)
    BY <2>2 DEF Answer, Requests
  <2> QED
    BY <1>2, <2>1, <2>2
<1>6. new.op \notin Edits \cup {"hook", "fire"} /\ (new # Idle => new.n \in 1..asked)
  BY <1>3, <1>5, IdleFacts DEF Edits
<1>7. asked' \in {asked, asked + 1} /\ asked' <= MaxRequests
  BY <1>1, RegistryAssumption DEF IInv, TypeOK
<1> QED
  BY <1>1, <1>2, <1>4, <1>5, <1>6, <1>7, OtherInv DEF Edits

-----------------------------------------------------------------------------
(* The trigger.                                                            *)

LEMMA DrawInv ==
  ASSUME IInv, NEW c \in Clients, NEW mode \in Modes, DrawSecret(c, mode)
  PROVE  IInv'
<1> USE DEF IInv
<1>p. PICK new : new = [[Idle EXCEPT !.op = "hook", !.step = "secret", !.mode = mode]
                            EXCEPT !.n = asked + 1]
  OBVIOUS
<1>1. /\ Ask(c, [Idle EXCEPT !.op = "hook", !.step = "secret", !.mode = mode])
      /\ vault' = (IF mode = "hmac" THEN asked + 1 ELSE vault)
      /\ slips' = (IF Hooking = {} THEN slips ELSE slips \cup {"twins"})
      /\ UNCHANGED <<up, crashes, scheduler, file, row, job, listed, agent, trigger, revoked,
                     fires, burst, opened>>
  BY DEF DrawSecret, process, tasks, fired
<1>2. /\ req' = [req EXCEPT ![c] = new] /\ req[c] = Idle /\ req[c].op = "idle"
      /\ asked' = asked + 1 /\ asked + 1 \in Content /\ asked' <= MaxRequests /\ asked' \in 1..asked'
  BY <1>1, <1>p, AskFacts
<1>3. /\ new \in Requests /\ new.op = "hook" /\ new.n = asked + 1 /\ new.mode = mode
  <2>1. new = [op |-> "hook", step |-> "secret", n |-> asked + 1, timed |-> FALSE,
               auto |-> FALSE, seen |-> "none", total |-> 0, mode |-> mode]
    BY <1>p DEF Idle
  <2>2. "hook" \in Ops /\ "secret" \in Steps /\ 0 \in 0..MaxFires
    BY RegistryAssumption DEF Ops, Steps
  <2> QED
    BY <1>2, <2>1, <2>2 DEF Requests, Request
<1>4. req'[c] = new /\ \A d \in Clients : d # c => req'[d] = req[d]
  BY <1>2, ReqType
<1>5. TypeOK'
  <2>1. req' \in [Clients -> Requests]
    BY <1>2, <1>3, ReqType
  <2>2. asked' \in 0..MaxRequests /\ vault' \in {None} \cup Content
    BY <1>1, <1>2, RegistryAssumption DEF TypeOK
  <2>3. slips' \subseteq Slips
    BY <1>1 DEF TypeOK, Slips
  <2> QED
    BY <1>1, <2>1, <2>2, <2>3 DEF TypeOK
<1>6. Firing' = Firing /\ \A d \in Firing : req'[d] = req[d]
  BY <1>2, <1>3, <1>4 DEF Firing
<1>a. asked \in Nat /\ asked + 1 \in Nat
  BY RegistryAssumption DEF TypeOK
<1>7. Numbered'
  <2>1. trigger'.cred \in 0..asked' /\ vault' \in 0..asked' /\ revoked' \subseteq 1..asked'
    BY <1>1, <1>2, <1>a DEF Numbered
  <2>2. \A d \in Clients : req'[d] # Idle /\ req'[d].op \notin {"fire", "unhook"}
           => req'[d].n \in 1..asked'
    BY <1>2, <1>3, <1>4, <1>a DEF Numbered
  <2>3. \A d \in Clients : /\ req'[d].op = "update" => req'[d].seen # "none"
                           /\ req'[d].op = "hook" => req'[d].mode # "none"
    BY <1>3, <1>4 DEF Numbered, Modes
  <2> QED
    BY <1>1, <1>6, <2>1, <2>2, <2>3 DEF Numbered
<1>8. Unrevoked'
  <2> SUFFICES ASSUME "twins" \notin slips'
               PROVE  /\ \A d, e \in Hooking' : d = e
                      /\ trigger.cred \notin revoked
                      /\ trigger.mode = "hmac" => vault' \notin revoked
                      /\ \A d \in Hooking' : /\ req'[d].n \notin revoked \cup {trigger.cred}
                                             /\ req'[d].mode = "hmac" => vault' \in {None, req'[d].n}
    BY <1>1 DEF Unrevoked
  <2>1. Hooking = {} /\ "twins" \notin slips
    BY <1>1
  <2>2. Hooking' = {c}
    BY <1>3, <1>4, <2>1 DEF Hooking
  <2>3. asked + 1 \notin revoked /\ asked + 1 # trigger.cred
    BY <1>a DEF Numbered
  <2>4. trigger.cred \notin revoked /\ (trigger.mode = "hmac" => vault \notin revoked)
    BY <2>1 DEF Unrevoked
  <2>5. req'[c].n = asked + 1 /\ (req'[c].mode = "hmac" => vault' = asked + 1)
    BY <1>1, <1>3, <1>4
  <2>6. vault' \in {vault, asked + 1}
    BY <1>1
  <2> QED
    BY <2>2, <2>3, <2>4, <2>5, <2>6
<1>9. Counting'
  BY <1>1, <1>6 DEF Counting
<1>10. Edited'
  BY <1>1, <1>2, <1>3, EditsKept DEF Edits
<1> QED
  BY <1>5, <1>7, <1>8, <1>9, <1>10

LEMMA InsertInv ==
  ASSUME IInv, NEW c \in Clients, InsertHook(c)
  PROVE  IInv'
<1> USE DEF IInv
<1>1. /\ req[c].op = "hook" /\ req' = [req EXCEPT ![c] = Idle]
      /\ trigger' = trigger \/ trigger' = [mode |-> req[c].mode, cred |-> req[c].n, total |-> 0,
                                           recent |-> FALSE]
      /\ UNCHANGED <<up, crashes, asked, scheduler, file, row, job, listed, agent, vault, revoked,
                     fires, burst, opened, slips>>
  BY DEF InsertHook, At, Answer, process, tasks, fired
<1>2. /\ req[c] \in Request /\ c \in Hooking /\ req[c].n \in 1..asked /\ req[c].n \in Content
      /\ req[c].mode \in Modes
  <2>1. req[c] # Idle /\ req[c] \in Requests
    BY <1>1, ReqType, IdleFacts
  <2>2. req[c] \in Request /\ req[c].n \in 1..asked /\ req[c].mode # "none"
    BY <1>1, <2>1 DEF Numbered, Requests
  <2>3. req[c].n \in Content /\ req[c].mode \in Modes
    BY <2>2, RegistryAssumption DEF Request, TypeOK, Content
  <2> QED
    BY <1>1, <2>2, <2>3 DEF Hooking
<1>3. req'[c] = Idle /\ \A d \in Clients : d # c => req'[d] = req[d]
  BY <1>1, ReqType
<1>4. Idle \in Requests /\ Idle.op = "idle"
  BY IdleFacts DEF Requests
<1>5. Firing' = Firing /\ (\A d \in Firing : req'[d] = req[d]) /\ Hooking' = Hooking \ {c}
  BY <1>1, <1>3, <1>4 DEF Firing, Hooking
<1>6. 0 \in 0..MaxFires /\ fires \in Nat /\ asked \in Nat
  BY RegistryAssumption DEF TypeOK
<1>7. TypeOK'
  <2>1. req' \in [Clients -> Requests]
    BY <1>1, <1>4, ReqType
  <2>2. trigger' \in Triggers
    <3>1. CASE trigger' = trigger
      BY <3>1 DEF TypeOK
    <3>2. CASE trigger' = [mode |-> req[c].mode, cred |-> req[c].n, total |-> 0, recent |-> FALSE]
      BY <1>2, <1>6, <3>2 DEF Triggers
    <3> QED
      BY <1>1, <3>1, <3>2
  <2> QED
    BY <1>1, <2>1, <2>2 DEF TypeOK
<1>8. Numbered'
  <2>1. trigger'.cred \in 0..asked' /\ vault' \in 0..asked' /\ revoked' \subseteq 1..asked'
        /\ trigger'.total <= fires
    BY <1>1, <1>2, <1>6 DEF Numbered
  <2>2. \A d \in Clients : req'[d] # Idle => req'[d] = req[d]
    BY <1>3
  <2>3. \A d \in Clients : /\ req'[d].op = "update" => req'[d].seen # "none"
                           /\ req'[d].op = "hook" => req'[d].mode # "none"
    BY <1>3, <1>4 DEF Numbered
  <2> QED
    BY <1>1, <1>5, <2>1, <2>2, <2>3 DEF Numbered
<1>9. Unrevoked'
  <2> SUFFICES ASSUME "twins" \notin slips
               PROVE  /\ Hooking' = {}
                      /\ trigger'.cred \notin revoked
                      /\ trigger'.mode = "hmac" => vault \notin revoked
    BY <1>1 DEF Unrevoked
  <2>1. Hooking' = {}
    BY <1>2, <1>5 DEF Unrevoked
  <2>2. req[c].n \notin revoked /\ (req[c].mode = "hmac" => vault \in {None, req[c].n})
        /\ trigger.cred \notin revoked /\ (trigger.mode = "hmac" => vault \notin revoked)
    BY <1>2 DEF Unrevoked
  <2>3. None \notin revoked
    BY <1>6 DEF Numbered, None
  <2> QED
    BY <1>1, <2>1, <2>2, <2>3
<1>10. Counting'
  <2>1. trigger' = trigger \/ ~trigger'.recent
    BY <1>1
  <2> QED
    BY <1>1, <1>5, <2>1 DEF Counting
<1>11. Edited'
  BY <1>1, <1>4, EditsKept DEF Edits
<1> QED
  BY <1>7, <1>8, <1>9, <1>10, <1>11

LEMMA DeleteHookInv ==
  ASSUME IInv, NEW c \in Clients, DeleteHook(c)
  PROVE  IInv'
<1> USE DEF IInv
<1>p. PICK new : new = [Idle EXCEPT !.op = "unhook", !.step = "removed", !.mode = trigger.mode]
  OBVIOUS
<1>1. /\ req[c] = Idle /\ trigger # NoTrigger /\ trigger' = NoTrigger
      /\ revoked' = revoked \cup {trigger.cred} /\ req' = [req EXCEPT ![c] = new]
      /\ UNCHANGED <<up, crashes, asked, scheduler, file, row, job, listed, agent, vault,
                     fires, burst, opened, slips>>
  BY <1>p DEF DeleteHook, process, tasks, fired
<1>2. /\ trigger.cred \in Content /\ trigger.mode \in Modes /\ trigger.cred \in 1..asked
      /\ asked \in Nat /\ fires \in Nat /\ 0 \in 0..MaxFires
  <2>1. trigger.cred \in Content /\ trigger.mode \in Modes
    BY <1>1 DEF TypeOK, Triggers
  <2> QED
    BY <2>1, RegistryAssumption DEF TypeOK, Numbered, Content
<1>3. new \in Requests /\ new.op = "unhook"
  <2>1. new = [op |-> "unhook", step |-> "removed", n |-> None, timed |-> FALSE,
               auto |-> FALSE, seen |-> "none", total |-> 0, mode |-> trigger.mode]
    BY <1>p DEF Idle
  <2>2. "unhook" \in Ops /\ "removed" \in Steps
    BY DEF Ops, Steps
  <2> QED
    BY <1>2, <2>1, <2>2 DEF Requests, Request
<1>4. req'[c] = new /\ \A d \in Clients : d # c => req'[d] = req[d]
  BY <1>1, ReqType
<1>5. /\ Firing' = Firing /\ (\A d \in Firing : req'[d] = req[d])
      /\ Hooking' = Hooking /\ (\A d \in Hooking : req'[d] = req[d])
  BY <1>1, <1>3, <1>4, IdleFacts DEF Firing, Hooking
<1>6. NoTrigger.cred = None /\ NoTrigger.total = 0 /\ NoTrigger.recent = FALSE
      /\ NoTrigger.mode = "none" /\ None = 0
  BY DEF NoTrigger, None
<1>7. TypeOK'
  <2>1. req' \in [Clients -> Requests]
    BY <1>1, <1>3, ReqType
  <2>2. trigger' \in Triggers /\ revoked' \subseteq Content
    BY <1>1, <1>2 DEF TypeOK, Triggers
  <2> QED
    BY <1>1, <1>2, <2>1, <2>2 DEF TypeOK
<1>8. Numbered'
  <2>1. trigger'.cred \in 0..asked' /\ vault' \in 0..asked' /\ revoked' \subseteq 1..asked'
        /\ trigger'.total <= fires
    <3>1. trigger'.cred = 0 /\ trigger'.total = 0
      BY <1>1, <1>6
    <3>2. vault \in 0..asked /\ revoked' \subseteq 1..asked
      BY <1>1, <1>2 DEF Numbered
    <3> QED
      BY <1>1, <1>2, <3>1, <3>2
  <2>2. \A d \in Clients : req'[d].op # "unhook" => req'[d] = req[d]
    BY <1>3, <1>4
  <2> QED
    BY <1>1, <1>5, <2>1, <2>2 DEF Numbered
<1>9. Unrevoked'
  <2> SUFFICES ASSUME "twins" \notin slips PROVE Unrevoked'
    BY <1>1 DEF Unrevoked
  <2>1. \A d \in Hooking : /\ req[d].n \notin revoked \cup {trigger.cred}
                           /\ req[d].n \in 1..asked
                           /\ req[d].mode = "hmac" => vault \in {None, req[d].n}
    BY IdleFacts DEF Unrevoked, Numbered, Hooking
  <2>2. None \notin revoked'
    BY <1>1, <1>2, <1>6 DEF Numbered
  <2>3. \A d \in Hooking : req[d].n \notin revoked' \cup {trigger'.cred}
    BY <1>1, <1>6, <2>1
  <2> QED
    BY <1>1, <1>5, <1>6, <2>1, <2>2, <2>3 DEF Unrevoked
<1>10. Counting'
  BY <1>1, <1>5, <1>6 DEF Counting
<1>11. Edited'
  BY <1>1, <1>3, IdleFacts, EditsKept DEF Edits
<1> QED
  BY <1>7, <1>8, <1>9, <1>10, <1>11

LEMMA DeleteSecretInv ==
  ASSUME IInv, NEW c \in Clients, NEW fails \in BOOLEAN, DeleteSecret(c, fails)
  PROVE  IInv'
<1> USE DEF IInv
<1>1. /\ req[c].op = "unhook" /\ req' = [req EXCEPT ![c] = Idle] /\ vault' \in {vault, None}
      /\ UNCHANGED <<up, crashes, asked, scheduler, file, row, job, listed, agent, trigger,
                     revoked, fires, burst, opened, slips>>
  BY DEF DeleteSecret, At, Answer, process, tasks, fired
<1>2. req'[c] = Idle /\ \A d \in Clients : d # c => req'[d] = req[d]
  BY <1>1, ReqType
<1>3. Idle \in Requests /\ Idle.op = "idle"
  BY IdleFacts DEF Requests
<1>4. /\ Firing' = Firing /\ (\A d \in Firing : req'[d] = req[d])
      /\ Hooking' = Hooking /\ (\A d \in Hooking : req'[d] = req[d])
  BY <1>1, <1>2, <1>3 DEF Firing, Hooking
<1>5. None \notin revoked /\ None \in 0..asked
  BY RegistryAssumption DEF Numbered, None, TypeOK
<1>6. TypeOK'
  <2>1. req' \in [Clients -> Requests]
    BY <1>1, <1>3, ReqType
  <2> QED
    BY <1>1, <2>1 DEF TypeOK
<1>7. Numbered'
  BY <1>1, <1>2, <1>3, <1>4, <1>5 DEF Numbered
<1>8. Unrevoked'
  BY <1>1, <1>4, <1>5 DEF Unrevoked
<1>9. Counting'
  BY <1>1, <1>4 DEF Counting
<1>10. Edited'
  BY <1>1, <1>3, EditsKept DEF Edits
<1> QED
  BY <1>6, <1>7, <1>8, <1>9, <1>10

-----------------------------------------------------------------------------
(* Its fires.                                                              *)

LEMMA VerifyInv ==
  ASSUME IInv, NEW c \in Clients, NEW k \in Content, Verify(c, k)
  PROVE  IInv'
<1> USE DEF IInv
<1>p. PICK new : new = [Idle EXCEPT !.op = "fire", !.step = "verified", !.n = k,
                                    !.total = trigger.total, !.mode = trigger.mode]
  OBVIOUS
<1>1. /\ req[c] = Idle /\ fires + Cardinality(Firing) < MaxFires /\ trigger # NoTrigger
      /\ (trigger.recent => trigger.total < Limit) /\ opened' = k
      /\ req' = [req EXCEPT ![c] = new]
      /\ slips' = (IF Firing = {} THEN slips ELSE slips \cup {"flood"})
      /\ UNCHANGED <<up, crashes, asked, scheduler, file, row, job, listed, agent, trigger, vault,
                     revoked, fires, burst>>
  BY <1>p DEF Verify, WithinLimit, process, tasks, hooks
<1>2. trigger.total \in 0..MaxFires /\ trigger.mode \in Modes
  BY <1>1 DEF TypeOK, Triggers
<1>3. new \in Requests /\ new.op = "fire" /\ new.total = trigger.total
  <2>1. new = [op |-> "fire", step |-> "verified", n |-> k, timed |-> FALSE,
               auto |-> FALSE, seen |-> "none", total |-> trigger.total, mode |-> trigger.mode]
    BY <1>p DEF Idle
  <2>2. "fire" \in Ops /\ "verified" \in Steps
    BY DEF Ops, Steps
  <2> QED
    BY <1>2, <2>1, <2>2 DEF Requests, Request
<1>4. req'[c] = new /\ \A d \in Clients : d # c => req'[d] = req[d]
  BY <1>1, ReqType
<1>5. /\ Firing' = Firing \cup {c} /\ c \notin Firing /\ (\A d \in Firing : req'[d] = req[d])
      /\ Hooking' = Hooking /\ (\A d \in Hooking : req'[d] = req[d])
  BY <1>1, <1>3, <1>4, IdleFacts DEF Firing, Hooking
<1>6. TypeOK'
  <2>1. req' \in [Clients -> Requests]
    BY <1>1, <1>3, ReqType
  <2>2. slips' \subseteq Slips
    BY <1>1 DEF TypeOK, Slips
  <2> QED
    BY <1>1, <2>1, <2>2 DEF TypeOK
<1>7. Numbered'
  <2>1. Cardinality(Firing') = Cardinality(Firing) + 1
    BY <1>5, FiringFacts, FS_AddElement
  <2>2. fires + Cardinality(Firing') <= MaxFires
    BY <1>1, <2>1, FiringFacts, RegistryAssumption DEF TypeOK
  <2>3. \A d \in Clients : req'[d].op # "fire" => req'[d] = req[d]
    BY <1>3, <1>4
  <2>4. \A d \in Firing' : req'[d].total <= fires
    BY <1>3, <1>4, <1>5 DEF Numbered
  <2> QED
    BY <1>1, <2>2, <2>3, <2>4 DEF Numbered
<1>8. Unrevoked'
  BY <1>1, <1>5 DEF Unrevoked
<1>9. Counting'
  <2> SUFFICES ASSUME "flood" \notin slips' PROVE Counting'
    BY DEF Counting
  <2>1. Firing = {} /\ "flood" \notin slips
    BY <1>1
  <2>2. Firing' = {c} /\ req'[c].total = trigger.total
    BY <1>3, <1>4, <1>5, <2>1
  <2> QED
    BY <1>1, <2>1, <2>2 DEF Counting
<1>10. Edited'
  BY <1>1, <1>3, IdleFacts, EditsKept DEF Edits
<1> QED
  BY <1>6, <1>7, <1>8, <1>9, <1>10

LEMMA FireEndsInv ==
  ASSUME IInv, NEW c \in Clients, CountFire(c) \/ FireStops(c)
  PROVE  IInv'
<1> USE DEF IInv
<1>1. /\ c \in Firing /\ req[c].op = "fire" /\ req' = [req EXCEPT ![c] = Idle]
      /\ UNCHANGED <<up, crashes, asked, scheduler, file, row, job, listed, agent, vault, revoked,
                     opened, slips>>
      /\ \/ UNCHANGED <<trigger, fires, burst>>
         \/ /\ trigger # NoTrigger
            /\ trigger' = [trigger EXCEPT !.total = req[c].total + 1, !.recent = TRUE]
            /\ fires' = fires + 1
            /\ burst' = IF trigger.recent THEN burst + 1 ELSE 1
  BY DEF CountFire, FireStops, At, Answer, process, tasks, hooks, fired, Firing
<1>2. req'[c] = Idle /\ \A d \in Clients : d # c => req'[d] = req[d]
  BY <1>1, ReqType
<1>3. Idle \in Requests /\ Idle.op = "idle"
  BY IdleFacts DEF Requests
<1>4. /\ Firing' = Firing \ {c} /\ (\A d \in Firing' : req'[d] = req[d])
      /\ Hooking' = Hooking /\ (\A d \in Hooking : req'[d] = req[d])
  BY <1>1, <1>2, <1>3 DEF Firing, Hooking
<1>5. /\ fires \in Nat /\ burst \in Nat /\ burst <= MaxFires /\ MaxFires \in Nat /\ Limit \in Nat \ {0}
      /\ req[c].total \in Nat /\ req[c].total <= fires
  <2>1. req[c].total \in 0..MaxFires
    BY <1>1, ReqType, IdleFacts DEF Requests, Request
  <2> QED
    BY <1>1, <2>1, RegistryAssumption DEF TypeOK, Numbered
<1>6. Cardinality(Firing') = Cardinality(Firing) - 1 /\ Cardinality(Firing) \in Nat
      /\ Cardinality(Firing') \in Nat /\ fires + Cardinality(Firing) <= MaxFires
  BY <1>1, <1>4, FiringFacts, FS_RemoveElement DEF Numbered
<1>7. CASE UNCHANGED <<trigger, fires, burst>>
  <2>1. TypeOK'
    <3>1. req' \in [Clients -> Requests]
      BY <1>1, <1>3, ReqType
    <3> QED
      BY <1>1, <1>7, <3>1 DEF TypeOK
  <2>2. Numbered'
    <3>1. fires + Cardinality(Firing') <= MaxFires
      BY <1>5, <1>6
    <3> QED
      BY <1>1, <1>2, <1>3, <1>4, <1>7, <3>1 DEF Numbered
  <2>3. Unrevoked'
    BY <1>1, <1>4, <1>7 DEF Unrevoked
  <2>4. Counting'
    BY <1>1, <1>4, <1>7 DEF Counting
  <2>5. Edited'
    BY <1>1, <1>3, EditsKept DEF Edits
  <2> QED
    BY <2>1, <2>2, <2>3, <2>4, <2>5
<1>8. CASE /\ trigger # NoTrigger
           /\ trigger' = [trigger EXCEPT !.total = req[c].total + 1, !.recent = TRUE]
           /\ fires' = fires + 1
           /\ burst' = IF trigger.recent THEN burst + 1 ELSE 1
  <2>0. /\ trigger \in [mode : Modes, cred : Content, total : 0..MaxFires, recent : BOOLEAN]
        /\ fires + 1 <= MaxFires /\ fires + 1 \in 0..MaxFires
    BY <1>5, <1>6, <1>8 DEF TypeOK, Triggers
  <2>1. /\ burst' \in Nat /\ burst' <= fires' /\ req[c].total + 1 \in 0..MaxFires
        /\ req[c].total + 1 <= fires'
    BY <1>5, <1>8, <2>0 DEF Numbered
  <2>2. /\ trigger' \in [mode : Modes, cred : Content, total : 0..MaxFires, recent : BOOLEAN]
        /\ trigger'.cred = trigger.cred /\ trigger'.mode = trigger.mode
        /\ trigger'.total = req[c].total + 1 /\ trigger'.recent
    BY <1>5, <1>8, <2>0, <2>1
  <2>3. TypeOK'
    <3>1. req' \in [Clients -> Requests]
      BY <1>1, <1>3, ReqType
    <3>2. burst' \in 0..MaxFires /\ fires' \in 0..MaxFires
      BY <1>8, <1>5, <2>0, <2>1
    <3>3. trigger' \in Triggers
      BY <2>2 DEF Triggers
    <3> QED
      BY <1>1, <3>1, <3>2, <3>3 DEF TypeOK
  <2>4. Numbered'
    <3>1. fires' + Cardinality(Firing') <= MaxFires
      BY <1>5, <1>6, <1>8
    <3>2. trigger'.total <= fires' /\ \A d \in Firing' : req'[d].total <= fires'
      <4>1. \A d \in Firing' : req[d].total \in Nat /\ req[d].total <= fires
        <5>1. \A d \in Firing : req[d].total \in 0..MaxFires
          BY ReqType, IdleFacts DEF Firing, Requests, Request
        <5> QED
          BY <1>4, <1>5, <5>1 DEF Numbered
      <4> QED
        BY <1>4, <1>5, <1>8, <2>2, <2>1, <4>1
    <3>3. \A d \in Clients : req'[d] # Idle => req'[d] = req[d]
      BY <1>2
    <3>4. \A d \in Clients : /\ req'[d].op = "update" => req'[d].seen # "none"
                             /\ req'[d].op = "hook" => req'[d].mode # "none"
      BY <1>2, <1>3 DEF Numbered
    <3>5. trigger'.cred \in 0..asked' /\ vault' \in 0..asked' /\ revoked' \subseteq 1..asked'
      BY <1>1, <2>2 DEF Numbered
    <3>6. \A d \in Clients : req'[d] # Idle /\ req'[d].op \notin {"fire", "unhook"}
             => req'[d].n \in 1..asked'
      BY <1>1, <3>3 DEF Numbered
    <3> QED
      BY <2>1, <3>1, <3>2, <3>4, <3>5, <3>6 DEF Numbered
  <2>5. Unrevoked'
    BY <1>1, <1>4, <2>2 DEF Unrevoked
  <2>6. Counting'
    <3> SUFFICES ASSUME "flood" \notin slips
                 PROVE  Firing' = {} /\ burst' <= Limit /\ burst' <= trigger'.total
      BY <1>1 DEF Counting
    <3>1. Firing' = {}
      BY <1>1, <1>4 DEF Counting
    <3>2. CASE trigger.recent
      <4>1. req[c].total = trigger.total /\ trigger.total < Limit /\ burst <= trigger.total
        BY <1>1, <3>2 DEF Counting
      <4>2. burst' = burst + 1
        BY <1>8, <3>2
      <4> QED
        BY <1>5, <2>0, <2>2, <3>1, <4>1, <4>2
    <3>3. CASE ~trigger.recent
      <4>1. burst' = 1
        BY <1>8, <3>3
      <4> QED
        BY <1>5, <2>2, <3>1, <4>1
    <3> QED
      BY <3>2, <3>3
  <2>7. Edited'
    BY <1>1, <1>3, EditsKept DEF Edits
  <2> QED
    BY <2>3, <2>4, <2>5, <2>6, <2>7
<1> QED
  BY <1>1, <1>7, <1>8

LEMMA HourInv ==
  ASSUME IInv, HourPasses
  PROVE  IInv'
<1> USE DEF IInv
<1>1. /\ trigger.recent /\ trigger' = [trigger EXCEPT !.recent = FALSE]
      /\ UNCHANGED <<up, crashes, asked, scheduler, file, row, job, listed, agent, vault, revoked,
                     req, fires, burst, opened, slips>>
  BY DEF HourPasses, process, tasks, fired
<1>2. trigger \in [mode : Modes, cred : Content, total : 0..MaxFires, recent : BOOLEAN]
  BY <1>1 DEF TypeOK, Triggers, NoTrigger
<1>3. /\ trigger' \in [mode : Modes, cred : Content, total : 0..MaxFires, recent : BOOLEAN]
      /\ trigger'.cred = trigger.cred /\ trigger'.mode = trigger.mode
      /\ trigger'.total = trigger.total /\ ~trigger'.recent
  BY <1>1, <1>2
<1>4. Firing' = Firing /\ Hooking' = Hooking /\ Editing' = Editing
  BY <1>1 DEF Firing, Hooking, Editing
<1>5. TypeOK'
  <2>1. trigger' \in Triggers
    BY <1>3 DEF Triggers
  <2> QED
    BY <1>1, <2>1 DEF TypeOK
<1>6. Numbered'
  BY <1>1, <1>3, <1>4 DEF Numbered
<1>7. Unrevoked'
  BY <1>1, <1>3, <1>4 DEF Unrevoked
<1>8. Counting'
  BY <1>1, <1>3, <1>4 DEF Counting
<1>9. Edited'
  <2>1. (Agree' <=> Agree) /\ (Quiet' <=> Quiet)
    BY <1>1 DEF Agree, Quiet
  <2>2. \A d \in Clients : Midway(d)' <=> Midway(d)
    BY <1>1, <2>1 DEF Midway
  <2>3. \A d \in Editing : d \in Clients
    BY DEF Editing
  <2> QED
    BY <1>4, <2>1, <2>2, <2>3 DEF Edited
<1> QED
  BY <1>5, <1>6, <1>7, <1>8, <1>9

-----------------------------------------------------------------------------
(* The process.                                                            *)

\* Requests do not survive a crash, and one inside an edit is recorded.
LEMMA CrashInv ==
  ASSUME IInv, Crash
  PROVE  IInv'
<1> USE DEF IInv
<1>1. /\ up' = FALSE /\ crashes < MaxCrashes /\ crashes' = crashes + 1 /\ scheduler' = FALSE
      /\ req' = [c \in Clients |-> Idle]
      /\ slips' = (IF Editing = {} THEN slips ELSE slips \cup {"crash"})
      /\ UNCHANGED <<asked, file, row, job, listed, agent, trigger, vault, revoked,
                     fires, burst, opened>>
  BY DEF Crash, tasks, hooks, fired
<1>2. Idle \in Requests /\ Idle.op = "idle"
  BY IdleFacts DEF Requests
<1>3. \A d \in Clients : req'[d] = Idle
  BY <1>1
<1>4. Firing' = {} /\ Hooking' = {} /\ Editing' = {}
  BY <1>2, <1>3 DEF Firing, Hooking, Editing, Edits
<1>5. Cardinality(Firing') = 0 /\ fires \in 0..MaxFires /\ MaxFires \in Nat
  BY <1>4, FS_EmptySet, RegistryAssumption DEF TypeOK
<1>6. TypeOK'
  <2>1. req' \in [Clients -> Requests]
    BY <1>1, <1>2
  <2>2. slips' \subseteq Slips
    BY <1>1 DEF TypeOK, Slips
  <2>3. crashes' \in 0..MaxCrashes
    BY <1>1, RegistryAssumption DEF TypeOK
  <2> QED
    BY <1>1, <2>1, <2>2, <2>3 DEF TypeOK
<1>7. Numbered'
  BY <1>1, <1>2, <1>3, <1>4, <1>5 DEF Numbered
<1>8. Unrevoked'
  BY <1>1, <1>4 DEF Unrevoked
<1>9. Counting'
  BY <1>1, <1>4 DEF Counting
<1>10. Edited'
  <2>1. Agree' <=> Agree
    BY <1>1 DEF Agree
  <2>2. Quiet' => Quiet /\ Editing = {}
    BY <1>1 DEF Quiet
  <2> QED
    BY <1>4, <2>1, <2>2 DEF Edited
<1> QED
  BY <1>6, <1>7, <1>8, <1>9, <1>10

\* A step that leaves everything alone but the process.
LEMMA StartUpInv ==
  ASSUME IInv, up' \in BOOLEAN, scheduler' \in BOOLEAN,
         UNCHANGED <<crashes, asked, tasks, agent, hooks, req, fired, slips>>
  PROVE  IInv'
<1> USE DEF IInv
<1>1. UNCHANGED <<crashes, asked, file, row, job, listed, agent, trigger, vault, revoked, req,
                  fires, burst, opened, slips>>
  BY DEF tasks, hooks, fired
<1>2. Firing' = Firing /\ Hooking' = Hooking /\ Editing' = Editing
  BY <1>1 DEF Firing, Hooking, Editing
<1>3. TypeOK'
  BY <1>1 DEF TypeOK
<1>4. Numbered'
  BY <1>1, <1>2 DEF Numbered
<1>5. Unrevoked'
  BY <1>1, <1>2 DEF Unrevoked
<1>6. Counting'
  BY <1>1, <1>2 DEF Counting
<1>7. Edited'
  <2>1. (Agree' <=> Agree) /\ (Quiet' <=> Quiet)
    BY <1>1 DEF Agree, Quiet
  <2>2. \A d \in Clients : Midway(d)' <=> Midway(d)
    BY <1>1, <2>1 DEF Midway
  <2>3. \A d \in Editing : d \in Clients
    BY DEF Editing
  <2> QED
    BY <1>2, <2>1, <2>2, <2>3 DEF Edited
<1> QED
  BY <1>3, <1>4, <1>5, <1>6, <1>7

-----------------------------------------------------------------------------
(* The theorems.                                                           *)

LEMMA InitInv == Init => IInv
<1> SUFFICES ASSUME Init PROVE IInv
  OBVIOUS
<1> USE DEF Init
<1>1. Idle \in Requests /\ Idle.op = "idle" /\ \A c \in Clients : req[c] = Idle
  BY IdleFacts DEF Requests
<1>2. Firing = {} /\ Hooking = {} /\ Editing = {}
  BY <1>1 DEF Firing, Hooking, Editing, Edits
<1>3. Cardinality(Firing) = 0
  BY <1>2, FS_EmptySet
<1>4. /\ NoTrigger.cred = 0 /\ NoTrigger.total = 0 /\ NoTrigger.recent = FALSE
      /\ NoTrigger.mode = "none" /\ None = 0 /\ NoFile.text = None /\ NoRow.text = None
  BY DEF NoTrigger, NoFile, NoRow, None
<1>5. TypeOK
  <2>1. req \in [Clients -> Requests]
    BY <1>1
  <2>2. file \in Files
    BY DEF NoFile, Files
  <2>3. agent \in Agents
    BY DEF Agents
  <2>4. 0 \in 0..MaxCrashes /\ 0 \in 0..MaxRequests /\ 0 \in 0..MaxFires
    BY RegistryAssumption
  <2>5. row \in Rows /\ trigger \in Triggers
    BY DEF Rows, Triggers
  <2> QED
    BY <2>1, <2>2, <2>3, <2>4, <2>5 DEF TypeOK
<1>6. Numbered
  <2>1. \A c \in Clients : /\ req[c].op = "update" => req[c].seen # "none"
                           /\ req[c].op = "hook" => req[c].mode # "none"
    BY <1>1
  <2> QED
    BY <1>1, <1>2, <1>3, <1>4, <2>1, RegistryAssumption DEF Numbered
<1>7. Unrevoked
  BY <1>2, <1>4 DEF Unrevoked
<1>8. Counting
  BY <1>2, <1>4, RegistryAssumption DEF Counting
<1>9. Edited
  BY <1>2, <1>4 DEF Edited, Agree
<1> QED
  BY <1>5, <1>6, <1>7, <1>8, <1>9 DEF IInv

LEMMA NextInv == IInv /\ [Next]_vars => IInv'
<1> SUFFICES ASSUME IInv, [Next]_vars PROVE IInv'
  OBVIOUS
<1>1. CASE UNCHANGED vars
  <2>1. up' \in BOOLEAN /\ scheduler' \in BOOLEAN
    BY <1>1 DEF vars, process, IInv, TypeOK
  <2> QED
    BY <1>1, <2>1, StartUpInv DEF vars, process
<1>2. CASE HourPasses \/ Crash
  BY <1>2, HourInv, CrashInv
<1>3. CASE StartUp
  BY <1>3, StartUpInv DEF StartUp
<1>4. ASSUME NEW c \in Clients, Serve(c)
      PROVE  IInv'
  <2>1. CASE (\E timed, auto \in BOOLEAN : CheckCreate(c, timed, auto))
             \/ (\E timed \in BOOLEAN : CheckUpdate(c, timed))
    BY <2>1, BeginInv DEF CheckCreate, CheckUpdate, Edits
  <2>2. CASE WriteTask(c) \/ WriteFails(c) \/ StoreRow(c) \/ StoreFails(c) \/ AddFails(c)
    BY <2>2, WriteInv, WriteFailsInv, StoreInv, RefusedInv
  <2>3. CASE LeaveJobs(c) \/ SkipJob(c) \/ RemoveJob(c) \/ AddJob(c)
    BY <2>3, LeaveInv, ClearInv, AddInv
  <2>4. CASE \E fails \in BOOLEAN : Unlist(c, fails) \/ List(c, fails)
    BY <2>4, UnlistInv, ListInv
  <2>5. CASE WriteYaml(c) \/ PatchProvider(c) \/ PatchMemory(c) \/ StoreAgent(c) \/ AnswerAgent(c)
    BY <2>5, AgentInv, AgentDoneInv
  <2>6. CASE (\E mode \in Modes : DrawSecret(c, mode)) \/ InsertHook(c) \/ DeleteHook(c)
             \/ (\E fails \in BOOLEAN : DeleteSecret(c, fails))
    BY <2>6, DrawInv, InsertInv, DeleteHookInv, DeleteSecretInv
  <2>7. CASE (\E k \in Content : Verify(c, k)) \/ CountFire(c) \/ FireStops(c)
    BY <2>7, VerifyInv, FireEndsInv
  <2> QED
    BY <1>4, <2>1, <2>2, <2>3, <2>4, <2>5, <2>6, <2>7 DEF Serve
<1> QED
  BY <1>1, <1>2, <1>3, <1>4 DEF Next

LEMMA Invariance == Spec => []IInv
BY InitInv, NextInv, PTL DEF Spec

\* Files, rows, the job and the requests stay well formed.
THEOREM RegistryTypes == Spec => []TypeOK
<1>1. IInv => TypeOK
  BY DEF IInv
<1> QED
  BY <1>1, Invariance, PTL

\* create_task and update_task: whatever the order of edits, a task's YAML, row,
\* job and ScheduleRow agree at rest, but for overlaps, failures and crashes.
THEOREM EditsAgree == Spec => []DriftIsAccidental
<1>1. IInv => DriftIsAccidental
  BY DEF IInv, Edited, Quiet, Agree, DriftIsAccidental
<1> QED
  BY <1>1, Invariance, PTL

\* fire_webhook: without overlapping fires, an hourly limit of any size holds.
THEOREM LimitHolds == Spec => []FloodIsARace
<1>1. IInv => FloodIsARace
  BY DEF IInv, Counting, FloodIsARace
<1> QED
  BY <1>1, Invariance, PTL

\* A request becomes a fire only when it is verified.
LEMMA FiresAreVerified ==
  ASSUME IInv, Next, NEW d \in Clients, req'[d].op = "fire", req[d].op # "fire"
  PROVE  \E k \in Content : Verify(d, k)
<1>1. req \in [Clients -> Requests] /\ Idle.op = "idle"
  BY ReqType, IdleFacts DEF IInv
<1>2. ASSUME NEW c \in Clients, NEW s, Goes(c, s)
      PROVE  req'[d].op = req[d].op
  <2>1. CASE d # c
    BY <1>1, <1>2, <2>1 DEF Goes
  <2>2. CASE d = c /\ req[c] = Idle
    BY <1>1, <1>2, <2>2 DEF Goes, Idle
  <2>3. CASE d = c /\ req[c] \in Request
    BY <1>1, <1>2, <2>3 DEF Goes, Request
  <2> QED
    BY <1>1, <2>1, <2>2, <2>3 DEF Requests
<1>3. ASSUME NEW c \in Clients, NEW r, req' = [req EXCEPT ![c] = r], r.op # "fire"
      PROVE  FALSE
  BY <1>1, <1>3
<1>4. ASSUME NEW c \in Clients, Answer(c)
      PROVE  FALSE
  BY <1>1, <1>3, <1>4 DEF Answer
<1>5. ~HourPasses /\ ~StartUp /\ ~Crash
  BY <1>1 DEF HourPasses, StartUp, Crash
<1>6. PICK c \in Clients : Serve(c)
  BY <1>5 DEF Next
<1>7. ASSUME NEW r, Ask(c, r), [r EXCEPT !.n = asked + 1].op # "fire"
      PROVE  FALSE
  BY <1>3, <1>7 DEF Ask
<1>8. CASE (\E timed, auto \in BOOLEAN : CheckCreate(c, timed, auto))
           \/ (\E timed \in BOOLEAN : CheckUpdate(c, timed))
  <2>1. PICK op \in Edits, timed \in BOOLEAN, auto \in BOOLEAN : Begin(c, op, timed, auto)
    BY <1>8 DEF CheckCreate, CheckUpdate, Edits
  <2> PICK r : r = [Idle EXCEPT !.op = op, !.step = "checked", !.timed = timed,
                                !.auto = auto, !.seen = row.state]
    OBVIOUS
  <2>2. r = [op |-> op, step |-> "checked", n |-> None, timed |-> timed, auto |-> auto,
             seen |-> row.state, total |-> 0, mode |-> "none"]
    BY DEF Idle
  <2>3. [r EXCEPT !.n = asked + 1].op # "fire"
    BY <2>2 DEF Edits
  <2>4. Ask(c, r)
    BY <2>1 DEF Begin
  <2> QED
    BY <1>7, <2>3, <2>4
<1>9. CASE WriteYaml(c) \/ PatchProvider(c) \/ PatchMemory(c)
  <2>1. PICK s \in {"written", "stored"} : Ask(c, [Idle EXCEPT !.op = "agent", !.step = s])
    BY <1>9 DEF WriteYaml, PatchProvider, PatchMemory
  <2>2. [[Idle EXCEPT !.op = "agent", !.step = s] EXCEPT !.n = asked + 1].op = "agent"
    BY DEF Idle
  <2> QED
    BY <1>7, <2>1, <2>2
<1>10. CASE \E mode \in Modes : DrawSecret(c, mode)
  <2>1. PICK mode : Ask(c, [Idle EXCEPT !.op = "hook", !.step = "secret", !.mode = mode])
    BY <1>10 DEF DrawSecret
  <2>2. [[Idle EXCEPT !.op = "hook", !.step = "secret", !.mode = mode]
           EXCEPT !.n = asked + 1].op = "hook"
    BY DEF Idle
  <2> QED
    BY <1>7, <2>1, <2>2
<1>11. CASE DeleteHook(c)
  <2>1. req' = [req EXCEPT ![c] = [Idle EXCEPT !.op = "unhook", !.step = "removed",
                                               !.mode = trigger.mode]]
    BY <1>11 DEF DeleteHook
  <2>2. [Idle EXCEPT !.op = "unhook", !.step = "removed", !.mode = trigger.mode].op = "unhook"
    BY DEF Idle
  <2> QED
    BY <1>3, <2>1, <2>2
<1>12. CASE WriteTask(c) \/ StoreRow(c) \/ RemoveJob(c) \/ AddJob(c) \/ StoreAgent(c)
            \/ (\E fails \in BOOLEAN : Unlist(c, fails))
  <2>1. \E s \in Steps : Goes(c, s)
    BY <1>12 DEF WriteTask, StoreRow, RemoveJob, AddJob, StoreAgent, Unlist, Steps
  <2> QED
    BY <1>2, <2>1
<1>13. CASE WriteFails(c) \/ StoreFails(c) \/ LeaveJobs(c) \/ SkipJob(c) \/ AddFails(c)
            \/ (\E fails \in BOOLEAN : List(c, fails)) \/ AnswerAgent(c) \/ InsertHook(c)
            \/ (\E fails \in BOOLEAN : DeleteSecret(c, fails)) \/ CountFire(c) \/ FireStops(c)
  <2>1. Answer(c)
    BY <1>13 DEF WriteFails, StoreFails, LeaveJobs, SkipJob, AddFails, List, AnswerAgent,
                 InsertHook, DeleteSecret, CountFire, FireStops
  <2> QED
    BY <1>4, <2>1
<1>14. CASE \E k \in Content : Verify(c, k)
  <2>1. CASE d = c
    BY <1>14, <2>1
  <2>2. CASE d # c
    BY <1>1, <1>14, <2>2 DEF Verify
  <2> QED
    BY <2>1, <2>2
<1> QED
  BY <1>6, <1>8, <1>9, <1>10, <1>11, <1>12, <1>13, <1>14 DEF Serve

\* fire_webhook and delete_trigger: for any number of requests, no fire is let in
\* with the credential of a trigger that was deleted.
THEOREM RevokedHooksStayClosed == Spec => RevokedStaysRevoked
<1>1. ASSUME IInv, Next, NEW c \in Clients, req'[c].op = "fire", req[c].op # "fire"
      PROVE  req'[c].n \notin revoked \/ "twins" \in slips
  <2>1. PICK k \in Content : Verify(c, k)
    BY <1>1, FiresAreVerified
  <2>2. req'[c] = [Idle EXCEPT !.op = "fire", !.step = "verified", !.n = k,
                               !.total = trigger.total, !.mode = trigger.mode]
    BY <1>1, <2>1, ReqType DEF Verify, IInv
  <2>3. req'[c].n = k
    BY <2>2 DEF Idle
  <2>4. trigger \in [mode : Modes, cred : Content, total : 0..MaxFires, recent : BOOLEAN]
        /\ k = Expected
    BY <1>1, <2>1 DEF Verify, IInv, TypeOK, Triggers
  <2> QED
    BY <1>1, <2>3, <2>4 DEF IInv, Unrevoked, Expected, Modes
<1>2. IInv /\ [Next]_vars
      => [\A c \in Clients : req'[c].op = "fire" /\ req[c].op # "fire"
             => req'[c].n \notin revoked \/ "twins" \in slips]_vars
  BY <1>1
<1> QED
  BY <1>2, Invariance, PTL DEF Spec, RevokedStaysRevoked
=============================================================================
