----------------------- MODULE TaskLifecycle_proofs -------------------------
(***************************************************************************)
(* Theorems about TaskLifecycle for every value of its constants.  The     *)
(* invariant IInv is proved in layers: types with the ownership of         *)
(* identifiers and rows (Base), the counters (CountersEarned), the shape   *)
(* of lineages (LineagesLinear) and the recorded outcomes (OutcomesSeen).  *)
(* The properties and the refinement of ChainLineage follow.               *)
(***************************************************************************)
EXTENDS TaskLifecycle, FiniteSetTheorems, TLAPS

Base == TypeOK /\ Allocated /\ RowsOwned

-----------------------------------------------------------------------------
(* Base.                                                                   *)

LEMMA InitBase == Init => Base
<1> SUFFICES ASSUME Init PROVE Base
  OBVIOUS
<1> USE ConstantsOK DEF Init
<1>1. TypeOK
  <2>1. NoJob \in Job \cup {NoJob} /\ "created" \in TaskStates /\ "unused" \in Pcs
    BY DEF TaskStates, Pcs
  <2>2. Nothing \in [lrow : Fires \cup {0}, cf : Nat]
    BY DEF Nothing
  <2>3. nextFire \in 1..(MaxFires + 1) /\ crashes \in 0..MaxCrashes
    OBVIOUS
  <2>4. /\ seen \in [Fires -> [lrow : Fires \cup {0}, cf : Nat]]
        /\ job \in [Fires -> Job \cup {NoJob}]
    BY <2>1, <2>2
  <2> QED
    BY <2>1, <2>3, <2>4 DEF TypeOK
<1>2. Allocated
  BY DEF Allocated, Fires, NoReq
<1>3. RowsOwned
  BY DEF Holds, RowsOwned, ClosedPcs, FinalPcs, Outcomes, Fires
<1> QED
  BY <1>1, <1>2, <1>3 DEF Base

\* A fire that was started has a job, and a task.
LEMMA Started ==
  ASSUME Base, NEW f \in Fires, pc[f] # "unused"
  PROVE  f < nextFire /\ job[f] \in Job /\ TaskOf(f) \in Tasks
<1>1. f < nextFire /\ job[f] \in Job
  BY DEF Base, TypeOK, Allocated, Fires
<1> QED
  BY <1>1 DEF Job, TaskOf

\* What every step of one coroutine has in common.
LEMMA Moved ==
  ASSUME Base, NEW f \in Fires, NEW from, NEW to \in Pcs \ {"unused"},
         from # "unused", Move(f, from, to)
  PROVE  /\ pc' \in [Fires -> Pcs]
         /\ pc[f] = from /\ pc'[f] = to
         /\ \A g \in Fires : g # f => pc'[g] = pc[g]
         /\ f < nextFire /\ job[f] \in Job /\ TaskOf(f) \in Tasks
<1>1. pc[f] = from /\ pc' = [pc EXCEPT ![f] = to] /\ pc \in [Fires -> Pcs]
  BY DEF Base, TypeOK, Move
<1> QED
  BY <1>1, Started

LEMMA StepBase ==
  ASSUME Base, NEW f \in Fires, Step(f), ~Dispatch(f)
  PROVE  Base'
<1> USE ConstantsOK DEF Base
<1>1. CASE Drop(f)
  <2>1. Move(f, "start", "dropped")
    BY <1>1 DEF Drop
  <2>2. "dropped" \in Pcs \ {"unused"}
    BY DEF Pcs, FinalPcs
  <2>3. /\ pc' \in [Fires -> Pcs] /\ pc[f] = "start" /\ pc'[f] = "dropped"
        /\ \A g \in Fires : g # f => pc'[g] = pc[g]
        /\ f < nextFire /\ job[f] \in Job /\ TaskOf(f) \in Tasks
    BY <2>1, <2>2, Moved
  <2>4. TypeOK'
    BY <1>1, <2>3 DEF Drop, TypeOK, TaskStates, Outcomes, Nothing, system, fires, rows
  <2>5. Allocated'
    BY <1>1, <2>3 DEF Drop, Allocated, TypeOK, system, fires, rows
  <2>6. RowsOwned'
    BY <1>1, <2>3 DEF Drop, Holds, RowsOwned, TypeOK, ClosedPcs, TaskOf, Outcomes, Fires, system, fires, rows
  <2> QED
    BY <2>4, <2>5, <2>6
<1>2. CASE Admit(f)
  <2>1. Move(f, "start", "marked")
    BY <1>2 DEF Admit
  <2>2. "marked" \in Pcs \ {"unused"}
    BY DEF Pcs, FinalPcs
  <2>3. /\ pc' \in [Fires -> Pcs] /\ pc[f] = "start" /\ pc'[f] = "marked"
        /\ \A g \in Fires : g # f => pc'[g] = pc[g]
        /\ f < nextFire /\ job[f] \in Job /\ TaskOf(f) \in Tasks
    BY <2>1, <2>2, Moved
  <2>4. TypeOK'
    BY <1>2, <2>3 DEF Admit, TypeOK, TaskStates, Outcomes, Nothing, system, fires, rows
  <2>5. Allocated'
    BY <1>2, <2>3 DEF Admit, Allocated, TypeOK, system, fires, rows
  <2>6. RowsOwned'
    BY <1>2, <2>3 DEF Admit, Holds, RowsOwned, TypeOK, ClosedPcs, TaskOf, Outcomes, Fires, system, fires, rows
  <2> QED
    BY <2>4, <2>5, <2>6
<1>3. CASE Hold(f)
  <2>1. Move(f, "start", "held")
    BY <1>3 DEF Hold
  <2>2. "held" \in Pcs \ {"unused"}
    BY DEF Pcs, FinalPcs
  <2>3. /\ pc' \in [Fires -> Pcs] /\ pc[f] = "start" /\ pc'[f] = "held"
        /\ \A g \in Fires : g # f => pc'[g] = pc[g]
        /\ f < nextFire /\ job[f] \in Job /\ TaskOf(f) \in Tasks
    BY <2>1, <2>2, Moved
  <2>4. TypeOK'
    BY <1>3, <2>3 DEF Hold, TypeOK, TaskStates, Outcomes, Nothing, system, fires, rows
  <2>5. Allocated'
    BY <1>3, <2>3 DEF Hold, Allocated, TypeOK, system, fires, rows
  <2>6. RowsOwned'
    BY <1>3, <2>3 DEF Hold, Holds, RowsOwned, TypeOK, ClosedPcs, TaskOf, Outcomes, Fires, system, fires, rows
  <2> QED
    BY <2>4, <2>5, <2>6
<1>4. CASE EngineRaises(f)
  <2>1. PICK from \in {"marked", "looping"} : Move(f, from, "raised")
    BY <1>4 DEF EngineRaises
  <2>2. "raised" \in Pcs \ {"unused"}
    BY DEF Pcs, FinalPcs
  <2>3. /\ pc' \in [Fires -> Pcs] /\ pc[f] = from /\ pc'[f] = "raised"
        /\ \A g \in Fires : g # f => pc'[g] = pc[g]
        /\ f < nextFire /\ job[f] \in Job /\ TaskOf(f) \in Tasks
    BY <2>1, <2>2, Moved
  <2>4. TypeOK'
    BY <1>4, <2>3 DEF EngineRaises, TypeOK, TaskStates, Outcomes, Nothing, system, fires, rows
  <2>5. Allocated'
    BY <1>4, <2>3 DEF EngineRaises, Allocated, TypeOK, system, fires, rows
  <2>6. RowsOwned'
    BY <1>4, <2>3 DEF EngineRaises, Holds, RowsOwned, TypeOK, ClosedPcs, TaskOf, Outcomes, Fires, system, fires, rows
  <2> QED
    BY <2>4, <2>5, <2>6
<1>11. CASE ResultOnly(f)
  <2>1. Move(f, "resulted", "unbound")
    BY <1>11 DEF ResultOnly
  <2>2. "unbound" \in Pcs \ {"unused"}
    BY DEF Pcs, FinalPcs
  <2>3. /\ pc' \in [Fires -> Pcs] /\ pc[f] = "resulted" /\ pc'[f] = "unbound"
        /\ \A g \in Fires : g # f => pc'[g] = pc[g]
        /\ f < nextFire /\ job[f] \in Job /\ TaskOf(f) \in Tasks
    BY <2>1, <2>2, Moved
  <2>4. TypeOK'
    BY <1>11, <2>3 DEF ResultOnly, TypeOK, TaskStates, Outcomes, Nothing, system, fires, rows
  <2>5. Allocated'
    BY <1>11, <2>3 DEF ResultOnly, Allocated, TypeOK, system, fires, rows
  <2>6. RowsOwned'
    BY <1>11, <2>3 DEF ResultOnly, Holds, RowsOwned, TypeOK, ClosedPcs, TaskOf, Outcomes, Fires, system, fires, rows
  <2> QED
    BY <2>4, <2>5, <2>6
<1>5. CASE OpenRow(f)
  <2>1. Move(f, "marked", "looping")
    BY <1>5 DEF OpenRow
  <2>2. "looping" \in Pcs \ {"unused"}
    BY DEF Pcs, FinalPcs
  <2>3. /\ pc' \in [Fires -> Pcs] /\ pc[f] = "marked" /\ pc'[f] = "looping"
        /\ \A g \in Fires : g # f => pc'[g] = pc[g]
        /\ f < nextFire /\ job[f] \in Job /\ TaskOf(f) \in Tasks
    BY <2>1, <2>2, Moved
  <2>4. TypeOK'
    BY <1>5, <2>3 DEF OpenRow, TypeOK, TaskStates, Outcomes, Nothing, system, fires, rows
  <2>5. Allocated'
    BY <1>5, <2>3 DEF OpenRow, Allocated, TypeOK, system, fires, rows
  <2>6. RowsOwned'
    <3>1. /\ latest'[TaskOf(f)] = f /\ f # 0
          /\ \A t \in Tasks : t # TaskOf(f) => latest'[t] = latest[t]
      BY <1>5, <2>3 DEF OpenRow, TypeOK, Fires
    <3>2. \A g \in Fires : TaskOf(g)' = TaskOf(g)
      BY <1>5 DEF OpenRow, fires, TaskOf
    <3>3. job' = job /\ seen' = seen
      BY <1>5 DEF OpenRow, fires
    <3>4. \A t \in Tasks : latest'[t] # 0 => TaskOf(latest'[t]) = t
      BY <3>1 DEF RowsOwned
    <3>5. \A g \in Fires : pc'[g] \in ClosedPcs \cup {"looping"} => latest'[TaskOf(g)] # 0
      <4> SUFFICES ASSUME NEW g \in Fires, pc'[g] \in ClosedPcs \cup {"looping"}
                   PROVE  latest'[TaskOf(g)] # 0
        OBVIOUS
      <4>1. CASE TaskOf(g) = TaskOf(f)
        BY <4>1, <3>1
      <4>2. CASE TaskOf(g) # TaskOf(f)
        <5>1. g # f /\ pc[g] \in ClosedPcs \cup {"looping"}
          BY <4>2, <2>3
        <5>2. TaskOf(g) \in Tasks
          BY <5>1, Started DEF ClosedPcs
        <5> QED
          BY <4>2, <5>1, <5>2, <3>1 DEF RowsOwned
      <4> QED
        BY <4>1, <4>2
    <3>6. \A g \in Fires : pc'[g] \in ClosedPcs <=> result'[g] \in Outcomes
      BY <1>5, <2>3 DEF OpenRow, Holds, RowsOwned, ClosedPcs, TypeOK, Outcomes
    <3>7. \A g \in Fires : pc'[g] = "counting" =>
             seen'[g].lrow # 0 /\ TaskOf(seen'[g].lrow) = TaskOf(g)
      BY <2>3, <3>3 DEF RowsOwned
    <3>8. \A g \in Fires : pc'[g] \in ClosedPcs => Holds(g)'
      BY <1>5, <2>3 DEF OpenRow, Holds, RowsOwned, ClosedPcs, TypeOK
    <3> QED
      BY <3>2, <3>3, <3>4, <3>5, <3>6, <3>7, <3>8 DEF RowsOwned, TaskOf
  <2> QED
    BY <2>4, <2>5, <2>6
<1>6. CASE SetResult(f)
  <2>1. Move(f, "closed", "resulted")
    BY <1>6 DEF SetResult
  <2>2. "resulted" \in Pcs \ {"unused"}
    BY DEF Pcs, FinalPcs
  <2>3. /\ pc' \in [Fires -> Pcs] /\ pc[f] = "closed" /\ pc'[f] = "resulted"
        /\ \A g \in Fires : g # f => pc'[g] = pc[g]
        /\ f < nextFire /\ job[f] \in Job /\ TaskOf(f) \in Tasks
    BY <2>1, <2>2, Moved
  <2>4. TypeOK'
    <3>1. result[f] \in TaskStates
      BY <2>3 DEF Holds, RowsOwned, ClosedPcs, Outcomes, TaskStates
    <3> QED
      BY <1>6, <2>3, <3>1 DEF SetResult, TypeOK, system, fires, rows
  <2>5. Allocated'
    BY <1>6, <2>3 DEF SetResult, Allocated, TypeOK, system, fires, rows
  <2>6. RowsOwned'
    BY <1>6, <2>3 DEF SetResult, Holds, RowsOwned, TypeOK, ClosedPcs, TaskOf, Outcomes, Fires, system, fires, rows
  <2> QED
    BY <2>4, <2>5, <2>6
<1>7. CASE CountRead(f)
  <2> DEFINE l == latest[TaskOf(f)]
  <2>1. Move(f, "resulted", "counting")
    BY <1>7 DEF CountRead
  <2>2. "counting" \in Pcs \ {"unused"}
    BY DEF Pcs, FinalPcs
  <2>3. /\ pc' \in [Fires -> Pcs] /\ pc[f] = "resulted" /\ pc'[f] = "counting"
        /\ \A g \in Fires : g # f => pc'[g] = pc[g]
        /\ f < nextFire /\ job[f] \in Job /\ TaskOf(f) \in Tasks
    BY <2>1, <2>2, Moved
  <2>0. l \in Fires /\ TaskOf(l) = TaskOf(f)
    BY <2>3 DEF Holds, RowsOwned, TypeOK, ClosedPcs
  <2>7. seen' = [seen EXCEPT ![f] = [lrow |-> l, cf |-> failures[l]]]
    BY <1>7 DEF CountRead
  <2>4. TypeOK'
    <3>1. [lrow |-> l, cf |-> failures[l]] \in [lrow : Fires \cup {0}, cf : Nat]
      BY <2>0 DEF TypeOK
    <3>2. seen' \in [Fires -> [lrow : Fires \cup {0}, cf : Nat]]
      BY <3>1, <2>7 DEF TypeOK
    <3> QED
      BY <1>7, <2>3, <3>2 DEF CountRead, TypeOK, system, fires, rows
  <2>5. Allocated'
    BY <1>7, <2>3 DEF CountRead, Allocated, TypeOK, system, fires, rows
  <2>6. RowsOwned'
    <3>1. seen'[f].lrow = l /\ \A g \in Fires : g # f => seen'[g] = seen[g]
      BY <2>7 DEF TypeOK
    <3>2. /\ job' = job /\ latest' = latest /\ result' = result /\ runState' = runState
          /\ \A g : TaskOf(g)' = TaskOf(g)
      BY <1>7 DEF CountRead, fires, rows, TaskOf
    <3>3. l # 0
      BY <2>0 DEF Fires
    <3> QED
      BY <2>0, <2>3, <3>1, <3>2, <3>3 DEF Holds, RowsOwned, ClosedPcs
  <2> QED
    BY <2>4, <2>5, <2>6
<1>8. CASE CountCommit(f)
  <2>1. Move(f, "counting", "counted")
    BY <1>8 DEF CountCommit
  <2>2. "counted" \in Pcs \ {"unused"}
    BY DEF Pcs, FinalPcs
  <2>3. /\ pc' \in [Fires -> Pcs] /\ pc[f] = "counting" /\ pc'[f] = "counted"
        /\ \A g \in Fires : g # f => pc'[g] = pc[g]
        /\ f < nextFire /\ job[f] \in Job /\ TaskOf(f) \in Tasks
    BY <2>1, <2>2, Moved
  <2> DEFINE l == seen[f].lrow
  <2>0. l \in Fires /\ l < nextFire
    BY <2>3 DEF Holds, RowsOwned, TypeOK, Allocated, TaskOf, NoJob, Fires
  <2>7. NewCount(f) \in Nat
    BY <2>3 DEF NewCount, TypeOK
  <2>8. failures' \in [Fires -> Nat] /\ \A g \in Fires : g >= nextFire => failures'[g] = failures[g]
    BY <1>8, <2>0, <2>7 DEF CountCommit, TypeOK, Fires
  <2>9. Nothing \in [lrow : Fires \cup {0}, cf : Nat]
    BY DEF Nothing
  <2>4. TypeOK'
    <3>1. seen' \in [Fires -> [lrow : Fires \cup {0}, cf : Nat]]
      BY <1>8, <2>9 DEF CountCommit, TypeOK
    <3>2. taskState' \in [Tasks -> TaskStates]
      BY <1>8, <2>3 DEF CountCommit, TypeOK, TaskStates
    <3> QED
      BY <1>8, <2>3, <2>8, <3>1, <3>2 DEF CountCommit, TypeOK, system, fires
  <2>5. Allocated'
    BY <1>8, <2>3, <2>8 DEF CountCommit, Allocated, TypeOK, system, fires
  <2>6. RowsOwned'
    BY <1>8, <2>3 DEF CountCommit, Holds, RowsOwned, TypeOK, ClosedPcs, TaskOf, Outcomes, Fires, system, fires, rows
  <2> QED
    BY <2>4, <2>5, <2>6
<1>9. CASE Return(f)
  <2>1. Move(f, "counted", "done")
    BY <1>9 DEF Return
  <2>2. "done" \in Pcs \ {"unused"}
    BY DEF Pcs, FinalPcs
  <2>3. /\ pc' \in [Fires -> Pcs] /\ pc[f] = "counted" /\ pc'[f] = "done"
        /\ \A g \in Fires : g # f => pc'[g] = pc[g]
        /\ f < nextFire /\ job[f] \in Job /\ TaskOf(f) \in Tasks
    BY <2>1, <2>2, Moved
  <2>4. TypeOK'
    BY <1>9, <2>3 DEF Return, TypeOK, TaskStates, Outcomes, Nothing, system, fires, rows
  <2>5. Allocated'
    BY <1>9, <2>3 DEF Return, Allocated, TypeOK, system, fires, rows
  <2>6. RowsOwned'
    BY <1>9, <2>3 DEF Return, Holds, RowsOwned, TypeOK, ClosedPcs, TaskOf, Outcomes, Fires, system, fires, rows
  <2> QED
    BY <2>4, <2>5, <2>6
<1>10. ASSUME NEW o \in Outcomes, CloseRow(f, o) PROVE Base'
  <2>1. Move(f, "looping", "closed")
    BY <1>10 DEF CloseRow
  <2>2. "closed" \in Pcs \ {"unused"}
    BY DEF Pcs, FinalPcs
  <2>3. /\ pc' \in [Fires -> Pcs] /\ pc[f] = "looping" /\ pc'[f] = "closed"
        /\ \A g \in Fires : g # f => pc'[g] = pc[g]
        /\ f < nextFire /\ job[f] \in Job /\ TaskOf(f) \in Tasks
    BY <2>1, <2>2, Moved
  <2>4. TypeOK'
    BY <1>10, <2>3 DEF CloseRow, TypeOK, TaskStates, Outcomes, Nothing, system, fires, rows
  <2>5. Allocated'
    BY <1>10, <2>3 DEF CloseRow, Allocated, TypeOK, system, fires, rows
  <2>6. RowsOwned'
    BY <1>10, <2>3 DEF CloseRow, Holds, RowsOwned, TypeOK, ClosedPcs, TaskOf, Outcomes, Fires, system, fires, rows
  <2> QED
    BY <2>4, <2>5, <2>6
<1> QED
  BY <1>1, <1>2, <1>3, <1>4, <1>5, <1>6, <1>7, <1>8, <1>9, <1>10, <1>11 DEF Step

\* A fire is allocated: a tick, a request or a successor.
LEMMA SpawnBase ==
  ASSUME Base, NEW j \in Job, j.root \in 1..nextFire, nextFire \in Fires, Spawn(j),
         pc' \in [Fires -> Pcs], pc'[nextFire] = "start",
         \A g \in Fires : g # nextFire =>
            \/ pc'[g] = pc[g]
            \/ pc[g] = "counted" /\ pc'[g] = "done",
         taskState' \in [Tasks -> TaskStates],
         req' \in [Clients -> Requests \cup {NoReq}],
         \A c \in Clients : req'[c] \in {req[c], NoReq},
         UNCHANGED <<system, seen, rows>>
  PROVE  Base'
<1> USE ConstantsOK DEF Base, Spawn
<1>1. /\ job' = [job EXCEPT ![nextFire] = j]
      /\ nextFire' = nextFire + 1 /\ alive' = alive \cup {nextFire}
      /\ seen' = seen /\ runState' = runState /\ result' = result /\ failures' = failures
      /\ latest' = latest /\ up' = up /\ crashes' = crashes /\ frozen' = frozen
  BY DEF rows, system
<1>2. TypeOK'
  BY <1>1 DEF TypeOK, Fires
<1>3. /\ job'[nextFire] = j /\ \A g \in Fires : g # nextFire => job'[g] = job[g]
      /\ job[nextFire] = NoJob /\ pc[nextFire] = "unused"
  BY <1>1 DEF TypeOK, Allocated, Fires
<1>4. Allocated'
  <2>1. ASSUME NEW c \in Clients, req'[c].kind = "cancel"
        PROVE  req'[c].lrow \in 1 .. nextFire' - 1
    <3>1. req'[c] = req[c]
      BY <2>1 DEF NoReq
    <3> QED
      BY <2>1, <3>1, <1>1 DEF TypeOK, Allocated, Fires
  <2> QED
    BY <1>1, <1>3, <2>1 DEF TypeOK, Allocated, Fires
<1>5. ASSUME NEW f \in Fires, TaskOf(f) \in Tasks PROVE f # nextFire /\ TaskOf(f)' = TaskOf(f)
  BY <1>3, <1>5 DEF NoJob, TaskOf
<1>6. \A f \in Fires : pc[f] # "unused" => TaskOf(f) \in Tasks /\ f # nextFire
  BY <1>3 DEF Allocated, TypeOK, Job, TaskOf, Fires
<1>7. RowsOwned'
  <2>1. \A t \in Tasks : latest'[t] # 0 => job'[latest'[t]].task = t
    BY <1>1, <1>5 DEF Holds, RowsOwned, TypeOK, TaskOf
  <2>2. ASSUME NEW f \in Fires, pc'[f] \in ClosedPcs \cup {"looping"}
        PROVE  /\ pc[f] \in ClosedPcs \cup {"looping"} /\ TaskOf(f)' = TaskOf(f)
               /\ pc'[f] \in ClosedPcs => pc[f] \in ClosedPcs
               /\ pc'[f] = "counting" => pc[f] = "counting"
    BY <2>2, <1>5, <1>6 DEF ClosedPcs
  <2>3. \A f \in Fires : pc'[f] \in ClosedPcs \cup {"looping"} => latest'[TaskOf(f)'] # 0
    BY <2>2, <1>1 DEF RowsOwned
  <2>4. \A f \in Fires : /\ pc'[f] \in ClosedPcs <=> result'[f] \in Outcomes
                         /\ pc'[f] \in ClosedPcs => Holds(f)'
    BY <1>1, <1>3 DEF Holds, RowsOwned, ClosedPcs
  <2>5. ASSUME NEW f \in Fires, pc'[f] = "counting"
        PROVE  seen'[f].lrow # 0 /\ job'[seen'[f].lrow].task = TaskOf(f)'
    <3>1. pc[f] = "counting" /\ TaskOf(f)' = TaskOf(f) /\ TaskOf(f) \in Tasks
      BY <2>5, <2>2, <1>6 DEF ClosedPcs
    <3>2. seen[f].lrow \in Fires /\ TaskOf(seen[f].lrow) = TaskOf(f)
      BY <3>1 DEF Holds, RowsOwned, TypeOK
    <3> QED
      BY <3>1, <3>2, <1>1, <1>5 DEF Fires, TaskOf
  <2> QED
    BY <2>1, <2>3, <2>4, <2>5 DEF Holds, RowsOwned, TaskOf
<1> QED
  BY <1>2, <1>4, <1>7

LEMMA DispatchBase ==
  ASSUME Base, NEW f \in Fires, Dispatch(f)
  PROVE  Base' /\ f < nextFire /\ ChainJob(f) \in Job
<1> USE ConstantsOK DEF Base
<1>0. pc[f] = "counted"
  BY DEF Dispatch
<1>a. f < nextFire /\ job[f] \in Job /\ TaskOf(f) \in Tasks
  BY <1>0, Started
<1>1. pc[f] = "counted" /\ f # nextFire /\ f < nextFire /\ job[f] \in Job /\ TaskOf(f) \in Tasks
  BY <1>0, <1>a DEF TypeOK, Fires
<1>2. Successor(f) \in Tasks
  BY <1>1 DEF Dispatch, Successor
<1>3. Append(job[f].chain, TaskOf(f)) \in Seq(Tasks)
  BY <1>1 DEF Job
<1>4. ChainJob(f) \in Job /\ ChainJob(f).root \in 1..nextFire
  BY <1>1, <1>2, <1>3 DEF ChainJob, Job, Allocated, Fires, TypeOK
<1>5. pc' \in [Fires -> Pcs] /\ pc'[nextFire] = "start" /\ pc'[f] = "done"
  BY <1>1 DEF Dispatch, TypeOK, Pcs, FinalPcs
<1>6. \A g \in Fires : g # nextFire /\ g # f => pc'[g] = pc[g]
  BY DEF Dispatch, TypeOK
<1>7. /\ taskState' \in [Tasks -> TaskStates]
      /\ req' \in [Clients -> Requests \cup {NoReq}]
      /\ \A c \in Clients : req'[c] \in {req[c], NoReq}
  BY DEF Dispatch, TypeOK
<1>8. nextFire \in Fires /\ Spawn(ChainJob(f)) /\ UNCHANGED <<system, seen, rows>>
  BY DEF Dispatch
<1>9. Base'
  BY <1>1, <1>4, <1>5, <1>6, <1>7, <1>8, SpawnBase
<1> QED
  BY <1>1, <1>4, <1>9

\* The job of a fire from outside.
ExternalJob(t, src) ==
  [task |-> t, src |-> src, chain |-> <<>>, root |-> nextFire, parent |-> 0]

LEMMA ExternalBase ==
  ASSUME Base, NEW t \in Tasks, NEW src \in {"tick", "request"}, SpawnExternal(t, src),
         taskState' \in [Tasks -> TaskStates],
         req' \in [Clients -> Requests \cup {NoReq}],
         \A c \in Clients : req'[c] \in {req[c], NoReq},
         UNCHANGED <<system, seen, rows>>
  PROVE  Base' /\ ExternalJob(t, src) \in Job
<1> USE ConstantsOK
<1>1. /\ ExternalJob(t, src) \in Job /\ ExternalJob(t, src).root \in 1..nextFire
      /\ nextFire \in Fires
  BY DEF ExternalJob, Job, SpawnExternal, Fires
<1>2. Spawn(ExternalJob(t, src))
  BY DEF SpawnExternal, ExternalJob
<1>3. /\ pc' \in [Fires -> Pcs] /\ pc'[nextFire] = "start"
      /\ \A g \in Fires : g # nextFire => pc'[g] = pc[g]
  BY DEF SpawnExternal, Base, TypeOK, Pcs
<1> QED
  BY <1>1, <1>2, <1>3, SpawnBase

LEMMA TickBase ==
  ASSUME Base, NEW t \in Tasks, Tick(t)
  PROVE  Base'
<1>1. SpawnExternal(t, "tick") /\ UNCHANGED <<system, taskState, seen, rows, req>>
  BY DEF Tick
<1>2. /\ taskState' \in [Tasks -> TaskStates]
      /\ req' \in [Clients -> Requests \cup {NoReq}]
      /\ \A c \in Clients : req'[c] \in {req[c], NoReq}
  BY <1>1 DEF Base, TypeOK
<1> QED
  BY <1>1, <1>2, ExternalBase

\* The steps that write only the requests, the task states, the counters or
\* the posture.
LEMMA EndpointBase ==
  ASSUME Base, Endpoint
  PROVE  Base'
<1> USE ConstantsOK DEF Base
<1>1. ASSUME NEW c \in Clients, NEW k \in RequestKinds, NEW t \in Tasks, Read(c, k, t)
      PROVE  Base'
  <2> DEFINE r == [kind |-> k, task |-> t, seen |-> taskState[t],
                   lrow |-> IF k = "ack" /\ latest[t] # 0 /\ failures[latest[t]] # 0
                            THEN latest[t] ELSE 0]
  <2>1. req' = [req EXCEPT ![c] = r]
    BY <1>1 DEF Read
  <2>2. k \in {"trigger", "webhook", "ack", "update"} /\ k # "cancel"
    BY <1>1 DEF Read, Accepts
  <2>3. r \in Requests
    BY <2>2 DEF TypeOK, Requests
  <2>4. TypeOK'
    BY <1>1, <2>1, <2>3 DEF Read, TypeOK, system, fires, rows
  <2> QED
    BY <1>1, <2>1, <2>2, <2>4 DEF Read, Allocated, Holds, RowsOwned, TaskOf, TypeOK, fires, rows
<1>2. ASSUME NEW c \in Clients, CommitFire(c) PROVE Base'
  <2>1. req[c].task \in Tasks
    BY <1>2 DEF CommitFire, TypeOK, Requests, NoReq
  <2>2. taskState' \in [Tasks -> TaskStates]
    BY <1>2 DEF CommitFire, TypeOK, TaskStates
  <2>3. /\ req' \in [Clients -> Requests \cup {NoReq}]
        /\ \A d \in Clients : req'[d] \in {req[d], NoReq}
    BY <1>2 DEF CommitFire, TypeOK
  <2>4. SpawnExternal(req[c].task, "request") /\ UNCHANGED <<system, seen, rows>>
    BY <1>2 DEF CommitFire
  <2> QED
    BY <2>1, <2>2, <2>3, <2>4, ExternalBase
<1>3. ASSUME NEW c \in Clients, CommitAck(c) PROVE Base'
  <2>1. req[c] \in Requests
    BY <1>3 DEF CommitAck, TypeOK, NoReq
  <2>2. /\ taskState' \in [Tasks -> TaskStates]
        /\ req' \in [Clients -> Requests \cup {NoReq}]
    BY <1>3 DEF CommitAck, TypeOK, TaskStates
  <2>3. failures' \in [Fires -> Nat]
    BY <1>3 DEF CommitAck, TypeOK
  <2>4. \A g \in Fires : g >= nextFire => failures'[g] = 0
    BY <1>3 DEF CommitAck, TypeOK, Allocated
  <2>5. TypeOK'
    BY <1>3, <2>2, <2>3 DEF CommitAck, TypeOK, system, fires
  <2> QED
    BY <1>3, <2>4, <2>5 DEF CommitAck, Allocated, Holds, RowsOwned, TaskOf, TypeOK, NoReq, system, fires
<1>4. ASSUME NEW c \in Clients, CommitUpdate(c) PROVE Base'
  <2>1. req[c] \in Requests
    BY <1>4 DEF CommitUpdate, TypeOK, NoReq
  <2>2. TypeOK'
    BY <1>4, <2>1 DEF CommitUpdate, TypeOK, Requests, system, fires, rows
  <2> QED
    BY <1>4, <2>2 DEF CommitUpdate, Allocated, Holds, RowsOwned, TaskOf, TypeOK, NoReq, system, fires, rows
<1>5. ASSUME NEW t \in Tasks, NEW kind, NEW state \in {"paused", "stopped", "scheduled"},
             Overwrite(kind, t, state)
      PROVE  Base'
  <2>1. TypeOK'
    BY <1>5 DEF Overwrite, TypeOK, TaskStates, system, fires, rows
  <2> QED
    BY <1>5, <2>1 DEF Overwrite, Allocated, Holds, RowsOwned, TaskOf, fires, rows
<1>6. ASSUME NEW b \in BOOLEAN, SetFrozen(b) PROVE Base'
  <2>1. TypeOK'
    BY <1>6 DEF SetFrozen, TypeOK, fires, rows
  <2> QED
    BY <1>6, <2>1 DEF SetFrozen, Allocated, Holds, RowsOwned, TaskOf, fires, rows
<1>7. ASSUME NEW c \in Clients, NEW f \in Fires, CancelRead(c, f) PROVE Base'
  <2> DEFINE r == [kind |-> "cancel", task |-> TaskOf(f), seen |-> "running", lrow |-> f]
  <2>1. req' = [req EXCEPT ![c] = r]
    BY <1>7 DEF CancelRead
  <2>2. f < nextFire /\ job[f] \in Job
    BY <1>7 DEF CancelRead, Allocated, TypeOK, Fires
  <2>3. r \in Requests
    BY <2>2 DEF TypeOK, Requests, TaskStates, TaskOf, Job
  <2>4. TypeOK'
    BY <1>7, <2>1, <2>3 DEF CancelRead, TypeOK, system, fires, rows
  <2>5. \A d \in Clients : req'[d].kind = "cancel" => req'[d].lrow \in 1 .. nextFire - 1
    BY <2>1, <2>2 DEF TypeOK, Allocated, Fires
  <2> QED
    BY <1>7, <2>4, <2>5 DEF CancelRead, Allocated, Holds, RowsOwned, TaskOf, fires, rows
<1>8. ASSUME NEW c \in Clients, CommitCancel(c) PROVE Base'
  <2> DEFINE l == req[c].lrow
  <2>1. l \in Fires /\ l < nextFire
    BY <1>8 DEF CommitCancel, TypeOK, Allocated, Fires
  <2>2. /\ runState' \in [Fires -> {"none", "running", "stopped"} \cup Outcomes]
        /\ \A g \in Fires : runState'[g] = IF g = l THEN "stopped" ELSE runState[g]
    BY <1>8, <2>1 DEF CommitCancel, TypeOK
  <2>3. /\ req' \in [Clients -> Requests \cup {NoReq}]
        /\ \A d \in Clients : req'[d] \in {req[d], NoReq}
    BY <1>8 DEF CommitCancel, TypeOK
  <2>4. TypeOK'
    BY <1>8, <2>2, <2>3 DEF CommitCancel, TypeOK, system, fires
  <2>5. Allocated'
    BY <1>8, <2>1, <2>2, <2>3 DEF CommitCancel, Allocated, fires, NoReq
  <2> QED
    BY <1>8, <2>2, <2>4, <2>5 DEF CommitCancel, Holds, RowsOwned, TaskOf, fires
<1> QED
  BY <1>1, <1>2, <1>3, <1>4, <1>5, <1>6, <1>7, <1>8 DEF Endpoint, Pause, Stop, Approve

LEMMA CrashBase ==
  ASSUME Base, Crash \/ Restart \/ UNCHANGED vars
  PROVE  Base'
<1> USE ConstantsOK DEF Base
<1>1. CASE Crash
  <2>1. crashes' \in 0..MaxCrashes
    BY <1>1 DEF Crash, TypeOK
  <2>2. req' \in [Clients -> Requests \cup {NoReq}]
    BY <1>1 DEF Crash
  <2>3. TypeOK'
    BY <1>1, <2>1, <2>2 DEF Crash, TypeOK, rows
  <2> QED
    BY <1>1, <2>3 DEF Crash, Allocated, Holds, RowsOwned, TaskOf, NoReq, rows
<1>2. CASE Restart
  <2>1. TypeOK'
    BY <1>2 DEF Restart, TypeOK, fires, rows
  <2> QED
    BY <1>2, <2>1 DEF Restart, Allocated, Holds, RowsOwned, TaskOf, fires, rows
<1>3. CASE UNCHANGED vars
  <2>1. TypeOK'
    BY <1>3 DEF TypeOK, vars, system, fires, rows
  <2> QED
    BY <1>3, <2>1 DEF Allocated, Holds, RowsOwned, TaskOf, vars, fires, rows
<1> QED
  BY <1>1, <1>2, <1>3

LEMMA NextBase == Base /\ [Next]_vars => Base'
<1> SUFFICES ASSUME Base, [Next]_vars PROVE Base'
  OBVIOUS
<1>1. ASSUME NEW f \in Fires, Step(f) PROVE Base'
  BY <1>1, StepBase, DispatchBase
<1> QED
  BY <1>1, TickBase, EndpointBase, CrashBase DEF Next

\* Every variable keeps its type.
THEOREM TypeInvariant == Spec => []TypeOK
<1>1. Base => TypeOK
  BY DEF Base
<1> QED
  BY <1>1, InitBase, NextBase, PTL DEF Spec

-----------------------------------------------------------------------------
(* What a step never undoes: the job of a started fire, the outcome of a   *)
(* closed one, the passage of its counter and its end.                     *)

LEMMA History ==
  ASSUME Base, [Next]_vars, NEW f \in Fires, pc[f] # "unused"
  PROVE  /\ job'[f] = job[f] /\ TaskOf(f)' = TaskOf(f)
         /\ pc[f] \in ClosedPcs => result'[f] = result[f] /\ pc'[f] \in ClosedPcs
         /\ pc[f] \in {"counted", "done"} => pc'[f] \in {"counted", "done"}
         /\ pc[f] = "done" => pc'[f] = "done"
<1> USE DEF ClosedPcs
<1>0. f # nextFire /\ f < nextFire
  BY Started DEF Base, TypeOK, Fires
<1>1. CASE \E g \in Fires : Step(g)
  <2> PICK g \in Fires : Step(g)
    BY <1>1
  <2>1. CASE Dispatch(g)
    BY <2>1, <1>0 DEF Dispatch, Spawn, TaskOf, rows, Base, TypeOK
  <2>2. CASE ~Dispatch(g)
    <3>1. job' = job /\ \E from \in Pcs, to \in Pcs : Move(g, from, to)
      BY <2>2 DEF Step, Drop, Admit, Hold, EngineRaises, ResultOnly, OpenRow, CloseRow, SetResult,
                  CountRead, CountCommit, Return, fires, Pcs, FinalPcs
    <3>2. pc[f] \in ClosedPcs => result'[f] = result[f] /\ pc'[f] \in ClosedPcs
      BY <2>2 DEF Step, Drop, Admit, Hold, EngineRaises, ResultOnly, OpenRow, CloseRow, SetResult,
                  CountRead, CountCommit, Return, rows, Move, Base, TypeOK
    <3>3. /\ pc[f] \in {"counted", "done"} => pc'[f] \in {"counted", "done"}
          /\ pc[f] = "done" => pc'[f] = "done"
      BY <2>2 DEF Step, Drop, Admit, Hold, EngineRaises, ResultOnly, OpenRow, CloseRow, SetResult,
                  CountRead, CountCommit, Return, Move, Base, TypeOK
    <3> QED
      BY <3>1, <3>2, <3>3 DEF TaskOf
  <2> QED
    BY <2>1, <2>2
<1>2. CASE \E t \in Tasks : Tick(t)
  BY <1>2, <1>0 DEF Tick, SpawnExternal, Spawn, TaskOf, rows, Base, TypeOK
<1>3. CASE Endpoint
  <2>1. CASE \E c \in Clients : CommitFire(c)
    BY <2>1, <1>0 DEF CommitFire, SpawnExternal, Spawn, TaskOf, rows, Base, TypeOK
  <2>2. CASE ~ \E c \in Clients : CommitFire(c)
    BY <1>3, <2>2 DEF Endpoint, Read, CancelRead, CommitCancel, CommitAck, CommitUpdate, Pause, Stop, Approve,
                      Overwrite, SetFrozen, TaskOf, fires, rows
  <2> QED
    BY <2>1, <2>2
<1>4. CASE Crash \/ Restart \/ UNCHANGED vars
  BY <1>4 DEF Crash, Restart, vars, TaskOf, fires, rows
<1> QED
  BY <1>1, <1>2, <1>3, <1>4 DEF Next

-----------------------------------------------------------------------------
(* The failure counters.                                                   *)

LEMMA FailuresFinite ==
  ASSUME NEW t
  PROVE  IsFiniteSet(FailuresCounted(t)) /\ Cardinality(FailuresCounted(t)) \in Nat
<1>1. IsFiniteSet(Fires)
  BY FS_Interval, ConstantsOK DEF Fires
<1>2. FailuresCounted(t) \subseteq Fires
  BY DEF FailuresCounted
<1> QED
  BY <1>1, <1>2, FS_Subset, FS_CardinalityType

LEMMA FailuresGrow ==
  ASSUME Base, [Next]_vars, NEW t
  PROVE  /\ FailuresCounted(t) \subseteq FailuresCounted(t)'
         /\ IsFiniteSet(FailuresCounted(t)') /\ Cardinality(FailuresCounted(t)') \in Nat
         /\ Cardinality(FailuresCounted(t)) \in Nat
         /\ Cardinality(FailuresCounted(t)) <= Cardinality(FailuresCounted(t)')
<1>0. IsFiniteSet(Fires)
  BY FS_Interval, ConstantsOK DEF Fires
<1>1. FailuresCounted(t) \subseteq FailuresCounted(t)'
  <2> SUFFICES ASSUME NEW f \in FailuresCounted(t) PROVE f \in FailuresCounted(t)'
    OBVIOUS
  <2>1. f \in Fires /\ pc[f] \in {"counted", "done"} /\ TaskOf(f) = t /\ result[f] = "failed"
    BY DEF FailuresCounted
  <2>2. TaskOf(f)' = t /\ result'[f] = "failed" /\ pc'[f] \in {"counted", "done"}
    BY <2>1, History DEF ClosedPcs
  <2> QED
    BY <2>1, <2>2 DEF FailuresCounted
<1>2. IsFiniteSet(FailuresCounted(t)')
  <2>1. FailuresCounted(t)' \subseteq Fires
    BY DEF FailuresCounted
  <2> QED
    BY <2>1, <1>0, FS_Subset
<1> QED
  BY <1>1, <1>2, FailuresFinite, FS_Subset, FS_CardinalityType

\* Steps that raise no counter, read no counter, read no task state or
\* dead-letter no task keep the conjunct concerned.
LEMMA CountersKept ==
  ASSUME Base, [Next]_vars, CountersEarned, DlqIsEarned
  PROVE  /\ (\A f \in Fires : failures'[f] \in {0, failures[f]})
            => \A f \in Fires : Earned(failures[f], TaskOf(f))'
         /\ (\A f \in Fires : pc'[f] = "counting" =>
               pc[f] = "counting" /\ seen'[f] = seen[f])
            => \A f \in Fires : pc'[f] = "counting" => Earned(seen[f].cf, TaskOf(f))'
         /\ (\A c \in Clients : req'[c].seen = "dlq" => req'[c] = req[c])
            => \A c \in Clients : req'[c].seen = "dlq" => Earned(DlqThreshold, req[c].task)'
         /\ (\A t \in Tasks : taskState'[t] = "dlq" => taskState[t] = "dlq")
            => DlqIsEarned'
<1> USE ConstantsOK
<1>0. /\ \A f \in Fires : failures[f] \in Nat /\ seen[f].cf \in Nat
      /\ Base
  BY DEF Base, TypeOK
<1>1. ASSUME \A f \in Fires : failures'[f] \in {0, failures[f]}, NEW f \in Fires
      PROVE  Earned(failures[f], TaskOf(f))'
  <2>1. CASE failures'[f] = 0
    BY <2>1, FailuresGrow DEF Earned
  <2>2. CASE failures'[f] # 0
    <3>1. failures'[f] = failures[f] /\ pc[f] # "unused"
      BY <1>1, <2>2 DEF Base, TypeOK, Allocated, Fires
    <3>2. TaskOf(f)' = TaskOf(f)
      BY <3>1, History
    <3> QED
      BY <3>1, <3>2, <1>0, FailuresGrow DEF Earned, CountersEarned
  <2> QED
    BY <2>1, <2>2
<1>2. ASSUME \A f \in Fires : pc'[f] = "counting" =>
               pc[f] = "counting" /\ seen'[f] = seen[f],
             NEW f \in Fires, pc'[f] = "counting"
      PROVE  Earned(seen[f].cf, TaskOf(f))'
  <2>1. seen'[f] = seen[f] /\ pc[f] = "counting" /\ TaskOf(f)' = TaskOf(f)
    BY <1>2, History
  <2> QED
    BY <2>1, <1>0, FailuresGrow DEF Earned, CountersEarned
<1>3. ASSUME \A c \in Clients : req'[c].seen = "dlq" => req'[c] = req[c],
             NEW c \in Clients, req'[c].seen = "dlq"
      PROVE  Earned(DlqThreshold, req[c].task)'
  BY <1>3, FailuresGrow DEF Earned, CountersEarned
<1>4. ASSUME \A t \in Tasks : taskState'[t] = "dlq" => taskState[t] = "dlq"
      PROVE  DlqIsEarned'
  BY <1>4, FailuresGrow DEF DlqIsEarned
<1> QED
  BY <1>1, <1>2, <1>3, <1>4

LEMMA CountReadCounters ==
  ASSUME Base, NEW f \in Fires, CountRead(f), CountersEarned, DlqIsEarned
  PROVE  CountersEarned' /\ DlqIsEarned'
<1> USE ConstantsOK
<1>0. [Next]_vars
  BY DEF Next, Step
<1>1. /\ \A g \in Fires : failures'[g] \in {0, failures[g]}
      /\ \A c \in Clients : req'[c].seen = "dlq" => req'[c] = req[c]
      /\ \A t \in Tasks : taskState'[t] = "dlq" => taskState[t] = "dlq"
  BY DEF CountRead, rows
<1>2. ASSUME NEW g \in Fires, pc'[g] = "counting"
      PROVE  Earned(seen[g].cf, TaskOf(g))'
  <2>1. CASE g = f
    <3> DEFINE l == latest[TaskOf(f)]
    <3>1. pc[f] = "resulted" /\ TaskOf(f)' = TaskOf(f)
      BY <1>0, History DEF CountRead, Move
    <3>2. TaskOf(f) \in Tasks
      BY <3>1, Started
    <3>3. l \in Fires /\ TaskOf(l) = TaskOf(f)
      BY <3>1, <3>2 DEF Base, Holds, RowsOwned, TypeOK, ClosedPcs
    <3>4. seen'[f].cf = failures[l] /\ failures[l] \in Nat
      BY <3>3 DEF CountRead, Base, TypeOK
    <3>5. Earned(failures[l], TaskOf(f))
      BY <3>3 DEF CountersEarned
    <3> QED
      BY <3>1, <3>4, <3>5, <2>1, <1>0, FailuresGrow DEF Earned
  <2>2. CASE g # f
    <3>1. pc[g] = "counting" /\ seen'[g] = seen[g]
      BY <2>2, <1>2 DEF CountRead, Move, Base, TypeOK
    <3>2. TaskOf(g)' = TaskOf(g) /\ seen[g].cf \in Nat
      BY <3>1, <1>0, History DEF Base, TypeOK
    <3> QED
      BY <3>1, <3>2, <1>0, FailuresGrow DEF Earned, CountersEarned
  <2> QED
    BY <2>1, <2>2
<1> QED
  BY <1>0, <1>1, <1>2, CountersKept DEF CountersEarned

\* The counter committed exceeds the one read by one only if this run failed,
\* and then this run is a failure not recorded before.
LEMMA CountCommitCounters ==
  ASSUME Base, NEW f \in Fires, CountCommit(f), CountersEarned, DlqIsEarned
  PROVE  CountersEarned' /\ DlqIsEarned'
<1> USE ConstantsOK
<1> DEFINE l == seen[f].lrow
<1>0. [Next]_vars
  BY DEF Next, Step
<1>9. TaskOf(f) \in Tasks
  BY Started DEF CountCommit, Move
<1> PICK u \in Tasks : u = TaskOf(f)
  BY <1>9
<1>1. /\ pc[f] = "counting" /\ pc'[f] = "counted"
      /\ TaskOf(f)' = u /\ result'[f] = result[f] /\ result[f] \in Outcomes
      /\ l \in Fires /\ TaskOf(l) = u
      /\ seen[f].cf \in Nat
  <2>1. pc[f] = "counting" /\ pc'[f] = "counted" /\ result' = result
    BY DEF CountCommit, Move, Base, TypeOK
  <2>3. l \in Fires /\ TaskOf(l) = u /\ result[f] \in Outcomes /\ seen[f].cf \in Nat
    BY <2>1 DEF Base, TypeOK, Holds, RowsOwned, ClosedPcs
  <2>4. \A g \in Fires : TaskOf(g)' = TaskOf(g)
    BY DEF CountCommit, fires, TaskOf
  <2> QED
    BY <2>1, <2>3, <2>4
<1>2. NewCount(f) \in Nat /\ Cardinality(FailuresCounted(u)') \in Nat
      /\ NewCount(f) <= Cardinality(FailuresCounted(u)')
  <2>1. CASE result[f] = "completed"
    BY <2>1, <1>0, FailuresGrow DEF NewCount
  <2>2. CASE result[f] = "failed"
    <3>1. f \notin FailuresCounted(u) /\ f \in FailuresCounted(u)'
      BY <1>1, <2>2 DEF FailuresCounted
    <3>2. /\ FailuresCounted(u) \cup {f} \subseteq FailuresCounted(u)'
          /\ IsFiniteSet(FailuresCounted(u)') /\ IsFiniteSet(FailuresCounted(u))
      BY <3>1, <1>0, FailuresGrow, FailuresFinite
    <3>3. /\ Cardinality(FailuresCounted(u) \cup {f}) = Cardinality(FailuresCounted(u)) + 1
          /\ Cardinality(FailuresCounted(u) \cup {f}) <= Cardinality(FailuresCounted(u)')
      BY <3>1, <3>2, FS_AddElement, FS_Subset
    <3>4. seen[f].cf <= Cardinality(FailuresCounted(u))
      BY <1>1 DEF CountersEarned, Earned
    <3>5. Cardinality(FailuresCounted(u)) \in Nat /\ Cardinality(FailuresCounted(u)') \in Nat
      BY <1>0, FailuresGrow
    <3>6. NewCount(f) = seen[f].cf + 1
      BY <2>2 DEF NewCount
    <3> QED
      BY <3>3, <3>4, <3>5, <3>6, <1>1
  <2> QED
    BY <2>1, <2>2, <1>1 DEF Outcomes
<1>3. ASSUME NEW g \in Fires PROVE Earned(failures[g], TaskOf(g))'
  <2>0. TaskOf(g)' = TaskOf(g)
    BY DEF CountCommit, fires, TaskOf
  <2>1. CASE failures'[g] = failures[g]
    <3>1. failures[g] \in Nat
      BY DEF Base, TypeOK
    <3> QED
      BY <2>0, <2>1, <3>1, <1>0, FailuresGrow DEF CountersEarned, Earned
  <2>2. CASE failures'[g] # failures[g]
    <3>1. g = l /\ failures'[g] = NewCount(f)
      BY <2>2, <1>1 DEF CountCommit, Base, TypeOK
    <3> QED
      BY <3>1, <1>1, <1>2, <2>0 DEF Earned
  <2> QED
    BY <2>1, <2>2
<1>4. /\ \A g \in Fires : pc'[g] = "counting" => pc[g] = "counting" /\ seen'[g] = seen[g]
      /\ \A c \in Clients : req'[c].seen = "dlq" => req'[c] = req[c]
  BY <1>1 DEF CountCommit, Move, Base, TypeOK
<1>5. DlqIsEarned'
  <2> SUFFICES ASSUME NEW t \in Tasks, taskState'[t] = "dlq"
               PROVE  Cardinality(FailuresCounted(t)') >= DlqThreshold
    BY DEF DlqIsEarned
  <2>1. CASE taskState[t] = "dlq"
    BY <2>1, <1>0, FailuresGrow DEF DlqIsEarned
  <2>2. CASE taskState[t] # "dlq"
    <3>1. t = u /\ NewCount(f) >= DlqThreshold
      BY <2>2, <1>1 DEF CountCommit, Base, TypeOK
    <3> QED
      BY <3>1, <1>2
  <2> QED
    BY <2>1, <2>2
<1> QED
  BY <1>0, <1>3, <1>4, <1>5, CountersKept DEF CountersEarned

LEMMA NextCounters ==
  ASSUME Base, [Next]_vars, CountersEarned, DlqIsEarned
  PROVE  CountersEarned' /\ DlqIsEarned'
<1> USE DEF Base, TypeOK
<1> DEFINE KeepFailures == \A f \in Fires : failures'[f] \in {0, failures[f]}
           KeepSeen == \A f \in Fires : pc'[f] = "counting" =>
                           pc[f] = "counting" /\ seen'[f] = seen[f]
           KeepReq == \A c \in Clients : req'[c].seen = "dlq" => req'[c] = req[c]
           KeepDlq == \A t \in Tasks : taskState'[t] = "dlq" => taskState[t] = "dlq"
<1>0. /\ KeepFailures => \A f \in Fires : Earned(failures[f], TaskOf(f))'
      /\ KeepSeen => \A f \in Fires : pc'[f] = "counting" => Earned(seen[f].cf, TaskOf(f))'
      /\ KeepReq => \A c \in Clients : req'[c].seen = "dlq" => Earned(DlqThreshold, req[c].task)'
      /\ KeepDlq => DlqIsEarned'
  BY CountersKept
<1>1. KeepFailures /\ KeepSeen /\ KeepReq /\ KeepDlq => CountersEarned' /\ DlqIsEarned'
  BY <1>0 DEF CountersEarned
<1>2. ASSUME NEW f \in Fires, Step(f) PROVE CountersEarned' /\ DlqIsEarned'
  <2>1. CASE Drop(f) \/ Admit(f) \/ Hold(f) \/ EngineRaises(f) \/ ResultOnly(f) \/ Return(f)
    <3>1. KeepFailures /\ KeepSeen /\ KeepReq /\ KeepDlq
      BY <2>1 DEF Drop, Admit, Hold, EngineRaises, ResultOnly, Return, Move, rows
    <3> QED
      BY <3>1, <1>1
  <2>2. CASE OpenRow(f) \/ \E o \in Outcomes : CloseRow(f, o)
    <3>1. KeepFailures /\ KeepSeen /\ KeepReq /\ KeepDlq
      BY <2>2 DEF OpenRow, CloseRow, Move
    <3> QED
      BY <3>1, <1>1
  <2>3. CASE SetResult(f)
    <3>1. result[f] # "dlq"
      BY DEF Outcomes
    <3>2. KeepFailures /\ KeepSeen /\ KeepReq /\ KeepDlq
      BY <2>3, <3>1 DEF SetResult, Move, rows
    <3> QED
      BY <3>2, <1>1
  <2>4. CASE CountRead(f) \/ CountCommit(f)
    BY <2>4, CountReadCounters, CountCommitCounters
  <2>5. CASE Dispatch(f)
    <3>1. KeepFailures /\ KeepSeen /\ KeepReq /\ KeepDlq
      BY <2>5 DEF Dispatch, rows
    <3> QED
      BY <3>1, <1>1
  <2> QED
    BY <1>2, <2>1, <2>2, <2>3, <2>4, <2>5 DEF Step
<1>3. ASSUME NEW t \in Tasks, Tick(t) PROVE CountersEarned' /\ DlqIsEarned'
  <2>1. KeepFailures /\ KeepSeen /\ KeepReq /\ KeepDlq
    BY <1>3 DEF Tick, SpawnExternal, rows
  <2> QED
    BY <2>1, <1>1
<1>4. ASSUME NEW c \in Clients, NEW k \in RequestKinds, NEW t \in Tasks, Read(c, k, t)
      PROVE  CountersEarned' /\ DlqIsEarned'
  <2>1. KeepFailures /\ KeepSeen /\ KeepDlq
    BY <1>4 DEF Read, rows
  <2>2. ASSUME NEW d \in Clients, req'[d].seen = "dlq"
        PROVE  Earned(DlqThreshold, req[d].task)'
    <3>1. CASE d # c
      BY <3>1, <2>2, <1>4, FailuresGrow, ConstantsOK DEF Read, CountersEarned, Earned
    <3>2. CASE d = c
      <4>1. req'[d].task = t /\ taskState[t] = "dlq"
        BY <3>2, <2>2, <1>4 DEF Read
      <4> QED
        BY <4>1, FailuresGrow, ConstantsOK DEF DlqIsEarned, Earned
    <3> QED
      BY <3>1, <3>2
  <2> QED
    BY <2>1, <2>2, <1>0 DEF CountersEarned
<1>5. ASSUME NEW c \in Clients, CommitFire(c) \/ CommitAck(c)
      PROVE  CountersEarned' /\ DlqIsEarned'
  <2>1. KeepSeen /\ KeepReq /\ KeepDlq
    BY <1>5 DEF CommitFire, CommitAck, SpawnExternal, NoReq
  <2>2. KeepFailures
    BY <1>5 DEF CommitFire, CommitAck, rows
  <2> QED
    BY <2>1, <2>2, <1>1
<1>6. ASSUME NEW c \in Clients, CommitUpdate(c) PROVE CountersEarned' /\ DlqIsEarned'
  <2>1. KeepFailures /\ KeepSeen /\ KeepReq
    BY <1>6 DEF CommitUpdate, NoReq, rows
  <2>2. ASSUME NEW t \in Tasks, taskState'[t] = "dlq"
        PROVE  Cardinality(FailuresCounted(t)') >= DlqThreshold
    <3>1. CASE taskState[t] = "dlq"
      BY <3>1, FailuresGrow, ConstantsOK DEF DlqIsEarned
    <3>2. CASE taskState[t] # "dlq"
      <4>1. t = req[c].task /\ req[c].seen = "dlq"
        BY <3>2, <2>2, <1>6 DEF CommitUpdate
      <4> QED
        BY <4>1, FailuresGrow, ConstantsOK DEF CountersEarned, Earned
    <3> QED
      BY <3>1, <3>2
  <2> QED
    BY <2>1, <2>2, <1>0 DEF CountersEarned, DlqIsEarned
<1>7. ASSUME NEW t \in Tasks, NEW kind, NEW state \in {"paused", "stopped", "scheduled"},
             Overwrite(kind, t, state)
      PROVE  CountersEarned' /\ DlqIsEarned'
  <2>1. KeepFailures /\ KeepSeen /\ KeepReq /\ KeepDlq
    BY <1>7 DEF Overwrite, rows
  <2> QED
    BY <2>1, <1>1
<1>9. CASE \E c \in Clients : CommitCancel(c) \/ \E f \in Fires : CancelRead(c, f)
  <2>1. KeepFailures /\ KeepSeen /\ KeepReq /\ KeepDlq
    BY <1>9 DEF CancelRead, CommitCancel, NoReq, rows
  <2> QED
    BY <2>1, <1>1
<1>8. CASE (\E b \in BOOLEAN : SetFrozen(b)) \/ Crash \/ Restart \/ UNCHANGED vars
  <2>1. KeepFailures /\ KeepSeen /\ KeepReq /\ KeepDlq
    BY <1>8 DEF SetFrozen, Crash, Restart, vars, NoReq, rows
  <2> QED
    BY <2>1, <1>1
<1> QED
  BY <1>2, <1>3, <1>4, <1>5, <1>6, <1>7, <1>8, <1>9 DEF Next, Endpoint, Pause, Stop, Approve

LEMMA InitCounters == Init => CountersEarned /\ DlqIsEarned
<1> SUFFICES ASSUME Init PROVE CountersEarned /\ DlqIsEarned
  OBVIOUS
<1>1. \A t : 0 <= Cardinality(FailuresCounted(t))
  BY FailuresFinite
<1>2. CountersEarned
  BY <1>1 DEF Init, CountersEarned, Earned, Nothing, NoReq
<1>3. DlqIsEarned
  BY DEF Init, DlqIsEarned
<1> QED
  BY <1>2, <1>3

\* A dead-lettered task has DlqThreshold recorded failures of its own,
\* whatever fires, requests and crashes raced on its counter.
THEOREM DeadLettersAreEarned == Spec => []DlqIsEarned
<1> DEFINE I == Base /\ CountersEarned /\ DlqIsEarned
<1>1. Init => I
  BY InitBase, InitCounters
<1>2. I /\ [Next]_vars => I'
  BY NextBase, NextCounters
<1>3. I => DlqIsEarned
  OBVIOUS
<1> QED
  BY <1>1, <1>2, <1>3, PTL DEF Spec

-----------------------------------------------------------------------------
(* Recorded outcomes.                                                      *)

\* A run of t closed with the outcome o: result is never changed once it is
\* set, while the row of the run may be overwritten by a /cancel.
Recorded(o, t) == \E f \in Fires : TaskOf(f) = t /\ result[f] = o

LEMMA RecordedStays ==
  ASSUME Base, [Next]_vars, NEW o \in Outcomes, NEW t
  PROVE  Recorded(o, t) => Recorded(o, t)'
<1> SUFFICES ASSUME NEW f \in Fires, TaskOf(f) = t, result[f] = o
             PROVE  TaskOf(f)' = t /\ result'[f] = o
  BY DEF Recorded
<1>1. pc[f] \in ClosedPcs
  BY DEF Base, RowsOwned
<1> QED
  BY <1>1, History DEF ClosedPcs

Outcome == OutcomesSeen /\ OutcomesAreRecorded

\* A row that was closed with an outcome still holds it, or was cancelled.
LEMMA RecordedHolds ==
  ASSUME Base
  PROVE  /\ OutcomesSeen <=> \A c \in Clients : req[c].seen \in Outcomes =>
                                Recorded(req[c].seen, req[c].task)
         /\ OutcomesAreRecorded <=> \A t \in Tasks : taskState[t] \in Outcomes =>
                                       Recorded(taskState[t], t)
<1>1. \A f \in Fires : result[f] \in Outcomes => Holds(f)
  BY DEF Base, RowsOwned
<1> QED
  BY <1>1 DEF OutcomesSeen, OutcomesAreRecorded, Recorded

\* Where an outcome shown in the next state may come from: the same place, a
\* run of the task, an edit that had read it, or the task an edit reads.
LEMMA OutcomeSources ==
  ASSUME Base, [Next]_vars
  PROVE  /\ \A t \in Tasks : taskState'[t] \in Outcomes =>
              \/ taskState[t] = taskState'[t]
              \/ Recorded(taskState'[t], t)
              \/ \E c \in Clients : req[c].task = t /\ req[c].seen = taskState'[t]
         /\ \A c \in Clients : req'[c].seen \in Outcomes =>
              \/ req'[c] = req[c]
              \/ req'[c].task \in Tasks /\ taskState[req'[c].task] = req'[c].seen
<1> USE DEF Base, TypeOK, Outcomes
<1>1. ASSUME NEW t \in Tasks, taskState'[t] \in Outcomes, taskState[t] # taskState'[t]
      PROVE  \/ Recorded(taskState'[t], t)
             \/ \E c \in Clients : req[c].task = t /\ req[c].seen = taskState'[t]
  <2>1. CASE \E f \in Fires : SetResult(f)
    BY <2>1, <1>1 DEF SetResult, Recorded
  <2>2. CASE \E c \in Clients : CommitUpdate(c)
    BY <2>2, <1>1 DEF CommitUpdate
  <2>3. CASE ~(\E f \in Fires : SetResult(f)) /\ ~(\E c \in Clients : CommitUpdate(c))
    <3>1. CASE \E f \in Fires : Step(f)
      BY <3>1, <2>3, <1>1 DEF Step, Drop, Admit, Hold, EngineRaises, ResultOnly, OpenRow, CloseRow,
            CountRead, CountCommit, Return, Dispatch
    <3>2. CASE \E u \in Tasks : Tick(u)
      BY <3>2, <1>1 DEF Tick
    <3>3. CASE Endpoint
      BY <3>3, <2>3, <1>1 DEF Endpoint, Read, CancelRead, CommitCancel, CommitFire, CommitAck, Pause, Stop, Approve,
            Overwrite, SetFrozen
    <3>4. CASE Crash \/ Restart \/ UNCHANGED vars
      BY <3>4, <1>1 DEF Crash, Restart, vars
    <3> QED
      BY <3>1, <3>2, <3>3, <3>4 DEF Next
  <2> QED
    BY <2>1, <2>2, <2>3
<1>2. ASSUME NEW c \in Clients, req'[c].seen \in Outcomes, req'[c] # req[c]
      PROVE  req'[c].task \in Tasks /\ taskState[req'[c].task] = req'[c].seen
  <2>1. CASE \E d \in Clients, k \in RequestKinds, t \in Tasks : Read(d, k, t)
    BY <2>1, <1>2 DEF Read
  <2>2. CASE ~ \E d \in Clients, k \in RequestKinds, t \in Tasks : Read(d, k, t)
    <3>1. CASE \E f \in Fires : Step(f)
      BY <3>1, <1>2 DEF Step, Drop, Admit, Hold, EngineRaises, ResultOnly, OpenRow, CloseRow, SetResult,
            CountRead, CountCommit, Return, Dispatch
    <3>2. CASE \E u \in Tasks : Tick(u)
      BY <3>2, <1>2 DEF Tick
    <3>3. CASE Endpoint
      BY <3>3, <2>2, <1>2 DEF Endpoint, CancelRead, CommitCancel, CommitFire, CommitAck, CommitUpdate, Pause, Stop,
            Approve, Overwrite, SetFrozen, NoReq
    <3>4. CASE Crash \/ Restart \/ UNCHANGED vars
      BY <3>4, <1>2 DEF Crash, Restart, vars, NoReq
    <3> QED
      BY <3>1, <3>2, <3>3, <3>4 DEF Next
  <2> QED
    BY <2>1, <2>2
<1> QED
  BY <1>1, <1>2

LEMMA NextOutcome == Base /\ Outcome /\ [Next]_vars => Outcome'
<1> SUFFICES ASSUME Base, Outcome, [Next]_vars PROVE Outcome'
  OBVIOUS
<1>1. ASSUME NEW t \in Tasks, NEW o \in Outcomes, taskState'[t] = o
      PROVE  Recorded(o, t)'
  <2>1. Recorded(o, t)
    BY <1>1, OutcomeSources, RecordedHolds DEF Outcome
  <2> QED
    BY <2>1, RecordedStays
<1>2. ASSUME NEW c \in Clients, NEW o \in Outcomes, req'[c].seen = o,
             NEW t, t = req'[c].task
      PROVE  Recorded(o, t)'
  <2>1. Recorded(o, t)
    BY <1>2, OutcomeSources, RecordedHolds DEF Outcome
  <2> QED
    BY <2>1, RecordedStays
<1>3. /\ \A t \in Tasks : taskState'[t] \in Outcomes => Recorded(taskState[t], t)'
      /\ \A c \in Clients : req'[c].seen \in Outcomes => Recorded(req[c].seen, req[c].task)'
  BY <1>1, <1>2
<1>4. Base'
  BY NextBase
<1>5. \A f \in Fires : result'[f] \in Outcomes => Holds(f)'
  BY <1>4 DEF Base, RowsOwned
<1> QED
  BY <1>3, <1>5 DEF Outcome, OutcomesSeen, OutcomesAreRecorded, Recorded

\* The task list never shows an outcome that no run of the task was closed with
\* in the run log, where it stands unless a /cancel has overwritten it.
THEOREM ShownOutcomesAreRecorded == Spec => []OutcomesAreRecorded
<1>1. Init => Base /\ Outcome
  <2>1. Init => Outcome
    BY DEF Init, Outcome, OutcomesSeen, OutcomesAreRecorded, Outcomes, NoReq
  <2> QED
    BY <2>1, InitBase
<1>2. Base /\ Outcome /\ [Next]_vars => Base' /\ Outcome'
  BY NextBase, NextOutcome
<1>3. Outcome => OutcomesAreRecorded
  BY DEF Outcome
<1> QED
  BY <1>1, <1>2, <1>3, PTL DEF Spec

-----------------------------------------------------------------------------
(* Lineages.                                                               *)

\* Successor in the next state, of a fire named in either state.
SuccessorNext(p) == IF result'[p] = "completed"
                    THEN OnSuccess[job'[p].task] ELSE OnFailure[job'[p].task]

\* Only a dispatch and an external fire extend a lineage.
LEMMA LineagesKept ==
  ASSUME Base, [Next]_vars, LineagesLinear, UNCHANGED <<job, nextFire>>
  PROVE  LineagesLinear'
<1> USE DEF Base, TypeOK
<1>1. ASSUME NEW f \in Fires, NEW g \in Fires, f < g, g < nextFire, job[f].root = job[g].root
      PROVE  pc'[f] = "done" /\ InChain(TaskOf(f), job[g].chain)
  <2>1. pc[f] = "done" /\ InChain(TaskOf(f), job[g].chain)
    BY <1>1 DEF LineagesLinear
  <2> QED
    BY <2>1, History
<1>2. ASSUME NEW f \in Fires, job[f].parent # 0
      PROVE  LET p == job[f].parent
             IN p \in Fires /\ pc'[p] = "done" /\ TaskOf(f) = Successor(p)'
  <2> DEFINE p == job[f].parent
  <2>1. p \in Fires /\ pc[p] = "done" /\ TaskOf(f) = Successor(p)
    BY <1>2 DEF LineagesLinear
  <2> PICK q \in Fires : q = p
    BY <2>1
  <2>2. pc'[q] = "done" /\ result'[q] = result[q] /\ TaskOf(q)' = TaskOf(q)
    BY <2>1, History DEF ClosedPcs
  <2> QED
    BY <2>1, <2>2 DEF Successor
<1> QED
  BY <1>1, <1>2 DEF LineagesLinear, TaskOf, InChain, Successor

LEMMA ExternalLineages ==
  ASSUME Base, Base', [Next]_vars, LineagesLinear, NEW t \in Tasks,
         NEW src \in {"tick", "request"}, SpawnExternal(t, src)
  PROVE  LineagesLinear'
<1> USE ConstantsOK DEF Base, TypeOK
<1>1. /\ job'[nextFire] = ExternalJob(t, src) /\ nextFire' = nextFire + 1
      /\ \A g \in Fires : g # nextFire => job'[g] = job[g]
      /\ nextFire \in Fires
  BY DEF SpawnExternal, Spawn, ExternalJob
<1>2. ASSUME NEW f \in Fires, NEW g \in Fires, f < g, g < nextFire', job'[f].root = job'[g].root
      PROVE  pc'[f] = "done" /\ InChain(job'[f].task, job'[g].chain)
  <2>1. f < nextFire /\ job'[f] = job[f] /\ job[f].root \in 1..f
    BY <1>1, <1>2 DEF Allocated, Fires
  <2>2. g # nextFire
    BY <2>1, <1>1, <1>2 DEF ExternalJob, Fires
  <2>3. g < nextFire /\ job'[g] = job[g]
    BY <2>2, <1>1, <1>2 DEF Fires
  <2>4. pc[f] = "done" /\ InChain(job[f].task, job[g].chain)
    BY <2>1, <2>3, <1>2 DEF LineagesLinear, TaskOf
  <2> QED
    BY <2>1, <2>3, <2>4, History
<1>3. ASSUME NEW f \in Fires, job'[f].parent # 0
      PROVE  /\ job'[f].parent \in Fires /\ pc'[job'[f].parent] = "done"
             /\ job'[f].task = SuccessorNext(job'[f].parent)
  <2>1. job'[f] = job[f]
    BY <1>1, <1>3 DEF ExternalJob
  <2> PICK q \in Fires : q = job[f].parent
    BY <2>1, <1>3 DEF LineagesLinear
  <2>2. pc[q] = "done" /\ job[f].task = Successor(q)
    BY <2>1, <1>3 DEF LineagesLinear, TaskOf
  <2>3. pc'[q] = "done" /\ result'[q] = result[q] /\ TaskOf(q)' = TaskOf(q)
    BY <2>2, History DEF ClosedPcs
  <2> QED
    BY <2>1, <2>2, <2>3 DEF Successor, SuccessorNext, TaskOf
<1> QED
  BY <1>2, <1>3 DEF LineagesLinear, TaskOf, InChain, Successor, SuccessorNext

LEMMA DispatchLineages ==
  ASSUME Base, Base', [Next]_vars, LineagesLinear, NEW d \in Fires, Dispatch(d)
  PROVE  LineagesLinear'
<1> USE ConstantsOK DEF Base, TypeOK
<1>1. /\ job'[nextFire] = ChainJob(d) /\ nextFire' = nextFire + 1
      /\ \A g \in Fires : g # nextFire => job'[g] = job[g]
      /\ nextFire \in Fires /\ result' = result /\ pc[d] = "counted"
  BY DEF Dispatch, Spawn, rows
<1>2. /\ d < nextFire /\ job[d].chain \in Seq(Tasks) /\ TaskOf(d) \in Tasks
      /\ pc'[d] = "done" /\ job'[d] = job[d]
  <2>1. d < nextFire /\ job[d] \in Job /\ TaskOf(d) \in Tasks
    BY <1>1, Started
  <2> QED
    BY <2>1, <1>1 DEF Job, Dispatch, Fires
<1>3. /\ InChain(TaskOf(d), ChainJob(d).chain)
      /\ \A t : InChain(t, job[d].chain) => InChain(t, ChainJob(d).chain)
  <2> DEFINE s == job[d].chain
             e == TaskOf(d)
  <2>1. /\ Len(Append(s, e)) = Len(s) + 1 /\ Len(s) \in Nat
        /\ Append(s, e)[Len(s) + 1] = e
        /\ \A i \in 1..Len(s) : Append(s, e)[i] = s[i]
    BY <1>2
  <2>2. ChainJob(d).chain = Append(s, e)
    BY DEF ChainJob
  <2> HIDE DEF s, e
  <2>3. InChain(e, Append(s, e)) /\ \A t : InChain(t, s) => InChain(t, Append(s, e))
    BY <2>1 DEF InChain
  <2> QED
    BY <2>2, <2>3 DEF s, e
<1>4. ASSUME NEW f \in Fires, NEW g \in Fires, f < g, g < nextFire', job'[f].root = job'[g].root
      PROVE  pc'[f] = "done" /\ InChain(job'[f].task, job'[g].chain)
  <2>1. f < nextFire /\ job'[f] = job[f] /\ f # nextFire
    BY <1>1, <1>4 DEF Fires
  <2>2. CASE g # nextFire
    <3>1. g < nextFire /\ job'[g] = job[g]
      BY <2>2, <1>1, <1>4 DEF Fires
    <3>2. pc[f] = "done" /\ InChain(job[f].task, job[g].chain)
      BY <2>1, <3>1, <1>4 DEF LineagesLinear, TaskOf
    <3> QED
      BY <2>1, <3>1, <3>2, History
  <2>3. CASE g = nextFire
    <3>1. job[f].root = job[d].root /\ job'[g].chain = ChainJob(d).chain
      BY <2>1, <2>3, <1>1, <1>4 DEF ChainJob
    <3>2. CASE f = d
      BY <3>1, <3>2, <1>2, <1>3 DEF TaskOf
    <3>3. CASE f < d
      <4>1. pc[f] = "done" /\ InChain(job[f].task, job[d].chain)
        BY <3>1, <3>3, <1>2 DEF LineagesLinear, TaskOf
      <4> QED
        BY <4>1, <3>1, <2>1, <1>3, History
    <3>4. CASE f > d
      <4>1. pc[d] = "done"
        BY <3>1, <3>4, <2>1 DEF LineagesLinear, Fires
      <4> QED
        BY <4>1, <1>1
    <3> QED
      BY <3>2, <3>3, <3>4 DEF Fires
  <2> QED
    BY <2>2, <2>3
<1>5. ASSUME NEW f \in Fires, job'[f].parent # 0
      PROVE  /\ job'[f].parent \in Fires /\ pc'[job'[f].parent] = "done"
             /\ job'[f].task = SuccessorNext(job'[f].parent)
  <2>1. CASE f = nextFire
    <3>1. job'[f].parent = d /\ job'[f].task = Successor(d)
      BY <2>1, <1>1 DEF ChainJob
    <3>2. SuccessorNext(d) = Successor(d)
      BY <1>1, <1>2 DEF Successor, SuccessorNext, TaskOf
    <3> QED
      BY <3>1, <3>2, <1>2
  <2>2. CASE f # nextFire
    <3>1. job'[f] = job[f]
      BY <1>1, <2>2
    <3> PICK q \in Fires : q = job[f].parent
      BY <3>1, <1>5 DEF LineagesLinear
    <3>2. pc[q] = "done" /\ job[f].task = Successor(q)
      BY <3>1, <1>5 DEF LineagesLinear, TaskOf
    <3>3. pc'[q] = "done" /\ result'[q] = result[q] /\ TaskOf(q)' = TaskOf(q)
      BY <3>2, History DEF ClosedPcs
    <3> QED
      BY <3>1, <3>2, <3>3 DEF Successor, SuccessorNext, TaskOf
  <2> QED
    BY <2>1, <2>2
<1> QED
  BY <1>4, <1>5 DEF LineagesLinear, TaskOf, InChain, Successor, SuccessorNext

LEMMA NextLineages ==
  ASSUME Base, [Next]_vars, LineagesLinear
  PROVE  LineagesLinear'
<1>0. Base'
  BY NextBase
<1>1. CASE \E d \in Fires : Dispatch(d)
  BY <1>0, <1>1, DispatchLineages
<1>2. CASE \E t \in Tasks : Tick(t)
  BY <1>0, <1>2, ExternalLineages DEF Tick
<1>3. CASE \E c \in Clients : CommitFire(c)
  <2> PICK c \in Clients : CommitFire(c)
    BY <1>3
  <2>1. req[c].task \in Tasks /\ SpawnExternal(req[c].task, "request")
    BY DEF CommitFire, Base, TypeOK, Requests, NoReq
  <2> QED
    BY <1>0, <2>1, ExternalLineages
<1>4. CASE /\ ~ \E d \in Fires : Dispatch(d)
           /\ ~ \E t \in Tasks : Tick(t)
           /\ ~ \E c \in Clients : CommitFire(c)
  <2>1. UNCHANGED <<job, nextFire>>
    BY <1>4 DEF Next, Step, Drop, Admit, Hold, EngineRaises, ResultOnly, OpenRow, CloseRow, SetResult,
       CountRead, CountCommit, Return, Endpoint, Read, CancelRead, CommitCancel, CommitAck, CommitUpdate, Pause,
       Stop, Approve, Overwrite, SetFrozen, Crash, Restart, vars, fires
  <2> QED
    BY <2>1, LineagesKept
<1> QED
  BY <1>1, <1>2, <1>3, <1>4

LEMMA InitLineages == Init => LineagesLinear
  BY DEF Init, LineagesLinear, NoJob, Fires

LEMMA LineageInvariant == Spec => [](Base /\ LineagesLinear)
<1>1. Init => Base /\ LineagesLinear
  BY InitBase, InitLineages
<1>2. Base /\ LineagesLinear /\ [Next]_vars => Base' /\ LineagesLinear'
  BY NextBase, NextLineages
<1> QED
  BY <1>1, <1>2, PTL DEF Spec

\* A chained fire follows a run row that is closed, with the outcome that
\* calls for it.
THEOREM SuccessorsFollowClosedRuns == Spec => []SuccessorFollowsClosedRun
<1>1. Base /\ LineagesLinear => SuccessorFollowsClosedRun
  BY DEF Base, LineagesLinear, Holds, RowsOwned, ClosedPcs, SuccessorFollowsClosedRun
<1> QED
  BY <1>1, LineageInvariant, PTL

-----------------------------------------------------------------------------
(* TaskLifecycle implements ChainLineage.                                  *)

\* The tasks on a chain are at most as many as its length.
LEMMA ChainCardinality ==
  ASSUME NEW chain \in Seq(Tasks), NEW S, \A t \in S : InChain(t, chain)
  PROVE  IsFiniteSet(S) /\ Cardinality(S) \in Nat /\ Cardinality(S) <= Len(chain)
<1> DEFINE D == 1..Len(chain)
           T == {chain[i] : i \in D}
           g == [i \in D |-> chain[i]]
<1>1. Len(chain) \in Nat
  OBVIOUS
<1>2. IsFiniteSet(D) /\ Cardinality(D) = Len(chain)
  BY <1>1, FS_Interval
<1>3. g \in Surjection(D, T)
  BY DEF Surjection
<1>4. IsFiniteSet(T) /\ Cardinality(T) <= Cardinality(D)
  BY <1>2, <1>3, FS_Surjection
<1>5. S \subseteq T
  BY DEF InChain
<1>6. IsFiniteSet(S) /\ Cardinality(S) <= Cardinality(T)
  BY <1>4, <1>5, FS_Subset
<1> HIDE DEF D, T
<1>7. Cardinality(S) \in Nat /\ Cardinality(T) \in Nat /\ Cardinality(D) \in Nat
  BY <1>2, <1>4, <1>6, FS_CardinalityType
<1> QED
  BY <1>1, <1>2, <1>4, <1>6, <1>7

\* Passing the guards admits the task to its lineage.
LEMMA AdmitMaps ==
  ASSUME Base, LineagesLinear, NEW f \in Fires, Admit(f) \/ Hold(f)
  PROVE  Lineage!Next
<1> USE ConstantsOK
<1>1. /\ pc[f] = "start" /\ pc'[f] \in {"marked", "held"} /\ job' = job
      /\ \A g \in Fires : g # f => pc'[g] = pc[g]
      /\ ChainAllows(f)
  BY DEF Admit, Hold, Move, fires, Base, TypeOK
<1>2. f < nextFire /\ job[f] \in Job /\ TaskOf(f) \in Tasks
  BY <1>1, Started
<1>3. job[f].root \in Fires
  BY <1>2 DEF Base, Allocated, Fires
<1> PICK r \in Fires, t \in Tasks : r = job[f].root /\ t = TaskOf(f)
  BY <1>2, <1>3
<1>4. ASSUME NEW g \in Fires, job[g].root = r, Admitted(g)
      PROVE  InChain(TaskOf(g), job[f].chain)
  <2>1. g # f /\ pc[g] # "unused"
    BY <1>1, <1>4 DEF Admitted
  <2>2. g < nextFire
    BY <2>1, Started
  <2>3. CASE g < f
    BY <2>3, <1>2, <1>4 DEF LineagesLinear
  <2>4. CASE f < g
    BY <2>2, <2>4, <1>1, <1>4 DEF LineagesLinear
  <2> QED
    BY <2>1, <2>3, <2>4 DEF Fires
<1>5. \A u \in Ran[r] : InChain(u, job[f].chain)
  BY <1>3, <1>4 DEF Ran, LineageOf
<1>6. t \notin Ran[r]
  BY <1>1, <1>5 DEF ChainAllows
<1>7. Cardinality(Ran[r]) < ChainDepthCap
  <2>1. job[f].chain \in Seq(Tasks)
    BY <1>2 DEF Job
  <2>2. Cardinality(Ran[r]) \in Nat /\ Cardinality(Ran[r]) <= Len(job[f].chain)
    BY <2>1, <1>5, ChainCardinality
  <2> QED
    BY <2>1, <2>2, <1>1 DEF ChainAllows
<1>8. Ran' = [Ran EXCEPT ![r] = @ \cup {t}]
  <2>1. \A g \in Fires : Admitted(g)' <=> (Admitted(g) \/ g = f)
    BY <1>1 DEF Admitted
  <2>2. \A g \in Fires : TaskOf(g)' = TaskOf(g)
    BY <1>1 DEF TaskOf
  <2>3. ASSUME NEW q \in Fires
        PROVE  Ran'[q] = IF q = r THEN Ran[q] \cup {t} ELSE Ran[q]
    BY <2>1, <2>2, <1>1 DEF Ran, LineageOf
  <2> QED
    BY <2>3, <1>3 DEF Ran
<1>9. Lineage!Admit(r, t)
  <2>1. \A S : Lineage!Cardinality(S) = Cardinality(S)
    BY DEF Lineage!Cardinality, Cardinality
  <2> QED
    BY <2>1, <1>6, <1>7, <1>8 DEF Lineage!Admit
<1> QED
  BY <1>9 DEF Lineage!Next

\* Every other step stutters.
LEMMA OthersStutter ==
  ASSUME Base, [Next]_vars, ~ \E f \in Fires : Admit(f) \/ Hold(f)
  PROVE  UNCHANGED Ran
<1> USE DEF Base, TypeOK
<1>1. \A g \in Fires : Admitted(g)' <=> Admitted(g)
  <2>1. CASE \E f \in Fires : Step(f)
    <3> PICK f \in Fires : Step(f)
      BY <2>1
    <3>1. CASE Dispatch(f)
      BY <3>1 DEF Dispatch, Admitted, Allocated, Fires
    <3>2. CASE ~Dispatch(f)
      <4>1. \/ pc[f] = "start" /\ pc' = [pc EXCEPT ![f] = "dropped"]
            \/ \E from \in Pcs \ {"unused", "start", "dropped"},
                  to \in Pcs \ {"unused", "start", "dropped"} :
                    pc[f] = from /\ pc' = [pc EXCEPT ![f] = to]
        BY <3>2 DEF Step, Drop, EngineRaises, ResultOnly, OpenRow, CloseRow, SetResult, CountRead,
           CountCommit, Return, Move, Pcs, FinalPcs
      <4> QED
        BY <4>1 DEF Admitted
    <3> QED
      BY <3>1, <3>2
  <2>2. CASE \E t \in Tasks : Tick(t)
    BY <2>2 DEF Tick, SpawnExternal, Admitted, Allocated, Fires
  <2>3. CASE Endpoint
    <3>1. CASE \E c \in Clients : CommitFire(c)
      BY <3>1 DEF CommitFire, SpawnExternal, Admitted, Allocated, Fires
    <3>2. CASE ~ \E c \in Clients : CommitFire(c)
      BY <2>3, <3>2 DEF Endpoint, Read, CancelRead, CommitCancel, CommitAck, CommitUpdate, Pause, Stop, Approve,
         Overwrite, SetFrozen, Admitted
    <3> QED
      BY <3>1, <3>2
  <2>4. CASE Crash \/ Restart \/ UNCHANGED vars
    BY <2>4 DEF Crash, Restart, vars, Admitted
  <2> QED
    BY <2>1, <2>2, <2>3, <2>4 DEF Next
<1>2. \A g \in Fires : Admitted(g) => job'[g] = job[g] /\ TaskOf(g)' = TaskOf(g)
  BY History DEF Admitted
<1>3. ASSUME NEW r \in Fires
      PROVE  LineageOf(r)' = LineageOf(r)
  BY <1>1, <1>2 DEF LineageOf
<1>4. ASSUME NEW r \in Fires
      PROVE  Ran'[r] = Ran[r]
  BY <1>2, <1>3 DEF Ran, LineageOf
<1> QED
  BY <1>4 DEF Ran

\* Chained fires, whatever they race with, are lineages that admit no task
\* twice and no more than CHAIN_DEPTH_CAP tasks.
THEOREM ImplementsChainLineage == Spec => ChainsFollowLineage
<1>1. Init => Lineage!Init
  BY DEF Init, Lineage!Init, Ran, LineageOf, Admitted
<1>2. Base /\ LineagesLinear /\ [Next]_vars => [Lineage!Next]_Ran
  BY AdmitMaps, OthersStutter
<1> QED
  BY <1>1, <1>2, LineageInvariant, PTL DEF Spec, ChainsFollowLineage, Lineage!Spec
=============================================================================
