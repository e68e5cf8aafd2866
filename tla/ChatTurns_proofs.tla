-------------------------- MODULE ChatTurns_proofs --------------------------
(***************************************************************************)
(* Theorems about ChatTurns for any number of sockets, turns and chunks.   *)
(* The inductive invariant IInv is proved in four layers: types and turn   *)
(* numbers, the broker registry, the rows against the history, and what    *)
(* the viewers are shown.                                                  *)
(*                                                                         *)
(* The second half proves the theorems of Ledger, which bills chat turns   *)
(* and runs.  Its sums are sizes of sets of units, so that the library's   *)
(* facts about cardinality say what an added row or event does to them.    *)
(* Its invariant LedgerInv has the books of each run (Accounts) and, of    *)
(* each check under way, that a spent hard stop is still in its way        *)
(* (Held).                                                                 *)
(***************************************************************************)
EXTENDS ChatTurns, Ledger, FiniteSetTheorems, SequenceTheorems, TLAPS

Numbering == TypeOK /\ Reserved /\ Unpublished /\ Owned
Registry  == NewestIsFound /\ EndedTurnsUnblock
Records   == Kept /\ CompletedIsAnswered
Viewing   == Attached /\ Ascending /\ Behind /\ NoChunkTwice

USE ChatConstants

-----------------------------------------------------------------------------
(* Types and turn numbers.                                                 *)

LEMMA PendingFinite ==
  ASSUME TypeOK
  PROVE  IsFiniteSet(Pending) /\ Cardinality(Pending) \in Nat
  BY FS_Subset, FS_CardinalityType DEF Pending

\* A socket whose message is stored has a turn reserved.
LEMMA TurnIsLeft ==
  ASSUME Numbering, NEW v \in Sockets, sock[v] = "saved"
  PROVE  born + 1 \in Turns
<1>1. IsFiniteSet(Pending) /\ Cardinality(Pending) \in Nat
  BY PendingFinite DEF Numbering
<1>2. Pending # {}
  BY DEF Pending
<1>3. Cardinality(Pending) # 0
  BY <1>1, <1>2, FS_EmptySet
<1> QED
  BY <1>1, <1>3 DEF Numbering, TypeOK, Reserved, Turns

LEMMA ViewTypes ==
  /\ Off \in Views
  /\ \A t \in Turns : Due(t) \in Views /\ On(t) \in Views
  /\ \A w \in Views : w.mode = "off" => w = Off
  /\ \A w \in Views : w.mode = "due" => w.turn \in Turns /\ w = Due(w.turn)
  /\ \A w \in Views : w.mode = "on" => w.turn \in Turns /\ w = On(w.turn)
  /\ \A w \in Views : w.mode \in {"off", "due", "on"}
  /\ Off.mode = "off"
  /\ \A t : /\ Due(t).mode = "due" /\ Due(t).turn = t
           /\ On(t).mode = "on" /\ On(t).turn = t
<1>1. Off.mode = "off" /\ Off \in Views
  BY DEF Views, Off
<1>2. \A t : /\ Due(t).mode = "due" /\ Due(t).turn = t
            /\ On(t).mode = "on" /\ On(t).turn = t
  BY DEF Due, On
<1>3. \A t \in Turns : Due(t) \in Views /\ On(t) \in Views
  BY DEF Views
<1>4. \A w \in Views : w = Off \/ \E t \in Turns : w = Due(t) \/ w = On(t)
  BY DEF Views
<1> QED
  BY <1>1, <1>2, <1>3, <1>4

LEMMA RowTypes ==
  /\ \A s \in {"none", "running", "completed", "error", "cancelled"}, n \in 0..Chunks :
         /\ Row(s, n) \in Rows
         /\ Row(s, n).state = s /\ Row(s, n).text = n
  /\ \A r \in Rows : r.text \in 0..Chunks
  /\ \A r \in Rows, n \in 0..Chunks : [r EXCEPT !.text = n] \in Rows
  /\ 0 \in 0..Chunks /\ Chunks \in 0..Chunks
  /\ NoRow \in Rows /\ NoRow.state = "none" /\ NoRow.text = 0
  BY DEF Row, Rows, NoRow

LEMMA PublishType ==
  ASSUME TypeOK, NEW t \in Turns, NEW chunk \in 0..Chunks, Publish(t, chunk)
  PROVE  queue' \in [Sockets -> Seq(0..Chunks)]
<1>1. \A v \in Sockets : Append(queue[v], chunk) \in Seq(0..Chunks)
  BY DEF TypeOK
<1> QED
  BY <1>1 DEF Publish, TypeOK

LEMMA GoType ==
  ASSUME TypeOK, NEW t \in Turns, NEW from, NEW to \in Steps, Go(t, from, to)
  PROVE  step' \in [Turns -> Steps] /\ born' = born
  BY DEF TypeOK, Go

LEMMA NextTypes ==
  ASSUME Numbering, [Next]_vars
  PROVE  TypeOK'
<1> USE DEF Numbering, TypeOK
<1>0. /\ 0 \in Turns \cup {None} /\ None \in Turns \cup {None} /\ <<>> \in Seq(0..Chunks)
      /\ <<>> \in Seq(1..Chunks) /\ 0 \in 0..Chunks
  BY DEF None
<1>a. Steps = {"unborn", "registered", "spawned", "streaming", "answered", "stored",
               "failed", "noted", "closing", "over", "stuck"}
  BY DEF Steps
<1>1. ASSUME NEW v \in Sockets, Connect(v) PROVE TypeOK'
  BY <1>0, <1>1 DEF Connect, viewer, task, broker, session
<1>2. ASSUME NEW v \in Sockets, Resume(v) PROVE TypeOK'
  <2>1. aims[v] \in Turns
    BY <1>2 DEF Resume, Owned
  <2>2. row[aims[v]].text \in 0..Chunks
    BY <2>1, RowTypes
  <2>3. [i \in 1..row[aims[v]].text |-> i] \in Seq(1..Chunks)
    BY <2>2
  <2>4. Due(aims[v]) \in Views
    BY <2>1, ViewTypes
  <2> QED
    BY <1>0, <1>2, <2>3, <2>4 DEF Resume, task, broker, session
<1>3. ASSUME NEW v \in Sockets, Send(v) PROVE TypeOK'
  BY <1>3 DEF Send, viewer, task, broker, session
<1>4. ASSUME NEW v \in Sockets, Guard(v) PROVE TypeOK'
  BY <1>4 DEF Guard, Remember, viewer, task, broker, session
<1>5. ASSUME NEW v \in Sockets, Register(v) PROVE TypeOK'
  <2>1. born + 1 \in Turns
    BY <1>5, TurnIsLeft DEF Register
  <2>2. born' \in 0..MaxTurns
    BY <1>5, <2>1 DEF Register, Turns
  <2>3. step' \in [Turns -> Steps] /\ open' \subseteq Turns
    BY <1>a, <1>5, <2>1 DEF Register
  <2>4. current' \in Turns \cup {None} /\ aims' \in [Sockets -> Turns \cup {None}]
    BY <1>5, <2>1 DEF Register
  <2>5. sock' \in [Sockets -> {"offline", "resuming", "idle", "guarding", "saved", "starting"}]
    BY <1>5 DEF Register
  <2> QED
    BY <1>5, <2>2, <2>3, <2>4, <2>5 DEF Register, viewer, session
<1>6. ASSUME NEW v \in Sockets, Started(v) PROVE TypeOK'
  <2>1. aims[v] \in Turns
    BY <1>6 DEF Started, Owned
  <2>2. On(aims[v]) \in Views
    BY <2>1, ViewTypes
  <2>3. step' \in [Turns -> Steps]
    BY <1>a, <1>6 DEF Started
  <2>4. view' \in [Sockets -> Views]
    BY <1>6, <2>2 DEF Started
  <2> QED
    BY <1>0, <1>6, <2>3, <2>4 DEF Started, broker, session
<1>7. ASSUME NEW v \in Sockets, Leave(v) PROVE TypeOK'
  <2>1. view' \in [Sockets -> Views]
    BY <1>7, ViewTypes DEF Leave
  <2> QED
    BY <1>0, <1>7, <2>1 DEF Leave, task, broker, session
<1>8. ASSUME NEW v \in Sockets, Subscribe(v) PROVE TypeOK'
  <2>1. On(view[v].turn) \in Views
    BY <1>8, ViewTypes DEF Subscribe
  <2> QED
    BY <1>8, <2>1 DEF Subscribe, client, task, broker, session
<1>9. ASSUME NEW v \in Sockets, Forward(v) PROVE TypeOK'
  <2>1. /\ Tail(queue[v]) \in Seq(0..Chunks) /\ Head(queue[v]) \in 0..Chunks
    BY <1>9, HeadTailProperties DEF Forward
  <2>2. Head(queue[v]) # None => Append(seen[v], Head(queue[v])) \in Seq(1..Chunks)
    BY <2>1 DEF None
  <2>3. queue' \in [Sockets -> Seq(0..Chunks)]
    BY <1>9, <2>1 DEF Forward
  <2>4. seen' \in [Sockets -> Seq(1..Chunks)]
    BY <1>0, <1>9, <2>2 DEF Forward
  <2>5. view' \in [Sockets -> Views]
    BY <1>9, ViewTypes DEF Forward
  <2> QED
    BY <1>9, <2>3, <2>4, <2>5 DEF Forward, client, task, broker, session
<1>10. ASSUME NEW t \in Turns, Launch(t) PROVE TypeOK'
  <2>1. step' \in [Turns -> Steps] /\ born' = born
    BY <1>10, <1>a, GoType DEF Launch
  <2>2. Row("running", 0) \in Rows
    BY <1>0, RowTypes
  <2>3. row' \in [Turns -> Rows]
    BY <1>10, <2>2 DEF Launch
  <2> QED
    BY <1>10, <2>1, <2>3 DEF Launch, client, viewer, broker, session
<1>11. ASSUME NEW t \in Turns, Chunk(t) PROVE TypeOK'
  <2>1. said[t] + 1 \in 0..Chunks /\ said' = [said EXCEPT ![t] = said[t] + 1]
    BY <1>11 DEF Chunk
  <2>2. queue' \in [Sockets -> Seq(0..Chunks)]
    BY <1>11, <2>1, PublishType DEF Chunk
  <2> QED
    BY <1>11, <2>1, <2>2 DEF Chunk, client, broker, session
<1>12. ASSUME NEW t \in Turns, Flush(t) PROVE TypeOK'
  <2>1. [row[t] EXCEPT !.text = said[t]] \in Rows
    BY RowTypes
  <2>2. row' \in [Turns -> Rows]
    BY <1>12, <2>1 DEF Flush
  <2> QED
    BY <1>12, <2>2 DEF Flush, client, viewer, task, broker, session
<1>13. ASSUME NEW t \in Turns, Answer(t) \/ Store(t) \/ Apologise(t)
       PROVE  TypeOK'
  <2>1. step' \in [Turns -> Steps] /\ born' = born
    BY <1>13, <1>a, GoType DEF Answer, Store, Apologise
  <2> QED
    BY <1>13, <2>1 DEF Answer, Store, Apologise, Remember, client, viewer, broker, session
<1>14. ASSUME NEW t \in Turns, Complete(t) PROVE TypeOK'
  <2>1. step' \in [Turns -> Steps] /\ born' = born
    BY <1>14, <1>a, GoType DEF Complete
  <2>2. Row("completed", Chunks) \in Rows
    BY RowTypes
  <2>3. row' \in [Turns -> Rows]
    BY <1>14, <2>2 DEF Complete
  <2> QED
    BY <1>14, <2>1, <2>3 DEF Complete, client, viewer, broker, session
<1>15. ASSUME NEW t \in Turns, RowError(t) PROVE TypeOK'
  <2>1. step' \in [Turns -> Steps] /\ born' = born
    BY <1>15, <1>a, GoType DEF RowError
  <2>2. row' \in [Turns -> Rows]
    BY <1>15, RowTypes DEF RowError, RowFails
  <2>3. /\ said' \in [Turns -> 0..Chunks]
        /\ open' \subseteq Turns /\ current' \in Turns \cup {None}
    BY <1>0, <1>15 DEF RowError, Discard, broker
  <2> QED
    BY <1>15, <2>1, <2>2, <2>3 DEF RowError, client, viewer, session
<1>16. ASSUME NEW t \in Turns, Done(t) PROVE TypeOK'
  <2>1. step' \in [Turns -> Steps] /\ born' = born
    BY <1>16, <1>a, GoType DEF Done
  <2>2. queue' \in [Sockets -> Seq(0..Chunks)]
    BY <1>16, PublishType DEF Done, None
  <2>3. /\ said' \in [Turns -> 0..Chunks]
        /\ open' \subseteq Turns /\ current' \in Turns \cup {None}
    BY <1>0, <1>16 DEF Done, Discard
  <2> QED
    BY <1>16, <2>1, <2>2, <2>3 DEF Done, client, session
<1>17. CASE CheckDelete
  BY <1>17 DEF CheckDelete, client, viewer, task, broker
<1>18. CASE CommitDelete
  <2>1. row' \in [Turns -> Rows]
    BY <1>18, RowTypes DEF CommitDelete
  <2> QED
    BY <1>18, <2>1 DEF CommitDelete, client, viewer, task, broker
<1>19. CASE Restart
  <2>1. row' \in [Turns -> Rows]
    <3>1. \A t \in Turns : Row("cancelled", row[t].text) \in Rows
      BY RowTypes
    <3> QED
      BY <1>19, <3>1 DEF Restart
  <2>2. view' \in [Sockets -> Views]
    BY <1>19, ViewTypes DEF Restart
  <2>3. step' \in [Turns -> Steps]
    BY <1>19, <1>a DEF Restart
  <2> QED
    BY <1>0, <1>19, <2>1, <2>2, <2>3 DEF Restart
<1>20. CASE UNCHANGED vars
  BY <1>20 DEF vars, client, viewer, task, broker, session
<1> QED
  BY <1>1, <1>2, <1>3, <1>4, <1>5, <1>6, <1>7, <1>8, <1>9, <1>10, <1>11, <1>12, <1>13,
     <1>14, <1>15, <1>16, <1>17, <1>18, <1>19, <1>20 DEF Next, Handle, Work

\* The bound is kept: a message on its way holds a turn until it registers or
\* is dropped.
LEMMA NextReserved ==
  ASSUME Numbering, [Next]_vars
  PROVE  Reserved'
<1> USE DEF Numbering, Reserved
<1>0. /\ IsFiniteSet(Pending) /\ Cardinality(Pending) \in Nat
      /\ born \in Nat /\ sock \in [Sockets -> {"offline", "resuming", "idle", "guarding",
                                             "saved", "starting"}]
  BY PendingFinite DEF TypeOK
<1>s. ASSUME born' = born, Pending' = Pending PROVE Reserved'
  BY <1>s
<1>1. ASSUME NEW v \in Sockets, Connect(v) \/ Resume(v) \/ Started(v) PROVE Reserved'
  <2>1. Pending' = Pending
    BY <1>0, <1>1 DEF Connect, Resume, Started, Pending
  <2> QED
    BY <1>1, <1>s, <2>1 DEF Connect, Resume, Started, task
<1>2. ASSUME NEW v \in Sockets, Send(v) PROVE Reserved'
  <2>1. Pending' = Pending \cup {v}
    BY <1>0, <1>2 DEF Send, Pending
  <2>2. Cardinality(Pending') <= Cardinality(Pending) + 1 /\ Cardinality(Pending') \in Nat
    <3>1. /\ IsFiniteSet(Pending \cup {v})
          /\ Cardinality(Pending \cup {v}) = IF v \in Pending THEN Cardinality(Pending)
                                               ELSE Cardinality(Pending) + 1
      BY <1>0, FS_AddElement
    <3> QED
      BY <1>0, <2>1, <3>1
  <2>3. born + Cardinality(Pending) < MaxTurns /\ born' = born
    BY <1>2 DEF Send, Pending, task
  <2> QED
    BY <1>0, <2>2, <2>3
<1>3. ASSUME NEW v \in Sockets, Guard(v) \/ Leave(v) PROVE Reserved'
  <2>1. Pending' = Pending \/ Pending' = Pending \ {v}
    BY <1>0, <1>3 DEF Guard, Leave, Pending
  <2>2. Cardinality(Pending') <= Cardinality(Pending) /\ Cardinality(Pending') \in Nat
    <3>1. /\ IsFiniteSet(Pending \ {v})
          /\ Cardinality(Pending \ {v}) = IF v \in Pending THEN Cardinality(Pending) - 1
                                           ELSE Cardinality(Pending)
      BY <1>0, FS_RemoveElement
    <3>2. Cardinality(Pending \ {v}) \in Nat
      BY <3>1, FS_CardinalityType
    <3>3. CASE Pending' = Pending
      BY <1>0, <3>3
    <3>4. CASE Pending' = Pending \ {v}
      BY <1>0, <3>1, <3>2, <3>4
    <3> QED
      BY <2>1, <3>3, <3>4
  <2>3. born' = born
    BY <1>3 DEF Guard, Leave, task
  <2> QED
    BY <1>0, <2>2, <2>3
<1>4. ASSUME NEW v \in Sockets, Register(v) PROVE Reserved'
  <2>1. Pending' = Pending \ {v} /\ v \in Pending
    BY <1>0, <1>4 DEF Register, Pending
  <2>2. Cardinality(Pending') = Cardinality(Pending) - 1
    BY <1>0, <2>1, FS_RemoveElement
  <2>3. born' = born + 1
    BY <1>4 DEF Register
  <2> QED
    BY <1>0, <2>2, <2>3
<1>5. ASSUME NEW v \in Sockets, Subscribe(v) \/ Forward(v) PROVE Reserved'
  BY <1>5, <1>s DEF Subscribe, Forward, Pending, client, task
<1>6. ASSUME NEW t \in Turns, Work(t) \/ Flush(t) PROVE Reserved'
  BY <1>6, <1>s DEF Work, Launch, Chunk, Flush, Answer, Store, Complete, Apologise, RowError,
                    Done, Go, Pending, client, task
<1>7. CASE CheckDelete \/ CommitDelete
  BY <1>7, <1>s DEF CheckDelete, CommitDelete, Pending, client, task
<1>8. CASE Restart
  <2>1. Pending' = {} /\ born' = born
    BY <1>8 DEF Restart, Pending
  <2>2. Cardinality(Pending') = 0
    BY <2>1, FS_EmptySet
  <2> QED
    BY <1>0, <2>1, <2>2 DEF TypeOK
<1>9. CASE UNCHANGED vars
  BY <1>9, <1>s DEF vars, Pending, client, task
<1> QED
  BY <1>1, <1>2, <1>3, <1>4, <1>5, <1>6, <1>7, <1>8, <1>9 DEF Next, Handle

LEMMA NextUnpublished ==
  ASSUME Numbering, [Next]_vars
  PROVE  Unpublished'
<1> USE DEF Numbering, Unpublished
<1>0. /\ step \in [Turns -> Steps] /\ said \in [Turns -> 0..Chunks] /\ row \in [Turns -> Rows]
      /\ born \in Nat /\ \A t \in Turns : t \in Nat
  BY DEF TypeOK, Turns
<1>s. ASSUME step' = step, said' = said, row' = row, born' = born PROVE Unpublished'
  BY <1>s
\* A task's step leaves the turn where it has published or its row is closed.
<1>t. ASSUME NEW t \in Turns, step[t] # "unborn",
             step' = [step EXCEPT ![t] = step'[t]],
             born' = born,
             \A u \in Turns : u # t => row'[u] = row[u] /\ said'[u] = said[u],
             step'[t] \notin {"unborn", "registered", "spawned"},
             step'[t] = "streaming" => row'[t].text <= said'[t]
      PROVE  Unpublished'
  <2>1. \A u \in Turns : u # t => step'[u] = step[u]
    BY <1>0, <1>t
  <2>2. t <= born
    BY <1>0, <1>t
  <2> QED
    BY <1>0, <1>t, <2>1, <2>2
<1>1. ASSUME NEW v \in Sockets,
             Connect(v) \/ Resume(v) \/ Send(v) \/ Guard(v) \/ Leave(v)
                 \/ Subscribe(v) \/ Forward(v)
      PROVE  Unpublished'
  BY <1>1, <1>s DEF Connect, Resume, Send, Guard, Leave, Subscribe, Forward, task
<1>2. ASSUME NEW v \in Sockets, Register(v) PROVE Unpublished'
  <2>1. born + 1 \in Turns /\ step[born + 1] = "unborn"
    BY <1>0, <1>2, TurnIsLeft DEF Register
  <2>2. /\ born' = born + 1 /\ said' = said /\ row' = row
        /\ step' = [step EXCEPT ![born + 1] = "registered"]
    BY <1>2 DEF Register
  <2> QED
    BY <1>0, <2>1, <2>2
<1>3. ASSUME NEW v \in Sockets, Started(v) PROVE Unpublished'
  <2>1. aims[v] \in Turns /\ step[aims[v]] = "registered"
    BY <1>3 DEF Started, Owned, TypeOK, None
  <2>2. /\ born' = born /\ said' = said /\ row' = row
        /\ step' = [step EXCEPT ![aims[v]] = "spawned"]
    BY <1>3 DEF Started
  <2> QED
    BY <1>0, <2>1, <2>2
<1>4. ASSUME NEW t \in Turns, Launch(t) PROVE Unpublished'
  <2>1. /\ step[t] = "spawned" /\ said[t] = 0 /\ born' = born /\ said' = said
        /\ step' \in {[step EXCEPT ![t] = s] : s \in {"streaming", "stuck"}}
        /\ row' \in {row, [row EXCEPT ![t] = Row("running", 0)]}
    BY <1>4 DEF Launch, Go
  <2>2. row[t].text = 0 /\ Row("running", 0).text = 0
    BY <2>1, RowTypes
  <2>3. row'[t].text = 0
    BY <1>0, <2>1, <2>2
  <2> QED
    BY <1>0, <1>t, <2>1, <2>3
<1>5. ASSUME NEW t \in Turns, Chunk(t) PROVE Unpublished'
  <2>1. /\ step[t] = "streaming" /\ step' = step /\ born' = born /\ row' = row
        /\ said' = [said EXCEPT ![t] = said[t] + 1]
    BY <1>5 DEF Chunk
  <2>2. row[t].text <= said[t] + 1
    BY <1>0, <2>1, RowTypes
  <2> QED
    BY <1>0, <2>1, <2>2
<1>6. ASSUME NEW t \in Turns, Flush(t) PROVE Unpublished'
  <2>1. /\ step[t] = "streaming" /\ step' = step /\ born' = born /\ said' = said
        /\ row' = [row EXCEPT ![t].text = said[t]]
    BY <1>6 DEF Flush, task
  <2>2. row'[t].text <= said[t]
    BY <1>0, <2>1 DEF Rows
  <2> QED
    BY <1>0, <2>1, <2>2
<1>7. ASSUME NEW t \in Turns, Answer(t) \/ Store(t) \/ Complete(t) \/ Apologise(t)
      PROVE  Unpublished'
  <2>1. /\ step[t] \in {"streaming", "answered", "stored", "failed"}
        /\ step' \in {[step EXCEPT ![t] = s] :
                         s \in {"answered", "stored", "closing", "failed", "noted"}}
        /\ born' = born /\ said' = said
        /\ row' \in {row, [row EXCEPT ![t] = Row("completed", Chunks)]}
    BY <1>7 DEF Answer, Store, Complete, Apologise, Go
  <2> QED
    BY <1>0, <1>t, <2>1
<1>8. ASSUME NEW t \in Turns, RowError(t) \/ Done(t) PROVE Unpublished'
  <2>1. /\ step[t] \in {"noted", "closing"}
        /\ step' \in {[step EXCEPT ![t] = s] : s \in {"closing", "over"}}
        /\ born' = born /\ said' \in {said, [said EXCEPT ![t] = 0]}
        /\ row' = row \/ RowFails(t)
    BY <1>8 DEF RowError, Done, Go
  <2>2. \A u \in Turns : u # t => row'[u] = row[u]
    BY <1>0, <2>1 DEF RowFails
  <2> QED
    BY <1>0, <1>t, <2>1, <2>2
<1>9. CASE CheckDelete
  BY <1>9, <1>s DEF CheckDelete, task
<1>10. CASE CommitDelete
  <2>1. step' = step /\ said' = said /\ born' = born
    BY <1>10 DEF CommitDelete, task
  <2>2. row' = row \/ row' = [t \in Turns |-> NoRow]
    BY <1>10 DEF CommitDelete
  <2>3. \A t \in Turns : step[t] = "streaming" => row'[t].text <= said[t]
    BY <1>0, <2>2, RowTypes
  <2> QED
    BY <1>0, <2>1, <2>2, <2>3
<1>11. CASE Restart
  <2>1. /\ step' = [t \in Turns |-> IF t <= born THEN "over" ELSE "unborn"]
        /\ said' = [t \in Turns |-> 0] /\ born' = born
    BY <1>11 DEF Restart
  <2>2. \A t \in Turns : row[t] = NoRow => row'[t] = NoRow
    BY <1>0, <1>11, RowTypes DEF Restart
  <2> QED
    BY <1>0, <2>1, <2>2
<1>12. CASE UNCHANGED vars
  BY <1>12, <1>s DEF vars, task
<1> QED
  BY <1>1, <1>2, <1>3, <1>4, <1>5, <1>6, <1>7, <1>8, <1>9, <1>10, <1>11, <1>12
     DEF Next, Handle, Work

LEMMA NextOwned ==
  ASSUME Numbering, [Next]_vars
  PROVE  Owned'
<1> USE DEF Numbering, Owned
<1>0. /\ step \in [Turns -> Steps] /\ aims \in [Sockets -> Turns \cup {None}]
      /\ sock \in [Sockets -> {"offline", "resuming", "idle", "guarding", "saved", "starting"}]
  BY DEF TypeOK
<1>s. ASSUME step' = step, sock' = sock, aims' = aims PROVE Owned'
  BY <1>s
\* A handler that goes elsewhere owns nothing.
<1>h. ASSUME NEW v \in Sockets, step' = step,
             \A u \in Sockets : u # v => sock'[u] = sock[u] /\ aims'[u] = aims[u],
             sock'[v] # "starting", sock'[v] = "resuming" => aims'[v] # None
      PROVE  Owned'
  BY <1>h
\* A task moves its own turn, which no handler owns any more.
<1>t. ASSUME NEW t \in Turns, sock' = sock, aims' = aims, step[t] # "registered",
             \A u \in Turns : u # t => step'[u] = step[u]
      PROVE  Owned'
  <2>1. \A v \in Sockets : sock[v] = "starting" => aims[v] \in Turns /\ aims[v] # t
    BY <1>0, <1>t
  <2> QED
    BY <1>0, <1>t, <2>1
<1>1. ASSUME NEW v \in Sockets, Connect(v) PROVE Owned'
  <2>1. Streaming => current # None
    BY DEF Streaming, TypeOK, Turns, None
  <2> QED
    BY <1>0, <1>1, <1>h, <2>1 DEF Connect, task
<1>2. ASSUME NEW v \in Sockets, Resume(v) \/ Send(v) \/ Guard(v) \/ Leave(v) PROVE Owned'
  BY <1>0, <1>2, <1>h DEF Resume, Send, Guard, Leave, task
<1>3. ASSUME NEW v \in Sockets, Subscribe(v) \/ Forward(v) PROVE Owned'
  BY <1>3, <1>s DEF Subscribe, Forward, client, task
<1>4. ASSUME NEW v \in Sockets, Register(v) PROVE Owned'
  <2>1. born + 1 \in Turns /\ step[born + 1] = "unborn" /\ born + 1 # None
    BY <1>4, TurnIsLeft DEF Register, Unpublished, TypeOK, Turns, None
  <2>2. /\ step' = [step EXCEPT ![born + 1] = "registered"]
        /\ aims' = [aims EXCEPT ![v] = born + 1]
        /\ sock' = [sock EXCEPT ![v] = "starting"]
    BY <1>4 DEF Register
  <2>3. \A u \in Sockets : sock[u] = "starting" => aims[u] # born + 1
    BY <2>1
  <2> QED
    BY <1>0, <2>1, <2>2, <2>3
<1>5. ASSUME NEW v \in Sockets, Started(v) PROVE Owned'
  <2>1. /\ sock[v] = "starting" /\ step' = [step EXCEPT ![aims[v]] = "spawned"]
        /\ sock' = [sock EXCEPT ![v] = "idle"] /\ aims' = [aims EXCEPT ![v] = None]
    BY <1>5 DEF Started
  <2>2. \A u \in Sockets : (u # v /\ sock[u] = "starting") =>
             aims[u] \in Turns /\ aims[u] # aims[v]
    BY <1>0, <2>1
  <2> QED
    BY <1>0, <2>1, <2>2
<1>6. ASSUME NEW t \in Turns, Launch(t) \/ Answer(t) \/ Store(t) \/ Complete(t)
                                  \/ Apologise(t) \/ RowError(t) \/ Done(t)
      PROVE  Owned'
  <2>1. /\ step[t] # "registered" /\ sock' = sock /\ aims' = aims
        /\ \E s : step' = [step EXCEPT ![t] = s]
    BY <1>6 DEF Launch, Answer, Store, Complete, Apologise, RowError, Done, Go, client
  <2> QED
    BY <1>0, <1>t, <2>1
<1>7. ASSUME NEW t \in Turns, Chunk(t) \/ Flush(t) PROVE Owned'
  BY <1>7, <1>s DEF Chunk, Flush, client, task
<1>8. CASE CheckDelete \/ CommitDelete
  BY <1>8, <1>s DEF CheckDelete, CommitDelete, client, task
<1>9. CASE Restart
  BY <1>9 DEF Restart
<1>10. CASE UNCHANGED vars
  BY <1>10, <1>s DEF vars, client, task
<1> QED
  BY <1>1, <1>2, <1>3, <1>4, <1>5, <1>6, <1>7, <1>8, <1>9, <1>10 DEF Next, Handle, Work

-----------------------------------------------------------------------------
(* The broker registry.                                                    *)

LEMMA NextRegistry ==
  ASSUME Numbering, Registry, [Next]_vars
  PROVE  Registry'
<1> USE DEF Numbering, Registry, TypeOK, Turns, None, NewestIsFound, EndedTurnsUnblock
<1>1. ASSUME NEW v \in Sockets,
             Connect(v) \/ Resume(v) \/ Send(v) \/ Guard(v) \/ Leave(v)
                 \/ Subscribe(v) \/ Forward(v)
      PROVE  Registry'
  BY <1>1 DEF Connect, Resume, Send, Guard, Leave, Subscribe, Forward, task, broker
<1>2. ASSUME NEW v \in Sockets, Register(v) PROVE Registry'
  BY <1>2 DEF Register
<1>3. ASSUME NEW v \in Sockets, Started(v) PROVE Registry'
  BY <1>3 DEF Started, Owned, broker
<1>4. ASSUME NEW t \in Turns, RowError(t) PROVE Registry'
  BY <1>4 DEF RowError, Go, Discard, broker
<1>5. ASSUME NEW t \in Turns, Done(t) PROVE Registry'
  BY <1>5 DEF Done, Go, Discard
<1>6. ASSUME NEW t \in Turns,
             Launch(t) \/ Chunk(t) \/ Flush(t) \/ Answer(t) \/ Store(t) \/ Complete(t)
                 \/ Apologise(t)
      PROVE  Registry'
  BY <1>6 DEF Launch, Chunk, Flush, Answer, Store, Complete, Apologise, Go, task, broker
<1>7. CASE CheckDelete \/ CommitDelete
  BY <1>7 DEF CheckDelete, CommitDelete, task, broker
<1>8. CASE Restart
  BY <1>8 DEF Restart
<1>9. CASE UNCHANGED vars
  BY <1>9 DEF vars, task, broker
<1> QED
  BY <1>1, <1>2, <1>3, <1>4, <1>5, <1>6, <1>7, <1>8, <1>9 DEF Next, Handle, Work

-----------------------------------------------------------------------------
(* The turn rows against the history.                                      *)

LEMMA NextRecords ==
  ASSUME Numbering, Records, [Next]_vars
  PROVE  Records'
<1> USE DEF Numbering, Records, TypeOK, Turns, None, Kept, CompletedIsAnswered, NoRow, Row, Rows
<1>1. ASSUME NEW v \in Sockets,
             Connect(v) \/ Resume(v) \/ Send(v) \/ Leave(v) \/ Subscribe(v) \/ Forward(v)
      PROVE  Records'
  BY <1>1 DEF Connect, Resume, Send, Leave, Subscribe, Forward, task, session
<1>2. ASSUME NEW v \in Sockets, Guard(v) PROVE Records'
  BY <1>2 DEF Guard, Remember, task, session
<1>3. ASSUME NEW v \in Sockets, Register(v) \/ Started(v) PROVE Records'
  BY <1>3 DEF Register, Started, session
<1>4. ASSUME NEW t \in Turns, Launch(t) PROVE Records'
  <2>1. /\ step[t] = "spawned" /\ step' \in {[step EXCEPT ![t] = s] : s \in {"streaming", "stuck"}}
        /\ row' \in {row, [row EXCEPT ![t] = Row("running", 0)]} /\ history' = history
    BY <1>4 DEF Launch, Go, session
  <2>2. \A u \in Turns : u # t => step'[u] = step[u] /\ row'[u] = row[u]
    BY <2>1
  <2>3. step'[t] # "stored" /\ row'[t].state # "completed"
    BY <2>1 DEF Unpublished
  <2> QED
    BY <2>1, <2>2, <2>3
<1>5. ASSUME NEW t \in Turns, Chunk(t) \/ Flush(t) \/ Answer(t) PROVE Records'
  <2>1. CASE Chunk(t) \/ Answer(t)
    BY <1>5, <2>1 DEF Chunk, Answer, Go, session
  <2>2. CASE Flush(t)
    <3>1. /\ row[t] # NoRow /\ step' = step /\ history' = history
          /\ row' = [row EXCEPT ![t].text = said[t]]
      BY <2>2 DEF Flush, task, session
    <3>2. \A u \in Turns : row'[u].state = row[u].state
      BY <3>1
    <3>3. \A u \in Turns : u # t => row'[u] = row[u]
      BY <3>1
    <3> QED
      BY <3>1, <3>2, <3>3
  <2> QED
    BY <1>5, <2>1, <2>2
<1>6. ASSUME NEW t \in Turns, Store(t) PROVE Records'
  BY <1>6 DEF Store, Remember, Go, session
<1>7. ASSUME NEW t \in Turns, Complete(t) PROVE Records'
  BY <1>7 DEF Complete, Go, session
<1>8. ASSUME NEW t \in Turns, Apologise(t) PROVE Records'
  BY <1>8 DEF Apologise, Remember, Go, session
<1>9. ASSUME NEW t \in Turns, RowError(t) \/ Done(t) PROVE Records'
  <2>1. /\ step' \in {[step EXCEPT ![t] = s] : s \in {"closing", "over"}}
        /\ row' = row \/ RowFails(t)
        /\ history' = history
    BY <1>9 DEF RowError, Done, Go, session
  <2>2. row' = row \/ \E n \in Nat : row' = [row EXCEPT ![t] = Row("error", n)]
    BY <2>1 DEF RowFails
  <2>3. \A u \in Turns : u # t => step'[u] = step[u] /\ row'[u] = row[u]
    BY <2>1, <2>2
  <2>4. step'[t] # "stored" /\ (row'[t].state = "completed" => row'[t] = row[t])
    BY <2>1, <2>2
  <2> QED
    BY <2>1, <2>3, <2>4
<1>10. CASE CheckDelete
  BY <1>10 DEF CheckDelete, task
<1>11. CASE CommitDelete
  <2>1. step' = step
    BY <1>11 DEF CommitDelete, task
  <2>2. CASE alive
    BY <1>11, <2>1, <2>2 DEF CommitDelete
  <2>3. CASE ~alive
    BY <1>11, <2>1, <2>3 DEF CommitDelete
  <2> QED
    BY <2>2, <2>3
<1>12. CASE Restart
  <2>1. history' = history /\ \A t \in Turns : step'[t] # "stored"
    BY <1>12 DEF Restart
  <2>2. \A t \in Turns : row'[t].state = "completed" => row[t].state = "completed"
    BY <1>12 DEF Restart
  <2> QED
    BY <2>1, <2>2
<1>13. CASE UNCHANGED vars
  BY <1>13 DEF vars, task, session
<1> QED
  BY <1>1, <1>2, <1>3, <1>4, <1>5, <1>6, <1>7, <1>8, <1>9, <1>10, <1>11, <1>12, <1>13
     DEF Next, Handle, Work

-----------------------------------------------------------------------------
(* What the viewers are shown: facts about a pump's queue q and the chunks *)
(* s that its client has seen.                                             *)

Ordered(q, s) ==
    /\ \A i, j \in 1..Len(s) : i < j => s[i] < s[j]
    /\ \A i, j \in 1..Len(q) : i < j => q[i] # None /\ (q[j] # None => q[i] < q[j])
    /\ \A i \in 1..Len(s), j \in 1..Len(q) : q[j] # None => s[i] < q[j]

NoEnd(q) == \A j \in 1..Len(q) : q[j] # None

Upto(q, s, n) ==
    /\ \A i \in 1..Len(s) : s[i] <= n
    /\ \A j \in 1..Len(q) : q[j] <= n

\* A chunk beyond all those shown and queued continues the run.
LEMMA RunsChunk ==
  ASSUME NEW q \in Seq(Nat), NEW s \in Seq(Nat), NEW n \in Nat,
         Ordered(q, s), NoEnd(q), Upto(q, s, n)
  PROVE  LET r == Append(q, n + 1)
         IN  Ordered(r, s) /\ NoEnd(r) /\ Upto(r, s, n + 1)
<1> DEFINE r == Append(q, n + 1)
<1>1. /\ Len(r) = Len(q) + 1 /\ r[Len(q) + 1] = n + 1
      /\ \A i \in 1..Len(q) : r[i] = q[i]
  BY AppendProperties
<1>2. \A i \in 1..Len(r) : i \in 1..Len(q) \/ i = Len(q) + 1
  BY <1>1
<1>t. Len(q) \in Nat /\ Len(s) \in Nat /\ (\A i \in 1..Len(q) : q[i] \in Nat)
      /\ (\A i \in 1..Len(s) : s[i] \in Nat)
  OBVIOUS
<1> HIDE DEF r
<1>a. \A i \in 1..Len(q) : q[i] # None /\ q[i] < n + 1 /\ q[i] <= n + 1
  BY <1>t DEF NoEnd, Upto
<1>b. \A i \in 1..Len(s) : s[i] <= n /\ s[i] < n + 1
  BY <1>t DEF Upto
<1>3. ASSUME NEW i \in 1..Len(r), NEW j \in 1..Len(r), i < j
      PROVE  r[i] # None /\ (r[j] # None => r[i] < r[j])
  <2>1. i \in 1..Len(q) /\ r[i] = q[i]
    BY <1>1, <1>3, <1>t
  <2>2. CASE j \in 1..Len(q)
    BY <1>1, <1>3, <2>1, <2>2 DEF Ordered
  <2>3. CASE j = Len(q) + 1
    BY <1>1, <1>a, <2>1, <2>3
  <2> QED
    BY <1>2, <2>2, <2>3
<1>4. ASSUME NEW i \in 1..Len(s), NEW j \in 1..Len(r), r[j] # None
      PROVE  s[i] < r[j]
  <2>1. CASE j \in 1..Len(q)
    BY <1>1, <1>4, <2>1 DEF Ordered
  <2>2. CASE j = Len(q) + 1
    BY <1>1, <1>b, <2>2
  <2> QED
    BY <1>2, <2>1, <2>2
<1>5. ASSUME NEW j \in 1..Len(r) PROVE r[j] # None /\ r[j] <= n + 1
  <2>1. CASE j \in 1..Len(q)
    BY <1>1, <1>a, <2>1
  <2>2. CASE j = Len(q) + 1
    BY <1>1, <2>2 DEF None
  <2> QED
    BY <1>2, <2>1, <2>2
<1>6. \A i \in 1..Len(s) : s[i] <= n + 1
  BY <1>b, <1>t
<1> QED
  BY <1>3, <1>4, <1>5, <1>6 DEF Ordered, NoEnd, Upto, r

\* The done event ends it.
LEMMA RunsDone ==
  ASSUME NEW q \in Seq(Nat), NEW s \in Seq(Nat), Ordered(q, s), NoEnd(q)
  PROVE  Ordered(Append(q, None), s)
<1> DEFINE r == Append(q, None)
<1>1. /\ Len(r) = Len(q) + 1 /\ r[Len(q) + 1] = None
      /\ \A i \in 1..Len(q) : r[i] = q[i]
  BY AppendProperties DEF None
<1>2. \A i \in 1..Len(r) : i \in 1..Len(q) \/ i = Len(q) + 1
  BY <1>1
<1>t. Len(q) \in Nat
  OBVIOUS
<1> HIDE DEF r
<1>3. \A i, j \in 1..Len(r) : i < j => r[i] # None /\ (r[j] # None => r[i] < r[j])
  BY <1>1, <1>2, <1>t DEF Ordered, NoEnd
<1>4. \A i \in 1..Len(s), j \in 1..Len(r) : r[j] # None => s[i] < r[j]
  BY <1>1, <1>2, <1>t DEF Ordered
<1> QED
  BY <1>3, <1>4 DEF Ordered, r

\* Forwarding moves the head of the queue to the end of what was seen.
LEMMA RunsForward ==
  ASSUME NEW q \in Seq(Nat), NEW s \in Seq(Nat), Ordered(q, s), q # <<>>, Head(q) # None
  PROVE  LET r == Tail(q)
             z == Append(s, Head(q))
         IN  /\ Ordered(r, z)
             /\ NoEnd(q) => NoEnd(r)
             /\ \A n \in Nat : Upto(q, s, n) => Upto(r, z, n)
<1> DEFINE r == Tail(q)
           z == Append(s, Head(q))
<1>t. /\ Len(q) \in Nat /\ Len(q) > 0 /\ Len(s) \in Nat /\ Head(q) = q[1]
      /\ (\A i \in 1..Len(q) : q[i] \in Nat) /\ (\A i \in 1..Len(s) : s[i] \in Nat)
  OBVIOUS
<1>1. /\ Len(r) = Len(q) - 1 /\ \A i \in 1..Len(r) : r[i] = q[i + 1]
  BY HeadTailProperties
<1>2. /\ Len(z) = Len(s) + 1 /\ z[Len(s) + 1] = q[1] /\ \A i \in 1..Len(s) : z[i] = s[i]
  BY <1>t, AppendProperties
<1>3. \A i \in 1..Len(z) : i \in 1..Len(s) \/ i = Len(s) + 1
  BY <1>t, <1>2
<1>4. 1 \in 1..Len(q) /\ \A i \in 1..Len(r) : i + 1 \in 1..Len(q) /\ 1 < i + 1
  BY <1>t, <1>1
<1> HIDE DEF r, z
<1>5. ASSUME NEW i \in 1..Len(z), NEW j \in 1..Len(z), i < j PROVE z[i] < z[j]
  <2>1. i \in 1..Len(s) /\ z[i] = s[i]
    BY <1>t, <1>2, <1>5
  <2>2. CASE j \in 1..Len(s)
    BY <1>2, <1>5, <2>1, <2>2 DEF Ordered
  <2>3. CASE j = Len(s) + 1
    BY <1>t, <1>2, <1>4, <2>1, <2>3 DEF Ordered
  <2> QED
    BY <1>3, <2>2, <2>3
<1>6. ASSUME NEW i \in 1..Len(r), NEW j \in 1..Len(r), i < j
      PROVE  r[i] # None /\ (r[j] # None => r[i] < r[j])
  <2>1. /\ i + 1 \in 1..Len(q) /\ j + 1 \in 1..Len(q) /\ i + 1 < j + 1
        /\ r[i] = q[i + 1] /\ r[j] = q[j + 1]
    BY <1>1, <1>4, <1>6
  <2> QED
    BY <2>1 DEF Ordered
<1>7. \A i \in 1..Len(z), j \in 1..Len(r) : r[j] # None => z[i] < r[j]
  BY <1>t, <1>1, <1>2, <1>3, <1>4 DEF Ordered
<1>8. NoEnd(q) => NoEnd(r)
  BY <1>1, <1>4 DEF NoEnd
<1>9. \A n \in Nat : Upto(q, s, n) => Upto(r, z, n)
  BY <1>t, <1>1, <1>2, <1>3, <1>4 DEF Upto
<1> QED
  BY <1>5, <1>6, <1>7, <1>8, <1>9 DEF Ordered, r, z

\* Nothing follows the done event.
LEMMA RunsEnd ==
  ASSUME NEW q \in Seq(Nat), NEW s \in Seq(Nat), Ordered(q, s), q # <<>>, Head(q) = None
  PROVE  Tail(q) = <<>>
<1> DEFINE n == Len(q)
<1>1. n \in Nat /\ n > 0 /\ q[1] = None
  OBVIOUS
<1>2. ~ (n > 1)
  <2>1. n > 1 => 1 \in 1..Len(q) /\ 2 \in 1..Len(q)
    BY <1>1
  <2> QED
    BY <1>1, <2>1 DEF Ordered
<1>a. n = 1
  <2> HIDE DEF n
  <2> QED
    BY <1>1, <1>2
<1>3. Tail(q) \in Seq(Nat) /\ Len(Tail(q)) = 0
  BY <1>a, HeadTailProperties
<1> QED
  BY <1>3, EmptySeq


-----------------------------------------------------------------------------
(* What the viewers are shown: the steps.                                  *)

Early == {"unborn", "registered", "spawned", "streaming"}

\* The parts of Viewing that are about one socket.
Viewer(v) ==
    /\ sock[v] \in {"offline", "resuming"} => view[v] = Off
    /\ view[v].mode # "on" => queue[v] = <<>>
    /\ Ordered(queue[v], seen[v])
    /\ \A t \in Turns : (view[v].mode # "off" /\ view[v].turn = t) =>
           /\ step[t] # "over" => NoEnd(queue[v])
           /\ step[t] \in Early => Upto(queue[v], seen[v], said[t])

LEMMA ViewingIsViewers == Viewing <=> \A v \in Sockets : Viewer(v)
  BY DEF Viewing, Viewer, Attached, Ascending, Behind, NoChunkTwice, Ordered, NoEnd, Upto, Early

LEMMA ViewingIsViewersNext == Viewing' <=> \A v \in Sockets : Viewer(v)'
  BY DEF Viewing, Viewer, Attached, Ascending, Behind, NoChunkTwice, Ordered, NoEnd, Upto, Early

\* No step makes a turn publish again, or unpublishes a chunk.
Forwards ==
    \A t \in Turns :
        /\ step[t] = "over" => step'[t] = "over"
        /\ step'[t] \in Early => step[t] \in Early /\ said[t] <= said'[t]

LEMMA NextForwards ==
  ASSUME Numbering, [Next]_vars
  PROVE  Forwards
<1> USE DEF Numbering, Forwards, Early
<1>0. /\ step \in [Turns -> Steps] /\ said \in [Turns -> 0..Chunks]
      /\ \A t \in Turns : said[t] <= said[t] /\ said[t] <= said[t] + 1
  BY DEF TypeOK
<1>1. ASSUME NEW v \in Sockets,
             Connect(v) \/ Resume(v) \/ Send(v) \/ Guard(v) \/ Leave(v)
                 \/ Subscribe(v) \/ Forward(v)
      PROVE  Forwards
  BY <1>0, <1>1 DEF Connect, Resume, Send, Guard, Leave, Subscribe, Forward, task
<1>2. ASSUME NEW v \in Sockets, Register(v) PROVE Forwards
  <2>1. born + 1 \in Turns /\ step[born + 1] = "unborn"
    BY <1>2, TurnIsLeft DEF Register, Unpublished, TypeOK
  <2>2. step' = [step EXCEPT ![born + 1] = "registered"] /\ said' = said
    BY <1>2 DEF Register
  <2> QED
    BY <1>0, <2>1, <2>2
<1>3. ASSUME NEW v \in Sockets, Started(v) PROVE Forwards
  <2>1. step[aims[v]] = "registered"
    BY <1>3 DEF Started, Owned
  <2>2. step' = [step EXCEPT ![aims[v]] = "spawned"] /\ said' = said
    BY <1>3 DEF Started
  <2> QED
    BY <1>0, <2>1, <2>2
<1>4. ASSUME NEW t \in Turns, Launch(t) \/ Answer(t) \/ Store(t) \/ Complete(t) \/ Apologise(t)
      PROVE  Forwards
  <2>1. /\ step[t] # "over" /\ said' = said
        /\ \E s : step' = [step EXCEPT ![t] = s] /\ (s \in Early => step[t] \in Early)
    BY <1>4 DEF Launch, Answer, Store, Complete, Apologise, Go
  <2> QED
    BY <1>0, <2>1
<1>5. ASSUME NEW t \in Turns, RowError(t) \/ Done(t) PROVE Forwards
  <2>1. /\ step[t] # "over" /\ said' \in {said, [said EXCEPT ![t] = 0]}
        /\ step' \in {[step EXCEPT ![t] = s] : s \in {"closing", "over"}}
    BY <1>5 DEF RowError, Done, Go
  <2> QED
    BY <1>0, <2>1
<1>6. ASSUME NEW t \in Turns, Chunk(t) PROVE Forwards
  <2>1. step' = step /\ said' = [said EXCEPT ![t] = said[t] + 1]
    BY <1>6 DEF Chunk
  <2> QED
    BY <1>0, <2>1
<1>7. ASSUME NEW t \in Turns, Flush(t) PROVE Forwards
  BY <1>0, <1>7 DEF Flush, task
<1>8. CASE CheckDelete \/ CommitDelete
  BY <1>0, <1>8 DEF CheckDelete, CommitDelete, task
<1>9. CASE Restart
  <2>1. \A t \in Turns : step'[t] = IF t <= born THEN "over" ELSE "unborn"
    BY <1>9 DEF Restart
  <2>2. \A t \in Turns : said'[t] = 0
    BY <1>9 DEF Restart
  <2>3. \A t \in Turns : t > born => step[t] = "unborn" /\ said[t] = 0
    BY DEF Unpublished
  <2>4. \A t \in Turns : t <= born \/ t > born
    BY DEF TypeOK, Turns
  <2> QED
    BY <1>0, <2>1, <2>2, <2>3, <2>4
<1>10. CASE UNCHANGED vars
  BY <1>0, <1>10 DEF vars, task
<1> QED
  BY <1>1, <1>2, <1>3, <1>4, <1>5, <1>6, <1>7, <1>8, <1>9, <1>10 DEF Next, Handle, Work

LEMMA UptoGrows ==
  ASSUME NEW q \in Seq(Nat), NEW s \in Seq(Nat), NEW m \in Nat, NEW n \in Nat,
         m <= n, Upto(q, s, m)
  PROVE  Upto(q, s, n)
<1>1. \A i \in 1..Len(s) : s[i] \in Nat
  OBVIOUS
<1>2. \A i \in 1..Len(q) : q[i] \in Nat
  OBVIOUS
<1> QED
  BY <1>1, <1>2 DEF Upto

\* A viewer that a step does not touch stays as it is.
LEMMA ViewerUntouched ==
  ASSUME Numbering, TypeOK', Forwards, NEW v \in Sockets, Viewer(v),
         view'[v] = view[v], queue'[v] = queue[v], seen'[v] = seen[v],
         sock'[v] \in {"offline", "resuming"} => view'[v] = Off
  PROVE  Viewer(v)'
<1>1. /\ queue[v] \in Seq(Nat) /\ seen[v] \in Seq(Nat)
      /\ \A t \in Turns : said[t] \in Nat /\ said'[t] \in Nat
  BY DEF Numbering, TypeOK
<1>2. ASSUME NEW t \in Turns, view[v].mode # "off", view[v].turn = t
      PROVE  /\ step'[t] # "over" => NoEnd(queue[v])
             /\ step'[t] \in Early => Upto(queue[v], seen[v], said'[t])
  BY <1>1, <1>2, UptoGrows DEF Viewer, Forwards
<1> QED
  BY <1>2 DEF Viewer

\* An empty queue ends no run.
LEMMA RunsEmpty ==
  ASSUME NEW s \in Seq(Nat), \A i, j \in 1..Len(s) : i < j => s[i] < s[j]
  PROVE  Ordered(<<>>, s) /\ NoEnd(<<>>)
         /\ \A n \in Nat : (\A i \in 1..Len(s) : s[i] <= n) => Upto(<<>>, s, n)
<1>1. \A j \in 1..Len(<<>>) : FALSE
  OBVIOUS
<1> QED
  BY <1>1 DEF Ordered, NoEnd, Upto

\* The replay of a row is the run of its chunks.
LEMMA RunsReplay ==
  ASSUME NEW n \in Nat
  PROVE  LET s == [i \in 1..n |-> i]
         IN  /\ s \in Seq(Nat) /\ Ordered(<<>>, s)
             /\ \A m \in Nat : n <= m => Upto(<<>>, s, m)
<1> DEFINE s == [i \in 1..n |-> i]
<1>1. s \in Seq(Nat) /\ Len(s) = n /\ \A i \in 1..n : s[i] = i
  OBVIOUS
<1> HIDE DEF s
<1>2. Ordered(<<>>, s)
  BY <1>1, RunsEmpty
<1>3. \A m \in Nat : n <= m => Upto(<<>>, s, m)
  BY <1>1, RunsEmpty
<1> QED
  BY <1>1, <1>2, <1>3 DEF s

\* A client without chunks, its pump without events.
LEMMA ViewerBlank ==
  ASSUME TypeOK', NEW v \in Sockets, queue'[v] = <<>>, seen'[v] = <<>>,
         sock'[v] \in {"offline", "resuming"} => view'[v] = Off
  PROVE  Viewer(v)'
<1>1. <<>> \in Seq(Nat) /\ \A j \in 1..Len(<<>>) : FALSE
  OBVIOUS
<1>2. Ordered(<<>>, <<>>) /\ NoEnd(<<>>) /\ \A n \in Nat : Upto(<<>>, <<>>, n)
  BY <1>1 DEF Ordered, NoEnd, Upto
<1>3. \A t \in Turns : said'[t] \in Nat
  BY DEF TypeOK
<1> QED
  BY <1>2, <1>3 DEF Viewer

LEMMA NextViewing ==
  ASSUME Numbering, Viewing, [Next]_vars
  PROVE  Viewing'
<1>0. TypeOK' /\ Forwards /\ \A u \in Sockets : Viewer(u)
  BY NextTypes, NextForwards, ViewingIsViewers
<1>a. /\ TypeOK /\ \A t \in Turns : said[t] \in Nat
      /\ \A u \in Sockets : queue[u] \in Seq(Nat) /\ seen[u] \in Seq(Nat)
      /\ \A u \in Sockets : view[u] \in Views
      /\ sock \in [Sockets -> {"offline", "resuming", "idle", "guarding", "saved", "starting"}]
  BY DEF Numbering, TypeOK
\* No viewer is touched.
<1>n. ASSUME view' = view, queue' = queue, seen' = seen, sock' = sock PROVE Viewing'
  <2>1. ASSUME NEW u \in Sockets PROVE Viewer(u)'
    <3>1. sock'[u] \in {"offline", "resuming"} => view'[u] = Off
      BY <1>0, <1>n DEF Viewer
    <3> QED
      BY <1>0, <1>n, <3>1, ViewerUntouched
  <2> QED
    BY <2>1, ViewingIsViewersNext
\* Only v is.
<1>o. ASSUME NEW v \in Sockets, Viewer(v)',
             \A u \in Sockets \ {v} : /\ view'[u] = view[u] /\ queue'[u] = queue[u]
                                      /\ seen'[u] = seen[u] /\ sock'[u] = sock[u]
      PROVE  Viewing'
  <2>1. ASSUME NEW u \in Sockets, u # v PROVE Viewer(u)'
    <3>1. sock'[u] \in {"offline", "resuming"} => view'[u] = Off
      BY <1>0, <1>o, <2>1 DEF Viewer
    <3> QED
      BY <1>0, <1>o, <2>1, <3>1, ViewerUntouched
  <2> QED
    BY <1>o, <2>1, ViewingIsViewersNext
<1>1. ASSUME NEW v \in Sockets, Connect(v) PROVE Viewing'
  <2>1. view[v] = Off /\ queue[v] = <<>>
    BY <1>0, <1>1, ViewTypes DEF Connect, Viewer
  <2>2. /\ queue'[v] = <<>> /\ seen'[v] = <<>> /\ view'[v] = Off
        /\ \A u \in Sockets \ {v} : /\ view'[u] = view[u] /\ queue'[u] = queue[u]
                                     /\ seen'[u] = seen[u] /\ sock'[u] = sock[u]
    BY <1>1, <1>a, <2>1 DEF Connect, TypeOK
  <2>3. Viewer(v)'
    BY <1>0, <2>2, ViewerBlank
  <2> QED
    BY <1>o, <2>2, <2>3
<1>2. ASSUME NEW v \in Sockets, Resume(v) PROVE Viewing'
  <2> DEFINE t == aims[v]
             s == [i \in 1..row[t].text |-> i]
  <2>1. t \in Turns /\ view[v] = Off /\ queue[v] = <<>>
    BY <1>0, <1>2, ViewTypes DEF Resume, Viewer, Numbering, Owned, TypeOK
  <2>2. /\ queue'[v] = <<>> /\ seen'[v] = s /\ view'[v] = Due(t) /\ sock'[v] = "idle"
        /\ step' = step /\ said' = said
        /\ \A u \in Sockets \ {v} : /\ view'[u] = view[u] /\ queue'[u] = queue[u]
                                     /\ seen'[u] = seen[u] /\ sock'[u] = sock[u]
    BY <1>2, <1>a, <2>1 DEF Resume, TypeOK, task
  <2>3. row[t].text \in Nat /\ (step[t] \in Early => row[t].text <= said[t])
    BY <1>a, <2>1, RowTypes DEF Early, Numbering, Unpublished, TypeOK
  <2>4. Ordered(<<>>, s) /\ (step[t] \in Early => Upto(<<>>, s, said[t]))
    BY <1>a, <2>1, <2>3, RunsReplay
  <2>5. NoEnd(<<>>)
    BY DEF NoEnd
  <2>6. Viewer(v)'
    <3> HIDE DEF t, s
    <3> QED
      BY <2>2, <2>4, <2>5, ViewTypes DEF Viewer
  <2> QED
    BY <1>o, <2>2, <2>6
<1>3. ASSUME NEW v \in Sockets, Send(v) \/ Guard(v) \/ Register(v) PROVE Viewing'
  <2>1. /\ view' = view /\ queue' = queue /\ seen' = seen
        /\ sock'[v] \notin {"offline", "resuming"}
        /\ \A u \in Sockets \ {v} : sock'[u] = sock[u]
    BY <1>3, <1>a DEF Send, Guard, Register, viewer
  <2>2. Viewer(v)'
    BY <1>0, <2>1, ViewerUntouched
  <2> QED
    BY <1>o, <2>1, <2>2
<1>4. ASSUME NEW v \in Sockets, Started(v) \/ Leave(v) PROVE Viewing'
  <2>1. /\ queue'[v] = <<>> /\ seen'[v] = <<>>
        /\ sock'[v] \in {"offline", "resuming"} => view'[v] = Off
        /\ \A u \in Sockets \ {v} : /\ view'[u] = view[u] /\ queue'[u] = queue[u]
                                     /\ seen'[u] = seen[u] /\ sock'[u] = sock[u]
    BY <1>4, <1>a DEF Started, Leave, TypeOK
  <2>2. Viewer(v)'
    BY <1>0, <2>1, ViewerBlank
  <2> QED
    BY <1>o, <2>1, <2>2
<1>5. ASSUME NEW v \in Sockets, Subscribe(v) PROVE Viewing'
  <2> DEFINE t == view[v].turn
  <2>1. /\ view[v].mode = "due" /\ view'[v] = On(t) /\ view[v] # Off
        /\ queue' = queue /\ seen' = seen /\ sock' = sock /\ step' = step /\ said' = said
        /\ \A u \in Sockets \ {v} : view'[u] = view[u]
    BY <1>5, <1>a, ViewTypes DEF Subscribe, client, task, TypeOK
  <2>2. Viewer(v)'
    <3>1. Viewer(v)
      BY <1>0
    <3> QED
      BY <2>1, <3>1, ViewTypes DEF Viewer
  <2> QED
    BY <1>o, <2>1, <2>2
<1>6. ASSUME NEW v \in Sockets, Forward(v) PROVE Viewing'
  <2> DEFINE q == queue[v]
             s == seen[v]
  <2>1. /\ q # <<>> /\ queue'[v] = Tail(q) /\ sock' = sock /\ step' = step /\ said' = said
        /\ \A u \in Sockets \ {v} : /\ view'[u] = view[u] /\ queue'[u] = queue[u]
                                     /\ seen'[u] = seen[u]
    BY <1>6, <1>a DEF Forward, client, task, TypeOK
  <2>2. q \in Seq(Nat) /\ s \in Seq(Nat) /\ Viewer(v) /\ Ordered(q, s)
    BY <1>0, <1>a DEF Viewer
  <2>3. CASE Head(q) # None
    <3>1. view'[v] = view[v] /\ seen'[v] = Append(s, Head(q))
      BY <1>6, <1>a, <2>3 DEF Forward, TypeOK
    <3> HIDE DEF q, s
    <3>2. /\ Ordered(Tail(q), Append(s, Head(q))) /\ (NoEnd(q) => NoEnd(Tail(q)))
          /\ \A n \in Nat : Upto(q, s, n) => Upto(Tail(q), Append(s, Head(q)), n)
      BY <2>1, <2>2, <2>3, RunsForward
    <3>3. Viewer(v)'
      BY <1>a, <2>1, <2>2, <3>1, <3>2 DEF Viewer, q, s
    <3> QED
      BY <1>o, <2>1, <3>3
  <2>4. CASE Head(q) = None
    <3>1. view'[v] = Off /\ seen'[v] = <<>>
      BY <1>6, <1>a, <2>4 DEF Forward, TypeOK
    <3>2. Tail(q) = <<>>
      <4> HIDE DEF q, s
      <4> QED
        BY <2>1, <2>2, <2>4, RunsEnd
    <3>3. Viewer(v)'
      BY <1>0, <2>1, <3>1, <3>2, ViewerBlank
    <3> QED
      BY <1>o, <2>1, <3>3
  <2> QED
    BY <2>3, <2>4
<1>7. ASSUME NEW t \in Turns, Chunk(t) PROVE Viewing'
  <2>1. /\ step[t] = "streaming" /\ step' = step /\ view' = view /\ seen' = seen /\ sock' = sock
        /\ said' = [said EXCEPT ![t] = said[t] + 1] /\ said'[t] = said[t] + 1
        /\ Publish(t, said'[t])
    BY <1>7 DEF Chunk, client, TypeOK, Numbering
  <2>2. ASSUME NEW u \in Sockets PROVE Viewer(u)'
    <3>1. Viewer(u) /\ (sock'[u] \in {"offline", "resuming"} => view'[u] = Off)
      BY <1>0, <2>1 DEF Viewer
    <3>2. CASE view[u] = On(t)
      <4>1. queue'[u] = Append(queue[u], said[t] + 1)
        BY <2>1, <3>2 DEF Publish
      <4>2. view[u].mode = "on" /\ view[u].turn = t
        BY <3>2, ViewTypes
      <4>3. Ordered(queue[u], seen[u]) /\ NoEnd(queue[u]) /\ Upto(queue[u], seen[u], said[t])
        BY <2>1, <3>1, <4>2 DEF Viewer, Early
      <4>4. LET r == Append(queue[u], said[t] + 1)
            IN  Ordered(r, seen[u]) /\ NoEnd(r) /\ Upto(r, seen[u], said[t] + 1)
        BY <1>a, <4>3, RunsChunk
      <4> QED
        BY <2>1, <3>1, <4>1, <4>2, <4>4 DEF Viewer
    <3>3. CASE view[u] # On(t)
      <4>1. queue'[u] = queue[u]
        BY <2>1, <3>3 DEF Publish
      <4> QED
        BY <1>0, <2>1, <3>1, <4>1, ViewerUntouched
    <3> QED
      BY <3>2, <3>3
  <2> QED
    BY <2>2, ViewingIsViewersNext
<1>8. ASSUME NEW t \in Turns, Done(t) PROVE Viewing'
  <2>1. /\ step[t] = "closing" /\ step'[t] = "over" /\ view' = view /\ seen' = seen
        /\ sock' = sock /\ Publish(t, None)
    BY <1>8 DEF Done, Go, client, TypeOK, Numbering
  <2>2. ASSUME NEW u \in Sockets PROVE Viewer(u)'
    <3>1. Viewer(u) /\ (sock'[u] \in {"offline", "resuming"} => view'[u] = Off)
      BY <1>0, <2>1 DEF Viewer
    <3>2. CASE view[u] = On(t)
      <4>1. queue'[u] = Append(queue[u], None)
        BY <2>1, <3>2 DEF Publish
      <4>2. view[u].mode = "on" /\ view[u].turn = t
        BY <3>2, ViewTypes
      <4>3. Ordered(queue[u], seen[u]) /\ NoEnd(queue[u])
        BY <2>1, <3>1, <4>2 DEF Viewer
      <4>4. Ordered(Append(queue[u], None), seen[u])
        BY <1>a, <4>3, RunsDone
      <4> QED
        BY <2>1, <3>1, <4>1, <4>2, <4>4 DEF Viewer, Early
    <3>3. CASE view[u] # On(t)
      <4>1. queue'[u] = queue[u]
        BY <2>1, <3>3 DEF Publish
      <4> QED
        BY <1>0, <2>1, <3>1, <4>1, ViewerUntouched
    <3> QED
      BY <3>2, <3>3
  <2> QED
    BY <2>2, ViewingIsViewersNext
<1>9. ASSUME NEW t \in Turns,
             Launch(t) \/ Flush(t) \/ Answer(t) \/ Store(t) \/ Complete(t) \/ Apologise(t)
                 \/ RowError(t)
      PROVE  Viewing'
  BY <1>9, <1>n DEF Launch, Flush, Answer, Store, Complete, Apologise, RowError, client, viewer
<1>10. CASE CheckDelete \/ CommitDelete
  BY <1>10, <1>n DEF CheckDelete, CommitDelete, client, viewer
<1>11. CASE Restart
  <2>1. \A u \in Sockets : queue'[u] = <<>> /\ seen'[u] = <<>> /\ view'[u] = Off
    BY <1>11 DEF Restart
  <2>2. \A u \in Sockets : Viewer(u)'
    BY <1>0, <2>1, ViewerBlank
  <2> QED
    BY <2>2, ViewingIsViewersNext
<1>12. CASE UNCHANGED vars
  BY <1>12, <1>n DEF vars, client, viewer
<1> QED
  BY <1>1, <1>2, <1>3, <1>4, <1>5, <1>6, <1>7, <1>8, <1>9, <1>10, <1>11, <1>12
     DEF Next, Handle, Work

-----------------------------------------------------------------------------
(* The theorems.                                                           *)

LEMMA InitAll == Init => IInv
<1> SUFFICES ASSUME Init PROVE IInv
  OBVIOUS
<1> USE DEF Init
<1>1. TypeOK
  <2>1. view \in [Sockets -> Views] /\ row \in [Turns -> Rows] /\ step \in [Turns -> Steps]
    BY ViewTypes, RowTypes DEF Steps
  <2>2. <<>> \in Seq(0..Chunks) /\ <<>> \in Seq(1..Chunks) /\ 0 \in 0..Chunks /\ 0 \in 0..MaxTurns
    OBVIOUS
  <2> QED
    BY <2>1, <2>2 DEF TypeOK, None
<1>2. Reserved
  <2>1. Pending = {}
    BY DEF Pending
  <2> QED
    BY <2>1, FS_EmptySet DEF Reserved
<1>3. Unpublished /\ Owned
  BY DEF Unpublished, Owned
<1>4. Attached /\ Ascending /\ Behind /\ NoChunkTwice
  BY ViewTypes DEF Attached, Ascending, Behind, NoChunkTwice
<1>5. Kept /\ CompletedIsAnswered /\ NewestIsFound /\ EndedTurnsUnblock
  BY RowTypes DEF Kept, CompletedIsAnswered, NewestIsFound, EndedTurnsUnblock
<1> QED
  BY <1>1, <1>2, <1>3, <1>4, <1>5 DEF IInv

\* The inductive invariant of the module holds in every behaviour.
THEOREM Invariance == Spec => []IInv
<1>1. IInv /\ [Next]_vars => IInv'
  BY NextTypes, NextReserved, NextUnpublished, NextOwned, NextRegistry, NextRecords, NextViewing
     DEF IInv, Numbering, Registry, Records, Viewing
<1> QED
  BY <1>1, InitAll, PTL DEF Spec

\* The variables keep their types; in particular a row's state is one of those
\* that chat.py writes.
THEOREM TurnTypes == Spec => []TypeOK
<1>1. IInv => TypeOK
  BY DEF IInv
<1> QED
  BY <1>1, Invariance, PTL

\* However a client drops and resumes, and however many tabs there are, none
\* is shown a chunk twice or out of order.
THEOREM ViewersSeeEachChunkOnce == Spec => []NoChunkTwice
<1>1. IInv => NoChunkTwice
  BY DEF IInv
<1> QED
  BY <1>1, Invariance, PTL

\* A completed turn's answer is in the history, even if delete_session ran
\* under the turn.
THEOREM CompletedTurnsAreAnswered == Spec => []CompletedIsAnswered
<1>1. IInv => CompletedIsAnswered
  BY DEF IInv
<1> QED
  BY <1>1, Invariance, PTL

\* broker_for_session finds the newest turn as long as its broker is open.
THEOREM NewestTurnIsFound == Spec => []NewestIsFound
<1>1. IInv => NewestIsFound
  BY DEF IInv
<1> QED
  BY <1>1, Invariance, PTL

\* A turn whose task has ended has left the registry.
THEOREM EndedTurnsLeave == Spec => []EndedTurnsUnblock
<1>1. IInv => EndedTurnsUnblock
  BY DEF IInv
<1> QED
  BY <1>1, Invariance, PTL

-----------------------------------------------------------------------------
(* Ledger.  Sums of amounts, as the sizes of sets of units.                *)

HIDE ChatConstants

LEMMA UnitsFinite ==
  ASSUME NEW D, IsFiniteSet(D), NEW f \in [D -> Nat]
  PROVE  IsFiniteSet(Units(f)) /\ Total(f) \in Nat
<1> DEFINE parts == {{x} \X (1..f[x]) : x \in D}
           part == [x \in D |-> {x} \X (1..f[x])]
<1>1. part \in Surjection(D, parts)
  BY DEF Surjection
<1>2. IsFiniteSet(parts)
  BY <1>1, FS_Surjection
<1>3. \A T \in parts : IsFiniteSet(T)
  <2> TAKE T \in parts
  <2>1. PICK x \in D : T = {x} \X (1..f[x])
    OBVIOUS
  <2>2. f[x] \in Nat
    OBVIOUS
  <2>3. IsFiniteSet(1..f[x])
    BY <2>2, FS_Interval
  <2>4. IsFiniteSet({x})
    BY FS_Singleton
  <2> QED
    BY <2>1, <2>3, <2>4, FS_Product
<1>4. Units(f) = UNION parts
  BY DEF Units
<1>5. IsFiniteSet(Units(f))
  BY <1>2, <1>3, <1>4, FS_UNION
<1> QED
  BY <1>5, FS_CardinalityType DEF Total

\* The units of an amount are pairs of an element and a number up to its amount.
LEMMA UnitsAre ==
  ASSUME NEW D, NEW f \in [D -> Nat]
  PROVE  \A u : u \in Units(f) <=> \E x \in D : \E k \in 1..f[x] : u = <<x, k>>
BY DEF Units

\* One more element adds its amount.
LEMMA TotalOneMore ==
  ASSUME NEW E, IsFiniteSet(E), NEW x \in E, NEW f \in [E \ {x} -> Nat],
         NEW g \in [E -> Nat], \A y \in E \ {x} : g[y] = f[y]
  PROVE  Total(g) = Total(f) + g[x]
<1>0. PICK D : D = E \ {x}
  OBVIOUS
<1>d. /\ IsFiniteSet(D) /\ x \notin D /\ E = D \cup {x} /\ f \in [D -> Nat]
      /\ \A y \in D : g[y] = f[y]
  BY <1>0, FS_RemoveElement
<1> DEFINE new == {x} \X (1..g[x])
<1>1. IsFiniteSet(Units(f)) /\ Total(f) \in Nat
  BY <1>d, UnitsFinite
<1>2. /\ IsFiniteSet({x}) /\ Cardinality({x}) = 1
      /\ IsFiniteSet(1..g[x]) /\ Cardinality(1..g[x]) = g[x]
  <2>1. g[x] \in Nat
    OBVIOUS
  <2>2. IsFiniteSet(1..g[x]) /\ Cardinality(1..g[x]) = IF 1 > g[x] THEN 0 ELSE g[x] - 1 + 1
    BY <2>1, FS_Interval
  <2>3. Cardinality(1..g[x]) = g[x]
    BY <2>1, <2>2
  <2>4. IsFiniteSet({x}) /\ Cardinality({x}) = 1
    BY FS_Singleton
  <2> QED
    BY <2>2, <2>3, <2>4
<1>3. IsFiniteSet(new) /\ Cardinality(new) = g[x]
  <2>1. Cardinality(new) = Cardinality({x}) * Cardinality(1..g[x]) /\ IsFiniteSet(new)
    BY <1>2, FS_Product
  <2> QED
    BY <2>1, <1>2
<1>4. Units(g) = Units(f) \cup new
  <2>1. \A u : u \in Units(g) <=> \E y \in E : \E k \in 1..g[y] : u = <<y, k>>
    BY UnitsAre
  <2>2. \A u : u \in Units(f) <=> \E y \in D : \E k \in 1..f[y] : u = <<y, k>>
    BY <1>d, UnitsAre
  <2>3. \A u : u \in new <=> \E k \in 1..g[x] : u = <<x, k>>
    OBVIOUS
  <2> QED
    BY <2>1, <2>2, <2>3, <1>d
<1>5. Units(f) \cap new = {}
  <2>1. \A u \in new : \E k \in 1..g[x] : u = <<x, k>>
    OBVIOUS
  <2>2. \A u \in Units(f) : \E y \in D : \E k \in 1..f[y] : u = <<y, k>>
    BY <1>d, UnitsAre
  <2> QED
    BY <2>1, <2>2, <1>d
<1> HIDE DEF new
<1>6. Cardinality(Units(f) \cup new)
        = Cardinality(Units(f)) + Cardinality(new) - Cardinality(Units(f) \cap new)
  BY <1>1, <1>3, FS_Union
<1>7. Cardinality(Units(f) \cap new) = 0
  BY <1>5, FS_EmptySet
<1> QED
  BY <1>1, <1>3, <1>4, <1>6, <1>7 DEF Total

\* One amount that changes takes the total with it.
LEMMA TotalOneChanged ==
  ASSUME NEW D, IsFiniteSet(D), NEW x \in D, NEW f \in [D -> Nat], NEW g \in [D -> Nat],
         \A y \in D \ {x} : g[y] = f[y]
  PROVE  Total(g) - Total(f) = g[x] - f[x]
<1> DEFINE rest == D \ {x}
<1>1. PICK h : h = [y \in rest |-> f[y]]
  OBVIOUS
<1>2. /\ IsFiniteSet(rest) /\ h \in [D \ {x} -> Nat] /\ h \in [rest -> Nat]
      /\ \A y \in D \ {x} : f[y] = h[y] /\ g[y] = h[y]
  BY <1>1, FS_RemoveElement
<1>3. Total(h) \in Nat
  BY <1>2, UnitsFinite
<1>4. Total(f) = Total(h) + f[x]
  BY <1>2, TotalOneMore
<1>5. Total(g) = Total(h) + g[x]
  BY <1>2, TotalOneMore
<1> QED
  BY <1>3, <1>4, <1>5

\* More elements do not make it less.
LEMMA TotalGrows ==
  ASSUME NEW D, NEW E, D \subseteq E, IsFiniteSet(E),
         NEW f \in [D -> Nat], NEW g \in [E -> Nat], \A x \in D : g[x] = f[x]
  PROVE  Total(f) <= Total(g)
<1>1. IsFiniteSet(Units(g))
  BY UnitsFinite
<1>2. \A u : u \in Units(g) <=> \E x \in E : \E k \in 1..g[x] : u = <<x, k>>
  BY UnitsAre
<1>3. \A u : u \in Units(f) <=> \E x \in D : \E k \in 1..f[x] : u = <<x, k>>
  BY UnitsAre
<1>4. Units(f) \subseteq Units(g)
  BY <1>2, <1>3
<1> QED
  BY <1>1, <1>4, FS_Subset DEF Total

-----------------------------------------------------------------------------
(* What the rows of a run add up to.                                       *)

Column(s, c) == [i \in DOMAIN s |-> s[i][c]]

LEMMA Columns ==
  ASSUME NEW s
  PROVE  Costs(s) = Total(Column(s, "cost")) /\ Charges(s) = Total(Column(s, "charged"))
BY DEF Costs, Charges, Column

LEMMA ColumnType ==
  ASSUME NEW s \in Seq(CallRow), NEW c \in {"cost", "charged"}
  PROVE  /\ Column(s, c) \in [1..Len(s) -> Nat] /\ Total(Column(s, c)) \in Nat
         /\ IsFiniteSet(1..Len(s)) /\ DOMAIN s = 1..Len(s)
<1>1. DOMAIN s = 1..Len(s) /\ Len(s) \in Nat
  OBVIOUS
<1>2. \A i \in 1..Len(s) : s[i] \in CallRow
  OBVIOUS
<1>3. \A i \in 1..Len(s) : s[i][c] \in Nat
  BY <1>2 DEF CallRow
<1>4. Column(s, c) \in [1..Len(s) -> Nat]
  BY <1>1, <1>3 DEF Column
<1>5. IsFiniteSet(1..Len(s))
  BY <1>1, FS_Interval
<1> QED
  BY <1>1, <1>4, <1>5, UnitsFinite

LEMMA NoRowsNoCosts == Costs(<<>>) = 0 /\ Charges(<<>>) = 0
<1>1. DOMAIN <<>> = {}
  OBVIOUS
<1>2. \A c : Units(Column(<<>>, c)) = {}
  BY <1>1 DEF Units, Column
<1> QED
  BY <1>2, Columns, FS_EmptySet DEF Total

LEMMA ColumnAppend ==
  ASSUME NEW s \in Seq(CallRow), NEW w \in CallRow, NEW c \in {"cost", "charged"}
  PROVE  Total(Column(Append(s, w), c)) = Total(Column(s, c)) + w[c]
<1>1. PICK t : t = Append(s, w)
  OBVIOUS
<1>2. /\ t \in Seq(CallRow) /\ Len(t) = Len(s) + 1 /\ Len(s) \in Nat
      /\ \A i \in 1..Len(s) : t[i] = s[i]
      /\ t[Len(s) + 1] = w
  BY <1>1
<1>3. /\ Column(s, c) \in [1..Len(s) -> Nat] /\ IsFiniteSet(1..Len(s))
      /\ DOMAIN s = 1..Len(s)
  BY ColumnType
<1>4. Column(t, c) \in [1..Len(t) -> Nat] /\ IsFiniteSet(1..Len(t)) /\ DOMAIN t = 1..Len(t)
  BY <1>2, ColumnType
<1>5. (1..Len(t)) \ {Len(s) + 1} = 1..Len(s) /\ Len(s) + 1 \in 1..Len(t)
  BY <1>2
<1>6. \A i \in 1..Len(s) : Column(t, c)[i] = Column(s, c)[i]
  BY <1>2, <1>3, <1>4, <1>5 DEF Column
<1>7. Column(t, c)[Len(s) + 1] = w[c]
  BY <1>2, <1>4, <1>5 DEF Column
<1>9. Total(Column(t, c)) = Total(Column(s, c)) + Column(t, c)[Len(s) + 1]
  <2>1. PICK E, f, g, x : E = 1..Len(t) /\ f = Column(s, c) /\ g = Column(t, c) /\ x = Len(s) + 1
    OBVIOUS
  <2>2. /\ IsFiniteSet(E) /\ x \in E /\ f \in [E \ {x} -> Nat] /\ g \in [E -> Nat]
        /\ \A y \in E \ {x} : g[y] = f[y]
    BY <2>1, <1>3, <1>4, <1>5, <1>6
  <2>3. Total(g) = Total(f) + g[x]
    BY ONLY <2>2, TotalOneMore
  <2> QED
    BY <2>1, <2>3
<1> QED
  BY <1>1, <1>7, <1>9

LEMMA ColumnChanged ==
  ASSUME NEW s \in Seq(CallRow), NEW i \in DOMAIN s, NEW w \in CallRow,
         NEW c \in {"cost", "charged"}
  PROVE  /\ [s EXCEPT ![i] = w] \in Seq(CallRow)
         /\ Len([s EXCEPT ![i] = w]) = Len(s)
         /\ Total(Column([s EXCEPT ![i] = w], c)) - Total(Column(s, c)) = w[c] - s[i][c]
<1>1. PICK t : t = [s EXCEPT ![i] = w]
  OBVIOUS
<1>2. /\ t \in Seq(CallRow) /\ Len(t) = Len(s) /\ DOMAIN s = 1..Len(s)
      /\ \A j \in (1..Len(s)) \ {i} : t[j] = s[j]
      /\ t[i] = w /\ i \in 1..Len(s)
  BY <1>1
<1>3. Column(s, c) \in [1..Len(s) -> Nat] /\ IsFiniteSet(1..Len(s))
  BY ColumnType
<1>4. Column(t, c) \in [1..Len(s) -> Nat] /\ DOMAIN t = 1..Len(s)
  BY <1>2, ColumnType
<1>5. \A j \in (1..Len(s)) \ {i} : Column(t, c)[j] = Column(s, c)[j]
  BY <1>2, <1>4 DEF Column
<1>6. Column(t, c)[i] = w[c] /\ Column(s, c)[i] = s[i][c]
  BY <1>2, <1>4 DEF Column
<1>7. Total(Column(t, c)) - Total(Column(s, c)) = Column(t, c)[i] - Column(s, c)[i]
  <2>1. PICK D, f, g : D = 1..Len(s) /\ f = Column(s, c) /\ g = Column(t, c)
    OBVIOUS
  <2>2. /\ IsFiniteSet(D) /\ i \in D /\ f \in [D -> Nat] /\ g \in [D -> Nat]
        /\ \A y \in D \ {i} : g[y] = f[y]
    BY <2>1, <1>2, <1>3, <1>4, <1>5
  <2>3. Total(g) - Total(f) = g[i] - f[i]
    BY ONLY <2>2, TotalOneChanged
  <2> QED
    BY <2>1, <2>3
<1> QED
  BY <1>1, <1>2, <1>6, <1>7

\* Rows with the same amounts add up to the same.
LEMMA SameColumns ==
  ASSUME NEW s, NEW t, DOMAIN t = DOMAIN s,
         \A i \in DOMAIN s : t[i].cost = s[i].cost /\ t[i].charged = s[i].charged
  PROVE  Costs(t) = Costs(s) /\ Charges(t) = Charges(s)
<1>1. [i \in DOMAIN t |-> t[i].cost] = [i \in DOMAIN s |-> s[i].cost]
  OBVIOUS
<1>2. [i \in DOMAIN t |-> t[i].charged] = [i \in DOMAIN s |-> s[i].charged]
  OBVIOUS
<1> QED
  BY <1>1, <1>2 DEF Costs, Charges

-----------------------------------------------------------------------------
(* Prices.                                                                 *)

LEMMA Products == \A m, n \in Nat : m * n \in Nat
OBVIOUS

LEMMA PriceTypes ==
  ASSUME NEW r \in Runs, NEW use \in Answers[ProviderOf[r]]
  PROVE  /\ use \in Use /\ use.charged \in Nat
         /\ EstimateCost(Rates[ProviderOf[r]], use) \in Nat
         /\ RowCost(ProviderOf[r], use) \in Nat
         /\ Priced(r) => RowCost(ProviderOf[r], use) = use.charged
<1> DEFINE rates == Rates[ProviderOf[r]]
<1>1. use \in Use /\ (rates = Unpriced \/ Rated(rates)) /\ (Priced(r) => Honest(rates, use))
  BY LedgerConstants
<1>2. /\ use.input \in Nat /\ use.cached \in Nat /\ use.created \in Nat /\ use.output \in Nat
      /\ use.reasoning \in Nat /\ use.inline \in Nat /\ use.charged \in Nat
  BY <1>1 DEF Use
<1> DEFINE cached == RateOr(rates, "cached", "prompt")
           created == RateOr(rates, "created", "prompt")
           reasoning == RateOr(rates, "reasoning", "completion")
<1>3. rates # Unpriced => /\ rates.prompt \in Nat /\ rates.completion \in Nat
                          /\ cached \in Nat /\ created \in Nat /\ reasoning \in Nat
  BY <1>1 DEF Rated, RateOr
<1>4. EstimateCost(rates, use) \in Nat
  BY <1>2, <1>3, Products DEF EstimateCost
<1> DEFINE fresh == Larger(use.input - use.cached - use.created, 0)
           spoken == Larger(use.output - use.reasoning, 0)
<1>5. fresh \in Nat /\ spoken \in Nat
  BY <1>2 DEF Larger
<1>6. ComputeCost(rates, use) = IF rates = Unpriced THEN 0
        ELSE fresh * rates.prompt + spoken * rates.completion + use.cached * cached
             + use.created * created + use.reasoning * reasoning
  BY DEF ComputeCost
<1>7. Priced(r) => fresh = use.input - (use.cached + use.created) /\ spoken = use.output - use.reasoning
  <2>1. Priced(r) => use.cached + use.created <= use.input /\ use.reasoning <= use.output
    BY <1>1 DEF Honest
  <2>2. Priced(r) => /\ use.input - use.cached - use.created >= 0
                     /\ use.input - use.cached - use.created = use.input - (use.cached + use.created)
                     /\ use.output - use.reasoning >= 0
    BY <2>1, <1>2
  <2>3. \A m \in Int : m >= 0 => Larger(m, 0) = m
    BY DEF Larger
  <2> QED
    BY <2>2, <2>3, <1>2
<1>8. Priced(r) => use.charged = (use.input - (use.cached + use.created)) * rates.prompt
                     + use.cached * cached + use.created * created
                     + (use.output - use.reasoning) * rates.completion
                     + use.reasoning * reasoning
  BY <1>1 DEF Honest, Listed, RateOr
<1> HIDE DEF fresh, spoken, cached, created, reasoning
<1>9. ComputeCost(rates, use) \in Nat
  BY <1>2, <1>3, <1>5, <1>6, Products
<1>10. Priced(r) => ComputeCost(rates, use) = use.charged
  <2> SUFFICES ASSUME Priced(r) PROVE ComputeCost(rates, use) = use.charged
    OBVIOUS
  <2>1. rates # Unpriced
    BY DEF Priced
  <2> DEFINE a == fresh * rates.prompt
             b == spoken * rates.completion
             c == use.cached * cached
             d == use.created * created
             e == use.reasoning * reasoning
  <2>2. a \in Nat /\ b \in Nat /\ c \in Nat /\ d \in Nat /\ e \in Nat
    BY <2>1, <1>2, <1>3, <1>5, Products
  <2>3. ComputeCost(rates, use) = a + b + c + d + e
    BY <2>1, <1>6
  <2>4. use.charged = a + c + d + b + e
    BY <1>7, <1>8
  <2> QED
    BY <2>2, <2>3, <2>4
<1>11. RowCost(ProviderOf[r], use) = IF use.inline > 0 THEN use.inline ELSE ComputeCost(rates, use)
  BY DEF RowCost
<1>12. Priced(r) => use.inline \in {0, use.charged}
  BY <1>1 DEF Honest
<1> QED
  BY <1>1, <1>2, <1>4, <1>9, <1>10, <1>11, <1>12

-----------------------------------------------------------------------------
(* Types.                                                                  *)

\* The types of what is priced: from here on the rows are only their amounts.
LEMMA AddedTypes ==
  ASSUME NEW r \in Runs, NEW n \in Nat
  PROVE  /\ \A f \in [Runs -> Nat] : [f EXCEPT ![r] = f[r] + n] \in [Runs -> Nat]
         /\ \A f \in [Runs -> [calls : Nat, charged : Nat]] :
               [f EXCEPT ![r] = [calls |-> f[r].calls + 1, charged |-> f[r].charged + n]]
                  \in [Runs -> [calls : Nat, charged : Nat]]
OBVIOUS

LEMMA KeepTypes ==
  ASSUME BooksTyped, NEW r \in Runs, NEW use \in Answers[ProviderOf[r]],
         Keep(r, use) \/ Miss(r, use)
  PROVE  BooksTyped'
<1> USE DEF BooksTyped
<1>1. /\ use.charged \in Nat /\ EstimateCost(Rates[ProviderOf[r]], use) \in Nat
      /\ RowCost(ProviderOf[r], use) \in Nat
  BY PriceTypes
<1>2. tracker' \in [Runs -> Nat] /\ charged' \in [Runs -> Nat]
  <2>1. PICK e \in Nat : e = EstimateCost(Rates[ProviderOf[r]], use)
    BY <1>1
  <2>2. /\ tracker' = [tracker EXCEPT ![r] = tracker[r] + e]
        /\ charged' = [charged EXCEPT ![r] = charged[r] + use.charged]
    BY <2>1 DEF Keep, Miss, Answered, Asked, Charge
  <2> QED
    BY <1>1, <2>2, AddedTypes
<1>3. UNCHANGED <<unseen, failed, sum, late, event, day>>
  BY DEF Keep, Miss, Stage
<1>4. CASE Keep(r, use)
  <2>1. PICK call : /\ call = [cost |-> RowCost(ProviderOf[r], use), charged |-> use.charged,
                               pending |-> ProviderOf[r] \in Routed]
                    /\ rows' = [rows EXCEPT ![r] = Append(rows[r], call)]
    BY <1>4 DEF Keep
  <2>2. call \in CallRow
    BY <1>1, <2>1 DEF CallRow
  <2>3. rows' \in [Runs -> Seq(CallRow)]
    BY <2>1, <2>2
  <2>4. missed' = missed
    BY <1>4 DEF Keep, Stage
  <2> QED
    BY <1>2, <1>3, <2>3, <2>4
<1>5. CASE Miss(r, use)
  <2>1. missed' = [missed EXCEPT ![r] =
            [calls |-> missed[r].calls + 1, charged |-> missed[r].charged + use.charged]]
    BY <1>5 DEF Miss
  <2>2. missed' \in [Runs -> [calls : Nat, charged : Nat]]
    BY <1>1, <2>1, AddedTypes
  <2>3. rows' = rows
    BY <1>5 DEF Miss, Stage
  <2> QED
    BY <1>2, <1>3, <2>2, <2>3
<1> QED
  BY <1>4, <1>5

\* A call of which the run learns no usage, in its loop or after its bill.
Hidden(r, use) == Silent(r, use) \/ Afterwards(r, use)

LEMMA HiddenTypes ==
  ASSUME BooksTyped, NEW r \in Runs, NEW use \in Answers[ProviderOf[r]], Hidden(r, use)
  PROVE  BooksTyped'
<1> USE DEF BooksTyped
<1>1. use.charged \in Nat
  BY PriceTypes
<1>2. /\ charged' = [charged EXCEPT ![r] = charged[r] + use.charged]
      /\ unseen' = [unseen EXCEPT ![r] =
             [calls |-> unseen[r].calls + 1, charged |-> unseen[r].charged + use.charged]]
  BY DEF Hidden, Silent, Afterwards, Asked, Charge, Unseen
<1>3. charged' \in [Runs -> Nat] /\ unseen' \in [Runs -> [calls : Nat, charged : Nat]]
  BY <1>1, <1>2, AddedTypes
<1>4. failed' \in [Runs -> BOOLEAN]
  BY DEF Hidden, Silent, Afterwards, Stage
<1>5. UNCHANGED <<rows, tracker, missed, sum, late, event, day>>
  BY DEF Hidden, Silent, Afterwards, Stage
<1> QED
  BY <1>3, <1>4, <1>5

LEMMA SettledTypes ==
  ASSUME BooksTyped, NEW r \in Runs, NEW i \in DOMAIN rows[r],
         Enrich(r, i) \/ GiveUp(r, i)
  PROVE  BooksTyped'
<1> USE DEF BooksTyped
<1>1. rows[r] \in Seq(CallRow) /\ rows[r][i] \in CallRow
  OBVIOUS
<1>2. /\ rows[r][i].cost \in Nat /\ rows[r][i].charged \in Nat
      /\ [rows[r][i] EXCEPT !.cost = rows[r][i].charged, !.pending = FALSE] \in CallRow
      /\ [rows[r][i] EXCEPT !.pending = FALSE] \in CallRow
  BY <1>1 DEF CallRow
<1>3. PICK call \in CallRow : rows' = [rows EXCEPT ![r][i] = call]
  BY <1>2 DEF Enrich, GiveUp
<1>4. [rows[r] EXCEPT ![i] = call] \in Seq(CallRow)
  BY <1>1, <1>3
<1>5. rows' = [rows EXCEPT ![r] = [rows[r] EXCEPT ![i] = call]]
  BY <1>3
<1>6. rows' \in [Runs -> Seq(CallRow)]
  BY <1>4, <1>5
<1>7. late' \in [Runs -> Int]
  <2>1. late \in [Runs -> Int] /\ late[r] + rows[r][i].charged - rows[r][i].cost \in Int
    BY <1>2
  <2>2. \/ late' = late
        \/ late' = [late EXCEPT ![r] = late[r] + rows[r][i].charged - rows[r][i].cost]
        \/ late' = [late EXCEPT ![r] = late[r]]
    BY DEF Enrich, GiveUp, Stage
  <2> QED
    BY <2>1, <2>2
<1> QED
  BY <1>6, <1>7 DEF Enrich, GiveUp, Stage

LEMMA DroppedRows ==
  ASSUME NEW s \in Seq(CallRow)
  PROVE  [i \in DOMAIN s |-> [s[i] EXCEPT !.pending = FALSE]] \in Seq(CallRow)
<1>1. PICK n \in Nat : s \in [1..n -> CallRow]
  BY SeqDef
<1>2. \A i \in 1..n : [s[i] EXCEPT !.pending = FALSE] \in CallRow
  BY <1>1 DEF CallRow
<1> QED
  BY <1>1, <1>2, SeqDef

LEMMA CrashTypes ==
  ASSUME BooksTyped, Crash
  PROVE  BooksTyped'
<1> USE DEF BooksTyped
<1>1. \A r \in Runs : [i \in DOMAIN rows[r] |-> [rows[r][i] EXCEPT !.pending = FALSE]] \in Seq(CallRow)
  BY DroppedRows
<1>2. rows' \in [Runs -> Seq(CallRow)]
  BY <1>1 DEF Crash
<1> QED
  BY <1>2 DEF Crash, Stage

\* The steps that leave the rows alone.
Closing(r) == Sum(r) \/ Close(r) \/ Unbilled(r)

Preflight(r) == Call(r) \/ ListAll(r) \/ Check(r) \/ Admit(r)

LEMMA ClosingTypes ==
  ASSUME BudgetsTyped, BooksTyped, NEW r \in Runs, Closing(r)
  PROVE  BooksTyped'
<1> USE DEF BooksTyped
<1>1. CASE Sum(r)
  <2>1. Summed(r) \in Nat
    BY ColumnType, Columns DEF Summed
  <2>2. sum' \in [Runs -> Nat]
    BY <1>1, <2>1 DEF Sum
  <2> QED
    BY <1>1, <2>2 DEF Sum, Stage
<1>2. CASE Close(r)
  <2>1. event' \in [Runs -> [cost : Nat, day : 0..day] \cup {Absent}]
    <3>1. [cost |-> sum[r], day |-> day] \in [cost : Nat, day : 0..day]
      BY DEF BudgetsTyped
    <3> QED
      BY <1>2, <3>1 DEF Close
  <2>2. sum' \in [Runs -> Nat] /\ day' = day
    BY <1>2 DEF Close, Stage
  <2> QED
    BY <1>2, <2>1, <2>2 DEF Close, Stage
<1>3. CASE Unbilled(r)
  <2>1. failed' \in [Runs -> BOOLEAN]
    BY <1>3 DEF Unbilled
  <2> QED
    BY <1>3, <2>1 DEF Unbilled, Stage
<1> QED
  BY <1>1, <1>2, <1>3 DEF Closing

LEMMA NewDayTypes ==
  ASSUME BudgetsTyped, BooksTyped, NewDay
  PROVE  BooksTyped'
<1>1. day' = day + 1 /\ 0..day \subseteq 0..day'
  BY DEF NewDay, BudgetsTyped
<1> QED
  BY <1>1 DEF NewDay, books, BooksTyped

LEMMA SameBooks ==
  ASSUME BooksTyped, UNCHANGED books, day' = day
  PROVE  BooksTyped'
BY DEF BooksTyped, books

LEMMA NextBooksTyped ==
  ASSUME BillTypeOK, [BillNext]_billVars
  PROVE  BooksTyped'
<1> USE DEF BillTypeOK
<1>1. ASSUME NEW r \in Runs, Preflight(r) PROVE BooksTyped'
  <2>1. UNCHANGED books /\ day' = day
    BY <1>1 DEF Preflight, Call, ListAll, Check, Admit
  <2> QED
    BY <2>1, SameBooks
<1>2. ASSUME NEW r \in Runs, NEW use \in Answers[ProviderOf[r]], Keep(r, use) \/ Miss(r, use)
      PROVE  BooksTyped'
  BY <1>2, KeepTypes
<1>3. ASSUME NEW r \in Runs, Closing(r) PROVE BooksTyped'
  BY <1>3, ClosingTypes
<1>4. ASSUME NEW r \in Runs, NEW i \in DOMAIN rows[r], Enrich(r, i) \/ GiveUp(r, i)
      PROVE  BooksTyped'
  BY <1>4, SettledTypes
<1>5. ASSUME Operate \/ UNCHANGED billVars PROVE BooksTyped'
  <2>1. UNCHANGED books /\ day' = day
    BY <1>5 DEF Operate, Upsert, Delete, billVars, books
  <2> QED
    BY <2>1, SameBooks
<1>6. ASSUME NEW r \in Runs, NEW use \in Answers[ProviderOf[r]], Hidden(r, use)
      PROVE  BooksTyped'
  BY <1>6, HiddenTypes
<1> QED
  BY <1>1, <1>2, <1>3, <1>4, <1>5, <1>6, NewDayTypes, CrashTypes
     DEF BillNext, Step, Preflight, Closing, Hidden

LEMMA EditedRow ==
  ASSUME NEW b \in Budget, NEW a \in Budget
  PROVE  [b EXCEPT !.limit = a.limit, !.hard = a.hard] \in Budget
BY DEF Budget

LEMMA ExcuseTypes ==
  ASSUME BudgetsTyped, NEW ids \in SUBSET BudgetIds, Excuse(ids)
  PROVE  excused' \in [Runs -> SUBSET BudgetIds]
BY DEF BudgetsTyped, Excuse

LEMMA NextBudgetsTyped ==
  ASSUME BillTypeOK, [BillNext]_billVars
  PROVE  BudgetsTyped'
<1> USE DEF BillTypeOK, BudgetsTyped
<1>1. ASSUME NEW r \in Runs, Call(r) PROVE BudgetsTyped'
  <2>1. {id \in BudgetIds : budget[id] # Absent /\ IsSpent(budget[id], r)} \subseteq BudgetIds
    OBVIOUS
  <2>2. over' \in [Runs -> SUBSET BudgetIds]
    BY <1>1, <2>1 DEF Call
  <2>3. pc' \in [Runs -> Stages]
    BY <1>1 DEF Call, Goto, Stages
  <2> QED
    BY <1>1, <2>2, <2>3 DEF Call
<1>2. ASSUME NEW r \in Runs, ListAll(r) PROVE BudgetsTyped'
  <2>1. {budget[id] : id \in BudgetIds} \ {Absent} \subseteq Budget
    OBVIOUS
  <2>2. pc' \in [Runs -> Stages]
    BY <1>2 DEF ListAll, Goto, Stages
  <2> QED
    BY <1>2, <2>1, <2>2 DEF ListAll
<1>3. ASSUME NEW r \in Runs, Check(r) PROVE BudgetsTyped'
  <2>1. pc' \in [Runs -> Stages] /\ list' \in [Runs -> SUBSET Budget]
    BY <1>3 DEF Check, Stages
  <2> QED
    BY <1>3, <2>1 DEF Check
<1>4. ASSUME NEW r \in Runs, Admit(r) PROVE BudgetsTyped'
  BY <1>4 DEF Admit, Goto, Stages
<1>5. ASSUME NEW vs, Stage(vs), pc' \in [Runs -> Stages] PROVE BudgetsTyped'
  BY <1>5 DEF Stage
<1>6. ASSUME NEW r \in Runs, NEW use, Keep(r, use) \/ Miss(r, use) PROVE BudgetsTyped'
  BY <1>6 DEF Keep, Miss, Stage
<1>7. ASSUME NEW r \in Runs, Closing(r) PROVE BudgetsTyped'
  BY <1>7 DEF Closing, Sum, Close, Unbilled, Goto, Stage, Stages
<1>8. ASSUME NEW r \in Runs, NEW i, Enrich(r, i) \/ GiveUp(r, i) PROVE BudgetsTyped'
  BY <1>8 DEF Enrich, GiveUp, Stage
<1>9. ASSUME NEW id \in BudgetIds, NEW asked \in Settings, Upsert(id, asked) PROVE BudgetsTyped'
  <2>1. asked \in Budget
    BY LedgerConstants
  <2>2. PICK b \in Budget : budget' = [budget EXCEPT ![id] = b]
    <3>1. CASE budget[id] = Absent
      BY <1>9, <2>1, <3>1 DEF Upsert, Upserted
    <3>2. CASE budget[id] # Absent
      <4>1. budget[id] \in Budget
        BY <3>2
      <4>2. [budget[id] EXCEPT !.limit = asked.limit, !.hard = asked.hard] \in Budget
        BY <2>1, <4>1, EditedRow
      <4>3. budget' = [budget EXCEPT ![id] =
                [budget[id] EXCEPT !.limit = asked.limit, !.hard = asked.hard]]
        BY <1>9, <3>2 DEF Upsert, Upserted
      <4> QED
        BY <4>2, <4>3
    <3> QED
      BY <3>1, <3>2
  <2>3. budget' \in [BudgetIds -> Budget \cup {Absent}]
    BY <2>2
  <2>4. excused' \in [Runs -> SUBSET BudgetIds]
    BY <1>9, ExcuseTypes DEF Upsert
  <2>5. edits' \in 0..MaxEdits
    BY <1>9, LedgerConstants DEF Upsert
  <2> QED
    BY <1>9, <2>3, <2>4, <2>5 DEF Upsert
<1>10. ASSUME NEW id \in BudgetIds, Delete(id) PROVE BudgetsTyped'
  <2>1. excused' \in [Runs -> SUBSET BudgetIds]
    BY <1>10, ExcuseTypes DEF Delete
  <2>2. edits' \in 0..MaxEdits
    BY <1>10, LedgerConstants DEF Delete
  <2>3. budget' \in [BudgetIds -> Budget \cup {Absent}]
    BY <1>10 DEF Delete
  <2> QED
    BY <1>10, <2>1, <2>2, <2>3 DEF Delete
<1>11. ASSUME NewDay PROVE BudgetsTyped'
  <2>1. excused' \in [Runs -> SUBSET BudgetIds]
    BY <1>11, ExcuseTypes DEF NewDay
  <2>2. day' \in 0..MaxDays
    BY <1>11, LedgerConstants DEF NewDay
  <2> QED
    BY <1>11, <2>1, <2>2 DEF NewDay
<1>12. ASSUME Crash PROVE BudgetsTyped'
  <2>1. pc' \in [Runs -> Stages]
    BY <1>12 DEF Crash, Running, Stages
  <2> QED
    BY <1>12, <2>1 DEF Crash, Stage
<1>13. ASSUME UNCHANGED billVars PROVE BudgetsTyped'
  BY <1>13 DEF billVars
<1>14. ASSUME NEW r \in Runs, NEW use, Hidden(r, use) PROVE BudgetsTyped'
  BY <1>14 DEF Hidden, Silent, Afterwards, Goto, Stage, Stages
<1> QED
  BY <1>1, <1>2, <1>3, <1>4, <1>6, <1>7, <1>8, <1>9, <1>10, <1>11, <1>12, <1>13, <1>14
     DEF BillNext, Step, Operate, Closing, Hidden

-----------------------------------------------------------------------------
(* The books: what a run is billed against what its rows say.              *)

\* A bill that has been read off the rows of a run.
Booked(r, amount) ==
    IF rows[r] = <<>> THEN amount = tracker[r]
    ELSE amount + late[r] = Costs(rows[r])

Accounts(r) ==
    /\ event[r] # Absent => pc[r] \in {"closed", "ended"} /\ Booked(r, event[r].cost)
    /\ pc[r] = "summed" => Booked(r, sum[r])
    /\ pc[r] \in {"idle", "called", "checking", "working"} => late[r] = 0
    /\ charged[r] = missed[r].charged + unseen[r].charged + Charges(rows[r])
    /\ Priced(r) => /\ late[r] = 0
                    /\ \A i \in DOMAIN rows[r] : rows[r][i].cost = rows[r][i].charged

BooksInv == \A r \in Runs : Accounts(r)

LEMMA SameAccounts ==
  ASSUME NEW r \in Runs, Accounts(r),
         rows'[r] = rows[r], tracker'[r] = tracker[r], charged'[r] = charged[r],
         missed'[r] = missed[r], unseen'[r] = unseen[r], sum'[r] = sum[r],
         late'[r] = late[r], event'[r] = event[r],
         \/ pc'[r] = pc[r]
         \/ /\ pc[r] \in {"idle", "called", "checking"}
            /\ pc'[r] \notin {"summed", "closed", "ended"}
  PROVE  Accounts(r)'
BY DEF Accounts, Booked, Priced

\* What a row adds to a run's books.
LEMMA AppendBooks ==
  ASSUME NEW s \in Seq(CallRow), NEW w \in CallRow
  PROVE  /\ Costs(Append(s, w)) = Costs(s) + w.cost
         /\ Charges(Append(s, w)) = Charges(s) + w.charged
         /\ Costs(s) \in Nat /\ Charges(s) \in Nat
BY Columns, ColumnAppend, ColumnType

LEMMA ChangeBooks ==
  ASSUME NEW s \in Seq(CallRow), NEW i \in DOMAIN s, NEW w \in CallRow
  PROVE  /\ Costs([s EXCEPT ![i] = w]) - Costs(s) = w.cost - s[i].cost
         /\ Charges([s EXCEPT ![i] = w]) - Charges(s) = w.charged - s[i].charged
         /\ Costs(s) \in Nat /\ Charges(s) \in Nat
         /\ Costs([s EXCEPT ![i] = w]) \in Nat /\ Charges([s EXCEPT ![i] = w]) \in Nat
<1>1. PICK t : t = [s EXCEPT ![i] = w]
  OBVIOUS
<1>2. /\ t \in Seq(CallRow)
      /\ Total(Column(t, "cost")) - Total(Column(s, "cost")) = w.cost - s[i].cost
      /\ Total(Column(t, "charged")) - Total(Column(s, "charged")) = w.charged - s[i].charged
  BY <1>1, ColumnChanged
<1>3. Costs(t) - Costs(s) = w.cost - s[i].cost /\ Charges(t) - Charges(s) = w.charged - s[i].charged
  BY <1>2, Columns
<1>4. Costs(s) \in Nat /\ Charges(s) \in Nat /\ Costs(t) \in Nat /\ Charges(t) \in Nat
  BY <1>2, Columns, ColumnType
<1> QED
  BY <1>1, <1>3, <1>4

LEMMA PreflightBooks ==
  ASSUME BillTypeOK, BooksInv, NEW r \in Runs, Preflight(r)
  PROVE  BooksInv'
<1>1. ASSUME NEW q \in Runs PROVE Accounts(q)'
  <2>1. UNCHANGED books
    BY DEF Preflight, Call, ListAll, Check, Admit
  <2>2. \/ pc'[q] = pc[q]
        \/ /\ pc[q] \in {"idle", "called", "checking"}
           /\ pc'[q] \notin {"summed", "closed", "ended"}
    BY DEF Preflight, Call, ListAll, Check, Admit, Goto, BillTypeOK, BudgetsTyped
  <2> QED
    BY <2>1, <2>2, SameAccounts DEF BooksInv, books
<1> QED
  BY <1>1 DEF BooksInv

LEMMA KeepBooks ==
  ASSUME BillTypeOK, BooksInv, NEW r \in Runs, NEW use \in Answers[ProviderOf[r]],
         Keep(r, use)
  PROVE  BooksInv'
<1>1. PICK call : /\ call = [cost |-> RowCost(ProviderOf[r], use), charged |-> use.charged,
                             pending |-> ProviderOf[r] \in Routed]
                  /\ rows' = [rows EXCEPT ![r] = Append(rows[r], call)]
  BY DEF Keep
<1>2. /\ use.charged \in Nat /\ RowCost(ProviderOf[r], use) \in Nat
      /\ Priced(r) => RowCost(ProviderOf[r], use) = use.charged
  BY PriceTypes
<1>3. call \in CallRow /\ call.charged = use.charged /\ (Priced(r) => call.cost = call.charged)
  BY <1>1, <1>2 DEF CallRow
<1>4. /\ pc[r] = "working" /\ charged' = [charged EXCEPT ![r] = charged[r] + use.charged]
      /\ UNCHANGED <<pc, missed, unseen, sum, late, event>>
      /\ \A q \in Runs : q # r => tracker'[q] = tracker[q]
  BY DEF Keep, Answered, Asked, Charge, Stage, BillTypeOK, BooksTyped
<1>5. ASSUME NEW q \in Runs PROVE Accounts(q)'
  <2>1. CASE q # r
    <3>1. rows'[q] = rows[q] /\ charged'[q] = charged[q] /\ tracker'[q] = tracker[q]
      BY <1>1, <1>4, <2>1 DEF BillTypeOK, BooksTyped
    <3> QED
      BY <1>4, <3>1, SameAccounts DEF BooksInv
  <2>2. CASE q = r
    <3>1. /\ rows[r] \in Seq(CallRow) /\ charged[r] \in Nat
          /\ missed[r].charged \in Nat /\ unseen[r].charged \in Nat
          /\ rows'[r] = Append(rows[r], call) /\ charged'[r] = charged[r] + use.charged
      BY <1>1, <1>4 DEF BillTypeOK, BooksTyped
    <3>2. Accounts(r) /\ event[r] = Absent
      BY <1>4 DEF BooksInv, Accounts
    <3>3. Charges(rows'[r]) = Charges(rows[r]) + use.charged /\ Charges(rows[r]) \in Nat
      BY <1>3, <3>1, AppendBooks
    <3>4. charged'[r] = missed[r].charged + unseen[r].charged + Charges(rows'[r])
      BY <1>2, <3>1, <3>2, <3>3 DEF Accounts
    <3>5. Priced(r) => \A i \in DOMAIN rows'[r] : rows'[r][i].cost = rows'[r][i].charged
      BY <1>3, <3>1, <3>2 DEF Accounts
    <3>6. Accounts(r)'
      BY <1>4, <3>2, <3>4, <3>5 DEF Accounts, Priced
    <3> QED
      BY <2>2, <3>6
  <2> QED
    BY <2>1, <2>2
<1> QED
  BY <1>5 DEF BooksInv

LEMMA MissBooks ==
  ASSUME BillTypeOK, BooksInv, NEW r \in Runs, NEW use \in Answers[ProviderOf[r]],
         Miss(r, use)
  PROVE  BooksInv'
<1>1. use.charged \in Nat
  BY PriceTypes
<1>2. /\ pc[r] = "working" /\ charged' = [charged EXCEPT ![r] = charged[r] + use.charged]
      /\ UNCHANGED <<pc, rows, unseen, sum, late, event>>
      /\ \A q \in Runs : q # r => tracker'[q] = tracker[q]
      /\ missed' = [missed EXCEPT ![r] =
             [calls |-> missed[r].calls + 1, charged |-> missed[r].charged + use.charged]]
  BY DEF Miss, Answered, Asked, Charge, Stage, BillTypeOK, BooksTyped
<1>3. ASSUME NEW q \in Runs PROVE Accounts(q)'
  <2>1. CASE q # r
    <3>1. missed'[q] = missed[q] /\ charged'[q] = charged[q] /\ tracker'[q] = tracker[q]
      BY <1>2, <2>1 DEF BillTypeOK, BooksTyped
    <3> QED
      BY <1>2, <3>1, SameAccounts DEF BooksInv
  <2>2. CASE q = r
    <3>1. /\ rows[r] \in Seq(CallRow) /\ charged[r] \in Nat
          /\ missed[r].charged \in Nat /\ unseen[r].charged \in Nat
          /\ charged'[r] = charged[r] + use.charged
          /\ missed'[r].charged = missed[r].charged + use.charged
      BY <1>2 DEF BillTypeOK, BooksTyped
    <3>2. Accounts(r) /\ event[r] = Absent
      BY <1>2 DEF BooksInv, Accounts
    <3>3. Charges(rows[r]) \in Nat
      BY <3>1, Columns, ColumnType
    <3>4. charged'[r] = missed'[r].charged + unseen[r].charged + Charges(rows[r])
      BY <1>1, <3>1, <3>2, <3>3 DEF Accounts
    <3>5. Accounts(r)'
      BY <1>2, <3>2, <3>4 DEF Accounts, Priced
    <3> QED
      BY <2>2, <3>5
  <2> QED
    BY <2>1, <2>2
<1> QED
  BY <1>3 DEF BooksInv

\* A call the run learns nothing of is in no bill, before or after it.
LEMMA HiddenBooks ==
  ASSUME BillTypeOK, BooksInv, NEW r \in Runs, NEW use \in Answers[ProviderOf[r]],
         Hidden(r, use)
  PROVE  BooksInv'
<1>1. use.charged \in Nat
  BY PriceTypes
<1>2. /\ charged' = [charged EXCEPT ![r] = charged[r] + use.charged]
      /\ unseen' = [unseen EXCEPT ![r] =
             [calls |-> unseen[r].calls + 1, charged |-> unseen[r].charged + use.charged]]
      /\ UNCHANGED <<rows, tracker, missed, sum, late, event>>
  BY DEF Hidden, Silent, Afterwards, Asked, Charge, Unseen, Stage
<1>3. /\ \A q \in Runs : q # r => pc'[q] = pc[q]
      /\ \/ pc'[r] = pc[r]
         \/ pc[r] \in {"closed", "unbilled"} /\ pc'[r] = "ended"
  BY DEF Hidden, Silent, Afterwards, Goto, Stage, BillTypeOK, BudgetsTyped
<1>4. ASSUME NEW q \in Runs PROVE Accounts(q)'
  <2>1. CASE q # r
    <3>1. charged'[q] = charged[q] /\ unseen'[q] = unseen[q]
      BY <1>2, <2>1 DEF BillTypeOK, BooksTyped
    <3> QED
      BY <1>2, <1>3, <2>1, <3>1, SameAccounts DEF BooksInv
  <2>2. CASE q = r
    <3>1. /\ rows[r] \in Seq(CallRow) /\ charged[r] \in Nat
          /\ missed[r].charged \in Nat /\ unseen[r].charged \in Nat
          /\ charged'[r] = charged[r] + use.charged
          /\ unseen'[r].charged = unseen[r].charged + use.charged
      BY <1>2 DEF BillTypeOK, BooksTyped
    <3>2. Accounts(r)
      BY DEF BooksInv
    <3>3. Charges(rows[r]) \in Nat
      BY <3>1, Columns, ColumnType
    <3>4. charged'[r] = missed[r].charged + unseen'[r].charged + Charges(rows[r])
      BY <1>1, <3>1, <3>2, <3>3 DEF Accounts
    <3>5. Accounts(r)'
      BY <1>2, <1>3, <3>2, <3>4 DEF Accounts, Booked, Priced
    <3> QED
      BY <2>2, <3>5
  <2> QED
    BY <2>1, <2>2
<1> QED
  BY <1>4 DEF BooksInv

\* A charge that comes after the rows were read is what they now add up to more.
LEMMA SettledBooks ==
  ASSUME BillTypeOK, BooksInv, NEW r \in Runs, NEW i \in DOMAIN rows[r],
         Enrich(r, i) \/ GiveUp(r, i)
  PROVE  BooksInv'
<1>1. UNCHANGED <<pc, tracker, charged, missed, unseen, sum, event>>
  BY DEF Enrich, GiveUp, Stage
<1>2. rows[r] \in Seq(CallRow) /\ rows[r][i] \in CallRow /\ late[r] \in Int
  BY DEF BillTypeOK, BooksTyped
<1>3. PICK call \in CallRow :
         /\ rows' = [rows EXCEPT ![r][i] = call] /\ call.charged = rows[r][i].charged
         /\ \/ call.cost = rows[r][i].cost /\ late' = late
            \/ /\ call.cost = rows[r][i].charged
               /\ late' = [late EXCEPT ![r] = IF Read(r)
                      THEN late[r] + rows[r][i].charged - rows[r][i].cost ELSE late[r]]
  <2>1. CASE Enrich(r, i)
    <3>1. PICK call : call = [rows[r][i] EXCEPT !.cost = rows[r][i].charged, !.pending = FALSE]
      OBVIOUS
    <3>2. call \in CallRow /\ call.charged = rows[r][i].charged /\ call.cost = rows[r][i].charged
      BY <1>2, <3>1 DEF CallRow
    <3>3. /\ rows' = [rows EXCEPT ![r][i] = call]
          /\ late' = [late EXCEPT ![r] = IF Read(r)
                THEN late[r] + rows[r][i].charged - rows[r][i].cost ELSE late[r]]
      BY <2>1, <3>1 DEF Enrich
    <3> QED
      BY <3>2, <3>3
  <2>2. CASE GiveUp(r, i)
    <3>1. PICK call : call = [rows[r][i] EXCEPT !.pending = FALSE]
      OBVIOUS
    <3>2. call \in CallRow /\ call.charged = rows[r][i].charged /\ call.cost = rows[r][i].cost
      BY <1>2, <3>1 DEF CallRow
    <3>3. rows' = [rows EXCEPT ![r][i] = call] /\ late' = late
      BY <2>2, <3>1 DEF GiveUp, Stage
    <3> QED
      BY <3>2, <3>3
  <2> QED
    BY <2>1, <2>2
<1>4. ASSUME NEW q \in Runs, q # r PROVE Accounts(q)'
  <2>1. rows'[q] = rows[q] /\ late'[q] = late[q]
    BY <1>3, <1>4 DEF BillTypeOK, BooksTyped
  <2> QED
    BY <1>1, <1>4, <2>1, SameAccounts DEF BooksInv
<1>5. Accounts(r)'
  <2>1. rows'[r] = [rows[r] EXCEPT ![i] = call]
    BY <1>3 DEF BillTypeOK, BooksTyped
  <2>2. /\ Costs(rows'[r]) - Costs(rows[r]) = call.cost - rows[r][i].cost
        /\ Charges(rows'[r]) - Charges(rows[r]) = call.charged - rows[r][i].charged
        /\ Costs(rows[r]) \in Nat /\ Charges(rows[r]) \in Nat
        /\ Costs(rows'[r]) \in Nat /\ Charges(rows'[r]) \in Nat
    BY <1>2, <2>1, ChangeBooks
  <2>3. rows[r][i].cost \in Nat /\ rows[r][i].charged \in Nat
    BY <1>2 DEF CallRow
  <2>4. Accounts(r)
    BY DEF BooksInv
  <2>5. Charges(rows'[r]) = Charges(rows[r])
    BY <1>3, <2>2, <2>3
  <2>6. late'[r] = IF Read(r) THEN late[r] + (Costs(rows'[r]) - Costs(rows[r])) ELSE late[r]
    BY <1>2, <1>3, <2>2, <2>3 DEF BillTypeOK, BooksTyped
  <2>7. rows[r] # <<>> /\ rows'[r] # <<>>
    BY <1>2, <2>1
  <2>8. Priced(r) => /\ late'[r] = 0
                     /\ \A j \in DOMAIN rows'[r] : rows'[r][j].cost = rows'[r][j].charged
    <3> SUFFICES ASSUME Priced(r)
                 PROVE  /\ late'[r] = 0
                        /\ \A j \in DOMAIN rows'[r] : rows'[r][j].cost = rows'[r][j].charged
      OBVIOUS
    <3>1. late[r] = 0 /\ \A j \in DOMAIN rows[r] : rows[r][j].cost = rows[r][j].charged
      BY <2>4 DEF Accounts
    <3>2. call.cost = call.charged /\ call.cost = rows[r][i].cost
      BY <1>3, <3>1
    <3>3. late'[r] = 0
      BY <2>2, <2>3, <2>6, <3>1, <3>2
    <3>4. DOMAIN rows'[r] = DOMAIN rows[r]
      BY <2>1
    <3> QED
      BY <2>1, <3>1, <3>2, <3>3, <3>4
  <2>9. ASSUME NEW amount \in Int, Read(r), Booked(r, amount)
        PROVE  amount + late'[r] = Costs(rows'[r])
    BY <1>2, <2>2, <2>6, <2>7, <2>9 DEF Booked
  <2>10. pc[r] \in {"idle", "called", "checking", "working"} => late'[r] = 0
    BY <2>4, <2>6 DEF Accounts, Read
  <2>11. event[r] # Absent => /\ pc[r] \in {"closed", "ended"}
                              /\ event[r].cost + late'[r] = Costs(rows'[r])
    <3> SUFFICES ASSUME event[r] # Absent
                 PROVE  /\ pc[r] \in {"closed", "ended"}
                        /\ event[r].cost + late'[r] = Costs(rows'[r])
      OBVIOUS
    <3>1. event[r].cost \in Int
      BY DEF BillTypeOK, BooksTyped
    <3> QED
      BY <2>4, <2>9, <3>1 DEF Accounts, Read
  <2>12. pc[r] = "summed" => sum[r] + late'[r] = Costs(rows'[r])
    <3>1. sum[r] \in Int
      BY DEF BillTypeOK, BooksTyped
    <3> QED
      BY <2>4, <2>9, <3>1 DEF Accounts, Read
  <2> QED
    BY <1>1, <2>4, <2>5, <2>7, <2>8, <2>10, <2>11, <2>12 DEF Accounts, Booked, Priced
<1> QED
  BY <1>4, <1>5 DEF BooksInv

LEMMA CrashBooks ==
  ASSUME BillTypeOK, BooksInv, Crash
  PROVE  BooksInv'
<1>1. UNCHANGED <<tracker, charged, missed, unseen, sum, late, event>>
  BY DEF Crash, Stage
<1>2. ASSUME NEW r \in Runs PROVE Accounts(r)'
  <2>1. /\ rows'[r] = [i \in DOMAIN rows[r] |-> [rows[r][i] EXCEPT !.pending = FALSE]]
        /\ rows[r] \in Seq(CallRow)
    BY DEF Crash, BillTypeOK, BooksTyped
  <2>2. \A i \in DOMAIN rows[r] : rows[r][i] \in CallRow
    BY <2>1
  <2>3. /\ DOMAIN rows'[r] = DOMAIN rows[r]
        /\ \A i \in DOMAIN rows[r] : /\ rows'[r][i].cost = rows[r][i].cost
                                     /\ rows'[r][i].charged = rows[r][i].charged
    BY <2>1, <2>2 DEF CallRow
  <2>4. Costs(rows'[r]) = Costs(rows[r]) /\ Charges(rows'[r]) = Charges(rows[r])
    BY <2>3, SameColumns
  <2>5. rows'[r] = <<>> <=> rows[r] = <<>>
    <3>1. rows'[r] \in Seq(CallRow)
      BY <2>1, DroppedRows
    <3>2. \A s \in Seq(CallRow) : s = <<>> <=> DOMAIN s = {}
      <4> TAKE s \in Seq(CallRow)
      <4>1. Len(s) \in Nat /\ DOMAIN s = 1..Len(s) /\ (s = <<>> <=> Len(s) = 0)
        OBVIOUS
      <4>2. Len(s) # 0 => 1 \in 1..Len(s)
        BY <4>1
      <4>3. 1..0 = {}
        OBVIOUS
      <4> QED
        BY <4>1, <4>2, <4>3
    <3> QED
      BY <2>1, <2>3, <3>1, <3>2
  <2>6. Accounts(r)
    BY DEF BooksInv
  <2>7. /\ pc'[r] \in {pc[r], "dead", "ended"}
        /\ pc[r] \in {"closed", "ended"} => pc'[r] = "ended"
    BY DEF Crash, Running, BillTypeOK, BudgetsTyped
  <2> QED
    BY <1>1, <2>3, <2>4, <2>5, <2>6, <2>7 DEF Accounts, Booked, Priced
<1> QED
  BY <1>2 DEF BooksInv

LEMMA ClosingBooks ==
  ASSUME BillTypeOK, BooksInv, NEW r \in Runs, Closing(r)
  PROVE  BooksInv'
<1>1. UNCHANGED <<rows, tracker, charged, missed, unseen, late>>
  BY DEF Closing, Sum, Close, Unbilled, Stage
<1>2. ASSUME NEW q \in Runs, q # r PROVE Accounts(q)'
  <2>1. pc'[q] = pc[q] /\ sum'[q] = sum[q] /\ event'[q] = event[q]
    BY <1>2 DEF Closing, Sum, Close, Unbilled, Stage, Goto, BillTypeOK, BudgetsTyped, BooksTyped
  <2> QED
    BY <1>1, <1>2, <2>1, SameAccounts DEF BooksInv
<1>3. Accounts(r)
  BY DEF BooksInv
<1>4. ASSUME Sum(r) PROVE Accounts(r)'
  <2>1. pc[r] = "working" /\ pc'[r] = "summed" /\ event' = event /\ sum'[r] = Summed(r)
    BY <1>4 DEF Sum, Goto, Stage, BillTypeOK, BudgetsTyped, BooksTyped
  <2>2. late[r] = 0 /\ event[r] = Absent
    BY <1>3, <2>1 DEF Accounts
  <2>3. IF rows[r] = <<>> THEN sum'[r] = tracker[r] ELSE sum'[r] + late[r] = Costs(rows[r])
    <3>1. Costs(rows[r]) \in Nat
      BY Columns, ColumnType DEF BillTypeOK, BooksTyped
    <3> QED
      BY <2>1, <2>2, <3>1 DEF Summed
  <2> QED
    BY <1>1, <1>3, <2>1, <2>2, <2>3 DEF Accounts, Booked, Priced
<1>5. ASSUME Close(r) PROVE Accounts(r)'
  <2>1. /\ pc[r] = "summed" /\ pc'[r] = "closed"
        /\ event'[r] = [cost |-> sum[r], day |-> day]
    BY <1>5 DEF Close, Goto, BillTypeOK, BudgetsTyped, BooksTyped
  <2>2. Booked(r, sum[r]) /\ event'[r].cost = sum[r]
    BY <1>3, <2>1 DEF Accounts
  <2> QED
    BY <1>1, <1>3, <2>1, <2>2 DEF Accounts, Booked, Priced
<1>6. ASSUME Unbilled(r) PROVE Accounts(r)'
  <2>1. /\ pc[r] \in {"summed", "working"} /\ pc'[r] = "unbilled"
        /\ sum' = sum /\ event' = event
    BY <1>6 DEF Unbilled, Goto, Stage, BillTypeOK, BudgetsTyped
  <2>2. event[r] = Absent
    BY <1>3, <2>1 DEF Accounts
  <2> QED
    BY <1>1, <1>3, <2>1, <2>2 DEF Accounts, Booked, Priced
<1> QED
  BY <1>2, <1>4, <1>5, <1>6 DEF BooksInv, Closing

LEMMA NextBooks ==
  ASSUME BillTypeOK, BooksInv, [BillNext]_billVars
  PROVE  BooksInv'
<1>1. ASSUME Operate \/ NewDay \/ UNCHANGED billVars PROVE BooksInv'
  <2>1. UNCHANGED books /\ pc' = pc
    BY <1>1 DEF Operate, Upsert, Delete, NewDay, billVars, books
  <2> QED
    BY <2>1, SameAccounts DEF BooksInv, books
<1> QED
  BY <1>1, PreflightBooks, KeepBooks, MissBooks, HiddenBooks, SettledBooks, CrashBooks,
     ClosingBooks
     DEF BillNext, Step, Preflight, Closing, Hidden

-----------------------------------------------------------------------------
(* The budgets: a hard stop that is spent stays in a check's way.          *)

Billed(b, d, ev) ==
    {o \in InScope(b) : ev[o] # Absent /\ ev[o].day \div Length[b.period] = d \div Length[b.period]}

Bill(b, d, ev) == Total([o \in Billed(b, d, ev) |-> ev[o].cost])

LEMMA ScopeCovers ==
  ASSUME NEW b \in Budget
  PROVE  InScope(b) = {r \in Runs : Covers(b, r)}
<1>1. b.scope \in {"agent", "provider", "global"}
  BY DEF Budget
<1>2. ASSUME NEW r \in Runs PROVE r \in InScope(b) <=> Covers(b, r)
  <2>1. CASE b.scope = "agent"
    BY <2>1 DEF InScope, Covers
  <2>2. CASE b.scope = "provider"
    BY <2>2 DEF InScope, Covers
  <2>3. CASE b.scope = "global"
    BY <2>3 DEF InScope, Covers
  <2> QED
    BY <1>1, <2>1, <2>2, <2>3
<1>3. InScope(b) \subseteq Runs
  BY DEF InScope
<1> QED
  BY <1>2, <1>3

\* A day that has come is in the period of another exactly if it is not
\* before its start.
LEMMA Periods ==
  ASSUME NEW n \in Nat \ {0}, NEW d \in Nat, NEW e \in 0..d
  PROVE  e >= (d \div n) * n <=> e \div n = d \div n
<1>1. /\ d \div n \in Nat /\ e \div n \in Nat
      /\ (d \div n) * n <= d /\ d < (d \div n) * n + n
      /\ (e \div n) * n <= e /\ e < (e \div n) * n + n
  OBVIOUS
<1>2. PICK q \in Nat, p \in Nat : q = d \div n /\ p = e \div n
  BY <1>1
<1>3. p > q => p * n >= q * n + n
  OBVIOUS
<1>4. p < q => p * n + n <= q * n
  OBVIOUS
<1> QED
  BY <1>1, <1>2, <1>3, <1>4

\* The check sums what the budget has spent.
LEMMA SpentIsBill ==
  ASSUME BillTypeOK, NEW b \in Budget
  PROVE  Spent(b) = Bill(b, day, event)
<1>1. Length[b.period] \in Nat \ {0}
  BY LedgerConstants DEF Budget
<1>2. ASSUME NEW o \in Runs, event[o] # Absent
      PROVE  event[o].day >= PeriodStart(b.period)
                <=> event[o].day \div Length[b.period] = day \div Length[b.period]
  <2>1. day \in Nat /\ event[o].day \in 0..day
    BY <1>2 DEF BillTypeOK, BudgetsTyped, BooksTyped
  <2> QED
    BY <1>1, <2>1, Periods DEF PeriodStart
<1> DEFINE counted == {r \in Runs : /\ event[r] # Absent
                                    /\ event[r].day >= PeriodStart(b.period)
                                    /\ Covers(b, r)}
<1>3. counted = Billed(b, day, event)
  BY <1>2, ScopeCovers DEF Billed
<1>4. Spent(b) = Total([r \in counted |-> event[r].cost])
  BY DEF Spent
<1> HIDE DEF counted
<1> QED
  BY <1>3, <1>4 DEF Bill

LEMMA SpentStops ==
  ASSUME BillTypeOK, NEW b \in Budget, NEW r \in Runs, IsSpent(b, r)
  PROVE  Stops(b, r)
<1>1. b.hard /\ r \in InScope(b) /\ Bill(b, day, event) >= b.limit
  BY DEF IsSpent, Bill, Billed
<1> QED
  BY <1>1, SpentIsBill, ScopeCovers DEF Stops

LEMMA BillGrows ==
  ASSUME BillTypeOK, BillTypeOK', NEW b \in Budget,
         \A o \in Runs : event[o] # Absent => event'[o] = event[o]
  PROVE  /\ Bill(b, day, event) <= Bill(b, day, event')
         /\ Bill(b, day, event) \in Nat /\ Bill(b, day, event') \in Nat
<1>1. PICK D, E : D = Billed(b, day, event) /\ E = Billed(b, day, event')
  OBVIOUS
<1>2. /\ D \subseteq Runs /\ \A o \in D : event[o] # Absent
      /\ E \subseteq Runs /\ \A o \in E : event'[o] # Absent
  BY <1>1 DEF Billed, InScope
<1>3. D \subseteq E /\ \A o \in D : event'[o] = event[o]
  BY <1>1, <1>2 DEF Billed
<1>4. IsFiniteSet(D) /\ IsFiniteSet(E)
  BY <1>2, LedgerConstants, FS_Subset
<1>5. PICK f, g : f = [o \in D |-> event[o].cost] /\ g = [o \in E |-> event'[o].cost]
  OBVIOUS
<1>6. f \in [D -> Nat]
  BY <1>2, <1>5 DEF BillTypeOK, BooksTyped
<1>7. g \in [E -> Nat]
  BY <1>2, <1>5 DEF BillTypeOK, BooksTyped
<1>8. \A o \in D : g[o] = f[o]
  BY <1>3, <1>5
<1>9. Total(f) <= Total(g)
  BY <1>3, <1>4, <1>6, <1>7, <1>8, TotalGrows
<1>10. Total(f) \in Nat /\ Total(g) \in Nat
  BY <1>4, <1>6, <1>7, UnitsFinite
<1> QED
  BY <1>1, <1>5, <1>9, <1>10 DEF Bill

\* A spent hard stop stays spent while its row stands and the day lasts.
LEMMA SpentStays ==
  ASSUME BillTypeOK, BillTypeOK', NEW id \in BudgetIds, NEW r \in Runs,
         budget[id] # Absent, budget'[id] = budget[id], day' = day,
         \A o \in Runs : event[o] # Absent => event'[o] = event[o],
         IsSpent(budget[id], r)
  PROVE  IsSpent(budget[id], r)'
<1>1. PICK b \in Budget : b = budget[id] /\ b = budget'[id]
  BY DEF BillTypeOK, BudgetsTyped
<1>2. b.hard /\ r \in InScope(b) /\ Bill(b, day, event) >= b.limit
  BY <1>1 DEF IsSpent, Bill, Billed
<1>3. b.limit \in Int
  BY DEF Budget
<1>4. Bill(b, day, event') >= b.limit
  BY <1>2, <1>3, BillGrows
<1>5. /\ budget'[id].hard /\ r \in InScope(budget'[id])
      /\ Bill(budget'[id], day', event') >= budget'[id].limit
  BY <1>1, <1>2, <1>4
<1> QED
  BY <1>5 DEF IsSpent, Bill, Billed, InScope

Begun == {"working", "summed", "closed", "unbilled", "ended"}

\* A budget that was spent when the run was called, and still is.
Standing(r, id) ==
    /\ budget[id] # Absent
    /\ IsSpent(budget[id], r)
    /\ pc[r] = "checking" => budget[id] \in list[r]

Held(r) ==
    /\ pc[r] \in {"called", "checking"} => \A id \in over[r] \ excused[r] : Standing(r, id)
    /\ pc[r] \in Begun => over[r] \subseteq excused[r]

CheckInv == \A r \in Runs \ Chats : Held(r)

\* A cost event is never replaced.
LEMMA EventsStay ==
  ASSUME BillTypeOK, BooksInv, [BillNext]_billVars
  PROVE  \A o \in Runs : event[o] # Absent => event'[o] = event[o]
<1>1. ASSUME NEW r \in Runs, Close(r)
      PROVE  \A o \in Runs : event[o] # Absent => event'[o] = event[o]
  <2>1. pc[r] = "summed" /\ event' = [event EXCEPT ![r] = [cost |-> sum[r], day |-> day]]
    BY <1>1 DEF Close, Goto
  <2>2. event[r] = Absent
    BY <2>1 DEF BooksInv, Accounts
  <2> QED
    BY <2>1, <2>2 DEF BillTypeOK, BooksTyped
<1>2. ASSUME NEW r \in Runs, Sum(r) \/ Unbilled(r) PROVE event' = event
  BY <1>2 DEF Sum, Unbilled, Stage
<1>3. ASSUME NEW r \in Runs, NEW use, Keep(r, use) \/ Miss(r, use) PROVE event' = event
  BY <1>3 DEF Keep, Miss, Stage
<1>4. ASSUME NEW r \in Runs, NEW i, Enrich(r, i) \/ GiveUp(r, i) PROVE event' = event
  BY <1>4 DEF Enrich, GiveUp, Stage
<1>5. ASSUME NEW r \in Runs, Preflight(r) PROVE event' = event
  BY <1>5 DEF Preflight, Call, ListAll, Check, Admit, books
<1>6. ASSUME Operate \/ NewDay \/ Crash \/ UNCHANGED billVars PROVE event' = event
  BY <1>6 DEF Operate, Upsert, Delete, NewDay, Crash, Stage, books, billVars
<1>7. ASSUME NEW r \in Runs, NEW use, Hidden(r, use) PROVE event' = event
  BY <1>7 DEF Hidden, Silent, Afterwards, Stage
<1> QED
  BY <1>1, <1>2, <1>3, <1>4, <1>5, <1>6, <1>7 DEF BillNext, Step, Preflight, Hidden

\* A step of others leaves a run held, and so does a step of its own after
\* the check, unless a budget changes that is not excused.
LEMMA SameHeld ==
  ASSUME BillTypeOK, BillTypeOK', NEW r \in Runs, Held(r),
         over'[r] = over[r], list'[r] = list[r], excused[r] \subseteq excused'[r],
         \/ pc'[r] = pc[r]
         \/ pc[r] \in Begun /\ pc'[r] \in Begun
         \/ pc'[r] \in {"idle", "dead", "refused"},
         pc[r] \in {"called", "checking"} =>
            \A id \in BudgetIds \ excused'[r] :
               budget[id] # Absent => budget'[id] = budget[id] /\ day' = day,
         \A o \in Runs : event[o] # Absent => event'[o] = event[o]
  PROVE  Held(r)'
<1>1. ASSUME pc'[r] \in {"called", "checking"}, NEW id \in over'[r] \ excused'[r]
      PROVE  Standing(r, id)'
  <2>1. pc'[r] = pc[r] /\ Standing(r, id) /\ id \in BudgetIds
    BY <1>1 DEF Held, Begun, BillTypeOK, BudgetsTyped
  <2>2. budget[id] # Absent /\ budget'[id] = budget[id] /\ day' = day /\ IsSpent(budget[id], r)
    BY <1>1, <2>1 DEF Standing
  <2>3. IsSpent(budget[id], r)'
    BY <2>1, <2>2, SpentStays
  <2> QED
    BY <2>1, <2>2, <2>3 DEF Standing
<1>2. pc'[r] \in Begun => over'[r] \subseteq excused'[r]
  BY DEF Held, Begun
<1> QED
  BY <1>1, <1>2 DEF Held

LEMMA CallChecks ==
  ASSUME BillTypeOK, BillTypeOK', CheckInv, NEW r \in Runs, Call(r)
  PROVE  CheckInv'
<1>1. /\ UNCHANGED <<day, budget, list, excused, event>>
      /\ pc[r] = "idle" /\ pc' = [pc EXCEPT ![r] = IF r \in Chats THEN "working" ELSE "called"]
      /\ over' = [over EXCEPT ![r] =
             {id \in BudgetIds : budget[id] # Absent /\ IsSpent(budget[id], r)}]
  BY DEF Call, Goto, books
<1>2. ASSUME NEW q \in Runs \ Chats PROVE Held(q)'
  <2>1. CASE q # r
    <3>1. pc'[q] = pc[q] /\ over'[q] = over[q]
      BY <1>1, <1>2, <2>1 DEF BillTypeOK, BudgetsTyped
    <3> QED
      BY <1>1, <1>2, <3>1, SameHeld DEF CheckInv
  <2>2. CASE q = r
    <3>1. pc'[r] = "called"
      BY <1>1, <1>2, <2>2 DEF BillTypeOK, BudgetsTyped
    <3>2. ASSUME NEW id \in over'[r] PROVE Standing(r, id)'
      <4>1. id \in BudgetIds /\ budget[id] # Absent /\ IsSpent(budget[id], r)
        BY <1>1, <3>2 DEF BillTypeOK, BudgetsTyped
      <4>2. IsSpent(budget[id], r)'
        BY <1>1, <4>1, SpentStays
      <4> QED
        BY <1>1, <3>1, <4>1, <4>2 DEF Standing
    <3> QED
      BY <2>2, <3>1, <3>2 DEF Held, Begun
  <2> QED
    BY <2>1, <2>2
<1> QED
  BY <1>2 DEF CheckInv

LEMMA ListChecks ==
  ASSUME BillTypeOK, BillTypeOK', CheckInv, NEW r \in Runs, ListAll(r)
  PROVE  CheckInv'
<1>1. /\ UNCHANGED <<day, budget, over, excused, event>>
      /\ pc[r] = "called" /\ pc' = [pc EXCEPT ![r] = "checking"]
      /\ list' = [list EXCEPT ![r] = {budget[id] : id \in BudgetIds} \ {Absent}]
  BY DEF ListAll, Goto, books
<1>2. ASSUME NEW q \in Runs \ Chats PROVE Held(q)'
  <2>1. CASE q # r
    <3>1. pc'[q] = pc[q] /\ list'[q] = list[q]
      BY <1>1, <1>2, <2>1 DEF BillTypeOK, BudgetsTyped
    <3> QED
      BY <1>1, <1>2, <3>1, SameHeld DEF CheckInv
  <2>2. CASE q = r
    <3>1. pc'[r] = "checking" /\ list'[r] = {budget[id] : id \in BudgetIds} \ {Absent}
      BY <1>1 DEF BillTypeOK, BudgetsTyped
    <3>2. ASSUME NEW id \in over'[r] \ excused'[r] PROVE Standing(r, id)'
      <4>1. id \in BudgetIds /\ Standing(r, id)
        BY <1>1, <1>2, <2>2, <3>2 DEF CheckInv, Held, BillTypeOK, BudgetsTyped
      <4>2. IsSpent(budget[id], r)'
        BY <1>1, <4>1, SpentStays DEF Standing
      <4> QED
        BY <1>1, <3>1, <4>1, <4>2 DEF Standing
    <3> QED
      BY <2>2, <3>1, <3>2 DEF Held, Begun
  <2> QED
    BY <2>1, <2>2
<1> QED
  BY <1>2 DEF CheckInv

\* The turn of a spent hard stop ends the check.
LEMMA CheckChecks ==
  ASSUME BillTypeOK, BillTypeOK', CheckInv, NEW r \in Runs, Check(r)
  PROVE  CheckInv'
<1>1. PICK b \in list[r] :
         /\ pc' = [pc EXCEPT ![r] = IF Stops(b, r) THEN "refused" ELSE pc[r]]
         /\ list' = [list EXCEPT ![r] = list[r] \ {b}]
  BY DEF Check
<1>2. UNCHANGED <<day, budget, over, excused, event>> /\ pc[r] = "checking" /\ b \in Budget
  BY <1>1 DEF Check, books, BillTypeOK, BudgetsTyped
<1>3. ASSUME NEW q \in Runs \ Chats PROVE Held(q)'
  <2>1. CASE q # r
    <3>1. pc'[q] = pc[q] /\ list'[q] = list[q]
      BY <1>1, <1>3, <2>1 DEF BillTypeOK, BudgetsTyped
    <3> QED
      BY <1>2, <1>3, <3>1, SameHeld DEF CheckInv
  <2>2. CASE q = r /\ Stops(b, r)
    <3>1. pc'[r] = "refused"
      BY <1>1, <2>2 DEF BillTypeOK, BudgetsTyped
    <3> QED
      BY <2>2, <3>1 DEF Held, Begun
  <2>3. CASE q = r /\ ~Stops(b, r)
    <3>1. pc'[r] = "checking" /\ list'[r] = list[r] \ {b}
      BY <1>1, <1>2, <2>3 DEF BillTypeOK, BudgetsTyped
    <3>2. ASSUME NEW id \in over'[r] \ excused'[r] PROVE Standing(r, id)'
      <4>1. id \in BudgetIds /\ Standing(r, id)
        BY <1>2, <1>3, <2>3, <3>2 DEF CheckInv, Held, BillTypeOK, BudgetsTyped
      <4>2. budget[id] \in Budget /\ budget[id] \in list[r] /\ IsSpent(budget[id], r)
        BY <1>2, <4>1 DEF Standing, BillTypeOK, BudgetsTyped
      <4>3. Stops(budget[id], r)
        BY <4>2, SpentStops
      <4>4. budget[id] # b
        BY <2>3, <4>3
      <4>5. IsSpent(budget[id], r)'
        BY <1>2, <4>1, <4>2, SpentStays DEF Standing
      <4> QED
        BY <1>2, <3>1, <4>1, <4>2, <4>4, <4>5 DEF Standing
    <3> QED
      BY <2>3, <3>1, <3>2 DEF Held, Begun
  <2> QED
    BY <2>1, <2>2, <2>3
<1> QED
  BY <1>3 DEF CheckInv

LEMMA AdmitChecks ==
  ASSUME BillTypeOK, BillTypeOK', CheckInv, NEW r \in Runs, Admit(r)
  PROVE  CheckInv'
<1>1. /\ UNCHANGED <<day, budget, over, excused, list, event>> /\ list[r] = {}
      /\ pc[r] = "checking" /\ pc' = [pc EXCEPT ![r] = "working"]
  BY DEF Admit, Goto, books
<1>2. ASSUME NEW q \in Runs \ Chats PROVE Held(q)'
  <2>1. CASE q # r
    <3>1. pc'[q] = pc[q]
      BY <1>1, <1>2, <2>1 DEF BillTypeOK, BudgetsTyped
    <3> QED
      BY <1>1, <1>2, <3>1, SameHeld DEF CheckInv
  <2>2. CASE q = r
    <3>1. pc'[r] = "working"
      BY <1>1 DEF BillTypeOK, BudgetsTyped
    <3>2. over[r] \subseteq excused[r]
      BY <1>1, <1>2, <2>2 DEF CheckInv, Held, Standing
    <3> QED
      BY <1>1, <2>2, <3>1, <3>2 DEF Held, Begun
  <2> QED
    BY <2>1, <2>2
<1> QED
  BY <1>2 DEF CheckInv

\* Whatever happens to rows and bills, a run that has not begun does not begin.
LEMMA StageChecks ==
  ASSUME BillTypeOK, BillTypeOK', CheckInv,
         UNCHANGED <<day, budget, list, over, excused>>,
         \A o \in Runs : event[o] # Absent => event'[o] = event[o],
         \A q \in Runs : \/ pc'[q] = pc[q]
                         \/ pc[q] \in Begun /\ pc'[q] \in Begun
                         \/ pc'[q] \in {"idle", "dead", "refused"}
  PROVE  CheckInv'
<1>1. ASSUME NEW q \in Runs \ Chats PROVE Held(q)'
  BY <1>1, SameHeld DEF CheckInv
<1> QED
  BY <1>1 DEF CheckInv

\* An edit or a new day excuses what it changes, in every check under way.
LEMMA EditChecks ==
  ASSUME BillTypeOK, BillTypeOK', CheckInv, NEW ids \in SUBSET BudgetIds, Excuse(ids),
         UNCHANGED <<pc, list, over, event>>,
         \A id \in BudgetIds \ ids :
            budget[id] # Absent => budget'[id] = budget[id] /\ day' = day
  PROVE  CheckInv'
<1>1. ASSUME NEW q \in Runs \ Chats PROVE Held(q)'
  <2>1. excused[q] \subseteq excused'[q]
    BY <1>1 DEF Excuse
  <2>2. pc[q] \in {"called", "checking"} => ids \subseteq excused'[q]
    BY <1>1 DEF Excuse, Checking
  <2> QED
    BY <1>1, <2>1, <2>2, SameHeld DEF CheckInv
<1> QED
  BY <1>1 DEF CheckInv

LEMMA NextChecks ==
  ASSUME BillTypeOK, BillTypeOK', BooksInv, CheckInv, [BillNext]_billVars
  PROVE  CheckInv'
<1>0. \A o \in Runs : event[o] # Absent => event'[o] = event[o]
  BY EventsStay
<1>1. ASSUME NEW r \in Runs, NEW use, Keep(r, use) \/ Miss(r, use) PROVE CheckInv'
  <2>1. UNCHANGED <<day, budget, list, over, excused, pc>>
    BY <1>1 DEF Keep, Miss, Stage
  <2> QED
    BY <1>0, <2>1, StageChecks
<1>2. ASSUME NEW r \in Runs, NEW i, Enrich(r, i) \/ GiveUp(r, i) PROVE CheckInv'
  <2>1. UNCHANGED <<day, budget, list, over, excused, pc>>
    BY <1>2 DEF Enrich, GiveUp, Stage
  <2> QED
    BY <1>0, <2>1, StageChecks
<1>3. ASSUME NEW r \in Runs, Closing(r) PROVE CheckInv'
  <2>1. UNCHANGED <<day, budget, list, over, excused>>
    BY <1>3 DEF Closing, Sum, Close, Unbilled, Stage
  <2>2. \E to \in Begun : pc[r] \in Begun /\ pc' = [pc EXCEPT ![r] = to]
    <3>1. CASE Sum(r)
      BY <3>1 DEF Sum, Goto, Begun
    <3>2. CASE Close(r)
      BY <3>2 DEF Close, Goto, Begun
    <3>3. CASE Unbilled(r)
      BY <3>3 DEF Unbilled, Goto, Begun
    <3> QED
      BY <1>3, <3>1, <3>2, <3>3 DEF Closing
  <2>3. \A q \in Runs : pc'[q] = pc[q] \/ (pc[q] \in Begun /\ pc'[q] \in Begun)
    BY <2>2 DEF BillTypeOK, BudgetsTyped
  <2> QED
    BY <1>0, <2>1, <2>3, StageChecks
<1>4. ASSUME Crash PROVE CheckInv'
  <2>1. UNCHANGED <<day, budget, list, over, excused>>
    BY <1>4 DEF Crash, Stage
  <2>2. \A q \in Runs : \/ pc'[q] = pc[q]
                        \/ pc[q] \in Begun /\ pc'[q] \in Begun
                        \/ pc'[q] \in {"idle", "dead", "refused"}
    <3> TAKE q \in Runs
    <3>1. pc'[q] = IF pc[q] \in Running THEN "dead"
                   ELSE IF pc[q] \in {"closed", "unbilled"} THEN "ended" ELSE pc[q]
      BY <1>4 DEF Crash
    <3> QED
      BY <3>1 DEF Begun
  <2> QED
    BY <1>0, <2>1, <2>2, StageChecks
<1>5. ASSUME NEW id \in BudgetIds, NEW asked \in Settings, Upsert(id, asked) PROVE CheckInv'
  <2>1. /\ Excuse({id}) /\ UNCHANGED <<pc, list, over, event, day>>
        /\ \A k \in BudgetIds : k # id => budget'[k] = budget[k]
    BY <1>5 DEF Upsert, books, BillTypeOK, BudgetsTyped
  <2> QED
    BY <2>1, EditChecks
<1>6. ASSUME NEW id \in BudgetIds, Delete(id) PROVE CheckInv'
  <2>1. /\ Excuse({id}) /\ UNCHANGED <<pc, list, over, event, day>>
        /\ \A k \in BudgetIds : k # id => budget'[k] = budget[k]
    BY <1>6 DEF Delete, books, BillTypeOK, BudgetsTyped
  <2> QED
    BY <2>1, EditChecks
<1>7. ASSUME NewDay PROVE CheckInv'
  <2>1. /\ Excuse({id \in BudgetIds : budget[id] # Absent})
        /\ UNCHANGED <<pc, list, over, event>>
    BY <1>7 DEF NewDay, books
  <2> QED
    BY <2>1, EditChecks
<1>8. ASSUME UNCHANGED billVars PROVE CheckInv'
  BY <1>0, <1>8, StageChecks DEF billVars
<1>9. ASSUME NEW r \in Runs, NEW use, Hidden(r, use) PROVE CheckInv'
  <2>1. UNCHANGED <<day, budget, list, over, excused>>
    BY <1>9 DEF Hidden, Silent, Afterwards, Stage
  <2>2. \/ pc' = pc
        \/ pc[r] \in Begun /\ pc' = [pc EXCEPT ![r] = "ended"]
    BY <1>9 DEF Hidden, Silent, Afterwards, Goto, Stage, Begun
  <2>3. \A q \in Runs : pc'[q] = pc[q] \/ (pc[q] \in Begun /\ pc'[q] \in Begun)
    BY <2>2 DEF Begun, BillTypeOK, BudgetsTyped
  <2> QED
    BY <1>0, <2>1, <2>3, StageChecks
<1> QED
  BY <1>1, <1>2, <1>3, <1>4, <1>5, <1>6, <1>7, <1>8, <1>9,
     CallChecks, ListChecks, CheckChecks, AdmitChecks
     DEF BillNext, Step, Operate, Closing, Hidden

-----------------------------------------------------------------------------
(* The ledger's theorems.                                                  *)

LedgerInv == BillTypeOK /\ BooksInv /\ CheckInv

LEMMA LedgerInit == BillInit => LedgerInv
<1> SUFFICES ASSUME BillInit PROVE LedgerInv
  OBVIOUS
<1> USE DEF BillInit
<1>1. BudgetsTyped
  BY LedgerConstants DEF BudgetsTyped, Stages
<1>2. BooksTyped
  BY DEF BooksTyped
<1>3. BooksInv
  BY NoRowsNoCosts DEF BooksInv, Accounts, Booked
<1>4. CheckInv
  BY DEF CheckInv, Held, Begun
<1> QED
  BY <1>1, <1>2, <1>3, <1>4 DEF LedgerInv, BillTypeOK

LEMMA LedgerInvariance == BillSpec => []LedgerInv
<1>1. LedgerInv /\ [BillNext]_billVars => LedgerInv'
  <2> SUFFICES ASSUME LedgerInv, [BillNext]_billVars PROVE LedgerInv'
    OBVIOUS
  <2>1. BillTypeOK'
    BY NextBudgetsTyped, NextBooksTyped DEF LedgerInv, BillTypeOK
  <2>2. BooksInv' /\ CheckInv'
    BY <2>1, NextBooks, NextChecks DEF LedgerInv
  <2> QED
    BY <2>1, <2>2 DEF LedgerInv
<1> QED
  BY <1>1, LedgerInit, PTL DEF BillSpec

\* The rows, bills and budgets keep their types: in particular no cost is
\* negative and no cost event lies after the day of the clock.
THEOREM LedgerTypes == BillSpec => []BillTypeOK
<1>1. LedgerInv => BillTypeOK
  BY DEF LedgerInv
<1> QED
  BY <1>1, LedgerInvariance, PTL

\* However runs, enrichments, operators and midnights interleave with the
\* preflight of a run, a hard stop that was spent when it began is either
\* edited, or of a past period, or refuses the run.
THEOREM SpentIsRefused == BillSpec => []SpentMeansRefused
<1>1. LedgerInv => SpentMeansRefused
  BY DEF LedgerInv, CheckInv, Held, Begun, SpentMeansRefused
<1> QED
  BY <1>1, LedgerInvariance, PTL

\* For any price table, answers and order of late charges, a cost event and
\* the charges known to be missing from it make up what the provider charged.
THEOREM BillsAddUp == BillSpec => []BillsAreAccounted
<1>1. LedgerInv => BillsAreAccounted
  <2> SUFFICES ASSUME LedgerInv, NEW r \in Runs, event[r] # Absent, rows[r] # <<>>,
                      NEW unbilled, unbilled = missed[r].charged + unseen[r].charged
               PROVE  /\ event[r].cost + late[r] + Outstanding(r) + unbilled = charged[r]
                      /\ Priced(r) => event[r].cost + unbilled = charged[r]
    BY DEF BillsAreAccounted, LedgerInv, BooksInv, Accounts, Booked
  <2>1. Accounts(r) /\ event[r].cost + late[r] = Costs(rows[r])
    BY DEF LedgerInv, BooksInv, Accounts, Booked
  <2>2. /\ rows[r] \in Seq(CallRow) /\ late[r] \in Int /\ event[r].cost \in Nat
        /\ unbilled \in Nat
    BY DEF LedgerInv, BillTypeOK, BooksTyped
  <2>3. Costs(rows[r]) \in Nat /\ Charges(rows[r]) \in Nat
    BY <2>2, Columns, ColumnType
  <2>4. charged[r] = unbilled + Charges(rows[r])
    BY <2>1 DEF Accounts
  <2>5. event[r].cost + late[r] + Outstanding(r) + unbilled = charged[r]
    <3>1. PICK cost \in Nat, kept \in Nat, bill \in Nat, after \in Int :
             /\ cost = Costs(rows[r]) /\ kept = Charges(rows[r])
             /\ bill = event[r].cost /\ after = late[r]
      BY <2>2, <2>3
    <3>2. bill + after = cost /\ charged[r] = unbilled + kept /\ Outstanding(r) = kept - cost
      BY <2>1, <2>4, <3>1 DEF Outstanding
    <3>3. bill + after + (kept - cost) + unbilled = unbilled + kept
      BY ONLY <2>2, <3>1, <3>2
    <3> QED
      BY <3>1, <3>2, <3>3
  <2>6. ASSUME Priced(r) PROVE event[r].cost + unbilled = charged[r]
    <3>1. late[r] = 0 /\ \A i \in DOMAIN rows[r] : rows[r][i].cost = rows[r][i].charged
      BY <2>1, <2>6 DEF Accounts
    <3>2. [i \in DOMAIN rows[r] |-> rows[r][i].cost] = [i \in DOMAIN rows[r] |-> rows[r][i].charged]
      BY <3>1
    <3>3. Costs(rows[r]) = Charges(rows[r])
      BY <3>2 DEF Costs, Charges
    <3> QED
      BY <2>1, <2>2, <2>3, <2>4, <3>1, <3>3
  <2> QED
    BY <2>5, <2>6
<1> QED
  BY <1>1, LedgerInvariance, PTL
=============================================================================
