------------------------ MODULE MemoryLifecycle_proofs ------------------------
(***************************************************************************)
(* Theorems about MemoryLifecycle, for any agents, texts, promotions and   *)
(* number of memories.  Every operation keeps IInv, one named part of it   *)
(* at a time; the properties are parts of IInv or follow from it.          *)
(***************************************************************************)
EXTENDS MemoryLifecycle, TLAPS, FiniteSetTheorems

Drafts == \A w \in Writers : draft[w] # NoDraft =>
             WriterOk(w, draft[w].row) /\ FromOk(draft[w]) /\ Unborn(w, draft[w])

Bounded == \A m \in vec \cup doomed : m < nextId

RowsOk == \A m \in Ids : RowOk(m)

LEMMA Parts ==
  IInv <=> TypeOK /\ Bounded /\ Drafts /\ RowsOk /\ DeskOk /\ Unique /\ Counted
           /\ VisibleIsIndexed
BY DEF IInv, Drafts, Bounded, RowsOk

LEMMA PartsPrimed ==
  (TypeOK /\ Bounded /\ Drafts /\ RowsOk /\ DeskOk /\ Unique /\ Counted /\ VisibleIsIndexed)' => IInv'
BY DEF IInv, Drafts, Bounded, RowsOk

LEMMA RowsAreRows ==
  ASSUME TypeOK, NEW m \in Ids
  PROVE  Exists(m) <=> rows[m] \in Row
<1>1. NoRow \notin Row
  BY DEF NoRow, Row, Statuses
<1> QED
  BY <1>1 DEF Exists, TypeOK

LEMMA DraftsAreDrafts ==
  ASSUME TypeOK, NEW w \in Writers
  PROVE  draft[w] # NoDraft <=> draft[w] \in Draft
<1>1. NoDraft \notin Draft
  BY DEF NoDraft, Draft
<1> QED
  BY <1>1 DEF TypeOK

LEMMA SomeId ==
  /\ Ids \subseteq Nat \ {0}
  /\ \A w \in Promoters : w \in Writers /\ w \notin Jobs
BY MemoryConstants DEF Ids, Writers, Jobs

-----------------------------------------------------------------------------
(* Counting the promotions of one text.                                    *)

LEMMA FiniteCounts ==
  ASSUME NEW a, NEW t
  PROVE  IsFiniteSet(Promoted(a, t)) /\ IsFiniteSet(Drafting(a, t))
<1>1. IsFiniteSet(Ids) /\ IsFiniteSet(Promoters)
  BY FS_Interval, MemoryConstants DEF Ids
<1> QED
  BY <1>1, FS_Subset DEF Promoted, WithHash, Drafting

LEMMA FiniteCountsPrimed ==
  ASSUME NEW a, NEW t
  PROVE  IsFiniteSet(Promoted(a, t)') /\ IsFiniteSet(Drafting(a, t)')
<1>1. IsFiniteSet(Ids) /\ IsFiniteSet(Promoters)
  BY FS_Interval, MemoryConstants DEF Ids
<1> QED
  BY <1>1, FS_Subset DEF Promoted, WithHash, Drafting

\* Nothing is added: neither a memory nor a promotion of any text.
LEMMA FewerAreCounted ==
  ASSUME Counted,
         \A a \in Agents, t \in Texts :
            Promoted(a, t)' \subseteq Promoted(a, t) /\ Drafting(a, t)' \subseteq Drafting(a, t)
  PROVE  Counted'
<1> SUFFICES ASSUME NEW a \in Agents, NEW t \in Texts
             PROVE  Cardinality(Promoted(a, t)') + Cardinality(Drafting(a, t)')
                       <= Cardinality(Promoters)
  BY DEF Counted
<1>1. /\ Cardinality(Promoted(a, t)') <= Cardinality(Promoted(a, t))
      /\ Cardinality(Drafting(a, t)') <= Cardinality(Drafting(a, t))
  BY FiniteCounts, FS_Subset
<1>2. /\ Cardinality(Promoted(a, t)') \in Nat /\ Cardinality(Drafting(a, t)') \in Nat
      /\ Cardinality(Promoted(a, t)) \in Nat /\ Cardinality(Drafting(a, t)) \in Nat
  BY FiniteCounts, FiniteCountsPrimed, FS_CardinalityType
<1>3. Cardinality(Promoted(a, t)) + Cardinality(Drafting(a, t)) <= Cardinality(Promoters)
  BY DEF Counted
<1>4. Cardinality(Promoters) \in Nat
  BY MemoryConstants, FS_CardinalityType
<1> QED
  BY <1>1, <1>2, <1>3, <1>4

-----------------------------------------------------------------------------
(* Writers.                                                                *)

\* What the checks of the five writers have in common.
LEMMA BeginInv ==
  ASSUME IInv, NEW w \in Writers, NEW row \in Row, NEW from \in SUBSET Ids,
         WriterOk(w, row),
         \A m \in from : Exists(m) /\ rows[m].texts \subseteq row.texts,
         w \in Promoters => WithHash(row.ns, row.hash) = {},
         Begin(w, row, from)
  PROVE  IInv'
<1> DEFINE d == [pc |-> "checked", row |-> row, from |-> from, id |-> 0]
<1> USE Parts DEF Begin
<1>0. /\ draft' = [draft EXCEPT ![w] = d] /\ draft[w] = NoDraft
      /\ UNCHANGED <<rows, vec, doomed, desk, nextId, upsets, approved, handled, unindexed>>
  BY DEF store, ghosts
<1>1. d \in Draft /\ d # NoDraft
  BY DEF Draft, NoDraft
<1>d. draft'[w] = d /\ \A v \in Writers : v # w => draft'[v] = draft[v]
  BY <1>0 DEF TypeOK
<1>2. TypeOK'
  BY <1>0, <1>1 DEF TypeOK
<1>3. Bounded' /\ RowsOk' /\ DeskOk' /\ Unique' /\ VisibleIsIndexed'
  BY <1>0 DEF Bounded, RowsOk, RowOk, Carries, DeskOk, Unique, VisibleIsIndexed, Visible, Deleting,
     Exists
<1>4. Drafts'
  <2> SUFFICES ASSUME NEW v \in Writers, draft'[v] # NoDraft
               PROVE  (WriterOk(v, draft[v].row) /\ FromOk(draft[v]) /\ Unborn(v, draft[v]))'
    BY DEF Drafts
  <2>1. \A m \in from : m < nextId
    BY DEF RowsOk, RowOk
  <2>2. CASE v = w
    BY <1>0, <1>d, <2>1, <2>2 DEF WriterOk, FromOk, Unborn, Exists
  <2>3. CASE v # w
    <3>1. draft'[v] = draft[v] /\ WriterOk(v, draft[v].row) /\ FromOk(draft[v])
          /\ Unborn(v, draft[v])
      BY <1>d, <2>3 DEF Drafts
    <3>2. (WriterOk(v, draft[v].row) /\ FromOk(draft[v]))'
      BY <1>0, <3>1 DEF WriterOk, FromOk, Exists
    <3>3. Unborn(v, draft[v])'
      BY <1>0, <1>d, <3>1 DEF Unborn, Exists, IsSuspect, Repeats, Agreements
    <3> QED
      BY <3>2, <3>3
  <2> QED
    BY <2>2, <2>3
<1>5. Counted'
  <2> SUFFICES ASSUME NEW a \in Agents, NEW t \in Texts
               PROVE  Cardinality(Promoted(a, t)') + Cardinality(Drafting(a, t)')
                         <= Cardinality(Promoters)
    BY DEF Counted
  <2>1. Promoted(a, t)' = Promoted(a, t)
    BY <1>0 DEF Promoted, WithHash, Exists
  <2>2. CASE w \in Promoters /\ row.ns = a /\ row.hash = t
    <3>1. Promoted(a, t)' = {} /\ Drafting(a, t)' \subseteq Promoters
      BY <2>1, <2>2 DEF Drafting, Promoted
    <3>2. Cardinality(Drafting(a, t)') <= Cardinality(Promoters)
      BY <3>1, MemoryConstants, FS_Subset
    <3> QED
      BY <3>1, <3>2, FS_EmptySet, FiniteCountsPrimed, FS_CardinalityType, MemoryConstants
  <2>3. CASE ~(w \in Promoters /\ row.ns = a /\ row.hash = t)
    <3>1. Drafting(a, t)' = Drafting(a, t)
      BY <1>0, <1>1, <1>d, <2>3, SomeId DEF Drafting
    <3> QED
      BY <2>1, <3>1 DEF Counted
  <2> QED
    BY <2>2, <2>3
<1> QED
  BY <1>2, <1>3, <1>4, <1>5, PartsPrimed

LEMMA FreshIsRow ==
  ASSUME NEW by \in {"promotion"} \cup Jobs,
         NEW ns \in Namespaces, NEW agent \in Agents \cup {"consensus"},
         NEW texts \in SUBSET Texts, NEW hash \in Texts \cup {NoHash}, NEW class \in Classes
  PROVE  Fresh(by, ns, agent, texts, hash, class) \in Row
BY MemoryConstants DEF Fresh, Row, Statuses

LEMMA PromoteInv ==
  ASSUME IInv, NEW p \in Promoters, NEW a \in Agents, NEW t \in Texts, NEW class \in Asked,
         PromoteCheck(p, a, t, class)
  PROVE  IInv'
<1> DEFINE row == Fresh("promotion", a, a, {t}, t, class)
<1>1. row \in Row /\ p \in Writers /\ p \notin Jobs
  BY FreshIsRow, SomeId, MemoryConstants DEF Namespaces
<1>2. WriterOk(p, row)
  BY <1>1, MemoryConstants DEF WriterOk, Fresh, Jobs
<1>3. WithHash(row.ns, row.hash) = {} /\ Begin(p, row, {})
  BY DEF PromoteCheck, Fresh
<1> HIDE DEF row
<1> QED
  BY <1>1, <1>2, <1>3, BeginInv

\* What visible memories were made from needs no more approval than they did.
LEMMA VisibleTogether ==
  ASSUME IInv, NEW ids \in SUBSET Ids, \A m \in ids : Visible(m)
  PROVE  /\ TextsOf(ids) \in SUBSET Texts
         /\ TextsOf(ids) \cap Suspect \subseteq approved
         /\ \A m \in ids : Exists(m) /\ rows[m].texts \subseteq TextsOf(ids)
         /\ Answers(ids) \subseteq Texts \cup {NoHash}
<1>1. \A m \in ids : Exists(m) /\ rows[m] \in Row /\ rows[m].texts \cap Suspect \subseteq approved
  BY Parts, RowsAreRows DEF Visible, RowsOk, RowOk
<1>2. \A m \in ids : rows[m].texts \subseteq Texts /\ rows[m].hash \in Texts \cup {NoHash}
  BY <1>1 DEF Row
<1> QED
  BY <1>1, <1>2 DEF TextsOf, Answers

LEMMA ConsolidateInv ==
  ASSUME IInv, NEW members \in SUBSET Ids, ConsolidateRead(members)
  PROVE  IInv'
<1>1. PICK ns \in Namespaces :
         /\ \A m \in members : Visible(m)
         /\ \E first \in members, hash \in Answers(members) :
               Begin("consolidation", Crystallized(ns, rows[first].agent, members, hash), members)
  BY DEF ConsolidateRead
<1>2. PICK first \in members, hash \in Answers(members) :
         Begin("consolidation", Crystallized(ns, rows[first].agent, members, hash), members)
  BY <1>1
<1> DEFINE row == Crystallized(ns, rows[first].agent, members, hash)
<1>3. /\ TextsOf(members) \in SUBSET Texts /\ TextsOf(members) \cap Suspect \subseteq approved
      /\ \A m \in members : Exists(m) /\ rows[m].texts \subseteq TextsOf(members)
      /\ hash \in Texts \cup {NoHash}
  BY <1>1, VisibleTogether
<1>4. rows[first].agent \in Agents \cup {"consensus"}
  BY <1>3, Parts, RowsAreRows DEF Row
<1>5. row \in Row /\ "consolidation" \in Writers /\ "consolidation" \notin Promoters
  BY <1>3, <1>4, FreshIsRow, MemoryConstants DEF Crystallized, Classes, Writers, Jobs
<1>6. WriterOk("consolidation", row) /\ row.texts = TextsOf(members)
  BY <1>3, <1>5 DEF WriterOk, Crystallized, Fresh
<1> HIDE DEF row
<1> QED
  BY <1>2, <1>3, <1>5, <1>6, BeginInv DEF row

LEMMA ConsensusInv ==
  ASSUME IInv, NEW t \in Texts, ConsensusRead(t)
  PROVE  IInv'
<1> DEFINE group == ConsensusGroup(t)
           row == Agreed(t, group)
<1>1. group \in SUBSET Ids /\ Begin("consensus", row, group) /\ \A m \in group : Visible(m)
  BY DEF ConsensusRead, ConsensusGroup
<1> HIDE DEF group
<1>2. /\ TextsOf(group) \in SUBSET Texts /\ TextsOf(group) \cap Suspect \subseteq approved
      /\ \A m \in group : Exists(m) /\ rows[m].texts \subseteq TextsOf(group)
  BY <1>1, VisibleTogether
<1>3. row \in Row /\ "consensus" \in Writers /\ "consensus" \notin Promoters
  BY <1>2, FreshIsRow, MemoryConstants DEF Agreed, Namespaces, Classes, Writers, Jobs
<1>4. WriterOk("consensus", row) /\ row.texts = TextsOf(group)
  BY <1>2, <1>3 DEF WriterOk, Agreed, Fresh
<1> HIDE DEF row
<1> QED
  BY <1>1, <1>2, <1>3, <1>4, BeginInv

LEMMA SynthesisInv ==
  ASSUME IInv, NEW a \in Agents, SynthesisRead(a)
  PROVE  IInv'
<1> DEFINE sample == {m \in Ids : Visible(m) /\ rows[m].ns = a}
<1>1. sample \in SUBSET Ids /\ \A m \in sample : Visible(m)
  OBVIOUS
<1>2. PICK hash \in Answers(sample) : Begin("synthesis", Hypothesis(a, sample, hash), sample)
  BY DEF SynthesisRead
<1> DEFINE row == Hypothesis(a, sample, hash)
<1> HIDE DEF sample
<1>3. /\ TextsOf(sample) \in SUBSET Texts /\ TextsOf(sample) \cap Suspect \subseteq approved
      /\ \A m \in sample : Exists(m) /\ rows[m].texts \subseteq TextsOf(sample)
      /\ hash \in Texts \cup {NoHash}
  BY <1>1, VisibleTogether
<1>4. row \in Row /\ "synthesis" \in Writers /\ "synthesis" \notin Promoters
  BY <1>3, FreshIsRow, MemoryConstants DEF Hypothesis, Namespaces, Classes, Writers, Jobs
<1>5. WriterOk("synthesis", row) /\ row.texts = TextsOf(sample)
  BY <1>3, <1>4 DEF WriterOk, Hypothesis, Fresh
<1> HIDE DEF row
<1> QED
  BY <1>1, <1>2, <1>3, <1>4, <1>5, BeginInv DEF row

LEMMA GlobalInv ==
  ASSUME IInv, NEW m \in Ids, GlobalRead(m)
  PROVE  IInv'
<1> DEFINE row == GlobalCopy(m)
<1>1. Exists(m) /\ m \in vec /\ rows[m] \in Row /\ RowOk(m) /\ Begin("global", row, {m})
  BY Parts, RowsAreRows DEF GlobalRead, RowsOk
<1>2. row = [Fresh("global", "global", rows[m].agent, rows[m].texts, rows[m].hash, rows[m].class)
                EXCEPT !.copyOf = m]
  BY DEF GlobalCopy
<1>3. Fresh("global", "global", rows[m].agent, rows[m].texts, rows[m].hash, rows[m].class) \in Row
  BY <1>1, FreshIsRow DEF Row, Namespaces, Jobs
<1>4. /\ row \in Row /\ "global" \in Writers /\ "global" \notin Promoters
      /\ row.texts = rows[m].texts /\ row.hash = rows[m].hash /\ row.ns = "global"
      /\ row.status = "active" /\ row.age = 0 /\ row.sup = 0 /\ row.copyOf = m
      /\ row.by = "global"
  BY <1>2, <1>3, MemoryConstants DEF Row, Fresh, Writers, Jobs
<1>5. WriterOk("global", row)
  BY <1>1, <1>4, SomeId DEF WriterOk, RowOk
<1> HIDE DEF row
<1> QED
  BY <1>1, <1>4, <1>5, BeginInv

\* A model or the store fails before or after the vector: the draft is gone.
LEMMA DropInv ==
  ASSUME IInv, NEW w \in Writers, draft' = [draft EXCEPT ![w] = NoDraft],
         upsets' \in 0..MaxUpsets, UNCHANGED <<rows, vec, doomed, desk, nextId, ghosts>>
  PROVE  IInv'
<1> USE Parts DEF ghosts
<1>d. draft'[w] = NoDraft /\ \A v \in Writers : v # w => draft'[v] = draft[v]
  BY DEF TypeOK
<1>1. TypeOK'
  BY DEF TypeOK
<1>2. Bounded' /\ RowsOk' /\ DeskOk' /\ Unique' /\ VisibleIsIndexed'
  BY DEF Bounded, RowsOk, RowOk, Carries, DeskOk, Unique, VisibleIsIndexed, Visible, Deleting, Exists
<1>3. Drafts'
  <2> SUFFICES ASSUME NEW v \in Writers, draft'[v] # NoDraft
               PROVE  (WriterOk(v, draft[v].row) /\ FromOk(draft[v]) /\ Unborn(v, draft[v]))'
    BY DEF Drafts
  <2>1. draft'[v] = draft[v] /\ WriterOk(v, draft[v].row) /\ FromOk(draft[v])
        /\ Unborn(v, draft[v])
    BY <1>d DEF Drafts
  <2>2. (WriterOk(v, draft[v].row) /\ FromOk(draft[v]))'
    BY <2>1 DEF WriterOk, FromOk, Exists
  <2>3. Unborn(v, draft[v])'
    BY <1>d, <2>1 DEF Unborn, Exists, IsSuspect, Repeats, Agreements, NoDraft
  <2> QED
    BY <2>2, <2>3
<1>4. Counted'
  <2>1. \A a \in Agents, t \in Texts :
           Promoted(a, t)' \subseteq Promoted(a, t) /\ Drafting(a, t)' \subseteq Drafting(a, t)
    BY <1>d, SomeId DEF Promoted, WithHash, Exists, Drafting
  <2> QED
    BY <2>1, FewerAreCounted
<1> QED
  BY <1>1, <1>2, <1>3, <1>4, PartsPrimed

LEMMA UpsetFacts ==
  ASSUME TypeOK, Upset
  PROVE  upsets' \in 0..MaxUpsets
BY MemoryConstants DEF TypeOK, Upset

LEMMA IndexInv ==
  ASSUME IInv, NEW w \in Writers, Index(w)
  PROVE  IInv'
<1> USE Parts DEF Index, ghosts
<1> DEFINE d == [draft[w] EXCEPT !.pc = "indexed", !.id = nextId]
<1>0. draft[w] \in Draft /\ draft[w].pc = "checked" /\ draft[w] # NoDraft
  BY DraftsAreDrafts DEF NoDraft
<1>1. /\ d \in Draft /\ d # NoDraft /\ d.pc = "indexed" /\ d.id = nextId
      /\ d.row = draft[w].row /\ d.from = draft[w].from
  BY <1>0 DEF Draft, NoDraft
<1>d. draft' = [draft EXCEPT ![w] = d] /\ draft'[w] = d
      /\ \A v \in Writers : v # w => draft'[v] = draft[v]
  BY DEF TypeOK
<1> HIDE DEF d
<1>n. /\ nextId \in Nat \ {0} /\ nextId' = nextId + 1
      /\ ~Exists(nextId) /\ nextId \notin vec \cup doomed /\ (desk # NoDesk => desk.id # nextId)
  BY SomeId DEF RowsOk, RowOk, Bounded, DeskOk
<1>2. TypeOK'
  BY <1>1, <1>d, MemoryConstants DEF TypeOK, Ids
<1>3. Bounded' /\ RowsOk' /\ DeskOk' /\ Unique' /\ VisibleIsIndexed'
  <2>1. Bounded'
    BY <1>n, SomeId DEF Bounded, TypeOK
  <2>2. RowsOk'
    BY <1>n, SomeId, RowsAreRows DEF RowsOk, RowOk, Carries, Exists, Row
  <2>3. Unique' /\ VisibleIsIndexed'
    BY DEF Unique, VisibleIsIndexed, Visible, Deleting, Exists
  <2>4. DeskOk'
    <3>1. desk # NoDesk => desk.id \in Nat
      BY SomeId DEF TypeOK
    <3> QED
      BY <1>n, <3>1 DEF DeskOk, Exists
  <2> QED
    BY <2>1, <2>2, <2>3, <2>4
<1>4. Drafts'
  <2> SUFFICES ASSUME NEW v \in Writers, draft'[v] # NoDraft
               PROVE  (WriterOk(v, draft[v].row) /\ FromOk(draft[v]) /\ Unborn(v, draft[v]))'
    BY DEF Drafts
  <2>0. /\ draft[v] # NoDraft /\ WriterOk(v, draft[v].row) /\ FromOk(draft[v])
        /\ Unborn(v, draft[v]) /\ draft[v] \in Draft
    BY <1>0, <1>d, DraftsAreDrafts DEF Drafts
  <2>1. draft'[v].row = draft[v].row /\ draft'[v].from = draft[v].from
    BY <1>1, <1>d
  <2>2. (WriterOk(v, draft[v].row) /\ FromOk(draft[v]))'
    <3>1. \A m \in draft[v].from : m \in Ids /\ m < nextId /\ m < nextId'
      BY <1>n, <2>0, SomeId DEF FromOk, Draft
    <3> QED
      BY <2>0, <2>1, <3>1 DEF WriterOk, FromOk, Exists
  <2>4. \A u \in Writers : draft[u] # NoDraft => \A m \in draft[u].from : m < nextId /\ m \in Ids
    BY DraftsAreDrafts DEF Drafts, FromOk, Draft
  <2>5. \A u \in Writers : (draft[u] # NoDraft /\ draft[u].pc = "indexed") => draft[u].id < nextId
    BY DEF Drafts, Unborn
  <2>6. Repeats(draft[v].row)' <=> Repeats(draft[v].row)
    BY <2>1 DEF Repeats, Agreements, Exists
  <2>7. IsSuspect(v)' <=> IsSuspect(v)
    BY <2>1 DEF IsSuspect
  <2>8. CASE v = w
    <3>1. nextId \in vec' <=> ~IsSuspect(w)
      BY <1>n
    <3>2. \A u \in Writers : draft'[u] # NoDraft => nextId \notin draft'[u].from
      BY ONLY <1>0, <1>1, <1>d, <1>n, <2>4
    <3>3. \A u \in Writers : (draft'[u] # NoDraft /\ draft'[u].pc = "indexed" /\ draft'[u].id = nextId)
             => u = w
      <4>1. \A u \in Writers : (draft[u] # NoDraft /\ draft[u].pc = "indexed")
                => draft[u].id # nextId
        BY ONLY <1>n, <2>5
      <4> QED
        BY ONLY <4>1, <1>d
    <3>4. nextId < nextId' /\ rows' = rows /\ doomed' = doomed /\ desk' = desk
          /\ ~Repeats(draft[w].row)
      BY <1>n
    <3>5. draft'[w].id = nextId /\ draft'[w].from = draft[w].from
      BY <1>1, <1>d
    <3> QED
      BY <1>0, <1>n, <2>2, <2>4, <2>6, <2>7, <2>8, <3>1, <3>2, <3>3, <3>4, <3>5 DEF Unborn, Exists
  <2>9. CASE v # w
    <3>1. draft'[v] = draft[v]
      BY <1>d, <2>9
    <3>2. CASE draft[v].pc = "indexed"
      <4>1. draft[v].id \in Ids /\ draft[v].id < nextId /\ draft[v].id # nextId
        BY <1>n, <2>0, <2>5, <3>2, SomeId DEF Unborn
      <4>2. \A u \in Writers : draft'[u] # NoDraft =>
               /\ draft[v].id \notin draft'[u].from
               /\ (draft'[u].pc = "indexed" /\ draft'[u].id = draft[v].id) => u = v
        <5>1. \A u \in Writers : draft[u] # NoDraft =>
                 /\ draft[v].id \notin draft[u].from
                 /\ (draft[u].pc = "indexed" /\ draft[u].id = draft[v].id) => u = v
          BY <2>0, <3>2 DEF Unborn
        <5>2. draft'[w].id # draft[v].id /\ draft'[w].from = draft[w].from
          BY <1>1, <1>d, <4>1
        <5> QED
          BY <1>0, <1>d, <5>1, <5>2
      <4>3. draft[v].id \in vec' <=> draft[v].id \in vec
        BY <4>1
      <4>4. rows' = rows /\ doomed' = doomed /\ desk' = desk /\ draft[v].id < nextId'
        BY <1>n, <4>1, SomeId
      <4> QED
        BY <2>0, <2>2, <2>6, <2>7, <3>1, <3>2, <4>1, <4>2, <4>3, <4>4 DEF Unborn, Exists
    <3>3. CASE draft[v].pc # "indexed"
      BY <2>2, <3>1, <3>3 DEF Unborn
    <3> QED
      BY <3>2, <3>3
  <2> QED
    BY <2>2, <2>8, <2>9
<1>5. Counted'
  <2>1. \A a \in Agents, t \in Texts :
           Promoted(a, t)' \subseteq Promoted(a, t) /\ Drafting(a, t)' \subseteq Drafting(a, t)
    BY <1>0, <1>1, <1>d, SomeId DEF Promoted, WithHash, Exists, Drafting
  <2> QED
    BY <2>1, FewerAreCounted
<1> QED
  BY <1>2, <1>3, <1>4, <1>5, PartsPrimed

LEMMA CommitInv ==
  ASSUME IInv, NEW w \in Writers, Commit(w)
  PROVE  IInv'
<1> USE Parts
<1>i. PICK i : i = draft[w].id
  OBVIOUS
<1>r. PICK r : r = Stored(w)
  OBVIOUS
<1>0. /\ draft[w] \in Draft /\ draft[w].pc = "indexed" /\ draft[w] # NoDraft
      /\ UNCHANGED <<vec, doomed, desk, nextId, upsets, approved, handled, unindexed>>
  <2>0. draft[w].pc = "indexed"
    BY DEF Commit
  <2>1. draft[w].pc = "indexed" /\ draft[w] # NoDraft
    BY <2>0 DEF NoDraft
  <2>2. UNCHANGED <<vec, doomed, desk, nextId, upsets, approved, handled, unindexed>>
    BY DEF Commit, ghosts
  <2> QED
    BY <2>1, <2>2, DraftsAreDrafts
<1>1. /\ i \in Ids /\ i \in Nat /\ i < nextId /\ ~Exists(i) /\ i \notin doomed
      /\ i \in vec <=> ~IsSuspect(w)
      /\ ~Repeats(draft[w].row) /\ (\A m \in draft[w].from : m < i)
      /\ (desk # NoDesk => desk.id # i)
      /\ \A v \in Writers : draft[v] # NoDraft =>
           /\ i \notin draft[v].from
           /\ (draft[v].pc = "indexed" /\ draft[v].id = i) => v = w
  BY <1>i, <1>0, SomeId DEF Drafts, Unborn
<1>2. WriterOk(w, draft[w].row) /\ FromOk(draft[w]) /\ draft[w].row \in Row
  BY <1>0 DEF Drafts, Draft
<1>3. /\ r \in Row /\ r # NoRow /\ r.age = 0 /\ r.sup = 0 /\ r.texts = draft[w].row.texts
      /\ r.hash = draft[w].row.hash /\ r.ns = draft[w].row.ns /\ r.class = draft[w].row.class
      /\ r.copyOf = draft[w].row.copyOf /\ r.by = draft[w].row.by
      /\ r.status = IF IsSuspect(w) THEN "pending_review" ELSE "active"
  BY <1>r, <1>2 DEF Stored, WriterOk, Row, Statuses, NoRow
<1>4. (i \in vec \/ r.status = "active") => r.texts \cap Suspect \subseteq approved
  BY <1>1, <1>2, <1>3 DEF WriterOk, IsSuspect
<1>5. /\ rows' \in [Ids -> Row \cup {NoRow}] /\ rows'[i] = r
      /\ \A m \in Ids : m # i =>
           /\ Exists(m)' <=> Exists(m)
           /\ Exists(m) => /\ rows'[m].ns = rows[m].ns /\ rows'[m].hash = rows[m].hash
                           /\ rows'[m].by = rows[m].by
                           /\ rows'[m].texts = rows[m].texts /\ rows'[m].status = rows[m].status
                           /\ rows'[m].age = rows[m].age /\ rows'[m].copyOf = rows[m].copyOf
           /\ Superseded(w, m) => rows'[m].sup = i /\ rows'[m].class = "expiring"
           /\ ~Superseded(w, m) => rows'[m] = rows[m]
  <2>1. rows' = [m \in Ids |->
                  IF m = i THEN r
                  ELSE IF Superseded(w, m)
                       THEN [rows[m] EXCEPT !.sup = i, !.class = "expiring"]
                       ELSE rows[m]]
    BY <1>i, <1>r DEF Commit
  <2>2. \A m \in Ids : Superseded(w, m) =>
           /\ [rows[m] EXCEPT !.sup = i, !.class = "expiring"] \in Row
           /\ [rows[m] EXCEPT !.sup = i, !.class = "expiring"] # NoRow
           /\ rows[m] \in Row
    <3>1. \A m \in Ids : Superseded(w, m) => rows[m] \in Row
      BY RowsAreRows DEF Superseded
    <3>2. \A row \in Row : [row EXCEPT !.sup = i, !.class = "expiring"] \in Row
      BY <1>1 DEF Row, Classes
    <3>3. NoRow \notin Row
      BY DEF NoRow, Row, Statuses
    <3> QED
      BY <3>1, <3>2, <3>3
  <2>3. rows' \in [Ids -> Row \cup {NoRow}]
    BY <1>3, <2>1, <2>2 DEF TypeOK
  <2> QED
    BY <1>1, <2>1, <2>2, <2>3 DEF Exists, Superseded, Row
<1>6. Exists(i)' /\ i > 0
  BY <1>1, <1>3, <1>5, SomeId DEF Exists
<1>d. draft'[w] = NoDraft /\ (\A v \in Writers : v # w => draft'[v] = draft[v])
      /\ draft' \in [Writers -> Draft \cup {NoDraft}]
  BY DEF TypeOK, Commit
<1>7. TypeOK'
  BY <1>0, <1>5, <1>d DEF TypeOK
<1>8. Bounded'
  BY <1>0 DEF Bounded
<1>9. Unique'
  <2> SUFFICES ASSUME NEW m \in Ids, NEW n \in Ids, Exists(m)', Exists(n)', m # n
               PROVE  /\ ~(rows'[m].by = "consensus" /\ rows'[n].by = "consensus"
                            /\ rows'[m].hash = rows'[n].hash)
                      /\ ~(rows'[m].copyOf # 0 /\ rows'[m].copyOf = rows'[n].copyOf)
    BY DEF Unique
  <2>1. \A k \in Ids : (k # i /\ Exists(k)) =>
           /\ ~(r.by = "consensus" /\ rows[k].by = "consensus" /\ rows[k].hash = r.hash)
           /\ ~(r.copyOf # 0 /\ rows[k].copyOf = r.copyOf)
    BY <1>1, <1>3 DEF Repeats, Agreements
  <2>2. CASE m = i
    BY <1>5, <2>1, <2>2
  <2>3. CASE n = i
    BY <1>5, <2>1, <2>3
  <2>4. CASE m # i /\ n # i
    BY <1>5, <2>4 DEF Unique
  <2> QED
    BY <2>2, <2>3, <2>4
<1>10. VisibleIsIndexed'
  <2> SUFFICES ASSUME NEW m \in Ids, Visible(m)' 
               PROVE  m \in vec \cup unindexed \cup doomed \cup Deleting
    BY <1>0 DEF VisibleIsIndexed, Deleting
  <2>1. CASE m = i
    BY <1>1, <1>3, <1>5, <2>1 DEF Visible
  <2>2. CASE m # i
    <3>1. ~Superseded(w, m) /\ rows'[m] = rows[m]
      BY <1>5, <1>6, <2>2 DEF Visible
    <3> QED
      BY <3>1 DEF Visible, Exists, VisibleIsIndexed
  <2> QED
    BY <2>1, <2>2
<1>11. RowsOk'
  <2> SUFFICES ASSUME NEW m \in Ids PROVE RowOk(m)'
    BY DEF RowsOk
  <2>1. CASE m = i
    BY <1>0, <1>1, <1>2, <1>3, <1>4, <1>5, <2>1 DEF RowOk, WriterOk
  <2>2. CASE m # i /\ Superseded(w, m)
    <3>1. /\ RowOk(m) /\ Exists(m) /\ w = "consolidation" /\ m \in draft[w].from /\ rows[m] \in Row
      BY <2>2, RowsAreRows DEF RowsOk, Superseded
    <3>2. rows'[m].sup = i /\ rows'[m].class = "expiring" /\ i > m /\ i < nextId
      BY <1>1, <1>5, <2>2, <3>1, SomeId
    <3>3. rows[m].texts \subseteq r.texts /\ r.class = "persistent" /\ 0 <= rows[m].age
      BY <1>2, <1>3, <3>1, MemoryConstants DEF FromOk, WriterOk, Row
    <3>4. Carries(i, m)'
      BY <1>0, <1>1, <1>3, <1>5, <1>6, <2>2, <3>1, <3>3 DEF Carries
    <3> QED
      BY <1>0, <1>5, <2>2, <3>1, <3>2, <3>4 DEF RowOk
  <2>3. CASE m # i /\ ~Superseded(w, m)
    <3>1. rows'[m] = rows[m] /\ RowOk(m)
      BY <1>5, <2>3 DEF RowsOk
    <3>2. \A s \in Ids : (Exists(m) /\ Carries(s, m)) => Carries(s, m)'
      <4> SUFFICES ASSUME NEW s \in Ids, Exists(m), Carries(s, m) PROVE Carries(s, m)'
        OBVIOUS
      <4>1. s # i /\ Exists(s)
        BY <1>1 DEF Carries
      <4>2. rows'[s].class \in {rows[s].class, "expiring"}
        BY <1>5, <4>1
      <4> QED
        BY <1>0, <1>5, <3>1, <4>1, <4>2 DEF Carries
    <3>3. Exists(m) => rows[m].sup \in Ids \cup {0}
      BY RowsAreRows DEF Row
    <3> QED
      BY <1>0, <3>1, <3>2, <3>3 DEF RowOk, Exists
  <2> QED
    BY <2>1, <2>2, <2>3
<1>12. Drafts'
  <2> SUFFICES ASSUME NEW v \in Writers, draft'[v] # NoDraft
               PROVE  (WriterOk(v, draft[v].row) /\ FromOk(draft[v]) /\ Unborn(v, draft[v]))'
    BY DEF Drafts
  <2>1. /\ v # w /\ draft'[v] = draft[v] /\ draft[v] \in Draft /\ draft[v] # NoDraft
        /\ WriterOk(v, draft[v].row) /\ FromOk(draft[v]) /\ Unborn(v, draft[v])
    BY <1>d, DraftsAreDrafts DEF Drafts
  <2>2. WriterOk(v, draft[v].row)'
    BY <1>0, <2>1 DEF WriterOk
  <2>3. FromOk(draft[v])'
    <3>1. \A m \in draft[v].from : m \in Ids /\ m # i
      BY <1>1, <2>1 DEF Draft
    <3> QED
      BY <1>0, <1>5, <2>1, <3>1 DEF FromOk
  <2>4. Repeats(draft[v].row)' => Repeats(draft[v].row)
    <3>1. \A m \in Ids : (m # i /\ Exists(m)') =>
             /\ Exists(m) /\ rows'[m].by = rows[m].by /\ rows'[m].hash = rows[m].hash
             /\ rows'[m].copyOf = rows[m].copyOf
      BY <1>5
    <3>2. ~(draft[v].row.by = "consensus" /\ r.by = "consensus")
      BY <1>2, <1>3, <2>1, MemoryConstants DEF WriterOk, Writers, Jobs
    <3>3. ~(draft[v].row.copyOf # 0 /\ r.copyOf # 0)
      BY <1>2, <1>3, <2>1, MemoryConstants DEF WriterOk, Writers, Jobs
    <3> QED
      BY <1>5, <2>1, <3>1, <3>2, <3>3 DEF Repeats, Agreements
  <2>5. Unborn(v, draft[v])'
    <3> SUFFICES ASSUME draft[v].pc = "indexed" PROVE Unborn(v, draft[v])'
      BY <2>1 DEF Unborn
    <3>1. draft[v].id # i /\ draft[v].id \in Ids
      BY <1>1, <2>1 DEF Unborn
    <3>2. ~Exists(draft[v].id)'
      BY <1>5, <2>1, <3>1 DEF Unborn
    <3>3. IsSuspect(v)' <=> IsSuspect(v)
      BY <2>1 DEF IsSuspect
    <3>4. \A u \in Writers : draft'[u] # NoDraft => draft'[u] = draft[u]
      BY <1>d
    <3> QED
      BY <1>0, <2>1, <2>4, <3>2, <3>3, <3>4, <3>1 DEF Unborn, Exists
  <2> QED
    BY <2>2, <2>3, <2>5
<1>13. Counted'
  <2> SUFFICES ASSUME NEW a \in Agents, NEW t \in Texts
               PROVE  Cardinality(Promoted(a, t)') + Cardinality(Drafting(a, t)')
                         <= Cardinality(Promoters)
    BY DEF Counted
  <2>0. Cardinality(Promoted(a, t)) + Cardinality(Drafting(a, t)) <= Cardinality(Promoters)
    BY DEF Counted
  <2> DEFINE Adds == r.by = "promotion" /\ r.ns = a /\ r.hash = t
  <2>1. Promoted(a, t)' = Promoted(a, t) \cup (IF Adds THEN {i} ELSE {})
    <3>1. \A m \in Ids : m # i => (m \in Promoted(a, t)' <=> m \in Promoted(a, t))
      BY <1>5 DEF Promoted, WithHash
    <3>2. i \in Ids /\ i \notin Promoted(a, t)
      BY <1>1 DEF Promoted, WithHash
    <3>3. i \in Promoted(a, t)' <=> Adds
      BY <1>1, <1>5, <1>6 DEF Promoted, WithHash
    <3>4. Promoted(a, t)' \subseteq Ids /\ Promoted(a, t) \subseteq Ids
      BY DEF Promoted, WithHash
    <3> QED
      BY ONLY <3>1, <3>2, <3>3, <3>4
  <2>2. Drafting(a, t)' = Drafting(a, t) \ {w}
    BY <1>d, SomeId DEF Drafting
  <2>3. i \notin Promoted(a, t)
    BY <1>1 DEF Promoted, WithHash
  <2>4. /\ Cardinality(Promoted(a, t)) \in Nat /\ Cardinality(Drafting(a, t)) \in Nat
        /\ Cardinality(Promoters) \in Nat
    BY FiniteCounts, FS_CardinalityType, MemoryConstants
  <2>5. CASE Adds
    <3>1. w \in Drafting(a, t)
      <4>1. w \in Promoters
        BY <1>2, <1>3, <2>5, MemoryConstants DEF WriterOk, Writers, Jobs
      <4> QED
        BY <1>0, <1>3, <2>5, <4>1 DEF Drafting
    <3>2. Cardinality(Promoted(a, t)') = Cardinality(Promoted(a, t)) + 1
      BY <2>1, <2>3, <2>5, FiniteCounts, FS_AddElement
    <3>3. Cardinality(Drafting(a, t)') = Cardinality(Drafting(a, t)) - 1
      BY <2>2, <3>1, FiniteCounts, FS_RemoveElement
    <3> QED
      BY <2>0, <2>4, <3>2, <3>3
  <2>6. CASE ~Adds
    <3>1. Cardinality(Drafting(a, t)') <= Cardinality(Drafting(a, t))
          /\ Cardinality(Drafting(a, t)') \in Nat
      BY <2>2, FiniteCounts, FiniteCountsPrimed, FS_Subset, FS_CardinalityType
    <3>2. Promoted(a, t)' = Promoted(a, t)
      BY <2>1, <2>6
    <3> QED
      BY <2>0, <2>4, <3>1, <3>2
  <2> QED
    BY <2>5, <2>6
<1>14. DeskOk'
  BY <1>0, <1>1, <1>5 DEF DeskOk, TypeOK
<1> QED
  BY <1>7, <1>8, <1>9, <1>10, <1>11, <1>12, <1>13, <1>14, PartsPrimed

-----------------------------------------------------------------------------
(* Age and pruning.                                                        *)

\* A step that leaves the writers alone and keeps what a row says.
LEMMA DraftsKept ==
  ASSUME IInv, UNCHANGED <<draft, nextId>>, approved \subseteq approved',
         \A m \in Ids : Exists(m)' =>
            /\ Exists(m) /\ rows'[m].texts = rows[m].texts /\ rows'[m].ns = rows[m].ns
            /\ rows'[m].hash = rows[m].hash /\ rows'[m].copyOf = rows[m].copyOf
            /\ rows'[m].by = rows[m].by,
         \A m \in Ids : ~Exists(m) =>
            (m \in vec' <=> m \in vec) /\ (m \in doomed' => m \in doomed),
         desk' = desk \/ (desk' # NoDesk => Exists(desk'.id))
  PROVE  Drafts' /\ Unique' /\ Counted'
<1> USE Parts
<1>1. Drafts'
  <2> SUFFICES ASSUME NEW v \in Writers, draft[v] # NoDraft
               PROVE  (WriterOk(v, draft[v].row) /\ FromOk(draft[v]) /\ Unborn(v, draft[v]))'
    BY DEF Drafts
  <2>1. /\ WriterOk(v, draft[v].row) /\ FromOk(draft[v]) /\ Unborn(v, draft[v])
        /\ draft[v] \in Draft
    BY DraftsAreDrafts DEF Drafts
  <2>2. WriterOk(v, draft[v].row)'
    BY <2>1 DEF WriterOk
  <2>3. FromOk(draft[v])'
    <3>1. \A m \in draft[v].from : m \in Ids
      BY <2>1 DEF Draft
    <3> QED
      BY <2>1, <3>1 DEF FromOk
  <2>4. Repeats(draft[v].row)' => Repeats(draft[v].row)
    BY DEF Repeats, Agreements
  <2>5. IsSuspect(v)' <=> IsSuspect(v)
    BY DEF IsSuspect
  <2>6. Unborn(v, draft[v])'
    BY <2>1, <2>4, <2>5 DEF Unborn
  <2> QED
    BY <2>2, <2>3, <2>6
<1>2. Unique'
  BY DEF Unique
<1>3. Counted'
  <2>1. \A a \in Agents, t \in Texts :
           Promoted(a, t)' \subseteq Promoted(a, t) /\ Drafting(a, t)' \subseteq Drafting(a, t)
    BY DEF Promoted, WithHash, Drafting
  <2> QED
    BY <2>1, FewerAreCounted
<1> QED
  BY <1>1, <1>2, <1>3

LEMMA DayInv ==
  ASSUME IInv, Day
  PROVE  IInv'
<1> USE Parts
<1>0. UNCHANGED <<vec, draft, doomed, desk, nextId, upsets, approved, handled, unindexed>>
  BY DEF Day, ghosts
<1>1. rows' = [m \in Ids |-> IF Exists(m) /\ rows[m].age < MaxAge
                              THEN [rows[m] EXCEPT !.age = rows[m].age + 1] ELSE rows[m]]
  BY DEF Day
<1>2. \A m \in Ids : rows[m] \in Row =>
         /\ rows[m].age \in 0..MaxAge
         /\ rows[m].age < MaxAge => [rows[m] EXCEPT !.age = rows[m].age + 1] \in Row
  BY MemoryConstants DEF Row
<1>3. \A m \in Ids : Exists(m) => rows[m] \in Row /\ rows'[m] \in Row
  BY <1>1, <1>2, RowsAreRows
<1>4. \A m \in Ids : ~Exists(m) => rows'[m] = NoRow
  BY <1>1 DEF Exists
<1>5. NoRow \notin Row
  BY DEF NoRow, Row, Statuses
<1>6. \A m \in Ids : Exists(m)' <=> Exists(m)
  BY <1>3, <1>4, <1>5 DEF Exists
<1>7. \A m \in Ids : Exists(m) =>
         /\ rows'[m].texts = rows[m].texts /\ rows'[m].ns = rows[m].ns
         /\ rows'[m].hash = rows[m].hash /\ rows'[m].copyOf = rows[m].copyOf
         /\ rows'[m].status = rows[m].status /\ rows'[m].sup = rows[m].sup
         /\ rows'[m].class = rows[m].class /\ rows'[m].by = rows[m].by
         /\ rows'[m].age = IF rows[m].age < MaxAge THEN rows[m].age + 1 ELSE rows[m].age
  BY <1>1, <1>3 DEF Row
<1>8. TypeOK'
  <2>1. rows' \in [Ids -> Row \cup {NoRow}]
    BY <1>1, <1>3, <1>4
  <2> QED
    BY <1>0, <2>1 DEF TypeOK
<1>9. Bounded' /\ VisibleIsIndexed' /\ DeskOk'
  BY <1>0, <1>6, <1>7 DEF Bounded, VisibleIsIndexed, Visible, Deleting, DeskOk, TypeOK
<1>10. Drafts' /\ Unique' /\ Counted'
  BY <1>0, <1>6, <1>7, DraftsKept
<1>11. RowsOk'
  <2> SUFFICES ASSUME NEW m \in Ids, Exists(m) PROVE RowOk(m)'
    BY <1>6 DEF RowsOk, RowOk
  <2>1. RowOk(m) /\ rows[m] \in Row
    BY <1>3 DEF RowsOk
  <2>2. \A s \in Ids : Carries(s, m) => Carries(s, m)'
    <3> SUFFICES ASSUME NEW s \in Ids, Carries(s, m) PROVE Carries(s, m)'
      OBVIOUS
    <3>1. Exists(s) /\ rows[s].age \in 0..MaxAge /\ rows[m].age \in 0..MaxAge
      BY <1>2, <1>3, <2>1 DEF Carries
    <3>2. rows'[s].age <= rows'[m].age
      BY <1>7, <3>1, MemoryConstants DEF Carries
    <3> QED
      BY <1>0, <1>6, <1>7, <3>1, <3>2 DEF Carries
  <2>3. rows[m].sup \in Ids \cup {0}
    BY <2>1 DEF Row
  <2> QED
    BY <1>0, <1>6, <1>7, <2>1, <2>2, <2>3 DEF RowOk
<1> QED
  BY <1>8, <1>9, <1>10, <1>11, PartsPrimed

LEMMA SweepInv ==
  ASSUME IInv, PruneSweep
  PROVE  IInv'
<1> USE Parts
<1>0. /\ UNCHANGED <<rows, draft, desk, nextId, upsets, approved, handled, unindexed>>
      /\ doomed' = Doomed /\ vec' = vec \ Doomed /\ doomed = {}
  BY DEF PruneSweep, ghosts
<1>1. Doomed \subseteq Ids /\ \A m \in Doomed : Exists(m) /\ Expired(m)
  BY DEF Doomed, Expired
<1>2. TypeOK'
  BY <1>0, <1>1 DEF TypeOK
<1>3. Bounded'
  BY <1>0, <1>1 DEF Bounded, RowsOk, RowOk
<1>4. VisibleIsIndexed' /\ DeskOk'
  BY <1>0 DEF VisibleIsIndexed, Visible, Exists, Deleting, DeskOk
<1>5. Drafts' /\ Unique' /\ Counted'
  <2>1. \A m \in Ids : ~Exists(m) => (m \in vec' <=> m \in vec) /\ (m \in doomed' => m \in doomed)
    BY <1>0, <1>1
  <2> QED
    BY <1>0, <2>1, DraftsKept DEF Exists
<1>6. RowsOk'
  <2> SUFFICES ASSUME NEW m \in Ids, Exists(m) PROVE RowOk(m)'
    BY <1>0 DEF RowsOk, RowOk, Exists
  <2>1. RowOk(m) /\ rows[m] \in Row
    BY RowsAreRows DEF RowsOk
  <2>2. rows[m].sup \in Ids \cup {0}
    BY <2>1 DEF Row
  <2>3. \A s \in Ids : (Tiered /\ rows[m].class = "expiring" /\ Carries(s, m)) => Carries(s, m)'
    <3> SUFFICES ASSUME NEW s \in Ids, Tiered, rows[m].class = "expiring", Carries(s, m),
                        s \in Doomed
                 PROVE  m \in Doomed
      BY <1>0 DEF Carries, Exists
    <3>1. /\ rows[s] \in Row /\ rows[s].class \in {"persistent", "expiring"}
          /\ rows[s].age <= rows[m].age
      BY RowsAreRows DEF Carries
    <3>2. rows[s].age \in 0..MaxAge /\ rows[m].age \in 0..MaxAge
      BY <2>1, <3>1 DEF Row
    <3>3. rows[s].age > Ttl[rows[s].class]
      BY <1>1 DEF Expired
    <3>4. Ttl["expiring"] \in 0..MaxAge /\ Ttl["persistent"] \in 0..MaxAge
          /\ Ttl["expiring"] <= Ttl["persistent"]
      BY MemoryConstants DEF Classes, Tiered
    <3>5. Ttl[rows[s].class] \in 0..MaxAge /\ Ttl["expiring"] <= Ttl[rows[s].class]
      BY <3>1, <3>4, MemoryConstants
    <3>6. rows[m].age > Ttl["expiring"] /\ Ttl["expiring"] # MaxAge
      BY <3>1, <3>2, <3>3, <3>4, <3>5, MemoryConstants
    <3> QED
      BY <3>6 DEF Doomed, Expired, Forever
  <2> QED
    BY <1>0, <2>1, <2>2, <2>3 DEF RowOk, Exists
<1> QED
  BY <1>2, <1>3, <1>4, <1>5, <1>6, PartsPrimed

LEMMA PruneCommitInv ==
  ASSUME IInv, PruneCommit
  PROVE  IInv'
<1> USE Parts
<1>0. /\ UNCHANGED <<vec, draft, desk, nextId, upsets, approved, handled, unindexed>>
      /\ doomed' = {} /\ rows' = [m \in Ids |-> IF m \in doomed THEN NoRow ELSE rows[m]]
  BY DEF PruneCommit, ghosts
<1>1. \A m \in Ids : Exists(m)' <=> Exists(m) /\ m \notin doomed
  BY <1>0 DEF Exists
<1>2. \A m \in Ids : Exists(m)' => rows'[m] = rows[m]
  BY <1>0, <1>1
<1>3. TypeOK'
  BY <1>0 DEF TypeOK
<1>4. Bounded' /\ VisibleIsIndexed' /\ DeskOk'
  BY <1>0, <1>1, <1>2 DEF Bounded, VisibleIsIndexed, Visible, Deleting, DeskOk, TypeOK
<1>5. Drafts' /\ Unique' /\ Counted'
  BY <1>0, <1>1, <1>2, DraftsKept
<1>6. RowsOk'
  <2> SUFFICES ASSUME NEW m \in Ids, Exists(m)' PROVE RowOk(m)'
    BY DEF RowsOk, RowOk
  <2>1. RowOk(m) /\ rows[m] \in Row /\ rows'[m] = rows[m] /\ Exists(m) /\ m \notin doomed
    BY <1>1, <1>2, RowsAreRows DEF RowsOk
  <2>2. rows[m].sup \in Ids \cup {0}
    BY <2>1 DEF Row
  <2>3. \A s \in Ids : Carries(s, m) => Carries(s, m)'
    BY <1>0, <1>1, <1>2, <2>1 DEF Carries
  <2> QED
    BY <1>0, <2>1, <2>2, <2>3 DEF RowOk
<1> QED
  BY <1>3, <1>4, <1>5, <1>6, PartsPrimed

LEMMA PruneFailsInv ==
  ASSUME IInv, PruneFails
  PROVE  IInv'
<1> USE Parts
<1>0. /\ UNCHANGED <<rows, vec, draft, desk, nextId, approved, handled>>
      /\ doomed' = {} /\ unindexed' = unindexed \cup doomed
  BY DEF PruneFails, store
<1>1. upsets' \in 0..MaxUpsets
  BY UpsetFacts DEF PruneFails
<1>2. TypeOK'
  BY <1>0, <1>1 DEF TypeOK
<1>3. Bounded' /\ VisibleIsIndexed' /\ DeskOk' /\ RowsOk'
  BY <1>0 DEF Bounded, VisibleIsIndexed, Visible, Deleting, DeskOk, RowsOk, RowOk, Carries, Exists
<1>4. Drafts' /\ Unique' /\ Counted'
  BY <1>0, DraftsKept DEF Exists
<1> QED
  BY <1>2, <1>3, <1>4, PartsPrimed

-----------------------------------------------------------------------------
(* The operator.                                                           *)

\* What the endpoints have in common that write a row: it is one row, it keeps
\* what it was made from, and a text they let through is approved.
LEMMA EditInv ==
  ASSUME IInv, NEW m \in Ids, NEW row \in Row \cup {NoRow}, Exists(m) \/ row = NoRow,
         rows' = [rows EXCEPT ![m] = row], handled' = handled \cup {m},
         UNCHANGED <<vec, draft, doomed, nextId>>, upsets' \in 0..MaxUpsets,
         desk' \in {desk, NoDesk}, Deleting \subseteq Deleting' \cup {m},
         row # NoRow => /\ row.texts = rows[m].texts /\ row.ns = rows[m].ns
                        /\ row.hash = rows[m].hash /\ row.copyOf = rows[m].copyOf
                        /\ row.sup = rows[m].sup /\ row.by = rows[m].by
                        /\ (row.status = "active" \/ m \in vec)
                              => row.texts \cap Suspect \subseteq approved'
                        /\ (row.status = "active" /\ row.sup = 0)
                              => m \in vec \cup unindexed' \cup doomed \cup Deleting',
         approved \subseteq approved', approved' \subseteq Texts,
         unindexed \subseteq unindexed', unindexed' \subseteq Ids
  PROVE  IInv'
<1> USE Parts
<1>2. rows'[m] = row /\ \A n \in Ids : n # m => rows'[n] = rows[n]
  BY DEF TypeOK
<1>3. \A n \in Ids : n # m => (Exists(n)' <=> Exists(n))
  BY <1>2 DEF Exists
<1>4. Exists(m)' <=> row # NoRow
  BY <1>2 DEF Exists
<1>5. TypeOK'
  BY DEF TypeOK
<1>6. Bounded'
  BY DEF Bounded
<1>7. VisibleIsIndexed'
  BY <1>2, <1>3, <1>4 DEF VisibleIsIndexed, Visible
<1>k. \A n \in Ids : Exists(n)' =>
         /\ Exists(n) /\ rows'[n].texts = rows[n].texts /\ rows'[n].ns = rows[n].ns
         /\ rows'[n].hash = rows[n].hash /\ rows'[n].copyOf = rows[n].copyOf
         /\ rows'[n].by = rows[n].by
  BY <1>2, <1>3, <1>4
<1>8. Drafts' /\ Unique' /\ Counted'
  BY <1>k, DraftsKept
<1>9. RowsOk'
  <2> SUFFICES ASSUME NEW n \in Ids, Exists(n)' PROVE RowOk(n)'
    BY DEF RowsOk, RowOk
  <2>1. CASE n = m
    BY <1>2, <1>4, <2>1 DEF RowsOk, RowOk
  <2>2. CASE n # m
    <3>1. RowOk(n) /\ rows[n] \in Row /\ rows'[n] = rows[n] /\ Exists(n)
      BY <1>2, <1>3, <2>2, RowsAreRows DEF RowsOk
    <3>2. rows[n].sup \in Ids \cup {0}
      BY <3>1 DEF Row
    <3>3. \A s \in Ids : (s # m /\ Carries(s, n)) => Carries(s, n)'
      BY <1>2, <1>3, <3>1 DEF Carries
    <3> QED
      BY <3>1, <3>2, <3>3 DEF RowOk
  <2> QED
    BY <2>1, <2>2
<1>10. DeskOk'
  <2> SUFFICES ASSUME desk' = desk, desk # NoDesk
               PROVE  DeskOk'
    BY DEF DeskOk
  <2>1. desk.id \in Ids
    BY DEF TypeOK
  <2> QED
    BY <1>k, <2>1 DEF DeskOk
<1> QED
  BY <1>5, <1>6, <1>7, <1>8, <1>9, <1>10, PartsPrimed

\* An approval's upsert: the text is approved, the row is still pending.
LEMMA ApproveIndexInv ==
  ASSUME IInv, NEW m \in Ids, ApproveIndex(m)
  PROVE  IInv'
<1> USE Parts
<1>0. /\ UNCHANGED <<rows, draft, doomed, nextId, handled, unindexed>>
      /\ desk = NoDesk /\ Exists(m) /\ vec' = vec \cup {m}
      /\ approved' = approved \cup rows[m].texts
      /\ desk' = [op |-> "approve", id |-> m] /\ upsets' \in 0..MaxUpsets
  BY UpsetFacts DEF ApproveIndex
<1>1. m < nextId /\ rows[m] \in Row
  BY <1>0, RowsAreRows DEF RowsOk, RowOk
<1>2. TypeOK'
  BY <1>0, <1>1 DEF TypeOK, Row
<1>3. Bounded' /\ VisibleIsIndexed'
  BY <1>0, <1>1 DEF Bounded, VisibleIsIndexed, Visible, Exists, Deleting
<1>4. DeskOk'
  BY <1>0, <1>1 DEF DeskOk
<1>5. Drafts' /\ Unique' /\ Counted'
  <2>1. \A n \in Ids : ~Exists(n) => (n \in vec' <=> n \in vec)
    BY <1>0
  <2> QED
    BY <1>0, <2>1, DraftsKept DEF Exists
<1>6. RowsOk'
  BY <1>0 DEF RowsOk, RowOk, Carries, Exists
<1> QED
  BY <1>2, <1>3, <1>4, <1>5, <1>6, PartsPrimed

\* A deletion's vector goes, or is left behind.
LEMMA DeleteVectorInv ==
  ASSUME IInv, NEW m \in Ids, DeleteVector(m)
  PROVE  IInv'
<1> USE Parts
<1>0. /\ UNCHANGED <<rows, draft, doomed, nextId, handled, unindexed, approved>>
      /\ desk = NoDesk /\ Exists(m) /\ vec' \in {vec, vec \ {m}}
      /\ desk' = [op |-> "delete", id |-> m] /\ upsets' \in 0..MaxUpsets
  BY UpsetFacts DEF DeleteVector, ghosts
<1>1. m < nextId
  BY <1>0 DEF RowsOk, RowOk
<1>d. Deleting = {} /\ Deleting' = {m}
  BY <1>0 DEF Deleting, NoDesk
<1>2. TypeOK'
  BY <1>0 DEF TypeOK
<1>3. Bounded' /\ VisibleIsIndexed'
  BY <1>0, <1>d DEF Bounded, VisibleIsIndexed, Visible, Exists
<1>4. DeskOk'
  BY <1>0, <1>1 DEF DeskOk
<1>5. Drafts' /\ Unique' /\ Counted'
  <2>1. \A n \in Ids : ~Exists(n) => (n \in vec' <=> n \in vec)
    BY <1>0
  <2> QED
    BY <1>0, <2>1, DraftsKept DEF Exists
<1>6. RowsOk'
  BY <1>0 DEF RowsOk, RowOk, Carries, Exists
<1> QED
  BY <1>2, <1>3, <1>4, <1>5, <1>6, PartsPrimed

LEMMA DeskCommitInv ==
  ASSUME IInv, DeskCommit
  PROVE  IInv'
<1> USE Parts
<1>0. PICK m \in Ids : m = desk.id
  BY DEF DeskCommit, TypeOK
<1>1. /\ UNCHANGED <<vec, draft, doomed, nextId, upsets, approved, unindexed>>
      /\ desk # NoDesk /\ desk' = NoDesk /\ handled' = handled \cup {m}
      /\ desk.op \in {"approve", "delete"} /\ upsets' \in 0..MaxUpsets
      /\ approved' \subseteq Texts /\ unindexed' \subseteq Ids
  BY <1>0 DEF DeskCommit, TypeOK
<1>2. Deleting \subseteq {m}
  BY <1>0 DEF Deleting
<1>3. CASE desk.op = "delete"
  <2>1. rows' = [rows EXCEPT ![m] = NoRow]
    BY <1>0, <1>3 DEF DeskCommit
  <2> QED
    BY <1>1, <1>2, <2>1, EditInv
<1>4. CASE desk.op = "approve"
  <2> DEFINE row == [rows[m] EXCEPT !.status = "active"]
  <2>1. rows' = [rows EXCEPT ![m] = row] /\ Exists(m)
    BY <1>0, <1>4 DEF DeskCommit
  <2>2. /\ rows[m].texts \cap Suspect \subseteq approved
        /\ m \in vec \cup unindexed \cup doomed
    BY <1>0, <1>1, <1>4, <2>1 DEF DeskOk
  <2>3. /\ row \in Row /\ row.texts = rows[m].texts /\ row.ns = rows[m].ns /\ row.by = rows[m].by
        /\ row.hash = rows[m].hash /\ row.copyOf = rows[m].copyOf /\ row.sup = rows[m].sup
    BY <2>1, RowsAreRows DEF Row, Statuses
  <2> HIDE DEF row
  <2> QED
    BY <1>1, <1>2, <2>1, <2>2, <2>3, EditInv
<1> QED
  BY <1>1, <1>3, <1>4

LEMMA DeskFailsInv ==
  ASSUME IInv, DeskFails
  PROVE  IInv'
<1> USE Parts
<1>0. /\ UNCHANGED <<rows, vec, draft, doomed, nextId, upsets, approved, handled>>
      /\ unindexed' = unindexed \cup Deleting /\ desk' = NoDesk
  BY DEF DeskFails, store
<1>1. Deleting \subseteq Ids /\ Deleting' = {}
  BY <1>0 DEF Deleting, TypeOK
<1>2. TypeOK'
  BY <1>0, <1>1 DEF TypeOK
<1>3. Bounded' /\ VisibleIsIndexed' /\ DeskOk' /\ RowsOk'
  BY <1>0 DEF Bounded, VisibleIsIndexed, Visible, DeskOk, RowsOk, RowOk, Carries, Exists
<1>4. Drafts' /\ Unique' /\ Counted'
  BY <1>0, DraftsKept DEF Exists
<1> QED
  BY <1>2, <1>3, <1>4, PartsPrimed

\* An edit of one row that is there.
LEMMA EditedInv ==
  ASSUME IInv, NEW m \in Ids, NEW row \in Row, Edit(m, row),
         /\ row.texts = rows[m].texts /\ row.ns = rows[m].ns
         /\ row.hash = rows[m].hash /\ row.copyOf = rows[m].copyOf
         /\ row.sup = rows[m].sup /\ row.by = rows[m].by,
         (row.status = "active" \/ m \in vec) => row.texts \cap Suspect \subseteq approved',
         (row.status = "active" /\ row.sup = 0)
            => m \in vec \cup unindexed' \cup doomed \cup Deleting,
         approved \subseteq approved', approved' \subseteq Texts,
         unindexed \subseteq unindexed', unindexed' \subseteq Ids
  PROVE  IInv'
<1>1. /\ UNCHANGED <<vec, draft, doomed, desk, nextId>> /\ upsets' \in 0..MaxUpsets
      /\ Exists(m) /\ rows' = [rows EXCEPT ![m] = row] /\ handled' = handled \cup {m}
  BY Parts, UpsetFacts DEF Edit
<1>2. Deleting' = Deleting
  BY <1>1 DEF Deleting
<1> QED
  BY <1>1, <1>2, EditInv

LEMMA OperatorInv ==
  ASSUME IInv, NEW m \in Ids, Operator(m)
  PROVE  IInv'
<1> USE Parts
<1>1. Exists(m)
  BY DEF Operator, ApproveIndex, DeleteVector, ActivateOnly, Quarantine, Reclass
<1>2. rows[m] \in Row /\ RowOk(m)
  BY <1>1, RowsAreRows DEF RowsOk
<1>3. rows[m].texts \subseteq Texts /\ approved \subseteq Texts /\ unindexed \subseteq Ids
  BY <1>2 DEF Row, TypeOK
<1>4. \A s \in Statuses :
         /\ [rows[m] EXCEPT !.status = s] \in Row
         /\ [rows[m] EXCEPT !.status = s].status = s
         /\ [rows[m] EXCEPT !.status = s].texts = rows[m].texts
         /\ [rows[m] EXCEPT !.status = s].ns = rows[m].ns
         /\ [rows[m] EXCEPT !.status = s].hash = rows[m].hash
         /\ [rows[m] EXCEPT !.status = s].copyOf = rows[m].copyOf
         /\ [rows[m] EXCEPT !.status = s].sup = rows[m].sup
         /\ [rows[m] EXCEPT !.status = s].by = rows[m].by
  BY <1>2 DEF Row
<1>5. \A c \in Classes :
         /\ [rows[m] EXCEPT !.class = c] \in Row
         /\ [rows[m] EXCEPT !.class = c].status = rows[m].status
         /\ [rows[m] EXCEPT !.class = c].texts = rows[m].texts
         /\ [rows[m] EXCEPT !.class = c].ns = rows[m].ns
         /\ [rows[m] EXCEPT !.class = c].hash = rows[m].hash
         /\ [rows[m] EXCEPT !.class = c].copyOf = rows[m].copyOf
         /\ [rows[m] EXCEPT !.class = c].sup = rows[m].sup
         /\ [rows[m] EXCEPT !.class = c].by = rows[m].by
  BY <1>2 DEF Row
<1>6. "active" \in Statuses /\ "quarantined" \in Statuses
  BY DEF Statuses
<1>7. rows[m].status = "active" \/ m \in vec => rows[m].texts \cap Suspect \subseteq approved
  BY <1>1, <1>2 DEF RowOk
<1>8. CASE ApproveIndex(m)
  BY <1>8, ApproveIndexInv
<1>9. CASE DeleteVector(m)
  BY <1>9, DeleteVectorInv
<1>10. CASE ActivateOnly(m)
  BY <1>3, <1>4, <1>6, <1>10, EditedInv DEF ActivateOnly
<1>11. CASE Quarantine(m)
  BY <1>3, <1>4, <1>6, <1>7, <1>11, EditedInv DEF Quarantine
<1>12. CASE \E class \in Classes : Reclass(m, class)
  <2> PICK class \in Classes : Reclass(m, class)
    BY <1>12
  <2>1. (rows[m].status = "active" /\ rows[m].sup = 0)
           => m \in vec \cup unindexed \cup doomed \cup Deleting
    BY <1>1 DEF VisibleIsIndexed, Visible
  <2> QED
    BY <1>3, <1>5, <1>7, <2>1, EditedInv DEF Reclass
<1> QED
  BY <1>8, <1>9, <1>10, <1>11, <1>12 DEF Operator

-----------------------------------------------------------------------------
(* The theorems.                                                           *)

LEMMA InitInv == Init => IInv
<1> SUFFICES ASSUME Init PROVE IInv
  OBVIOUS
<1> USE DEF Init
<1>1. TypeOK
  BY MemoryConstants DEF TypeOK, Ids
<1>2. \A m \in Ids : ~Exists(m)
  BY DEF Exists
<1>3. Bounded /\ Drafts
  BY DEF Bounded, Drafts
<1>4. RowsOk /\ DeskOk /\ Unique /\ VisibleIsIndexed
  BY <1>2 DEF RowsOk, RowOk, DeskOk, Unique, VisibleIsIndexed, Visible
<1>5. Counted
  <2> SUFFICES ASSUME NEW a \in Agents, NEW t \in Texts
               PROVE  Cardinality(Promoted(a, t)) + Cardinality(Drafting(a, t))
                         <= Cardinality(Promoters)
    BY DEF Counted
  <2>1. Promoted(a, t) = {}
    BY <1>2 DEF Promoted, WithHash
  <2>2. Drafting(a, t) = {}
    BY SomeId DEF Drafting
  <2> QED
    BY <2>1, <2>2, FS_EmptySet, FS_CardinalityType, MemoryConstants
<1> QED
  BY <1>1, <1>3, <1>4, <1>5, Parts

LEMMA NextInv == IInv /\ [Next]_vars => IInv'
<1> SUFFICES ASSUME IInv, [Next]_vars PROVE IInv'
  OBVIOUS
<1>1. CASE UNCHANGED vars
  BY <1>1 DEF vars, store, ghosts, IInv, TypeOK, WriterOk, FromOk, Unborn, RowOk, Carries, Unique,
     Counted, Promoted, WithHash, Drafting, VisibleIsIndexed, Visible, Deleting, DeskOk, Exists,
     IsSuspect, Repeats, Agreements
<1>2. CASE \E p \in Promoters, a \in Agents, t \in Texts, class \in Asked :
              PromoteCheck(p, a, t, class)
  BY <1>2, PromoteInv
<1>3. CASE \E members \in SUBSET Ids : ConsolidateRead(members)
  BY <1>3, ConsolidateInv
<1>4. CASE \E t \in Texts : ConsensusRead(t)
  BY <1>4, ConsensusInv
<1>5. CASE \E a \in Agents : SynthesisRead(a)
  BY <1>5, SynthesisInv
<1>6. CASE \E m \in Ids : GlobalRead(m)
  BY <1>6, GlobalInv
<1>7. CASE \E w \in Writers : Write(w)
  <2> PICK w \in Writers : Write(w)
    BY <1>7
  <2>1. CASE Index(w)
    BY <2>1, IndexInv
  <2>2. CASE Abandon(w)
    <3>1. upsets' \in 0..MaxUpsets
      BY <2>2, Parts, UpsetFacts DEF Abandon, TypeOK
    <3> QED
      BY <2>2, <3>1, DropInv DEF Abandon, store
  <2>3. CASE Commit(w)
    BY <2>3, CommitInv
  <2>4. CASE CommitFails(w)
    <3>1. upsets' \in 0..MaxUpsets
      BY <2>4, Parts, UpsetFacts DEF CommitFails
    <3> QED
      BY <2>4, <3>1, DropInv DEF CommitFails, store
  <2> QED
    BY <2>1, <2>2, <2>3, <2>4 DEF Write
<1>8. CASE Day \/ PruneSweep \/ PruneCommit \/ PruneFails
  BY <1>8, DayInv, SweepInv, PruneCommitInv, PruneFailsInv
<1>9. CASE \E m \in Ids : Operator(m)
  BY <1>9, OperatorInv
<1>10. CASE DeskCommit \/ DeskFails
  BY <1>10, DeskCommitInv, DeskFailsInv
<1> QED
  BY <1>1, <1>2, <1>3, <1>4, <1>5, <1>6, <1>7, <1>8, <1>9, <1>10 DEF Next

\* Every step of every writer, sweep and operator, failed commits included, keeps
\* the invariant: the rows, their vectors, the drafts in flight and the approval
\* or deletion that has not committed agree with each other.
THEOREM MemoryInvariance == Spec => []IInv
BY InitInv, NextInv, PTL DEF Spec

\* The store stays well formed.
THEOREM MemoryTypes == Spec => []TypeOK
BY MemoryInvariance, Parts, PTL

\* Promotions never store a text in a namespace more often than they can be in
\* flight; consensus and the global pool hold it once.
THEOREM MemoryDuplicates == Spec => []DuplicatesAreRaces
<1>1. IInv => DuplicatesAreRaces
  <2> SUFFICES ASSUME IInv PROVE DuplicatesAreRaces
    OBVIOUS
  <2>1. ASSUME NEW a \in Agents, NEW t \in Texts
        PROVE  Cardinality(Promoted(a, t)) <= Cardinality(Promoters)
    <3>1. Cardinality(Promoted(a, t)) + Cardinality(Drafting(a, t)) <= Cardinality(Promoters)
      BY Parts DEF Counted
    <3>2. /\ Cardinality(Promoted(a, t)) \in Nat /\ Cardinality(Drafting(a, t)) \in Nat
          /\ Cardinality(Promoters) \in Nat
      BY FiniteCounts, FS_CardinalityType, MemoryConstants
    <3> QED
      BY <3>1, <3>2
  <2>2. ASSUME NEW t \in Texts
        PROVE  Cardinality(Agreements(t)) <= 1
    <3>1. \A m, n \in Agreements(t) : m = n
      BY Parts DEF Unique, Agreements
    <3>2. CASE Agreements(t) = {}
      BY <3>2, FS_EmptySet
    <3>3. CASE \E m : m \in Agreements(t)
      <4> PICK m : m \in Agreements(t)
        BY <3>3
      <4>1. Agreements(t) = {m}
        BY <3>1
      <4>2. Cardinality({m}) = 1
        BY FS_Singleton
      <4> QED
        BY ONLY <4>1, <4>2
    <3> QED
      BY <3>2, <3>3
  <2>3. \A m, n \in Ids :
           (Exists(m) /\ Exists(n) /\ rows[m].copyOf # 0 /\ rows[m].copyOf = rows[n].copyOf)
           => m = n
    BY Parts DEF Unique
  <2> QED
    BY <2>1, <2>2, <2>3 DEF DuplicatesAreRaces
<1> QED
  BY <1>1, MemoryInvariance, PTL

\* A quarantined text reaches retrieval, directly or through a memory made from
\* it, only once an operator has asked to let it through, even when the approval
\* did not commit.
THEOREM MemoryApproval == Spec => []SuspectsNeedApproval
<1>1. IInv => SuspectsNeedApproval
  BY Parts DEF SuspectsNeedApproval, Visible, RowsOk, RowOk
<1> QED
  BY <1>1, MemoryInvariance, PTL

\* Consolidation, in any namespace, hides a memory only behind a newer one made
\* from it, and pruning never removes that one first, if what is persistent is
\* kept no shorter than what is expiring.
THEOREM MemoryCarried == Spec => []SupersededIsCarried
<1>1. IInv => SupersededIsCarried
  <2> SUFFICES ASSUME IInv, NEW m \in Ids, Exists(m), rows[m].sup # 0
               PROVE  /\ rows[m].sup > m
                      /\ \/ m \in handled \/ rows[m].sup \in handled
                         \/ ~Tiered
                         \/ Exists(rows[m].sup) /\ rows[m].texts \subseteq rows[rows[m].sup].texts
    BY DEF SupersededIsCarried
  <2> QED
    BY Parts DEF RowsOk, RowOk, Carries
<1> QED
  BY <1>1, MemoryInvariance, PTL

\* Retrieval's rows have their vectors, whatever fails in whatever order, except
\* for a sweep or a deletion that is about to commit or failed to, and what an
\* operator showed without Chroma.
THEOREM MemoryIndexed == Spec => []VisibleIsIndexed
BY MemoryInvariance, Parts, PTL
=============================================================================
