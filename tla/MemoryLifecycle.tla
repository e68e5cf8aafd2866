--------------------------- MODULE MemoryLifecycle ----------------------------
(***************************************************************************)
(* Long-term memory: the rows of long_term_memory_index, the vectors of    *)
(* the Chroma collections, and everything that writes them: promotion,     *)
(* consolidation, consensus, synthesis, copies to the global pool, the     *)
(* pruning sweep and the operator's endpoints.                             *)
(*                                                                         *)
(* A writer checks, then writes the vector, then commits the row.  The     *)
(* vector is outside the transaction: when the commit fails it stays.  A   *)
(* background job works on rows it read before it awaited the model.       *)
(* Approval and deletion change the vector inside the session and commit   *)
(* later, or fail to; an endpoint that only writes a row is one step.      *)
(***************************************************************************)
EXTENDS Naturals, FiniteSets

CONSTANTS
    Agents,      \* agents with a long-term memory, one namespace each
    Sharers,     \* agents whose sharing.write_global is set
    Texts,       \* canonical texts, after redaction
    Suspect,     \* texts should_quarantine matches, or of untrusted origin
    Promoters,   \* promotions in flight: reflections and create_memory
    Asked,       \* retention classes the candidates ask for
    Ttl,         \* rollover window of each retention class, in ages
    MinCluster,  \* min_cluster_size
    MinAgents,   \* min_agents
    MinSample,   \* the literal 10 of run_synthesis_for_agent
    RipeAge,     \* min_age_days
    MaxAge,      \* bound: ages of a row that are told apart
    MaxUpsets,   \* bound: edits and failures in a behaviour
    MaxBusy,     \* bound: writers in flight at once
    MaxIds       \* bound: memories created in a behaviour, those being written included

Classes == {"expiring", "review", "persistent"}

\* The hash of a text of the model's own.
NoHash == "synthesized"

\* A window of null: keep forever.
Forever == MaxAge

\* What may be pruned soonest is not kept longest.  An operator may set the
\* windows otherwise.
Tiered == Ttl["expiring"] <= Ttl["persistent"]

ASSUME MemoryConstants ==
    /\ Sharers \subseteq Agents
    /\ Suspect \subseteq Texts /\ NoHash \notin Texts
    /\ MinCluster \in Nat \ {0} /\ MinAgents \in Nat \ {0} /\ MinSample \in Nat \ {0}
    /\ MaxAge \in Nat /\ RipeAge \in 0..MaxAge
    /\ Asked \subseteq Classes
    /\ Ttl \in [Classes -> 0..MaxAge]
    /\ MaxIds \in Nat /\ MaxBusy \in Nat /\ MaxUpsets \in Nat
    /\ Agents \cap {"global", "consensus"} = {}
    /\ Promoters \cap {"consolidation", "consensus", "synthesis", "global"} = {}
    /\ IsFiniteSet(Promoters)

VARIABLES
    rows,       \* LongTermMemoryIndexRow by memory_id
    vec,        \* ids with a document in their Chroma collection
    draft,      \* what each writer is about to store, and how far it is
    doomed,     \* rows the pruning sweep has deleted and not yet committed
    desk,       \* the approval or deletion that has not committed yet
    nextId,     \* new_memory_id
    upsets,     \* edits and failures so far
    approved,   \* texts an operator has asked to let through
    handled,    \* ids an operator edited, quarantined or deleted
    unindexed   \* ids whose vector a failure skipped or removed

store == <<rows, vec>>
ghosts == <<approved, handled, unindexed>>
vars == <<store, draft, doomed, desk, nextId, upsets, ghosts>>

Ids == 1..MaxIds
Jobs == {"consolidation", "consensus", "synthesis", "global"}
Writers == Promoters \cup Jobs
Namespaces == Agents \cup {"global", "consensus"}
Statuses == {"active", "pending_review", "quarantined"}

\* by is the prefix of the memory's id; texts is its provenance, the texts it
\* was made from, its own for a promotion.
Row == [by : {"promotion"} \cup Jobs, ns : Namespaces, agent : Agents \cup {"consensus"},
        texts : SUBSET Texts, hash : Texts \cup {NoHash}, status : Statuses,
        class : Classes, age : 0..MaxAge, sup : Ids \cup {0}, copyOf : Ids \cup {0}]

NoRow == [status |-> "none"]

Draft == [pc : {"checked", "indexed"}, row : Row, from : SUBSET Ids, id : Ids \cup {0}]

NoDraft == [pc |-> "idle"]

NoDesk == [op |-> "idle"]

Exists(m) == rows[m] # NoRow

\* The filter of retrieve(), consolidation, consensus and synthesis.
Visible(m) == Exists(m) /\ rows[m].status = "active" /\ rows[m].sup = 0

WithHash(ns, h) == {m \in Ids : Exists(m) /\ rows[m].ns = ns /\ rows[m].hash = h}

\* The rows with the hash of "consensus:" and h, which only its job writes.
Agreements(h) == {m \in Ids : Exists(m) /\ rows[m].by = "consensus" /\ rows[m].hash = h}

Expired(m) == Exists(m) /\ Ttl[rows[m].class] # Forever /\ rows[m].age > Ttl[rows[m].class]

Fresh(by, ns, agent, texts, hash, class) ==
    [by |-> by, ns |-> ns, agent |-> agent, texts |-> texts, hash |-> hash,
     status |-> "active", class |-> class, age |-> 0, sup |-> 0, copyOf |-> 0]

Init ==
    /\ rows = [m \in Ids |-> NoRow]
    /\ vec = {}
    /\ draft = [w \in Writers |-> NoDraft]
    /\ doomed = {}
    /\ desk = NoDesk
    /\ nextId = 1
    /\ upsets = 0
    /\ approved = {}
    /\ handled = {}
    /\ unindexed = {}

-----------------------------------------------------------------------------
(* Writers: check, index, commit.                                          *)

Upset ==
    /\ upsets < MaxUpsets
    /\ upsets' = upsets + 1

Begin(w, row, from) ==
    /\ draft[w] = NoDraft
    /\ Cardinality({v \in Writers : draft[v] # NoDraft}) < MaxBusy
    /\ nextId + Cardinality({v \in Writers : draft[v].pc = "checked"}) \in Ids
    /\ draft' = [draft EXCEPT ![w] = [pc |-> "checked", row |-> row, from |-> from, id |-> 0]]
    /\ UNCHANGED <<store, doomed, desk, nextId, upsets, ghosts>>

\* Mutant: the lookup looks at active rows only.
PromoteCheck_ActiveOnly(p, a, t, class) ==
    /\ ~ \E m \in WithHash(a, t) : rows[m].status = "active"
    /\ Begin(p, Fresh("promotion", a, a, {t}, t, class), {})

\* promote(): privacy gate, guardrails and redaction passed; find_by_hash has
\* found nothing in the agent's namespace.  A duplicate, whatever its status,
\* or a refusal ends the promotion with nothing written.
PromoteCheck(p, a, t, class) ==
    /\ WithHash(a, t) = {}
    /\ Begin(p, Fresh("promotion", a, a, {t}, t, class), {})

TextsOf(ids) == UNION {rows[m].texts : m \in ids}

\* What the model answers is a text of its own, or repeats one it was given; an
\* empty answer becomes the summary of the first member.
Answers(ids) == {NoHash} \cup {rows[m].hash : m \in ids}

\* The memories the jobs write, all of them active.
Crystallized(ns, agent, members, hash) ==
    Fresh("consolidation", ns, agent, TextsOf(members), hash, "persistent")

Agreed(t, group) ==
    Fresh("consensus", "consensus", "consensus", TextsOf(group), t, "persistent")

Hypothesis(a, sample, hash) == Fresh("synthesis", a, a, TextsOf(sample), hash, "review")

GlobalCopy(m) ==
    [Fresh("global", "global", rows[m].agent, rows[m].texts, rows[m].hash, rows[m].class)
        EXCEPT !.copyOf = m]

\* run_consolidation_pass: a cluster of one namespace, read and then handed to
\* the model.  The new memory is the first member's agent's.
ConsolidateRead(members) ==
    \E ns \in Namespaces :
        /\ Cardinality(members) >= MinCluster
        /\ \A m \in members : Visible(m) /\ rows[m].age >= RipeAge /\ rows[m].ns = ns
        /\ \E first \in members, hash \in Answers(members) :
              Begin("consolidation", Crystallized(ns, rows[first].agent, members, hash), members)

\* run_consensus_detection: rows of one hash, outside the consensus namespace.
ConsensusGroup(t) == {m \in Ids : Visible(m) /\ rows[m].hash = t /\ rows[m].ns # "consensus"}

ConsensusRead(t) ==
    LET group == ConsensusGroup(t)
    IN /\ Cardinality({rows[m].agent : m \in group}) >= MinAgents
       /\ Begin("consensus", Agreed(t, group), group)

\* run_synthesis_for_agent: hypotheses the model derives from a sample.
SynthesisRead(a) ==
    LET sample == {m \in Ids : Visible(m) /\ rows[m].ns = a}
    IN /\ Cardinality(sample) >= MinSample
       /\ \E hash \in Answers(sample) :
             Begin("synthesis", Hypothesis(a, sample, hash), sample)

\* Mutant: the document is taken from the row and needs no vector.
GlobalRead_FromRow(m) ==
    /\ Exists(m)
    /\ rows[m].agent \in Sharers
    /\ rows[m].ns # "global"
    /\ Begin("global", GlobalCopy(m), {m})

\* promote_to_global: the source row, whatever its status, its agent's sharing
\* block (a sensitivity over the cap is a refusal) and its document in Chroma.
GlobalRead(m) ==
    /\ Exists(m)
    /\ m \in vec
    /\ rows[m].agent \in Sharers
    /\ rows[m].ns # "global"
    /\ Begin("global", GlobalCopy(m), {m})

\* The consensus job looks for an earlier promotion right before it writes; a
\* second copy to the global pool repeats the id of the first and fails.
Repeats(r) ==
    \/ r.by = "consensus" /\ Agreements(r.hash) # {}
    \/ r.copyOf # 0 /\ \E m \in Ids : Exists(m) /\ rows[m].copyOf = r.copyOf

\* A repetition; or a model, an embedder or Chroma that fails before the vector
\* is written: the cluster or row is skipped, or the endpoint answers 500.
Abandon(w) ==
    /\ draft[w].pc = "checked"
    /\ Upset \/ (Repeats(draft[w].row) /\ UNCHANGED upsets)
    /\ draft' = [draft EXCEPT ![w] = NoDraft]
    /\ UNCHANGED <<store, doomed, desk, nextId, ghosts>>

IsSuspect(w) == w \in Promoters /\ draft[w].row.hash \in Suspect

\* A suspect text becomes a row pending review, without a vector.
Stored(w) == IF IsSuspect(w) THEN [draft[w].row EXCEPT !.status = "pending_review"]
             ELSE draft[w].row

\* LongTermMemory.upsert, before the session commits.
Index(w) ==
    /\ draft[w].pc = "checked"
    /\ nextId \in Ids
    /\ ~Repeats(draft[w].row)
    /\ draft' = [draft EXCEPT ![w].pc = "indexed", ![w].id = nextId]
    /\ nextId' = nextId + 1
    /\ vec' = IF IsSuspect(w) THEN vec ELSE vec \cup {nextId}
    /\ UNCHANGED <<rows, doomed, desk, upsets, ghosts>>

\* What the consolidation's transaction marks: the members that still exist.
Superseded(w, m) == w = "consolidation" /\ m \in draft[w].from /\ Exists(m)

\* Mutant: the sources are marked although the new row is refused.
CommitFails_HalfDone(w) ==
    /\ draft[w].pc = "indexed"
    /\ Upset
    /\ rows' = [m \in Ids |-> IF Superseded(w, m) THEN [rows[m] EXCEPT !.sup = draft[w].id]
                              ELSE rows[m]]
    /\ draft' = [draft EXCEPT ![w] = NoDraft]
    /\ UNCHANGED <<vec, doomed, desk, nextId, ghosts>>

\* The transaction is rolled back; the vector stays behind, with no row.
CommitFails(w) ==
    /\ draft[w].pc = "indexed"
    /\ Upset
    /\ draft' = [draft EXCEPT ![w] = NoDraft]
    /\ UNCHANGED <<store, doomed, desk, nextId, ghosts>>

Commit(w) ==
    /\ draft[w].pc = "indexed"
    /\ rows' = [m \in Ids |->
                  IF m = draft[w].id THEN Stored(w)
                  ELSE IF Superseded(w, m)
                       THEN [rows[m] EXCEPT !.sup = draft[w].id, !.class = "expiring"]
                       ELSE rows[m]]
    /\ draft' = [draft EXCEPT ![w] = NoDraft]
    /\ UNCHANGED <<vec, doomed, desk, nextId, upsets, ghosts>>

-----------------------------------------------------------------------------
(* Pruning.                                                                *)

Day ==
    /\ rows' = [m \in Ids |-> IF Exists(m) /\ rows[m].age < MaxAge
                              THEN [rows[m] EXCEPT !.age = @ + 1] ELSE rows[m]]
    /\ rows' # rows
    /\ UNCHANGED <<vec, draft, doomed, desk, nextId, upsets, ghosts>>

Doomed == {m \in Ids : Expired(m)}

\* run_pruning_pass reads every row, whatever its status, and deletes the
\* vectors of the expired ones as it goes; a dry run stops before that.
PruneSweep ==
    /\ doomed = {}
    /\ Doomed # {}
    /\ doomed' = Doomed
    /\ vec' = vec \ Doomed
    /\ UNCHANGED <<rows, draft, desk, nextId, upsets, ghosts>>

PruneCommit ==
    /\ doomed # {}
    /\ rows' = [m \in Ids |-> IF m \in doomed THEN NoRow ELSE rows[m]]
    /\ doomed' = {}
    /\ UNCHANGED <<vec, draft, desk, nextId, upsets, ghosts>>

\* The transaction fails: the rows stay, their vectors are gone.
PruneFails ==
    /\ doomed # {}
    /\ Upset
    /\ unindexed' = unindexed \cup doomed
    /\ doomed' = {}
    /\ UNCHANGED <<store, draft, desk, nextId, approved, handled>>

-----------------------------------------------------------------------------
(* The operator's endpoints.                                               *)

\* Mutant: approval leaves the deferred upsert to the next write.
ApproveIndex_Later(m) ==
    /\ desk = NoDesk
    /\ Exists(m)
    /\ rows[m].status # "active"
    /\ Upset
    /\ desk' = [op |-> "approve", id |-> m]
    /\ approved' = approved \cup rows[m].texts
    /\ UNCHANGED <<store, draft, doomed, nextId, handled, unindexed>>

\* approve_memory: the deferred vector, before the status commits.
ApproveIndex(m) ==
    /\ desk = NoDesk
    /\ Exists(m)
    /\ rows[m].status # "active"
    /\ Upset
    /\ desk' = [op |-> "approve", id |-> m]
    /\ vec' = vec \cup {m}
    /\ approved' = approved \cup rows[m].texts
    /\ UNCHANGED <<rows, draft, doomed, nextId, handled, unindexed>>

\* delete_long_term: the vector, before the row's deletion commits.  A vector
\* that cannot be removed is left behind.
DeleteVector(m) ==
    /\ desk = NoDesk
    /\ Exists(m)
    /\ Upset
    /\ desk' = [op |-> "delete", id |-> m]
    /\ vec' = vec \ {m} \/ vec' = vec
    /\ UNCHANGED <<rows, draft, doomed, nextId, ghosts>>

\* The row that the session writes; no row that is gone can be updated.
DeskCommit ==
    /\ desk # NoDesk
    /\ desk.op = "approve" => Exists(desk.id)
    /\ rows' = [rows EXCEPT ![desk.id] =
                   IF desk.op = "delete" THEN NoRow ELSE [@ EXCEPT !.status = "active"]]
    /\ handled' = handled \cup {desk.id}
    /\ desk' = NoDesk
    /\ UNCHANGED <<vec, draft, doomed, nextId, upsets, approved, unindexed>>

Deleting == IF desk # NoDesk /\ desk.op = "delete" THEN {desk.id} ELSE {}

\* The transaction is rolled back: the row is as it was, the vector is not.
DeskFails ==
    /\ desk # NoDesk
    /\ unindexed' = unindexed \cup Deleting
    /\ desk' = NoDesk
    /\ UNCHANGED <<store, draft, doomed, nextId, upsets, approved, handled>>

Edit(m, row) ==
    /\ Exists(m)
    /\ rows' = [rows EXCEPT ![m] = row]
    /\ handled' = handled \cup {m}
    /\ Upset
    /\ UNCHANGED <<vec, draft, doomed, desk, nextId>>

\* approve_memory when the agent's YAML is gone or the upsert raises, and
\* update_memory with a status: the row is active, Chroma is not told.
ActivateOnly(m) ==
    /\ Exists(m)
    /\ rows[m].status # "active"
    /\ Edit(m, [rows[m] EXCEPT !.status = "active"])
    /\ approved' = approved \cup rows[m].texts
    /\ unindexed' = unindexed \cup {m}

\* quarantine_memory, or update_memory: the vector stays.
Quarantine(m) ==
    /\ Exists(m)
    /\ Edit(m, [rows[m] EXCEPT !.status = "quarantined"])
    /\ UNCHANGED <<approved, unindexed>>

\* update_memory with a retention_class.
Reclass(m, class) ==
    /\ Exists(m)
    /\ Edit(m, [rows[m] EXCEPT !.class = class])
    /\ UNCHANGED <<approved, unindexed>>

Operator(m) ==
    \/ ApproveIndex(m) \/ DeleteVector(m) \/ ActivateOnly(m) \/ Quarantine(m)
    \/ \E class \in Classes : Reclass(m, class)

-----------------------------------------------------------------------------
Write(w) == Index(w) \/ Abandon(w) \/ Commit(w) \/ CommitFails(w)

Next ==
    \/ \E p \in Promoters, a \in Agents, t \in Texts, class \in Asked :
          PromoteCheck(p, a, t, class)
    \/ \E members \in SUBSET Ids : ConsolidateRead(members)
    \/ \E t \in Texts : ConsensusRead(t)
    \/ \E a \in Agents : SynthesisRead(a)
    \/ \E m \in Ids : GlobalRead(m)
    \/ \E w \in Writers : Write(w)
    \/ Day \/ PruneSweep \/ PruneCommit \/ PruneFails
    \/ \E m \in Ids : Operator(m)
    \/ DeskCommit \/ DeskFails

Spec == Init /\ [][Next]_vars

-----------------------------------------------------------------------------
TypeOK ==
    /\ rows \in [Ids -> Row \cup {NoRow}]
    /\ vec \subseteq Ids
    /\ draft \in [Writers -> Draft \cup {NoDraft}]
    /\ doomed \subseteq Ids
    /\ desk \in [op : {"approve", "delete"}, id : Ids] \cup {NoDesk}
    /\ nextId \in 1..(MaxIds + 1)
    /\ upsets \in 0..MaxUpsets
    /\ approved \subseteq Texts
    /\ handled \subseteq Ids
    /\ unindexed \subseteq Ids

\* What promotions have stored of a text.
Promoted(a, t) == {m \in WithHash(a, t) : rows[m].by = "promotion"}

\* find_by_hash and the insert are separate steps of promote(), so promotions
\* may store one text twice in a namespace, but only when they overlapped: the
\* copies never outnumber the promotions that can be in flight.  The consensus
\* on a text, and the copy of a memory in the global pool, each written by one
\* job from a check made right before, are there once.  A job whose model
\* repeats what it was given is no promotion: its memory may say the same.
DuplicatesAreRaces ==
    /\ \A a \in Agents, t \in Texts : Cardinality(Promoted(a, t)) <= Cardinality(Promoters)
    /\ \A t \in Texts : Cardinality(Agreements(t)) <= 1
    /\ \A m, n \in Ids :
          (Exists(m) /\ Exists(n) /\ rows[m].copyOf # 0 /\ rows[m].copyOf = rows[n].copyOf)
          => m = n

\* A text that was quarantined at promotion reaches retrieval, itself or
\* through a consolidated, synthesized, consensus or global memory made from
\* it, only after an operator has asked to let it through: those jobs read
\* active rows, and a pending row has no document to copy until then.  An
\* approval counts from its upsert, before its commit and even when that fails:
\* the row is pending still, and promote_to_global copies its document.
SuspectsNeedApproval ==
    \A m \in Ids : Visible(m) => rows[m].texts \cap Suspect \subseteq approved

\* Consolidation, in any namespace, hides a memory only behind one made from it:
\* the memory that superseded another is newer, and it is there, with the other
\* and all that one was made from in its provenance, until an operator handles
\* one of the two; provided that the windows do not prune what is persistent
\* before what is expiring.
SupersededIsCarried ==
    \A m \in Ids : (Exists(m) /\ rows[m].sup # 0) =>
        LET s == rows[m].sup
        IN /\ s > m
           /\ \/ m \in handled \/ s \in handled \/ ~Tiered
              \/ Exists(s) /\ rows[m].texts \subseteq rows[s].texts

\* Every memory that retrieval may return has its vector, except those of a
\* sweep or a deletion about to commit, and those that a failure has left: a
\* sweep or a deletion that did not commit after all, an approval whose upsert
\* failed, or a status edited by hand.
VisibleIsIndexed ==
    \A m \in Ids : Visible(m) => m \in vec \cup unindexed \cup doomed \cup Deleting

-----------------------------------------------------------------------------
(* The inductive invariant behind the theorems of MemoryLifecycle_proofs.  *)

\* What each writer may store.
WriterOk(w, r) ==
    /\ r.status = "active" /\ r.age = 0 /\ r.sup = 0
    /\ IF w \in Promoters
       THEN r.by = "promotion" /\ r.texts = {r.hash} /\ r.ns \in Agents
       ELSE r.by = w /\ r.texts \cap Suspect \subseteq approved
    /\ w # "global" => r.copyOf = 0
    /\ w = "consolidation" => r.class = "persistent"

\* The memories a draft is made from carry their texts into it.
FromOk(d) == \A m \in d.from : m < nextId /\ (Exists(m) => rows[m].texts \subseteq d.row.texts)

\* An id that has a vector and no row yet belongs to one draft alone.
Unborn(w, d) == d.pc = "indexed" =>
    /\ d.id \in Ids /\ d.id < nextId /\ ~Exists(d.id) /\ d.id \notin doomed
    /\ d.id \in vec <=> ~IsSuspect(w)
    /\ ~Repeats(d.row)
    /\ desk # NoDesk => desk.id # d.id
    /\ \A m \in d.from : m < d.id
    /\ \A v \in Writers : draft[v] # NoDraft =>
          /\ d.id \notin draft[v].from
          /\ (draft[v].pc = "indexed" /\ draft[v].id = d.id) => v = w

\* The row that hides m says what m said and is not pruned before it.
Carries(s, m) ==
    /\ Exists(s) /\ rows[m].texts \subseteq rows[s].texts
    /\ rows[s].age <= rows[m].age /\ rows[s].class \in {"persistent", "expiring"}
    /\ s \in doomed => m \in doomed

RowOk(m) == Exists(m) =>
    /\ m < nextId
    /\ (rows[m].status = "active" \/ m \in vec) => rows[m].texts \cap Suspect \subseteq approved
    /\ rows[m].sup # 0 => rows[m].sup > m /\ rows[m].sup < nextId
    /\ (Tiered /\ rows[m].sup # 0 /\ m \notin handled) =>
          /\ rows[m].class = "expiring"
          /\ rows[m].sup \in handled \/ Carries(rows[m].sup, m)

\* A row that an approval is about to show has its vector, or lost it since.
DeskOk == desk # NoDesk =>
    /\ desk.id < nextId
    /\ (desk.op = "approve" /\ Exists(desk.id)) =>
          /\ rows[desk.id].texts \cap Suspect \subseteq approved
          /\ desk.id \in vec \cup unindexed \cup doomed

Unique ==
    \A m, n \in Ids : (Exists(m) /\ Exists(n)) =>
        /\ (rows[m].by = "consensus" /\ rows[n].by = "consensus" /\ rows[m].hash = rows[n].hash)
           => m = n
        /\ (rows[m].copyOf # 0 /\ rows[m].copyOf = rows[n].copyOf) => m = n

\* Promotions of one text: those stored and those in flight.
Drafting(a, t) ==
    {w \in Promoters : draft[w] # NoDraft /\ draft[w].row.ns = a /\ draft[w].row.hash = t}

Counted ==
    \A a \in Agents, t \in Texts :
        Cardinality(Promoted(a, t)) + Cardinality(Drafting(a, t)) <= Cardinality(Promoters)

IInv ==
    /\ TypeOK
    /\ \A m \in vec \cup doomed : m < nextId
    /\ \A w \in Writers : draft[w] # NoDraft =>
          WriterOk(w, draft[w].row) /\ FromOk(draft[w]) /\ Unborn(w, draft[w])
    /\ \A m \in Ids : RowOk(m)
    /\ DeskOk /\ Unique /\ Counted /\ VisibleIsIndexed
=============================================================================
