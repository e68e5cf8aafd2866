------------------------------- MODULE Ledger -------------------------------
(***************************************************************************)
(* What runs and chat turns cost, and the budgets that stop runs.  Each    *)
(* model call is priced and kept as a row; OpenRouter's charge may replace *)
(* the price later; at its end a run sums its rows into one cost event;    *)
(* the events of a period are what a run's preflight holds against the     *)
(* budgets.  Every step is what happens between two awaits, so runs,       *)
(* enrichments, the operator and the clock interleave everywhere.          *)
(* EngineRun has the inside of one run; here a run is its calls.           *)
(***************************************************************************)
EXTENDS Integers, Sequences, FiniteSets

CONSTANTS
    Runs,          \* task runs and chat turns
    Chats,         \* those that are chat turns, which no budget stops
    AgentOf,       \* the agent of a run
    ProviderOf,    \* the provider of a run
    Rates,         \* price table: provider -> rates by bucket, or Unpriced
    Unpriced,
    Answers,       \* provider -> the usages an answer of it may report
    Routed,        \* providers whose charge is fetched after the call
    BudgetIds,
    Settings,      \* what an operator may ask for
    Length,        \* days in a period, by its name
    Absent,        \* no row
    MaxCalls,      \* bound: model calls, by run
    MaxEdits,      \* bound: edits by operators
    MaxDays        \* bound: days that pass

VARIABLES
    day,       \* the clock, in days
    budget,    \* rows of budgets
    edits,
    pc,        \* where each run is
    list,      \* the budgets a check has read and not yet looked at
    rows,      \* rows of model_call_events, by run
    tracker,   \* the run's CostTracker: what its tokens cost by the table
    charged,   \* history: what the provider charged for the run
    missed,    \* history: the part of it whose row could not be written
    unseen,    \* history: the part of it whose usage the run never learned
    failed,    \* the run's loop, or the chat turn, raised
    sum,       \* what record_usage has read
    late,      \* history: what enrichment added to rows after they were read
    event,     \* rows of cost_events, by run
    over,      \* history: hard stops already spent when the run was called
    excused    \* history: budgets edited, or periods begun, during its check

billVars == <<day, budget, edits, pc, list, rows, tracker, charged, missed,
              unseen, failed, sum, late, event, over, excused>>

books == <<rows, tracker, charged, missed, unseen, failed, sum, late, event>>

-----------------------------------------------------------------------------
(* Prices *)

\* What is billed by the price table alone.
Priced(r) == Rates[ProviderOf[r]] # Unpriced /\ ProviderOf[r] \notin Routed

Rated(rates) ==
    /\ {"prompt", "completion"} \subseteq DOMAIN rates
    /\ \A bucket \in DOMAIN rates : rates[bucket] \in Nat

Use == [input : Nat, cached : Nat, created : Nat, output : Nat,
        reasoning : Nat, inline : Nat, charged : Nat]

Larger(a, b) == IF a > b THEN a ELSE b

\* The bucket's own rate, or that of the prompt or completion it is part of.
RateOr(rates, bucket, whole) ==
    IF bucket \in DOMAIN rates THEN rates[bucket] ELSE rates[whole]

\* Two buckets, cached and reasoning tokens at the full price.
EstimateCost(rates, use) ==
    IF rates = Unpriced THEN 0
    ELSE use.input * rates.prompt + use.output * rates.completion

\* What a provider charges that keeps to the table: each token once.
Listed(rates, use) ==
    LET Rate(bucket, whole) ==
            rates[IF bucket \in DOMAIN rates THEN bucket ELSE whole]
    IN  (use.input - (use.cached + use.created)) * rates.prompt
        + use.cached * Rate("cached", "prompt")
        + use.created * Rate("created", "prompt")
        + (use.output - use.reasoning) * rates.completion
        + use.reasoning * Rate("reasoning", "completion")

\* Parts are parts of their whole, and the table is the provider's.
Honest(rates, use) ==
    /\ use.cached + use.created <= use.input
    /\ use.reasoning <= use.output
    /\ use.charged = Listed(rates, use)
    /\ use.inline \in {0, use.charged}

\* The cached tokens at the prompt's price and at their own.
ComputeCost_CachedTwice(rates, use) ==
    IF rates = Unpriced THEN 0
    ELSE Larger(use.input - use.created, 0) * rates.prompt
         + Larger(use.output - use.reasoning, 0) * rates.completion
         + use.cached * RateOr(rates, "cached", "prompt")
         + use.created * RateOr(rates, "created", "prompt")
         + use.reasoning * RateOr(rates, "reasoning", "completion")

\* Five buckets: no token is counted in two of them.
ComputeCost(rates, use) ==
    IF rates = Unpriced THEN 0
    ELSE Larger(use.input - use.cached - use.created, 0) * rates.prompt
         + Larger(use.output - use.reasoning, 0) * rates.completion
         + use.cached * RateOr(rates, "cached", "prompt")
         + use.created * RateOr(rates, "created", "prompt")
         + use.reasoning * RateOr(rates, "reasoning", "completion")

\* A charge in the response stands; a price is only computed without one.
RowCost(provider, use) ==
    IF use.inline > 0 THEN use.inline ELSE ComputeCost(Rates[provider], use)

\* The sum of the amounts of a function, in units: as many pairs as it counts.
Units(amount) == UNION {{x} \X (1..amount[x]) : x \in DOMAIN amount}

Total(amount) == Cardinality(Units(amount))

Costs(s) == Total([i \in DOMAIN s |-> s[i].cost])

Charges(s) == Total([i \in DOMAIN s |-> s[i].charged])

-----------------------------------------------------------------------------
(* Budgets *)

Budget == [scope : {"agent", "provider", "global"}, key : {s.key : s \in Settings},
           period : DOMAIN Length, limit : Int, hard : BOOLEAN]

ASSUME LedgerConstants ==
    /\ IsFiniteSet(Runs) /\ MaxEdits \in Nat /\ MaxDays \in Nat
    /\ Settings \subseteq Budget /\ Absent \notin Settings
    /\ \A period \in DOMAIN Length : Length[period] \in Nat \ {0}
    /\ \A r \in Runs :
          /\ Rates[ProviderOf[r]] = Unpriced \/ Rated(Rates[ProviderOf[r]])
          /\ Answers[ProviderOf[r]] \subseteq Use
          /\ Priced(r) => \A use \in Answers[ProviderOf[r]] :
                Honest(Rates[ProviderOf[r]], use)

PeriodStart(period) == (day \div Length[period]) * Length[period]

Covers(b, r) ==
    CASE b.scope = "agent" -> b.key = AgentOf[r]
      [] b.scope = "provider" -> b.key = ProviderOf[r]
      [] OTHER -> TRUE

\* The cost events of the budget's scope since its period began.
Spent(b) ==
    LET counted == {r \in Runs : /\ event[r] # Absent
                                 /\ event[r].day >= PeriodStart(b.period)
                                 /\ Covers(b, r)}
    IN  Total([r \in counted |-> event[r].cost])

\* limit_usd as the amount that may still be spent.
Stops_Beyond(b, r) == b.hard /\ Covers(b, r) /\ Spent(b) > b.limit

Stops(b, r) == b.hard /\ Covers(b, r) /\ Spent(b) >= b.limit

\* For the properties: what it means that a hard stop of a run is spent.
InScope(b) ==
    {r \in Runs : b.key = [agent |-> AgentOf[r], provider |-> ProviderOf[r],
                           global |-> b.key][b.scope]}

IsSpent(b, r) ==
    LET this == day \div Length[b.period]
        billed == {o \in InScope(b) : /\ event[o] # Absent
                                      /\ event[o].day \div Length[b.period] = this}
    IN  /\ b.hard
        /\ r \in InScope(b)
        /\ Total([o \in billed |-> event[o].cost]) >= b.limit

\* Runs whose check is under way.
Checking == {r \in Runs : pc[r] \in {"called", "checking"}}

Excuse(ids) ==
    excused' = [r \in Runs |->
                   IF r \in Checking THEN excused[r] \cup ids ELSE excused[r]]

\* Scope, key and period stay those of the first row.
Upserted(old, asked) ==
    IF old = Absent THEN asked
    ELSE [old EXCEPT !.limit = asked.limit, !.hard = asked.hard]

Upsert(id, asked) ==
    /\ edits < MaxEdits
    /\ edits' = edits + 1
    /\ budget' = [budget EXCEPT ![id] = Upserted(@, asked)]
    /\ Excuse({id})
    /\ UNCHANGED <<day, pc, list, over, books>>

Delete(id) ==
    /\ edits < MaxEdits
    /\ budget[id] # Absent
    /\ edits' = edits + 1
    /\ budget' = [budget EXCEPT ![id] = Absent]
    /\ Excuse({id})
    /\ UNCHANGED <<day, pc, list, over, books>>

NewDay ==
    /\ day < MaxDays
    /\ day' = day + 1
    /\ Excuse({id \in BudgetIds : budget[id] # Absent})
    /\ UNCHANGED <<budget, edits, pc, list, over, books>>

-----------------------------------------------------------------------------
(* The preflight of a run *)

Goto(r, from, to) == pc[r] = from /\ pc' = [pc EXCEPT ![r] = to]

\* A run is called for; a chat turn goes to its model at once.
Call(r) ==
    /\ Goto(r, "idle", IF r \in Chats THEN "working" ELSE "called")
    /\ over' = [over EXCEPT ![r] =
           {id \in BudgetIds : budget[id] # Absent /\ IsSpent(budget[id], r)}]
    /\ UNCHANGED <<day, budget, edits, list, excused, books>>

\* list_all: the check works on the budgets as they are now.
ListAll(r) ==
    /\ Goto(r, "called", "checking")
    /\ list' = [list EXCEPT ![r] = {budget[id] : id \in BudgetIds} \ {Absent}]
    /\ UNCHANGED <<day, budget, edits, over, excused, books>>

\* One budget: its events are summed when its turn comes.
Check(r) ==
    /\ pc[r] = "checking"
    /\ \E b \in list[r] :
          /\ pc' = [pc EXCEPT ![r] = IF Stops(b, r) THEN "refused" ELSE @]
          /\ list' = [list EXCEPT ![r] = @ \ {b}]
    /\ UNCHANGED <<day, budget, edits, over, excused, books>>

Admit(r) ==
    /\ list[r] = {}
    /\ Goto(r, "checking", "working")
    /\ UNCHANGED <<day, budget, edits, list, over, excused, books>>

-----------------------------------------------------------------------------
(* Model calls and their rows *)

Stage(vs) == UNCHANGED <<day, budget, edits, list, over, excused>> /\ UNCHANGED vs

Charge(r, use) == charged' = [charged EXCEPT ![r] = @ + use.charged]

\* A call of the loop, which the provider charges for.
Asked(r, use) ==
    /\ pc[r] = "working" /\ ~failed[r]
    /\ Len(rows[r]) + missed[r].calls + unseen[r].calls < MaxCalls[r]
    /\ Charge(r, use)

\* The model answers, and the tracker adds its tokens.
Answered(r, use) ==
    /\ Asked(r, use)
    /\ tracker' = [tracker EXCEPT ![r] =
           @ + EstimateCost(Rates[ProviderOf[r]], use)]

\* The row is kept; the charge of a routed call is fetched in the background.
Keep(r, use) ==
    /\ Answered(r, use)
    /\ LET provider == ProviderOf[r]
           call == [cost |-> RowCost(provider, use),
                    charged |-> use.charged,
                    pending |-> provider \in Routed]
       IN  rows' = [rows EXCEPT ![r] = Append(@, call)]
    /\ Stage(<<pc, missed, unseen, failed, sum, late, event>>)

\* The row fails, which is only logged.
Miss(r, use) ==
    /\ Answered(r, use)
    /\ missed' = [missed EXCEPT ![r] =
           [calls |-> @.calls + 1, charged |-> @.charged + use.charged]]
    /\ Stage(<<pc, rows, unseen, failed, sum, late, event>>)

Unseen(r, use) ==
    unseen' = [unseen EXCEPT ![r] =
        [calls |-> @.calls + 1, charged |-> @.charged + use.charged]]

\* The answer reports no usage; or there is none, for wait_for cut the call
\* off or it failed after the provider had worked: that ends the loop.
Silent(r, use) ==
    /\ Asked(r, use)
    /\ Unseen(r, use)
    /\ failed' \in {failed, [failed EXCEPT ![r] = TRUE]}
    /\ Stage(<<pc, rows, tracker, missed, sum, late, event>>)

Read(r) == pc[r] \in {"summed", "closed", "ended"}

\* The charge arrives and replaces the price, while the run works or after.
Enrich(r, i) ==
    /\ rows[r][i].pending
    /\ rows' = [rows EXCEPT ![r][i] =
           [rows[r][i] EXCEPT !.cost = rows[r][i].charged, !.pending = FALSE]]
    /\ late' = [late EXCEPT ![r] =
           IF Read(r) THEN @ + rows[r][i].charged - rows[r][i].cost ELSE @]
    /\ Stage(<<pc, tracker, charged, missed, unseen, failed, sum, event>>)

\* No payload after four attempts, a failed update, or the task is dropped.
GiveUp(r, i) ==
    /\ rows[r][i].pending
    /\ rows' = [rows EXCEPT ![r][i] = [rows[r][i] EXCEPT !.pending = FALSE]]
    /\ Stage(<<pc, tracker, charged, missed, unseen, failed, sum, late, event>>)

-----------------------------------------------------------------------------
(* The end of a run *)

\* record_usage reads the run's rows, or falls back on the tracker.
Summed(r) ==
    IF rows[r] = <<>> THEN tracker[r]
    ELSE Costs(rows[r])

Sum(r) ==
    /\ Goto(r, "working", "summed")
    /\ r \in Chats => ~failed[r]
    /\ sum' = [sum EXCEPT ![r] = Summed(r)]
    /\ Stage(<<rows, tracker, charged, missed, unseen, failed, late, event>>)

\* The cost event is committed under the day of the commit.
Close(r) ==
    /\ Goto(r, "summed", "closed")
    /\ event' = [event EXCEPT ![r] = [cost |-> sum[r], day |-> day]]
    /\ sum' = [sum EXCEPT ![r] = 0]
    /\ Stage(<<rows, tracker, charged, missed, unseen, failed, late>>)

\* record_usage fails, which is only logged; or the chat turn failed, and its
\* event is not even tried.
Unbilled(r) ==
    /\ \/ Goto(r, "summed", "unbilled") /\ UNCHANGED failed
       \/ /\ Goto(r, "working", "unbilled") /\ r \in Chats
          /\ failed' = [failed EXCEPT ![r] = TRUE]
    /\ Stage(<<rows, tracker, charged, missed, unseen, sum, late, event>>)

\* One call more, when the bill is written: a completed run's reflection, the
\* title of a chat.
Afterwards(r, use) ==
    /\ Goto(r, "closed", "ended") \/ Goto(r, "unbilled", "ended")
    /\ ~failed[r]
    /\ Charge(r, use)
    /\ Unseen(r, use)
    /\ Stage(<<rows, tracker, missed, failed, sum, late, event>>)

Running == {"called", "checking", "working", "summed"}

\* The process dies: runs and enrichments are gone, the rows stay.
Crash ==
    /\ \E r \in Runs : pc[r] \in Running
    /\ pc' = [r \in Runs |->
           IF pc[r] \in Running THEN "dead"
           ELSE IF pc[r] \in {"closed", "unbilled"} THEN "ended" ELSE pc[r]]
    /\ rows' = [r \in Runs |->
           [i \in DOMAIN rows[r] |-> [rows[r][i] EXCEPT !.pending = FALSE]]]
    /\ Stage(<<tracker, charged, missed, unseen, failed, sum, late, event>>)

-----------------------------------------------------------------------------
BillInit ==
    /\ day = 0
    /\ budget \in [BudgetIds -> Settings \cup {Absent}]
    /\ edits = 0
    /\ pc = [r \in Runs |-> "idle"]
    /\ list = [r \in Runs |-> {}]
    /\ rows = [r \in Runs |-> <<>>]
    /\ tracker = [r \in Runs |-> 0]
    /\ charged = [r \in Runs |-> 0]
    /\ missed = [r \in Runs |-> [calls |-> 0, charged |-> 0]]
    /\ unseen = [r \in Runs |-> [calls |-> 0, charged |-> 0]]
    /\ failed = [r \in Runs |-> FALSE]
    /\ sum = [r \in Runs |-> 0]
    /\ late = [r \in Runs |-> 0]
    /\ event = [r \in Runs |-> Absent]
    /\ over = [r \in Runs |-> {}]
    /\ excused = [r \in Runs |-> {}]

Step(r) ==
    \/ Call(r) \/ ListAll(r) \/ Check(r) \/ Admit(r)
    \/ \E use \in Answers[ProviderOf[r]] :
          Keep(r, use) \/ Miss(r, use) \/ Silent(r, use) \/ Afterwards(r, use)
    \/ Sum(r) \/ Close(r) \/ Unbilled(r)
    \/ \E i \in DOMAIN rows[r] : Enrich(r, i) \/ GiveUp(r, i)

Operate ==
    \E id \in BudgetIds :
       \/ \E asked \in Settings : Upsert(id, asked)
       \/ Delete(id)

BillNext == (\E r \in Runs : Step(r)) \/ Operate \/ NewDay \/ Crash

BillSpec == BillInit /\ [][BillNext]_billVars

-----------------------------------------------------------------------------
(* Properties *)

Stages == {"idle", "called", "checking", "refused", "working", "summed",
           "closed", "unbilled", "ended", "dead"}

CallRow == [cost : Nat, charged : Nat, pending : BOOLEAN]

BudgetsTyped ==
    /\ day \in 0..MaxDays /\ edits \in 0..MaxEdits
    /\ budget \in [BudgetIds -> Budget \cup {Absent}]
    /\ pc \in [Runs -> Stages]
    /\ list \in [Runs -> SUBSET Budget]
    /\ over \in [Runs -> SUBSET BudgetIds]
    /\ excused \in [Runs -> SUBSET BudgetIds]

BooksTyped ==
    /\ rows \in [Runs -> Seq(CallRow)]
    /\ tracker \in [Runs -> Nat] /\ charged \in [Runs -> Nat]
    /\ missed \in [Runs -> [calls : Nat, charged : Nat]]
    /\ unseen \in [Runs -> [calls : Nat, charged : Nat]]
    /\ failed \in [Runs -> BOOLEAN]
    /\ sum \in [Runs -> Nat] /\ late \in [Runs -> Int]
    /\ event \in [Runs -> [cost : Nat, day : 0..day] \cup {Absent}]

BillTypeOK == BudgetsTyped /\ BooksTyped

\* A run that is called for when a hard stop that covers it is spent does not
\* start, whatever other runs, enrichments and operators do beside its check,
\* unless that budget is edited or a day begins while it is being checked.
SpentMeansRefused ==
    \A r \in Runs \ Chats :
       pc[r] \in {"working", "summed", "closed", "unbilled", "ended"}
          => over[r] \subseteq excused[r]

Outstanding(r) == Charges(rows[r]) - Costs(rows[r])

\* A cost event lacks of what the provider charged only the calls whose rows
\* failed, those whose usage the run never learned (cut off, failed, answered
\* without usage, or made once the bill was written), and the charges that
\* came after the rows were read, or never; a run with a price table lacks
\* nothing of the calls it kept.  A run that kept no row is billed the estimate
\* of its tokens.
BillsAreAccounted ==
    \A r \in Runs : event[r] # Absent =>
       IF rows[r] = <<>> THEN event[r].cost = tracker[r]
       ELSE LET unbilled == missed[r].charged + unseen[r].charged
            IN  /\ event[r].cost + late[r] + Outstanding(r) + unbilled = charged[r]
                /\ Priced(r) => event[r].cost + unbilled = charged[r]
=============================================================================
