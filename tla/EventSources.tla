---------------------------- MODULE EventSources ----------------------------
(***************************************************************************)
(* The event sources of the scheduler: the Telegram bot, the HTTP poller   *)
(* and the file watcher, each a detached asyncio task of the server, from  *)
(* what happens outside to execute_task_by_name.                           *)
(*                                                                         *)
(* A source keeps what it has seen in memory only; what is left to do      *)
(* after a restart is decided by the outside: Telegram repeats updates it  *)
(* has no confirmation for, a URL lists whatever it lists, and a change of *)
(* a file that nobody watched is not seen.  A source runs without          *)
(* interruption between two awaits.                                        *)
(***************************************************************************)
EXTENDS Naturals, SequencesExt, FiniteSets

CONSTANTS
    Rows,        \* keys of the rows a URL may list
    BatchCap,    \* the literal 50: rows one fire is told of
    PendingCap,  \* the literal 500: changes kept between two fires
    MaxEvents,   \* bound: things that happen outside
    MaxCrashes   \* bound: deaths of the server process

ASSUME EventAssumption ==
    /\ IsFiniteSet(Rows)
    /\ BatchCap \in Nat \ {0} /\ PendingCap \in Nat \ {0}
    /\ MaxEvents \in Nat /\ MaxCrashes \in Nat

Sources == {"bot", "poller", "watcher"}

\* What an update asks for: a run (chat, allowed /run, custom command), an
\* answer only (a builtin, a refused or unknown command), the end of a run,
\* an acknowledged button, or nothing (another chat, user or mode).
Kinds == {"run", "reply", "cancel", "press", "foreign"}

VARIABLES
    up, crashes, events,
    source,   \* per source: on, dead (its task raised or returned), or off
    inbox,    \* updates Telegram has received, in order
    acked,    \* of these, confirmed by an offset
    last,     \* last_update_id
    batch,    \* updates of the answer still to be handled
    work,     \* handlers of updates, those of one answer in some order
    listing,  \* rows the URL lists
    seen, first, sent,   \* the poller's set, first_pass, and the rows it is firing
    told,     \* per row: fires that were told of it
    looked,   \* the poller has made a pass since it was started
    late,     \* rows that were listed first after that pass
    dropped,  \* rows of an overfull or a failed fire
    pending,  \* changes the watcher has queued
    busy      \* the watcher awaits its fire

process == <<up, crashes>>
bot     == <<inbox, acked, last, batch>>
poller  == <<listing, seen, first, sent, told, looked, late, dropped>>
watcher == <<pending, busy>>
feedVars == <<process, events, source, bot, work, poller, watcher>>

Runs  == {"none", "running", "stopped", "completed"}
Steps == {"new", "running", "cancelling", "done"}

FeedTypeOK ==
    /\ up \in BOOLEAN /\ crashes \in 0..MaxCrashes /\ events \in 0..MaxEvents
    /\ source \in [Sources -> {"off", "on", "dead"}]
    /\ inbox \in Seq(Kinds) /\ Len(inbox) <= MaxEvents
    /\ acked \in 0..MaxEvents /\ last \in 0..MaxEvents
    /\ batch \in Seq(1..MaxEvents)
    /\ work \in Seq([update : 1..MaxEvents, step : Steps, run : Runs])
    /\ listing \subseteq Rows /\ seen \subseteq Rows /\ sent \subseteq Rows
    /\ first \in BOOLEAN /\ looked \in BOOLEAN
    /\ told \in [Rows -> 0..MaxCrashes + 1]
    /\ late \subseteq Rows /\ dropped \subseteq Rows
    /\ pending \in 0..PendingCap /\ busy \in BOOLEAN

FeedInit ==
    /\ up = TRUE /\ crashes = 0 /\ events = 0
    /\ source = [s \in Sources |-> "on"]
    /\ inbox = <<>> /\ acked = 0 /\ last = 0 /\ batch = <<>> /\ work = <<>>
    /\ listing = {} /\ seen = {} /\ first = TRUE /\ sent = {}
    /\ told = [r \in Rows |-> 0] /\ looked = FALSE /\ late = {} /\ dropped = {}
    /\ pending = 0 /\ busy = FALSE

On(s) == up /\ source[s] = "on"

-----------------------------------------------------------------------------
(* Outside.                                                                *)

Happens == events < MaxEvents /\ events' = events + 1

Message(kind) ==
    /\ Happens
    /\ inbox' = Append(inbox, kind)
    /\ UNCHANGED <<process, source, acked, last, batch, work, poller, watcher>>

ListRow(r) ==
    /\ Happens
    /\ r \notin listing
    /\ listing' = listing \cup {r}
    /\ late' = IF On("poller") /\ looked /\ r \notin seen THEN late \cup {r} ELSE late
    /\ UNCHANGED <<process, source, bot, work, seen, first, sent, told, looked, dropped, watcher>>

UnlistRow(r) ==
    /\ Happens
    /\ r \in listing
    /\ listing' = listing \ {r}
    /\ late' = late \ ({r} \ seen)
    /\ UNCHANGED <<process, source, bot, work, seen, first, sent, told, looked, dropped, watcher>>

\* watchdog calls the handler in its thread; the loop queues the path, unless
\* the queue is full.
FileChanges ==
    /\ Happens
    /\ pending' = IF On("watcher") /\ pending < PendingCap THEN pending + 1 ELSE pending
    /\ UNCHANGED <<process, source, bot, work, poller, busy>>

-----------------------------------------------------------------------------
(* Stop and start.                                                         *)

\* stop_event_source: the source is cancelled at an await; the handlers of
\* updates are tasks of their own and go on.
Stop(s) ==
    /\ On(s)
    /\ source' = [source EXCEPT ![s] = "off"]
    /\ UNCHANGED <<process, events, bot, work, poller, watcher>>

\* The token is missing, the URL is denied, the path does not exist; or an
\* answer is not of the expected shape, which nothing catches.
Dies(s) ==
    /\ On(s)
    /\ s = "bot" => batch = <<>>
    /\ s = "poller" => sent = {}
    /\ s = "watcher" => pending = 0 /\ ~busy
    /\ source' = [source EXCEPT ![s] = "dead"]
    /\ UNCHANGED <<process, events, bot, work, poller, watcher>>

-----------------------------------------------------------------------------
(* The Telegram bot.                                                       *)

\* Mutant: the offset is the last update itself.
Offset_Last == IF last = 0 THEN acked + 1 ELSE last

\* The first update the bot asks for; Telegram forgets those before it.
Offset == IF last = 0 THEN acked + 1 ELSE last + 1

Rest(q, n) == SubSeq(q, n + 1, Len(q))

\* The loop over an answer q: up to its first button, whose acknowledgement is
\* awaited, messages are routed and get a task of their own.
Handle(q) ==
    LET presses == {i \in 1..Len(q) : inbox[q[i]] = "press"}
        n == IF presses = {} THEN Len(q) ELSE CHOOSE i \in presses : \A j \in presses : i <= j
        mine == SetToSeq({q[i] : i \in {j \in 1..n : inbox[q[j]] \notin {"press", "foreign"}}})
    IN  /\ last' = IF n = 0 THEN last ELSE q[n]
        /\ batch' = Rest(q, n)
        /\ work' = work \o [i \in 1..Len(mine) |->
                               [update |-> mine[i], step |-> "new", run |-> "none"]]

\* Mutant: the loop waits for the handlers it started.
Poll_InTurn ==
    /\ On("bot") /\ batch = <<>>
    /\ \A h \in DOMAIN work : work[h].step = "done"
    /\ acked' = Offset - 1
    /\ LET q == [i \in 1..(Len(inbox) - acked') |-> acked' + i]
       IN Handle(q)
    /\ UNCHANGED <<process, events, source, inbox, poller, watcher>>

\* getUpdates confirms what is before the offset, even when its answer is lost.
Poll ==
    /\ On("bot") /\ batch = <<>>
    /\ acked' = Offset - 1
    /\ LET q == [i \in 1..(Len(inbox) - acked') |-> acked' + i]
       IN Handle(q)
    /\ UNCHANGED <<process, events, source, inbox, poller, watcher>>

PollLost ==
    /\ On("bot") /\ batch = <<>>
    /\ acked' = Offset - 1
    /\ UNCHANGED <<process, events, source, inbox, last, batch, work, poller, watcher>>

\* The button is acknowledged, or the call failed: on with the rest.
Pressed ==
    /\ On("bot") /\ batch # <<>>
    /\ Handle(batch)
    /\ UNCHANGED <<process, events, source, inbox, acked, poller, watcher>>

\* Moves of the handler h; it is gone with the process.
Works(h, from, to) ==
    /\ up /\ h \in DOMAIN work /\ work[h].step = from
    /\ work' = [work EXCEPT ![h] = to]
    /\ UNCHANGED <<process, events, source, bot, poller, watcher>>

Reply(h) ==
    /\ h \in DOMAIN work /\ inbox[work[h].update] = "reply"
    /\ Works(h, "new", [work[h] EXCEPT !.step = "done"])

\* Placeholder sent or not, on_fire is called; the run opens its row, unless
\* execute_task_by_name drops it.
Fire(h, run) ==
    /\ h \in DOMAIN work /\ inbox[work[h].update] = "run"
    /\ Works(h, "new", [work[h] EXCEPT !.step = "running", !.run = run])

\* The engine closes the row whatever it holds by now.
Finish(h) ==
    /\ h \in DOMAIN work
    /\ Works(h, "running", [work[h] EXCEPT !.step = "done",
                              !.run = IF @ = "none" THEN @ ELSE "completed"])

\* /cancel reads the row of a run ...
CancelRead(h) ==
    /\ h \in DOMAIN work /\ inbox[work[h].update] = "cancel"
    /\ \/ /\ \E g \in DOMAIN work : work[g].run = "running"
          /\ Works(h, "new", [work[h] EXCEPT !.step = "cancelling"])
       \/ Works(h, "new", [work[h] EXCEPT !.step = "done"])

\* ... and writes it; nobody tells the engine.
CancelWrite(h, g) ==
    /\ up /\ h \in DOMAIN work /\ g \in DOMAIN work
    /\ work[h].step = "cancelling" /\ work[g].run # "none"
    /\ work' = [work EXCEPT ![h].step = "done", ![g].run = "stopped"]
    /\ UNCHANGED <<process, events, source, bot, poller, watcher>>

-----------------------------------------------------------------------------
(* The HTTP poller.                                                        *)

\* Mutant: the first pass ends with the first row.
FirstPass_UntilRows == listing = {} /\ first

\* What first_pass is after a pass.
FirstPass == FALSE

\* Every listed row is seen; those of the first pass are not news, and a fire
\* is told of no more than BatchCap.
Fetch(batched) ==
    /\ On("poller") /\ sent = {}
    /\ LET news == IF first THEN {} ELSE listing \ seen
       IN /\ batched \subseteq news
          /\ Cardinality(batched) = IF Cardinality(news) < BatchCap
                                    THEN Cardinality(news) ELSE BatchCap
          /\ dropped' = dropped \cup (news \ batched)
    /\ sent' = batched
    /\ seen' = seen \cup listing
    /\ first' = (first /\ FirstPass)
    /\ looked' = TRUE
    /\ UNCHANGED <<process, events, source, bot, work, listing, told, late, watcher>>

\* on_fire is awaited; the poller neither retries a fire that raised nor
\* forgets its rows.
Tell(fails) ==
    /\ On("poller") /\ sent # {}
    /\ told' = IF fails THEN told
               ELSE [r \in Rows |-> IF r \in sent THEN told[r] + 1 ELSE told[r]]
    /\ dropped' = IF fails THEN dropped \cup sent ELSE dropped
    /\ sent' = {}
    /\ UNCHANGED <<process, events, source, bot, work, listing, seen, first, looked, late, watcher>>

-----------------------------------------------------------------------------
(* The file watcher.                                                       *)

\* One fire for all that is pending; what changes meanwhile waits.
Burst ==
    /\ On("watcher") /\ pending > 0 /\ ~busy
    /\ pending' = 0 /\ busy' = TRUE
    /\ UNCHANGED <<process, events, source, bot, work, poller>>

\* The fire returns; one that raises ends the watcher.
BurstEnds(fails) ==
    /\ On("watcher") /\ busy
    /\ busy' = FALSE
    /\ source' = IF fails THEN [source EXCEPT !["watcher"] = "dead"] ELSE source
    /\ UNCHANGED <<process, events, bot, work, poller, pending>>

-----------------------------------------------------------------------------
Crash ==
    /\ up /\ crashes < MaxCrashes
    /\ up' = FALSE /\ crashes' = crashes + 1
    /\ work' = [h \in DOMAIN work |-> [work[h] EXCEPT !.step = "done"]]
    /\ UNCHANGED <<events, source, bot, poller, watcher>>

\* recover() starts a source for every event task that is not stopped, with
\* nothing in its memory.
StartUp ==
    /\ ~up
    /\ up' = TRUE
    /\ source' = [s \in Sources |-> IF source[s] = "off" THEN "off" ELSE "on"]
    /\ last' = 0 /\ batch' = <<>>
    /\ seen' = {} /\ first' = TRUE /\ sent' = {} /\ looked' = FALSE /\ late' = {} /\ dropped' = {}
    /\ pending' = 0 /\ busy' = FALSE
    /\ UNCHANGED <<crashes, events, inbox, acked, work, listing, told>>

Handler(h) == Reply(h) \/ Finish(h) \/ CancelRead(h)
              \/ \E run \in {"none", "running"} : Fire(h, run)
              \/ \E g \in DOMAIN work : CancelWrite(h, g)

Passes == \E batched \in SUBSET Rows : Fetch(batched)

FeedNext ==
    \/ \E kind \in Kinds : Message(kind)
    \/ \E r \in Rows : ListRow(r) \/ UnlistRow(r)
    \/ FileChanges
    \/ \E s \in Sources : Stop(s) \/ Dies(s)
    \/ Poll \/ PollLost \/ Pressed
    \/ \E h \in DOMAIN work : Handler(h)
    \/ Passes
    \/ \E fails \in BOOLEAN : Tell(fails) \/ BurstEnds(fails)
    \/ Burst
    \/ Crash \/ StartUp

\* The loops go round: a request that fails is made again, and eventually one
\* is answered.  Nothing is assumed of the operator or of the outside.
FeedFairness ==
    /\ WF_feedVars(Poll) /\ WF_feedVars(Pressed) /\ WF_feedVars(Passes) /\ WF_feedVars(Burst)
    /\ WF_feedVars(\E fails \in BOOLEAN : Tell(fails))
    /\ WF_feedVars(\E fails \in BOOLEAN : BurstEnds(fails))

FeedSpec == FeedInit /\ [][FeedNext]_feedVars /\ FeedFairness

-----------------------------------------------------------------------------
\* While a source lives it takes each update, and tells of each row, at most
\* once: what happened twice was repeated over a restart of the server.  The
\* offset and the seen set are all there is against a second run.
OncePerLife ==
    /\ \A u \in 1..Len(inbox) :
           Cardinality({h \in DOMAIN work : work[h].update = u}) <= crashes + 1
    /\ \A r \in Rows : told[r] <= crashes + 1

\* A row that appeared after the poller's first pass, and that it has seen, was
\* passed on, unless its fire was overfull or failed.
NewRowsAreTold ==
    \A r \in seen \cap late : r \in sent \/ r \in dropped \/ told[r] > 0

\* What a source can see it takes up, as long as it runs: an update is handled,
\* a listed row is seen, a change leaves the queue; no loop waits for ever.
EverySourceGoesOn ==
    /\ \A u \in 1..MaxEvents :
           (u <= Len(inbox) /\ acked < u) ~> (acked >= u \/ last >= u \/ ~On("bot"))
    /\ \A r \in Rows :
           (r \in listing) ~> (r \in seen \/ r \notin listing \/ ~On("poller"))
    /\ (pending > 0) ~> (pending = 0 \/ ~On("watcher"))
=============================================================================
