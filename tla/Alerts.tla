------------------------------- MODULE Alerts -------------------------------
(***************************************************************************)
(* Notifications: the service that stores them and the four that call it.  *)
(* The grants watcher warns of what is about to expire, the deliverables   *)
(* watcher of new files, a critical audit entry of the edit it records,    *)
(* from inside that edit's session, and a refused gate of its refusal.     *)
(* notify() loads the preferences, which the first call creates, and       *)
(* stores the row, in a session each; it swallows every failure.  SQLite   *)
(* has one writer: while a session holds the write lock, another's insert  *)
(* waits and after five seconds fails.                                     *)
(***************************************************************************)
EXTENDS Integers, Sequences, FiniteSets

CONSTANTS
    IpGrants,     \* internal-network grants
    DataGrants,   \* data-class grants with an expiry
    Freeze,       \* the edit that writes the posture row
    EngineFiles,  \* deliverables the engine writes and then records
    OtherFiles,   \* files that plugins put beside them
    Gates,        \* (agent, code, target) of a refusal
    None,
    MaxEvents     \* bound: requests, files, failures and deaths of the server

Grants == IpGrants \cup DataGrants
Files == EngineFiles \cup OtherFiles

\* An alert's kind and what it is about.  Each grant is made by an edit, which
\* has an incident of its own; a reminder of raw logging is about the posture row
\* as it was last written.
AlertOf(x) ==
    CASE x \in IpGrants -> <<"ip_grant_expiring", x>>
      [] x \in DataGrants -> <<"data_class_grant_expiring", x>>
      [] x \in Files -> <<"download_ready", x>>
      [] x \in Gates -> <<"gate_permission_denied", x>>
RawSince(version) == <<"raw_logging_on", version>>
Incident(x) == <<"incident", x>>

Edits == Grants \cup {Freeze}
Stages == {"load", "make", "insert"}
Excuses == {"off", "fault", "race", "lock", "debounced", "crash"}
Versions == 0..2    \* bound: one freeze, one switching on of raw logging
Watched == {AlertOf(g) : g \in Grants} \cup {RawSince(v) : v \in Versions}
Incidents == {Incident(x) : x \in Edits}
Downloads == {AlertOf(f) : f \in Files}
Refusals == {AlertOf(k) : k \in Gates}
Targets == Watched \cup Incidents \cup Downloads \cup Refusals

\* PreferencesUpdate has no field for the newer kinds: they stay on.
Switchable == {"ip_grant_expiring", "raw_logging_on", "download_ready", "incident"}

\* Who may be in notify(): the two loops, and each edit and refusal.
Watcher == <<"loop", "grants">>
Consumer == <<"loop", "deliverables">>
Callers == {Watcher, Consumer} \cup Incidents \cup Refusals

ASSUME AlertConstants ==
    /\ IpGrants \cap DataGrants = {} /\ EngineFiles \cap OtherFiles = {}
    /\ Grants \cap (Files \cup Gates) = {} /\ Files \cap Gates = {}
    /\ Freeze \notin Grants
    /\ None \notin Edits /\ None \notin [target : Targets, at : Stages]
    /\ MaxEvents \in Nat

VARIABLES
    prefs,    \* whether the preferences row exists, and the kinds it has off
    alerts,   \* rows of notifications: how many of a target in each state
    posture,  \* the posture row: whether it exists, its raw logging, its writes
    grant,    \* where each grant is in its life
    edit,     \* where each edit's request is
    lock,     \* the edit whose open session holds the write lock
    call,     \* the notify() each caller is in
    tick,     \* the watcher's check and what it has still to look at
    file,     \* the files and their rows
    queue,    \* the deliverables watcher's events
    recent,   \* files it saw within the debounce window
    marked,   \* gates told of within their window
    events,   \* how many of these there were
    excused,  \* history: alerts that were lost, and to what
    early     \* history: engine files looked up before their row was there

vars == <<prefs, alerts, posture, grant, edit, lock, call, tick, file, queue,
          recent, marked, events, excused, early>>

store == <<prefs, alerts>>
edits == <<posture, grant, edit, lock>>
files == <<file, queue, recent, early>>

Event == events < MaxEvents /\ events' = events + 1

Excuse(t, why) == excused' = [excused EXCEPT ![t] = @ \cup {why}]

NoRows == [unread |-> 0, read |-> 0, gone |-> 0]

\* Some row of the target; one that is not dismissed.
Told(t) == alerts[t].unread + alerts[t].read + alerts[t].gone > 0
Open(t) == alerts[t].unread + alerts[t].read > 0

-----------------------------------------------------------------------------
(* NotificationService.notify *)

Start(p, t) == call' = [call EXCEPT ![p] = [target |-> t, at |-> "load"]]
Return(p) == call' = [call EXCEPT ![p] = None]
At(p, stage) == call[p] # None /\ call[p].at = stage

\* The caller itself holds the lock its insert waits for.
OwnLock(p) == lock # None /\ p = Incident(lock)

\* The first call finds no row and creates one; later ones read their switch.
LoadPrefs(p) ==
    /\ At(p, "load")
    /\ IF prefs.made /\ call[p].target[1] \in prefs.off
       THEN Return(p) /\ Excuse(call[p].target, "off")
       ELSE /\ call' = [call EXCEPT ![p].at = IF prefs.made THEN "insert" ELSE "make"]
            /\ UNCHANGED excused
    /\ UNCHANGED <<store, edits, tick, files, marked, events>>

\* A first call that takes the row for missing and gives up.
MakePrefs_Drops(p) ==
    /\ At(p, "make")
    /\ lock = None
    /\ prefs' = [prefs EXCEPT !.made = TRUE]
    /\ Return(p)
    /\ UNCHANGED <<alerts, edits, tick, files, marked, events, excused>>

\* Of two first calls the second violates the primary key and is lost.
MakePrefs(p) ==
    /\ At(p, "make")
    /\ lock = None
    /\ IF prefs.made
       THEN Return(p) /\ Excuse(call[p].target, "race") /\ UNCHANGED prefs
       ELSE /\ prefs' = [prefs EXCEPT !.made = TRUE]
            /\ call' = [call EXCEPT ![p].at = "insert"]
            /\ UNCHANGED excused
    /\ UNCHANGED <<alerts, edits, tick, files, marked, events>>

Insert(p) ==
    /\ At(p, "insert")
    /\ lock = None
    /\ alerts' = [alerts EXCEPT ![call[p].target].unread = @ + 1]
    /\ Return(p)
    /\ UNCHANGED <<prefs, edits, tick, files, marked, events, excused>>

\* A statement fails, or times out on the lock; the caller gets None.
NotifyFails(p) ==
    /\ call[p] # None
    /\ \/ /\ Event
          /\ Excuse(call[p].target, "fault")
       \/ /\ lock # None /\ call[p].at # "load"
          /\ Excuse(call[p].target, IF OwnLock(p) THEN "lock" ELSE "fault")
          /\ UNCHANGED events
    /\ Return(p)
    /\ UNCHANGED <<store, edits, tick, files, marked>>

-----------------------------------------------------------------------------
(* GrantsWatcher *)

\* What a check's query returns: active rows that expire within the hour or
\* the day, or did so before, and raw logging that was on for a day.
Due(check) ==
    CASE check = 1 -> {AlertOf(g) : g \in {h \in IpGrants : grant[h] = "expiring"}}
      [] check = 2 -> IF posture.raw = "long" THEN {RawSince(posture.version)} ELSE {}
      [] check = 3 -> {AlertOf(g) : g \in {h \in DataGrants : grant[h] = "expiring"}}
      [] OTHER -> {}

\* A check with something due is the last of its tick.
NextCheck_EarlyReturn ==
    /\ call[Watcher] = None /\ tick.todo = {}
    /\ LET later == {c \in 1..3 : tick.check = 0 /\ Due(c) # {}}
           next == IF later = {} THEN 0 ELSE CHOOSE c \in later : \A d \in later : c <= d
       IN  tick' = [check |-> next, todo |-> Due(next)]
    /\ UNCHANGED <<store, edits, call, files, marked, events, excused>>

\* The checks run in turn, and the loop sleeps after the last; one that finds
\* nothing due is passed over here.
NextCheck ==
    /\ call[Watcher] = None /\ tick.todo = {}
    /\ LET later == {c \in (tick.check + 1)..3 : Due(c) # {}}
           next == IF later = {} THEN 0 ELSE CHOOSE c \in later : \A d \in later : c <= d
       IN  tick' = [check |-> next, todo |-> Due(next)]
    /\ UNCHANGED <<store, edits, call, files, marked, events, excused>>

\* _already_notified asks for unread rows.
AlreadyNotified_Unread(t) == alerts[t].unread > 0

\* A row that is not dismissed counts, read or not.
AlreadyNotified(t) == Open(t)

Ask(t) ==
    /\ call[Watcher] = None /\ t \in tick.todo
    /\ tick' = [tick EXCEPT !.todo = @ \ {t}]
    /\ IF AlreadyNotified(t) THEN UNCHANGED call ELSE Start(Watcher, t)
    /\ UNCHANGED <<store, edits, files, marked, events, excused>>

\* A query that raises ends this tick, with the checks that were to follow.
TickFails ==
    /\ tick.check # 0 /\ call[Watcher] = None
    /\ Event
    /\ tick' = [check |-> 0, todo |-> {}]
    /\ UNCHANGED <<store, edits, call, files, marked, excused>>

-----------------------------------------------------------------------------
(* Critical edits: the incident is told before the edit is committed. *)

\* freeze flushes a posture row it finds missing, and holds the write lock.
OpenEdit(x) ==
    /\ edit[x] = "idle" /\ lock = None /\ Event
    /\ edit' = [edit EXCEPT ![x] = "open"]
    /\ lock' = IF x = Freeze /\ ~posture.made THEN x ELSE None
    /\ Start(Incident(x), Incident(x))
    /\ UNCHANGED <<store, posture, grant, tick, files, marked, excused>>

Unlock(x) == lock' = IF lock = x THEN None ELSE lock

Commit(x) ==
    /\ edit[x] = "open" /\ call[Incident(x)] = None
    /\ lock \in {None, x}
    /\ edit' = [edit EXCEPT ![x] = "done"]
    /\ Unlock(x)
    /\ IF x = Freeze
       THEN /\ posture' = [made |-> TRUE, version |-> posture.version + 1,
                            raw |-> IF posture.raw = "long" THEN "on" ELSE posture.raw]
            /\ UNCHANGED grant
       ELSE grant' = [grant EXCEPT ![x] = "active"] /\ UNCHANGED posture
    /\ UNCHANGED <<store, call, tick, files, marked, events, excused>>

\* Rolled back: the incident, in a session of its own, stays.
CommitFails(x) ==
    /\ edit[x] = "open" /\ call[Incident(x)] = None
    /\ \/ Event
       \/ lock \notin {None, x} /\ UNCHANGED events
    /\ edit' = [edit EXCEPT ![x] = "failed"]
    /\ Unlock(x)
    /\ UNCHANGED <<store, posture, grant, call, tick, files, marked, excused>>

\* Hours pass.
Age(g) ==
    /\ grant[g] = "active"
    /\ grant' = [grant EXCEPT ![g] = "expiring"]
    /\ UNCHANGED <<store, posture, edit, lock, call, tick, files, marked, events, excused>>

Revoke(g) ==
    /\ grant[g] \in {"active", "expiring"} /\ lock = None
    /\ Event
    /\ grant' = [grant EXCEPT ![g] = "revoked"]
    /\ UNCHANGED <<store, posture, edit, lock, call, tick, files, marked, excused>>

\* Raw logging is switched on, which makes the posture row, or a day passes.
RawLogging ==
    /\ \/ /\ lock = None /\ posture.raw = "off" /\ Event
          /\ posture' = [made |-> TRUE, raw |-> "on", version |-> posture.version + 1]
       \/ /\ posture.raw = "on" /\ UNCHANGED events
          /\ posture' = [posture EXCEPT !.raw = "long"]
    /\ UNCHANGED <<store, grant, edit, lock, call, tick, files, marked, excused>>

-----------------------------------------------------------------------------
(* DeliverablesWatcher *)

\* A file is created: the observer queues its name.
Write(f) ==
    /\ Event
    /\ file[f] \in {"none", "gone"}
    /\ file' = [file EXCEPT ![f] = "written"]
    /\ queue' = Append(queue, f)
    /\ UNCHANGED <<store, edits, call, tick, recent, marked, excused, early>>

\* The engine commits the DeliverableRow with the end of the run.
RecordFile(f) ==
    /\ f \in EngineFiles /\ file[f] = "written" /\ lock = None
    /\ file' = [file EXCEPT ![f] = "recorded"]
    /\ UNCHANGED <<store, edits, call, tick, queue, recent, marked, events, excused, early>>

\* A plugin renames its file, perhaps onto another: the observer queues
\* event.src_path, the name that is gone.
MoveFile(f, g) ==
    /\ f \in OtherFiles /\ g \in OtherFiles \ {f}
    /\ file[f] \in {"written", "moved"}
    /\ Event
    /\ file' = [file EXCEPT ![f] = "gone", ![g] = "moved"]
    /\ queue' = Append(queue, f)
    /\ UNCHANGED <<store, edits, call, tick, recent, marked, excused, early>>

RemoveFile(f) ==
    /\ file[f] \in {"written", "moved"} /\ f \in OtherFiles
    /\ Event
    /\ file' = [file EXCEPT ![f] = "gone"]
    /\ UNCHANGED <<store, edits, call, tick, queue, recent, marked, excused, early>>

\* A look-up by the name of the file, where the row has its path.
IsEngineWritten_ByName(f) == FALSE

IsEngineWritten(f) == file[f] = "recorded"

\* One event: debounced, of a vanished file, of a file the engine recorded, or
\* told of.
Consume ==
    /\ call[Consumer] = None /\ queue # <<>>
    /\ queue' = Tail(queue)
    /\ LET f == Head(queue)
       IN  /\ recent' = recent \cup {f}
           /\ IF f \in recent
              THEN Excuse(AlertOf(f), "debounced") /\ UNCHANGED <<call, early>>
              ELSE IF file[f] = "gone" \/ IsEngineWritten(f)
              THEN UNCHANGED <<call, excused, early>>
              ELSE /\ Start(Consumer, AlertOf(f))
                   /\ early' = early \cup (IF file[f] = "recorded" THEN {} ELSE {f})
                   /\ UNCHANGED excused
    /\ UNCHANGED <<store, edits, tick, file, marked, events>>

\* The look-up fails and the file is taken for one of a plugin.
LookupFails ==
    /\ call[Consumer] = None /\ queue # <<>>
    /\ Head(queue) \notin recent /\ file[Head(queue)] # "gone"
    /\ Event
    /\ queue' = Tail(queue)
    /\ recent' = recent \cup {Head(queue)}
    /\ early' = early \cup {Head(queue)}
    /\ Start(Consumer, AlertOf(Head(queue)))
    /\ UNCHANGED <<store, edits, tick, file, marked, excused>>

\* The windows of two seconds and of five minutes pass.
WindowsPass ==
    /\ recent \cup marked # {}
    /\ recent' = {} /\ marked' = {}
    /\ UNCHANGED <<store, edits, call, tick, file, queue, events, excused, early>>

-----------------------------------------------------------------------------
(* notify_gate_failure: the window starts before the alert is stored. *)

Refuse(k) ==
    LET t == AlertOf(k)
    IN  /\ call[t] = None /\ k \notin marked
        /\ Event
        /\ marked' = marked \cup {k}
        /\ Start(t, t)
        /\ UNCHANGED <<store, edits, tick, files, excused>>

-----------------------------------------------------------------------------
(* The operator *)

Shift(t, unread, read, gone) ==
    alerts' = [alerts EXCEPT ![t] = [unread |-> unread, read |-> read, gone |-> gone]]

Clear(t) ==
    LET row == alerts[t]
    IN  /\ Event
        /\ lock = None
        /\ \/ row.unread > 0 /\ Shift(t, row.unread - 1, row.read + 1, row.gone)
           \/ row.unread > 0 /\ Shift(t, row.unread - 1, row.read, row.gone + 1)
           \/ row.read > 0 /\ Shift(t, row.unread, row.read - 1, row.gone + 1)
        /\ UNCHANGED <<prefs, edits, call, tick, files, marked, excused>>

Toggle(kind) ==
    /\ Event
    /\ lock = None
    /\ prefs' = [made |-> TRUE,
                 off |-> (prefs.off \cup {kind}) \ (prefs.off \cap {kind})]
    /\ UNCHANGED <<alerts, edits, call, tick, files, marked, excused>>

\* The server dies and starts again: sessions, calls and windows are gone.
Crash ==
    /\ Event
    /\ edit' = [x \in Edits |-> IF edit[x] = "open" THEN "failed" ELSE edit[x]]
    /\ lock' = None
    /\ call' = [p \in Callers |-> None]
    /\ tick' = [check |-> 0, todo |-> {}]
    /\ queue' = <<>> /\ recent' = {} /\ marked' = {}
    /\ excused' = [t \in Targets |->
           IF \/ \E p \in Callers : call[p] # None /\ call[p].target = t
              \/ \E i \in DOMAIN queue : AlertOf(queue[i]) = t
           THEN excused[t] \cup {"crash"} ELSE excused[t]]
    /\ UNCHANGED <<store, posture, grant, file, early>>

-----------------------------------------------------------------------------
\* A new database, or one where the grants were made before.
Init ==
    \E old \in {{}, Grants} :
       /\ prefs = [made |-> old # {}, off |-> {}]
       /\ alerts = [t \in Targets |->
              IF t \in {Incident(g) : g \in old} THEN [NoRows EXCEPT !.gone = 1]
              ELSE NoRows]
       /\ posture = [made |-> old # {}, raw |-> "off", version |-> 0]
       /\ grant = [g \in Grants |-> IF g \in old THEN "active" ELSE "none"]
       /\ edit = [x \in Edits |-> IF x \in old THEN "done" ELSE "idle"]
       /\ lock = None
       /\ call = [p \in Callers |-> None]
       /\ tick = [check |-> 0, todo |-> {}]
       /\ file = [f \in Files |-> "none"]
       /\ queue = <<>> /\ recent = {} /\ marked = {}
       /\ events = 0
       /\ excused = [t \in Targets |-> {}]
       /\ early = {}

Notify(p) == LoadPrefs(p) \/ MakePrefs(p) \/ Insert(p) \/ NotifyFails(p)
Watch == NextCheck \/ \E t \in Watched : Ask(t)
Deliver(f) ==
    Write(f) \/ RecordFile(f) \/ RemoveFile(f) \/ \E g \in Files : MoveFile(f, g)
Request(x) == OpenEdit(x) \/ Commit(x) \/ CommitFails(x)

Next ==
    \/ \E p \in Callers : Notify(p)
    \/ Watch \/ TickFails
    \/ \E x \in Edits : Request(x)
    \/ \E g \in Grants : Age(g) \/ Revoke(g)
    \/ RawLogging
    \/ \E f \in Files : Deliver(f)
    \/ Consume \/ LookupFails \/ WindowsPass
    \/ \E k \in Gates : Refuse(k)
    \/ \E t \in Targets : Clear(t)
    \/ \E kind \in Switchable : Toggle(kind)
    \/ Crash

\* The loops and the requests under way run on; nothing else is due.
Fairness ==
    /\ WF_vars(Watch)
    /\ WF_vars(Notify(Watcher))
    /\ \A x \in Edits : WF_vars(Notify(Incident(x))) /\ WF_vars(Commit(x) \/ CommitFails(x))

Spec == Init /\ [][Next]_vars /\ Fairness

-----------------------------------------------------------------------------
(* Properties *)

TypeOK ==
    /\ prefs \in [made : BOOLEAN, off : SUBSET Switchable]
    /\ alerts \in [Targets -> [unread : Nat, read : Nat, gone : Nat]]
    /\ posture \in [made : BOOLEAN, raw : {"off", "on", "long"}, version : Versions]
    /\ grant \in [Grants -> {"none", "active", "expiring", "revoked"}]
    /\ edit \in [Edits -> {"idle", "open", "done", "failed"}]
    /\ lock \in {None, Freeze}
    /\ call \in [Callers -> {None} \cup [target : Targets, at : Stages]]
    /\ tick \in [check : 0..3, todo : SUBSET Watched]
    /\ file \in [Files -> {"none", "written", "moved", "recorded", "gone"}]
    /\ queue \in Seq(Files) /\ recent \subseteq Files /\ early \subseteq Files
    /\ marked \subseteq Gates
    /\ excused \in [Targets -> SUBSET Excuses]
    /\ events \in 0..MaxEvents

\* The operator has one open alert of a grant or of raw logging at most, read
\* or not, over any ticks, failures and restarts of the watcher.
OneOpenAlert == \A t \in Watched : alerts[t].unread + alerts[t].read <= 1

\* A critical edit that took effect has its incident, although that is told in
\* another session and before the commit; it is lost only to the kind being
\* off, to a fault, to a race of first calls for the preferences row, or to the
\* lock of the very edit that created the posture row.
IncidentsAreTold ==
    \A x \in Edits : edit[x] = "done" =>
       \/ Told(Incident(x))
       \/ excused[Incident(x)] \cap {"off", "fault", "race"} # {}
       \/ x = Freeze /\ "lock" \in excused[Incident(x)]

\* A file is announced exactly if it is not the engine's: an engine file only
\* if the watcher looked before its row was committed, or could not look; and
\* another file always, once its event has been taken, if it was created under
\* its name and is still there, unless the alert was debounced, switched off or
\* lost.  A file that was renamed to its name is not announced: its event has
\* the name it no longer has.
EngineFilesAreQuiet ==
    /\ \A f \in EngineFiles : Told(AlertOf(f)) => f \in early
    /\ \A f \in OtherFiles :
          /\ file[f] = "written" /\ f \in recent
          /\ call[Consumer] = None
          /\ \A i \in DOMAIN queue : queue[i] # f
          => Told(AlertOf(f)) \/ excused[AlertOf(f)] # {}

\* Again and again there is no grant about to expire that the operator has not
\* been told of: no failed check, lost alert or restart keeps the next tick from
\* trying again, and none of the three checks starves another.
ExpiringIsTold ==
    []<>(\A g \in Grants :
            grant[g] = "expiring" =>
               Open(AlertOf(g)) \/ AlertOf(g)[1] \in prefs.off)

-----------------------------------------------------------------------------
(* The inductive invariant behind the theorems of Alerts_proofs. *)

\* Who tells of what; the watcher only of what has no open alert.
Calls == \A p \in Callers : call[p] # None =>
    /\ p = Watcher => call[p].target \in Watched /\ ~Open(call[p].target)
    /\ p = Consumer => call[p].target \in Downloads
    /\ p \in Incidents \cup Refusals => call[p].target = p

\* The posture row is written once by the freeze, once by raw logging.
Written ==
    posture.version <= (IF edit[Freeze] = "done" THEN 1 ELSE 0)
                       + (IF posture.raw = "off" THEN 0 ELSE 1)

\* What an edit's incident was lost to.
Lost(x) == \/ excused[Incident(x)] \cap {"off", "fault", "race"} # {}
           \/ x = Freeze /\ "lock" \in excused[Incident(x)]

\* An open edit is told of, is being told of, or was not for a reason.
Reported == \A x \in Edits :
    /\ edit[x] # "open" => call[Incident(x)] = None
    /\ edit[x] \in {"open", "done"} =>
           Told(Incident(x)) \/ Lost(x) \/ call[Incident(x)] # None

Telling(f) == call[Consumer] # None /\ call[Consumer].target = AlertOf(f)

\* The same of files, from the queue to the alert.
Announced ==
    /\ \A i \in DOMAIN queue : file[queue[i]] # "none"
    /\ \A f \in OtherFiles : file[f] # "recorded"
    /\ \A f \in EngineFiles : Told(AlertOf(f)) \/ Telling(f) => f \in early
    /\ \A f \in OtherFiles :
          /\ file[f] = "written" /\ f \in recent
          /\ \A i \in DOMAIN queue : queue[i] # f
          => Told(AlertOf(f)) \/ excused[AlertOf(f)] # {} \/ Telling(f)

IInv == TypeOK /\ Calls /\ OneOpenAlert /\ Written /\ Reported /\ Announced
=============================================================================
