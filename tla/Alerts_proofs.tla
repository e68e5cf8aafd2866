---------------------------- MODULE Alerts_proofs -----------------------------
(***************************************************************************)
(* Theorems about Alerts, for any grants, files, gates and bound.  The     *)
(* properties are about rows; what makes them hold is in the notify() each *)
(* caller is in, so the steps of notify() come first, and each other step  *)
(* is shown to disturb one part of the invariant at most.                  *)
(***************************************************************************)
EXTENDS Alerts, TLAPS

Row  == [unread : Nat, read : Nat, gone : Nat]
Doing == [target : Targets, at : Stages]

-----------------------------------------------------------------------------
(* Names.                                                                  *)

LEMMA AlertNames ==
  /\ \A g \in IpGrants : AlertOf(g) = <<"ip_grant_expiring", g>>
  /\ \A g \in DataGrants : AlertOf(g) = <<"data_class_grant_expiring", g>>
  /\ \A f \in Files : AlertOf(f) = <<"download_ready", f>>
  /\ \A k \in Gates : AlertOf(k) = <<"gate_permission_denied", k>>
BY AlertConstants DEF AlertOf, Grants

LEMMA Kinds ==
  /\ \A t \in Watched : t[1] \in {"ip_grant_expiring", "data_class_grant_expiring", "raw_logging_on"}
  /\ \A t \in Incidents : t[1] = "incident"
  /\ \A t \in Downloads : t[1] = "download_ready"
  /\ \A t \in Refusals : t[1] = "gate_permission_denied"
  /\ Watcher[1] = "loop" /\ Consumer[1] = "loop" /\ Watcher # Consumer
BY AlertNames DEF Watched, Incidents, Downloads, Refusals, Incident, RawSince, Watcher, Consumer, Grants

LEMMA Apart ==
  /\ Watched \cap (Incidents \cup Downloads \cup Refusals) = {}
  /\ Incidents \cap (Downloads \cup Refusals) = {} /\ Downloads \cap Refusals = {}
  /\ Watcher \notin Incidents \cup Refusals /\ Consumer \notin Incidents \cup Refusals
  /\ Watcher # Consumer
BY Kinds

LEMMA Members ==
  /\ \A x \in Edits : Incident(x) \in Incidents
  /\ \A f \in Files : AlertOf(f) \in Downloads
  /\ \A k \in Gates : AlertOf(k) \in Refusals
  /\ Incidents \cup Downloads \cup Refusals \cup Watched \subseteq Targets
  /\ {Watcher, Consumer} \cup Incidents \cup Refusals = Callers
BY DEF Incidents, Downloads, Refusals, Watched, Targets, Callers

LEMMA OneToOne ==
  /\ \A x, y \in Edits : Incident(x) = Incident(y) => x = y
  /\ \A f, g \in Files : AlertOf(f) = AlertOf(g) => f = g
BY AlertNames DEF Incident

LEMMA NoneApart == None \notin Doing /\ None \notin Edits /\ None # Freeze
BY AlertConstants DEF Doing, Edits

-----------------------------------------------------------------------------
(* What stays when what it is about stays.                                 *)

LEMMA CallsKept ==
  ASSUME Calls, TypeOK, UNCHANGED call, \A t \in Watched : Open(t)' => Open(t)
  PROVE  Calls'
BY DEF Calls

LEMMA ReportedKept ==
  ASSUME Reported, UNCHANGED <<edit, call>>,
         \A x \in Edits : /\ Told(Incident(x)) => Told(Incident(x))'
                          /\ Lost(x) => Lost(x)'
  PROVE  Reported'
BY DEF Reported

LEMMA RowsKept ==
  ASSUME UNCHANGED alerts
  PROVE  \A t : (Told(t)' <=> Told(t)) /\ (Open(t)' <=> Open(t))
BY DEF Told, Open

LEMMA LostKept ==
  ASSUME UNCHANGED excused
  PROVE  \A x : Lost(x)' <=> Lost(x)
BY DEF Lost

\* A step of the watcher or the operators' settings.
LEMMA QuietStep ==
  ASSUME IInv, UNCHANGED <<alerts, edit, posture, lock, call, file, queue, recent, excused, early>>,
         prefs' \in [made : BOOLEAN, off : SUBSET Switchable],
         grant' \in [Grants -> {"none", "active", "expiring", "revoked"}],
         tick' \in [check : 0..3, todo : SUBSET Watched],
         marked' \subseteq Gates, events' \in 0..MaxEvents
  PROVE  IInv'
<1>1. TypeOK'
  BY DEF IInv, TypeOK
<1>2. Calls' /\ Reported'
  BY CallsKept, ReportedKept, RowsKept, LostKept DEF IInv
<1>3. OneOpenAlert' /\ Written'
  BY DEF IInv, OneOpenAlert, Written
<1>4. Announced'
  BY RowsKept DEF IInv, Announced, Telling
<1> QED
  BY <1>1, <1>2, <1>3, <1>4 DEF IInv

-----------------------------------------------------------------------------
(* notify().                                                               *)

\* A call moves on to its next stage.
LEMMA CallMoves ==
  ASSUME IInv, NEW p \in Callers, NEW s \in Stages, call[p] # None,
         call' = [call EXCEPT ![p] = [target |-> call[p].target, at |-> s]],
         prefs' \in [made : BOOLEAN, off : SUBSET Switchable],
         UNCHANGED <<alerts, posture, grant, edit, lock, tick, file, queue, recent, early,
                     marked, excused>>,
         events' \in 0..MaxEvents
  PROVE  IInv'
<1>1. call[p] \in Doing /\ call[p].target \in Targets
  BY DEF IInv, TypeOK, Doing
<1>2. [target |-> call[p].target, at |-> s] \in Doing
  BY <1>1 DEF Doing
<1>3. /\ call' \in [Callers -> {None} \cup Doing]
      /\ \A q \in Callers : (call'[q] = None <=> call[q] = None)
                            /\ (call[q] # None => call'[q].target = call[q].target)
  BY <1>1, <1>2, NoneApart DEF IInv, TypeOK, Doing
<1>4. TypeOK'
  BY <1>3 DEF IInv, TypeOK, Doing
<1>5. Calls'
  BY <1>3, RowsKept DEF IInv, Calls
<1>6. OneOpenAlert' /\ Written'
  BY DEF IInv, OneOpenAlert, Written
<1>7. Reported'
  <2>1. \A x \in Edits : Incident(x) \in Callers
    BY Members
  <2> QED
    BY <1>3, <2>1, RowsKept, LostKept DEF IInv, Reported
<1>8. Announced'
  <2>1. \A f : Telling(f)' <=> Telling(f)
    BY <1>3, Members DEF Telling
  <2> QED
    BY <2>1, RowsKept DEF IInv, Announced
<1> QED
  BY <1>4, <1>5, <1>6, <1>7, <1>8 DEF IInv

\* A call ends without a row, and why is noted.
LEMMA CallFails ==
  ASSUME IInv, NEW p \in Callers, call[p] # None, Return(p),
         NEW why \in {"off", "race", "fault", "lock"}, Excuse(call[p].target, why),
         why = "lock" => p = Incident(Freeze),
         prefs' \in [made : BOOLEAN, off : SUBSET Switchable],
         UNCHANGED <<alerts, posture, grant, edit, lock, tick, file, queue, recent, early, marked>>,
         events' \in 0..MaxEvents
  PROVE  IInv'
<1>1. PICK t \in Targets : t = call[p].target
  BY DEF IInv, TypeOK
<1>2. /\ call' \in [Callers -> {None} \cup Doing] /\ call'[p] = None
      /\ \A q \in Callers : q # p => call'[q] = call[q]
  BY DEF IInv, TypeOK, Doing, Return
<1>3. /\ excused' \in [Targets -> SUBSET Excuses] /\ why \in excused'[t]
      /\ \A u \in Targets : excused[u] \subseteq excused'[u]
  BY <1>1 DEF IInv, TypeOK, Excuse, Excuses
<1>4. TypeOK'
  BY <1>2, <1>3 DEF IInv, TypeOK, Doing
<1>5. Calls'
  BY <1>2, RowsKept DEF IInv, Calls
<1>6. OneOpenAlert' /\ Written'
  BY DEF IInv, OneOpenAlert, Written
<1>7. Reported'
  <2> SUFFICES ASSUME NEW x \in Edits
               PROVE  /\ edit[x] # "open" => call'[Incident(x)] = None
                      /\ edit[x] \in {"open", "done"} =>
                           Told(Incident(x))' \/ Lost(x)' \/ call'[Incident(x)] # None
    BY DEF Reported
  <2>1. Incident(x) \in Callers /\ Incident(x) \in Targets /\ Incident(x) \in Incidents
    BY Members
  <2>2. Lost(x) => Lost(x)'
    BY <1>3, <2>1 DEF Lost
  <2>3. CASE p = Incident(x)
    <3>1. t = Incident(x)
      BY <1>1, <2>1, <2>3 DEF IInv, Calls
    <3>2. why = "lock" => x = Freeze
      BY <2>3, OneToOne DEF Edits
    <3>3. Lost(x)'
      BY <1>3, <3>1, <3>2 DEF Lost
    <3> QED
      BY <1>2, <2>3, <3>3
  <2>4. CASE p # Incident(x)
    BY <1>2, <2>1, <2>2, <2>4, RowsKept DEF IInv, Reported
  <2> QED
    BY <2>3, <2>4
<1>8. Announced'
  <2>1. \A f \in Files : Telling(f)' => Telling(f)
    BY <1>2, Members DEF Telling
  <2>2. \A f \in Files : Telling(f) => Telling(f)' \/ excused'[AlertOf(f)] # {}
    BY <1>1, <1>2, <1>3, Members DEF Telling
  <2>3. \A f \in Files : excused[AlertOf(f)] # {} => excused'[AlertOf(f)] # {}
    BY <1>3, Members
  <2> QED
    BY <2>1, <2>2, <2>3, RowsKept DEF IInv, Announced, Files
<1> QED
  BY <1>4, <1>5, <1>6, <1>7, <1>8 DEF IInv

LEMMA InsertInv ==
  ASSUME IInv, NEW p \in Callers, Insert(p)
  PROVE  IInv'
<1>1. call[p] # None /\ call[p] \in Doing
  BY DEF IInv, TypeOK, Insert, At, Doing
<1>2. PICK t \in Targets : t = call[p].target
  BY <1>1 DEF Doing
<1>3. /\ UNCHANGED <<prefs, posture, grant, edit, lock, tick, file, queue, recent, early, marked,
                     events, excused>>
      /\ Return(p)
  BY DEF Insert, edits, files
<1>4. /\ call' \in [Callers -> {None} \cup Doing] /\ call'[p] = None
      /\ \A q \in Callers : q # p => call'[q] = call[q]
  BY <1>3 DEF IInv, TypeOK, Doing, Return
<1>5. /\ alerts' \in [Targets -> Row] /\ alerts[t] \in Row
      /\ alerts'[t].unread = alerts[t].unread + 1 /\ alerts'[t].read = alerts[t].read
      /\ alerts'[t].gone = alerts[t].gone
      /\ \A u \in Targets : u # t => alerts'[u] = alerts[u]
  <2>1. alerts \in [Targets -> Row] /\ alerts[t] \in Row
    BY <1>2 DEF IInv, TypeOK, Row
  <2> PICK row : row = [alerts[t] EXCEPT !.unread = alerts[t].unread + 1]
    OBVIOUS
  <2>2. alerts' = [alerts EXCEPT ![t] = row]
    BY <1>2 DEF Insert
  <2>3. /\ row \in Row /\ row.unread = alerts[t].unread + 1
        /\ row.read = alerts[t].read /\ row.gone = alerts[t].gone
    BY <2>1 DEF Row
  <2> QED
    BY <2>1, <2>2, <2>3
<1>6. Told(t)' /\ \A u \in Targets : u # t => (Told(u)' <=> Told(u)) /\ (Open(u)' <=> Open(u))
  BY <1>5 DEF Told, Open, Row
<1>7. TypeOK'
  BY <1>3, <1>4, <1>5 DEF IInv, TypeOK, Doing, Row
<1>8. t \in Watched => p = Watcher /\ ~Open(t)
  BY <1>1, <1>2, Apart, Members DEF IInv, Calls
<1>9. Calls'
  <2>1. \A q \in Callers : call'[q] # None => q # p /\ call'[q] = call[q]
    BY <1>4
  <2>2. Watcher # p => \A u \in Watched : Open(u)' <=> Open(u)
    BY <1>6, <1>8, Members
  <2> QED
    BY <2>1, <2>2 DEF IInv, Calls
<1>10. OneOpenAlert'
  <2>1. t \in Watched => alerts'[t].unread + alerts'[t].read <= 1
    BY <1>5, <1>8 DEF Open, Row
  <2> QED
    BY <1>5, <2>1, Members DEF IInv, OneOpenAlert
<1>11. Written'
  BY <1>3 DEF IInv, Written
<1>12. Reported'
  <2>1. \A x \in Edits : Incident(x) \in Callers /\ Incident(x) \in Targets /\ Incident(x) \in Incidents
    BY Members
  <2>2. \A x \in Edits : p = Incident(x) => t = Incident(x)
    BY <1>1, <1>2, <2>1 DEF IInv, Calls
  <2>3. \A x \in Edits : Told(Incident(x)) => Told(Incident(x))'
    BY <1>6, <2>1
  <2> QED
    BY <1>3, <1>4, <1>6, <2>1, <2>2, <2>3, LostKept DEF IInv, Reported
<1>13. Announced'
  <2>1. \A f \in Files : Telling(f)' => Telling(f)
    BY <1>4, Members DEF Telling
  <2>2. \A f \in Files : Told(AlertOf(f))' => Told(AlertOf(f)) \/ Telling(f)
    <3>1. t \in Downloads => p = Consumer
      BY <1>1, <1>2, Apart, Members DEF IInv, Calls
    <3> QED
      BY <1>1, <1>2, <1>6, <3>1, Members DEF Telling
  <2>3. \A f \in Files : Told(AlertOf(f)) \/ Telling(f) => Told(AlertOf(f))' \/ Telling(f)'
    BY <1>2, <1>4, <1>6, Members DEF Telling
  <2> QED
    BY <1>3, <2>1, <2>2, <2>3 DEF IInv, Announced, Files
<1> QED
  BY <1>7, <1>9, <1>10, <1>11, <1>12, <1>13 DEF IInv

LEMMA NotifyInv ==
  ASSUME IInv, NEW p \in Callers, Notify(p)
  PROVE  IInv'
<1>1. CASE LoadPrefs(p)
  <2>1. /\ call[p] # None
        /\ UNCHANGED <<prefs, alerts, posture, grant, edit, lock, tick, file, queue, recent, early,
                       marked, events>>
    BY <1>1 DEF LoadPrefs, At, store, edits, files
  <2>2. CASE prefs.made /\ call[p].target[1] \in prefs.off
    <3>1. Return(p) /\ Excuse(call[p].target, "off")
      BY <1>1, <2>2 DEF LoadPrefs
    <3> QED
      BY <2>1, <3>1, CallFails DEF IInv, TypeOK
  <2>3. CASE ~(prefs.made /\ call[p].target[1] \in prefs.off)
    <3>1. PICK s \in Stages : call' = [call EXCEPT ![p].at = s] /\ UNCHANGED excused
      BY <1>1, <2>3 DEF LoadPrefs, Stages
    <3>2. [call[p] EXCEPT !.at = s] = [target |-> call[p].target, at |-> s]
      BY <2>1 DEF IInv, TypeOK
    <3>3. call' = [call EXCEPT ![p] = [target |-> call[p].target, at |-> s]]
      BY <3>1, <3>2
    <3> QED
      BY <2>1, <3>1, <3>3, CallMoves DEF IInv, TypeOK
  <2> QED
    BY <2>2, <2>3
<1>2. CASE MakePrefs(p)
  <2>1. /\ call[p] # None
        /\ UNCHANGED <<alerts, posture, grant, edit, lock, tick, file, queue, recent, early,
                       marked, events>>
    BY <1>2 DEF MakePrefs, At, edits, files
  <2>2. CASE prefs.made
    <3>1. Return(p) /\ Excuse(call[p].target, "race") /\ UNCHANGED prefs
      BY <1>2, <2>2 DEF MakePrefs
    <3> QED
      BY <2>1, <3>1, CallFails DEF IInv, TypeOK
  <2>3. CASE ~prefs.made
    <3>1. /\ call' = [call EXCEPT ![p].at = "insert"] /\ UNCHANGED excused
          /\ prefs' = [prefs EXCEPT !.made = TRUE] /\ "insert" \in Stages
      BY <1>2, <2>3 DEF MakePrefs, Stages
    <3>2. [call[p] EXCEPT !.at = "insert"] = [target |-> call[p].target, at |-> "insert"]
      BY <2>1 DEF IInv, TypeOK
    <3>3. call' = [call EXCEPT ![p] = [target |-> call[p].target, at |-> "insert"]]
      BY <3>1, <3>2
    <3>4. prefs' \in [made : BOOLEAN, off : SUBSET Switchable]
      BY <3>1 DEF IInv, TypeOK
    <3> QED
      BY <2>1, <3>1, <3>3, <3>4, CallMoves DEF IInv, TypeOK
  <2> QED
    BY <2>2, <2>3
<1>3. CASE Insert(p)
  BY <1>3, InsertInv
<1>4. CASE NotifyFails(p)
  <2>1. /\ call[p] # None /\ Return(p)
        /\ UNCHANGED <<prefs, alerts, posture, grant, edit, lock, tick, file, queue, recent, early,
                       marked>>
    BY <1>4 DEF NotifyFails, store, edits, files
  <2>2. events' \in 0..MaxEvents
    BY <1>4, AlertConstants DEF NotifyFails, Event, IInv, TypeOK
  <2>3. PICK why \in {"fault", "lock"} :
           Excuse(call[p].target, why) /\ (why = "lock" => OwnLock(p))
    BY <1>4 DEF NotifyFails
  <2>4. why = "lock" => p = Incident(Freeze)
    BY <2>3 DEF OwnLock, IInv, TypeOK
  <2> QED
    BY <2>1, <2>2, <2>3, <2>4, CallFails DEF IInv, TypeOK
<1> QED
  BY <1>1, <1>2, <1>3, <1>4 DEF Notify

-----------------------------------------------------------------------------
(* The loops.                                                              *)

\* A caller that is in no notify() enters one.
LEMMA CallStarts ==
  ASSUME IInv, NEW p \in Callers, call[p] = None, NEW t \in Targets, Start(p, t),
         UNCHANGED alerts,
         p = Watcher => t \in Watched /\ ~Open(t),
         p = Consumer => t \in Downloads,
         p \in Incidents \cup Refusals => t = p
  PROVE  /\ Calls'
         /\ call' \in [Callers -> {None} \cup Doing]
         /\ call'[p] # None /\ call'[p].target = t
         /\ \A q \in Callers : q # p => call'[q] = call[q]
<1> PICK new : new = [target |-> t, at |-> "load"]
  OBVIOUS
<1>1. new \in Doing /\ new.target = t /\ new # None
  BY NoneApart DEF Doing, Stages
<1>2. call' = [call EXCEPT ![p] = new]
  BY DEF Start
<1>3. /\ call' \in [Callers -> {None} \cup Doing] /\ call'[p] = new
      /\ \A q \in Callers : q # p => call'[q] = call[q]
  BY <1>1, <1>2 DEF IInv, TypeOK, Doing
<1>4. Calls'
  BY <1>1, <1>3, RowsKept DEF IInv, Calls
<1> QED
  BY <1>1, <1>3, <1>4

LEMMA DueFacts ==
  ASSUME TypeOK, NEW check \in 0..3
  PROVE  Due(check) \subseteq Watched
BY DEF Due, Watched, TypeOK, Grants

LEMMA WatchInv ==
  ASSUME IInv, NextCheck \/ TickFails \/ \E t \in Watched : Ask(t)
  PROVE  IInv'
<1>1. CASE NextCheck
  <2>1. PICK next \in 0..3 : tick' = [check |-> next, todo |-> Due(next)]
    <3> PICK later : later = {c \in (tick.check + 1)..3 : Due(c) # {}}
      OBVIOUS
    <3>1. \A c \in later : c \in 0..3
      BY DEF IInv, TypeOK
    <3>2. later # {} => \E c \in later : \A d \in later : c <= d
      <4>1. later \subseteq {1, 2, 3}
        BY DEF IInv, TypeOK
      <4>2. CASE 1 \in later
        BY <4>1, <4>2
      <4>3. CASE 1 \notin later /\ 2 \in later
        BY <4>1, <4>3
      <4>4. CASE 1 \notin later /\ 2 \notin later
        BY <4>1, <4>4
      <4> QED
        BY <4>2, <4>3, <4>4
    <3> PICK least : least = CHOOSE c \in later : \A d \in later : c <= d
      OBVIOUS
    <3>3. later # {} => least \in later
      BY <3>2
    <3> PICK next : next = IF later = {} THEN 0 ELSE least
      OBVIOUS
    <3>4. next \in 0..3
      BY <3>1, <3>3
    <3>5. tick' = [check |-> next, todo |-> Due(next)]
      BY <1>1 DEF NextCheck
    <3> QED
      BY <3>4, <3>5
  <2>2. tick' \in [check : 0..3, todo : SUBSET Watched]
    BY <2>1, DueFacts DEF IInv
  <2> QED
    BY <1>1, <2>2, QuietStep DEF NextCheck, store, edits, files, IInv, TypeOK
<1>2. CASE TickFails
  <2>1. events' \in 0..MaxEvents
    BY <1>2, AlertConstants DEF TickFails, Event, IInv, TypeOK
  <2>2. tick' \in [check : 0..3, todo : SUBSET Watched]
    BY <1>2 DEF TickFails
  <2> QED
    BY <1>2, <2>1, <2>2, QuietStep DEF TickFails, store, edits, files, IInv, TypeOK
<1>3. ASSUME NEW t \in Watched, Ask(t)
      PROVE  IInv'
  <2>1. tick' \in [check : 0..3, todo : SUBSET Watched]
    <3>1. tick' = [tick EXCEPT !.todo = tick.todo \ {t}]
      BY <1>3 DEF Ask
    <3> QED
      BY <3>1 DEF IInv, TypeOK
  <2>2. UNCHANGED <<prefs, alerts, posture, grant, edit, lock, file, queue, recent, early, marked,
                    events, excused>>
    BY <1>3 DEF Ask, store, edits, files
  <2>3. CASE Open(t)
    <3>1. UNCHANGED call
      BY <1>3, <2>3 DEF Ask, AlreadyNotified
    <3> QED
      BY <2>1, <2>2, <3>1, QuietStep DEF IInv, TypeOK
  <2>4. CASE ~Open(t)
    <3>1. call[Watcher] = None /\ Start(Watcher, t)
      BY <1>3, <2>4 DEF Ask, AlreadyNotified
    <3>2. /\ Calls' /\ call' \in [Callers -> {None} \cup Doing]
          /\ \A q \in Callers : q # Watcher => call'[q] = call[q]
      BY <2>2, <2>4, <3>1, CallStarts, Members, Apart
    <3>3. TypeOK'
      BY <2>1, <2>2, <3>2 DEF IInv, TypeOK, Doing
    <3>4. OneOpenAlert' /\ Written'
      BY <2>2 DEF IInv, OneOpenAlert, Written
    <3>5. Reported'
      <4>1. \A x \in Edits : call'[Incident(x)] = call[Incident(x)]
        BY <3>2, Members, Apart
      <4> QED
        BY <2>2, <4>1, RowsKept, LostKept DEF IInv, Reported
    <3>6. Announced'
      <4>1. \A f : Telling(f)' <=> Telling(f)
        BY <3>2, Members, Apart DEF Telling
      <4> QED
        BY <2>2, <4>1, RowsKept DEF IInv, Announced
    <3> QED
      BY <3>2, <3>3, <3>4, <3>5, <3>6 DEF IInv
  <2> QED
    BY <2>3, <2>4
<1> QED
  BY <1>1, <1>2, <1>3

-----------------------------------------------------------------------------
(* Edits.                                                                  *)

LEMMA OpenInv ==
  ASSUME IInv, NEW x \in Edits, OpenEdit(x)
  PROVE  IInv'
<1>1. /\ edit[x] = "idle" /\ edit' = [edit EXCEPT ![x] = "open"]
      /\ lock' \in {None, Freeze} /\ events' \in 0..MaxEvents
      /\ Start(Incident(x), Incident(x))
      /\ UNCHANGED <<prefs, alerts, posture, grant, tick, file, queue, recent, early, marked, excused>>
  BY AlertConstants DEF OpenEdit, Event, IInv, TypeOK, store, files
<1>2. Incident(x) \in Callers /\ Incident(x) \in Targets /\ Incident(x) \in Incidents
  BY Members
<1>3. call[Incident(x)] = None
  BY <1>1 DEF IInv, Reported
<1>4. /\ Calls' /\ call' \in [Callers -> {None} \cup Doing] /\ call'[Incident(x)] # None
      /\ \A q \in Callers : q # Incident(x) => call'[q] = call[q]
  BY <1>1, <1>2, <1>3, CallStarts, Apart
<1>5. TypeOK'
  BY <1>1, <1>4 DEF IInv, TypeOK, Doing
<1>6. OneOpenAlert'
  BY <1>1 DEF IInv, OneOpenAlert
<1>7. Written'
  <2>1. Freeze \in Edits /\ (edit'[Freeze] = "done" <=> edit[Freeze] = "done")
    BY <1>1 DEF Edits, IInv, TypeOK
  <2> QED
    BY <1>1, <2>1 DEF IInv, Written
<1>8. Reported'
  <2>1. \A y \in Edits : y # x => call'[Incident(y)] = call[Incident(y)] /\ edit'[y] = edit[y]
    BY <1>1, <1>4, Members, OneToOne DEF IInv, TypeOK
  <2>2. edit'[x] = "open"
    BY <1>1 DEF IInv, TypeOK
  <2> QED
    BY <1>1, <1>4, <2>1, <2>2, RowsKept, LostKept DEF IInv, Reported
<1>9. Announced'
  <2>1. \A f : Telling(f)' <=> Telling(f)
    BY <1>2, <1>4, Members, Apart DEF Telling
  <2> QED
    BY <1>1, <2>1, RowsKept DEF IInv, Announced
<1> QED
  BY <1>4, <1>5, <1>6, <1>7, <1>8, <1>9 DEF IInv

LEMMA EndEditInv ==
  ASSUME IInv, NEW x \in Edits, Commit(x) \/ CommitFails(x)
  PROVE  IInv'
<1>1. /\ edit[x] = "open" /\ call[Incident(x)] = None
      /\ edit' = [edit EXCEPT ![x] = "done"] \/ edit' = [edit EXCEPT ![x] = "failed"]
      /\ UNCHANGED <<prefs, alerts, call, tick, file, queue, recent, early, marked, excused>>
  BY DEF Commit, CommitFails, store, files
<1>2. lock' \in {None, Freeze} /\ events' \in 0..MaxEvents
  BY AlertConstants DEF Commit, CommitFails, Unlock, Event, IInv, TypeOK
<1>3. edit' \in [Edits -> {"idle", "open", "done", "failed"}]
  BY <1>1 DEF IInv, TypeOK
<1>4. /\ edit'[x] \in {"done", "failed"}
      /\ \A y \in Edits : y # x => edit'[y] = edit[y]
  BY <1>1 DEF IInv, TypeOK
<1>5. /\ grant' \in [Grants -> {"none", "active", "expiring", "revoked"}]
      /\ posture' \in [made : BOOLEAN, raw : {"off", "on", "long"}, version : Versions]
      /\ Written'
  <2>1. Freeze \in Edits /\ posture.version \in 0..2
    BY DEF Edits, IInv, TypeOK, Versions
  <2>2. CASE UNCHANGED <<posture, grant>>
    <3>1. edit[Freeze] = "done" => edit'[Freeze] = "done"
      BY <1>1, <1>4, <2>1
    <3> QED
      BY <2>1, <2>2, <3>1 DEF IInv, TypeOK, Written
  <2>3. CASE Commit(x) /\ x # Freeze
    <3>1. x \in Grants /\ grant' = [grant EXCEPT ![x] = "active"] /\ UNCHANGED posture
      BY <2>3 DEF Commit, Edits
    <3>2. edit'[Freeze] = edit[Freeze]
      BY <1>4, <2>1, <2>3
    <3> QED
      BY <3>1, <3>2 DEF IInv, TypeOK, Written
  <2>4. CASE Commit(x) /\ x = Freeze
    <3> PICK raw : raw = IF posture.raw = "long" THEN "on" ELSE posture.raw
      OBVIOUS
    <3>1. posture' = [made |-> TRUE, version |-> posture.version + 1, raw |-> raw] /\ UNCHANGED grant
      BY <2>4 DEF Commit
    <3>2. raw \in {"off", "on", "long"} /\ (raw = "off" <=> posture.raw = "off")
      BY DEF IInv, TypeOK
    <3>3. edit[Freeze] # "done" /\ edit'[Freeze] = "done"
      BY <1>1, <2>4 DEF Commit, IInv, TypeOK
    <3>4. posture.version + 1 <= 1 + (IF raw = "off" THEN 0 ELSE 1)
      BY <2>1, <3>2, <3>3 DEF IInv, Written
    <3>5. posture.version + 1 \in Versions
      BY <2>1, <3>4 DEF Versions
    <3> QED
      BY <3>1, <3>2, <3>3, <3>4, <3>5 DEF IInv, TypeOK, Written
  <2>5. CASE CommitFails(x)
    BY <2>2, <2>5 DEF CommitFails
  <2> QED
    BY <2>3, <2>4, <2>5
<1>6. TypeOK'
  BY <1>1, <1>2, <1>3, <1>5 DEF IInv, TypeOK
<1>7. Calls'
  BY <1>1, CallsKept, RowsKept DEF IInv
<1>8. OneOpenAlert'
  BY <1>1 DEF IInv, OneOpenAlert
<1>9. Reported'
  BY <1>1, <1>4, RowsKept, LostKept DEF IInv, Reported
<1>10. Announced'
  BY <1>1, RowsKept DEF IInv, Announced, Telling
<1> QED
  BY <1>5, <1>6, <1>7, <1>8, <1>9, <1>10 DEF IInv

LEMMA GrantInv ==
  ASSUME IInv, NEW g \in Grants, Age(g) \/ Revoke(g)
  PROVE  IInv'
<1>1. grant' \in [Grants -> {"none", "active", "expiring", "revoked"}]
  <2>1. grant' = [grant EXCEPT ![g] = "expiring"] \/ grant' = [grant EXCEPT ![g] = "revoked"]
    BY DEF Age, Revoke
  <2> QED
    BY <2>1 DEF IInv, TypeOK
<1>2. events' \in 0..MaxEvents
  BY AlertConstants DEF Age, Revoke, Event, IInv, TypeOK
<1> QED
  BY <1>1, <1>2, QuietStep DEF Age, Revoke, store, edits, files, IInv, TypeOK

LEMMA RawInv ==
  ASSUME IInv, RawLogging
  PROVE  IInv'
<1>1. UNCHANGED <<prefs, alerts, grant, edit, lock, call, tick, file, queue, recent, early,
                  marked, excused>>
  BY DEF RawLogging, store, files
<1>2. events' \in 0..MaxEvents
  BY AlertConstants DEF RawLogging, Event, IInv, TypeOK
<1>3. posture' \in [made : BOOLEAN, raw : {"off", "on", "long"}, version : Versions] /\ Written'
  <2>1. posture.version \in 0..2
    BY DEF IInv, TypeOK, Versions
  <2>2. CASE posture.raw = "off"
           /\ posture' = [made |-> TRUE, raw |-> "on", version |-> posture.version + 1]
    <3>1. posture.version + 1 <= (IF edit[Freeze] = "done" THEN 1 ELSE 0) + 1
      BY <2>1, <2>2 DEF IInv, Written
    <3>2. posture.version + 1 \in Versions
      BY <2>1, <3>1 DEF Versions
    <3> QED
      BY <1>1, <2>2, <3>1, <3>2 DEF Written
  <2>3. CASE posture.raw = "on" /\ posture' = [posture EXCEPT !.raw = "long"]
    <3>1. posture' = [made |-> posture.made, raw |-> "long", version |-> posture.version]
      BY <2>3 DEF IInv, TypeOK
    <3> QED
      BY <1>1, <2>3, <3>1 DEF Written, IInv, TypeOK
  <2> QED
    BY <2>2, <2>3 DEF RawLogging
<1>4. TypeOK'
  BY <1>1, <1>2, <1>3 DEF IInv, TypeOK
<1>5. Calls' /\ Reported'
  BY <1>1, CallsKept, ReportedKept, RowsKept, LostKept DEF IInv
<1>6. OneOpenAlert'
  BY <1>1 DEF IInv, OneOpenAlert
<1>7. Announced'
  BY <1>1, RowsKept DEF IInv, Announced, Telling
<1> QED
  BY <1>3, <1>4, <1>5, <1>6, <1>7 DEF IInv

-----------------------------------------------------------------------------
(* Files.                                                                  *)

\* A step that moves files, the queue or the debounce window only.
LEMMA FilesStep ==
  ASSUME IInv, UNCHANGED <<prefs, alerts, posture, grant, edit, lock, call, tick, excused, early>>,
         file' \in [Files -> {"none", "written", "moved", "recorded", "gone"}],
         queue' \in Seq(Files), recent' \subseteq Files, marked' \subseteq Gates,
         events' \in 0..MaxEvents,
         \A i \in DOMAIN queue' : file'[queue'[i]] # "none",
         \A f \in OtherFiles :
            /\ file'[f] # "recorded"
            /\ file'[f] = "written" /\ f \in recent' /\ (\A i \in DOMAIN queue' : queue'[i] # f)
               => /\ file[f] = "written" /\ f \in recent
                  /\ \A i \in DOMAIN queue : queue[i] # f
  PROVE  IInv'
<1>1. TypeOK'
  BY DEF IInv, TypeOK
<1>2. Calls' /\ Reported'
  BY CallsKept, ReportedKept, RowsKept, LostKept DEF IInv
<1>3. OneOpenAlert' /\ Written'
  BY DEF IInv, OneOpenAlert, Written
<1>4. Announced'
  <2>1. \A f : Telling(f)' <=> Telling(f)
    BY DEF Telling
  <2> QED
    BY <2>1, RowsKept DEF IInv, Announced
<1> QED
  BY <1>1, <1>2, <1>3, <1>4 DEF IInv

LEMMA QueueFacts ==
  ASSUME TypeOK, queue # <<>>
  PROVE  /\ Head(queue) \in Files /\ Tail(queue) \in Seq(Files) /\ Head(queue) = queue[1]
         /\ 1 \in DOMAIN queue
         /\ \A i \in DOMAIN Tail(queue) : i + 1 \in DOMAIN queue /\ Tail(queue)[i] = queue[i + 1]
         /\ \A i \in DOMAIN queue : i = 1 \/ (i - 1 \in DOMAIN Tail(queue)
                                              /\ Tail(queue)[i - 1] = queue[i])
BY DEF TypeOK

LEMMA DeliverInv ==
  ASSUME IInv, NEW f \in Files, Deliver(f)
  PROVE  IInv'
<1>1. CASE Write(f)
  <2>1. /\ file' = [file EXCEPT ![f] = "written"] /\ queue' = Append(queue, f)
        /\ file[f] \in {"none", "gone"} /\ events' \in 0..MaxEvents
        /\ UNCHANGED <<prefs, alerts, posture, grant, edit, lock, call, tick, recent, marked,
                       excused, early>>
    BY <1>1, AlertConstants DEF Write, Event, IInv, TypeOK, store, edits
  <2>2. /\ queue' \in Seq(Files) /\ Len(queue') = Len(queue) + 1 /\ queue'[Len(queue) + 1] = f
        /\ \A i \in 1..Len(queue) : queue'[i] = queue[i]
        /\ DOMAIN queue = 1..Len(queue) /\ DOMAIN queue' = 1..(Len(queue) + 1)
        /\ Len(queue) \in Nat
    BY <2>1 DEF IInv, TypeOK
  <2>3. file' \in [Files -> {"none", "written", "moved", "recorded", "gone"}]
        /\ file'[f] = "written" /\ \A g \in Files : g # f => file'[g] = file[g]
    BY <2>1 DEF IInv, TypeOK
  <2>4. \A i \in DOMAIN queue : queue[i] \in Files
    BY DEF IInv, TypeOK
  <2>5. \A i \in DOMAIN queue' : file'[queue'[i]] # "none"
    <3> SUFFICES ASSUME NEW i \in DOMAIN queue' PROVE file'[queue'[i]] # "none"
      OBVIOUS
    <3>1. CASE i \in 1..Len(queue)
      BY <2>2, <2>3, <2>4, <3>1 DEF IInv, Announced
    <3>2. CASE i = Len(queue) + 1
      BY <2>2, <2>3, <3>2
    <3> QED
      BY <2>2, <3>1, <3>2
  <2>6. \E i \in DOMAIN queue' : queue'[i] = f
    BY <2>2
  <2>7. \A g \in OtherFiles : (\A i \in DOMAIN queue' : queue'[i] # g)
                              => g # f /\ \A i \in DOMAIN queue : queue[i] # g
    BY <2>2, <2>6
  <2>8. \A g \in OtherFiles : file'[g] # "recorded"
    BY <2>3 DEF IInv, Announced, Files
  <2> QED
    BY <2>1, <2>2, <2>3, <2>5, <2>7, <2>8, FilesStep DEF IInv, TypeOK, Files
<1>2. CASE RecordFile(f) \/ RemoveFile(f)
  <2>1. /\ file' = [file EXCEPT ![f] = "recorded"] \/ file' = [file EXCEPT ![f] = "gone"]
        /\ UNCHANGED <<prefs, alerts, posture, grant, edit, lock, call, tick, queue, recent, marked,
                       excused, early>>
    BY <1>2 DEF RecordFile, RemoveFile, store, edits
  <2>2. events' \in 0..MaxEvents
    BY <1>2, AlertConstants DEF RecordFile, RemoveFile, Event, IInv, TypeOK
  <2>3. /\ file' \in [Files -> {"none", "written", "moved", "recorded", "gone"}]
        /\ file'[f] \in {"recorded", "gone"} /\ \A g \in Files : g # f => file'[g] = file[g]
    BY <2>1 DEF IInv, TypeOK
  <2>4. f \in OtherFiles => file'[f] = "gone"
    BY <1>2, AlertConstants DEF RecordFile, RemoveFile, IInv, TypeOK
  <2>5. \A i \in DOMAIN queue : file'[queue[i]] # "none"
    <3>1. \A i \in DOMAIN queue : queue[i] \in Files
      BY DEF IInv, TypeOK
    <3> QED
      BY <2>3, <3>1 DEF IInv, Announced
  <2>6. \A g \in OtherFiles : file'[g] # "recorded" /\ (file'[g] = "written" => file[g] = "written")
    BY <2>3, <2>4 DEF IInv, Announced, Files
  <2> QED
    BY <2>1, <2>2, <2>3, <2>5, <2>6, FilesStep DEF IInv, TypeOK
<1>3. ASSUME NEW g \in Files, MoveFile(f, g) PROVE IInv'
  <2>1. /\ f \in OtherFiles /\ g \in OtherFiles /\ g # f
        /\ file' = [file EXCEPT ![f] = "gone", ![g] = "moved"] /\ queue' = Append(queue, f)
        /\ events' \in 0..MaxEvents
        /\ UNCHANGED <<prefs, alerts, posture, grant, edit, lock, call, tick, recent, marked,
                       excused, early>>
    BY <1>3, AlertConstants DEF MoveFile, Event, IInv, TypeOK, store, edits
  <2>2. /\ queue' \in Seq(Files) /\ Len(queue') = Len(queue) + 1 /\ queue'[Len(queue) + 1] = f
        /\ \A i \in 1..Len(queue) : queue'[i] = queue[i]
        /\ DOMAIN queue = 1..Len(queue) /\ DOMAIN queue' = 1..(Len(queue) + 1)
        /\ Len(queue) \in Nat
    BY <2>1 DEF IInv, TypeOK
  <2>3. /\ file' \in [Files -> {"none", "written", "moved", "recorded", "gone"}]
        /\ file'[f] = "gone" /\ file'[g] = "moved"
        /\ \A h \in Files : h \notin {f, g} => file'[h] = file[h]
    BY <2>1 DEF IInv, TypeOK
  <2>4. \A i \in DOMAIN queue : queue[i] \in Files
    BY DEF IInv, TypeOK
  <2>5. \A i \in DOMAIN queue' : file'[queue'[i]] # "none"
    <3> SUFFICES ASSUME NEW i \in DOMAIN queue' PROVE file'[queue'[i]] # "none"
      OBVIOUS
    <3>1. CASE i \in 1..Len(queue)
      BY <2>2, <2>3, <2>4, <3>1 DEF IInv, Announced
    <3>2. CASE i = Len(queue) + 1
      BY <2>2, <2>3, <3>2
    <3> QED
      BY <2>2, <3>1, <3>2
  <2>6. \A h \in OtherFiles : (\A i \in DOMAIN queue' : queue'[i] # h)
                              => \A i \in DOMAIN queue : queue[i] # h
    BY <2>2
  <2>7. \A h \in OtherFiles : /\ file'[h] # "recorded"
                              /\ file'[h] = "written" => file[h] = "written"
    BY <2>3 DEF IInv, Announced, Files
  <2> QED
    BY <2>1, <2>2, <2>3, <2>5, <2>6, <2>7, FilesStep DEF IInv, TypeOK
<1> QED
  BY <1>1, <1>2, <1>3 DEF Deliver

LEMMA WindowsInv ==
  ASSUME IInv, WindowsPass
  PROVE  IInv'
BY FilesStep DEF WindowsPass, store, edits, IInv, TypeOK, Announced

\* The head of the queue is taken: dropped, debounced or told of.
LEMMA TakeInv ==
  ASSUME IInv, Consume \/ LookupFails
  PROVE  IInv'
<1> PICK f : f = Head(queue)
  OBVIOUS
<1>1. /\ call[Consumer] = None /\ queue # <<>> /\ queue' = Tail(queue) /\ recent' = recent \cup {f}
      /\ UNCHANGED <<prefs, alerts, posture, grant, edit, lock, tick, file, marked>>
      /\ events' \in 0..MaxEvents
  BY AlertConstants DEF Consume, LookupFails, Event, IInv, TypeOK, store, edits
<1>2. /\ f \in Files /\ Tail(queue) \in Seq(Files) /\ file[f] # "none"
      /\ \A i \in DOMAIN queue' : \E j \in DOMAIN queue : queue'[i] = queue[j]
      /\ \A g : (\A i \in DOMAIN queue' : queue'[i] # g)
                => g = f \/ \A i \in DOMAIN queue : queue[i] # g
  <2>1. f \in Files /\ Tail(queue) \in Seq(Files) /\ f = queue[1] /\ 1 \in DOMAIN queue
    BY <1>1, QueueFacts DEF IInv
  <2>2. file[f] # "none"
    BY <2>1 DEF IInv, Announced
  <2>3. \A i \in DOMAIN queue' : i + 1 \in DOMAIN queue /\ queue'[i] = queue[i + 1]
    BY <1>1, QueueFacts DEF IInv
  <2>4. \A i \in DOMAIN queue : i = 1 \/ (i - 1 \in DOMAIN queue' /\ queue'[i - 1] = queue[i])
    BY <1>1, QueueFacts DEF IInv
  <2> QED
    BY <2>1, <2>2, <2>3, <2>4
<1>3. AlertOf(f) \in Downloads /\ AlertOf(f) \in Targets /\ Consumer \in Callers
  BY <1>2, Members
<1>4. \/ UNCHANGED call
      \/ Start(Consumer, AlertOf(f))
  BY DEF Consume, LookupFails
<1>5. /\ Calls' /\ call' \in [Callers -> {None} \cup Doing]
      /\ \A q \in Callers : q # Consumer => call'[q] = call[q]
      /\ Start(Consumer, AlertOf(f)) => call'[Consumer] # None /\ call'[Consumer].target = AlertOf(f)
  <2>1. CASE Start(Consumer, AlertOf(f))
    BY <1>1, <1>3, <2>1, CallStarts, Apart
  <2>2. CASE UNCHANGED call /\ ~Start(Consumer, AlertOf(f))
    BY <1>1, <2>2, CallsKept, RowsKept DEF IInv, TypeOK, Doing
  <2> QED
    BY <1>4, <2>1, <2>2
<1>6. /\ excused' \in [Targets -> SUBSET Excuses] /\ early \subseteq early' /\ early' \subseteq Files
      /\ \A t \in Targets : excused[t] \subseteq excused'[t]
  <2>1. UNCHANGED excused \/ Excuse(AlertOf(f), "debounced")
    BY DEF Consume, LookupFails
  <2>2. early' \in {early, early \cup {f}}
    BY DEF Consume, LookupFails
  <2>3. early \subseteq early' /\ early' \subseteq Files
    BY <1>2, <2>2 DEF IInv, TypeOK
  <2> PICK t \in Targets : t = AlertOf(f)
    BY <1>3
  <2>4. UNCHANGED excused \/ excused' = [excused EXCEPT ![t] = excused[t] \cup {"debounced"}]
    BY <2>1 DEF Excuse
  <2>5. excused \in [Targets -> SUBSET Excuses] /\ "debounced" \in Excuses
    BY DEF IInv, TypeOK, Excuses
  <2>6. excused' \in [Targets -> SUBSET Excuses] /\ \A u \in Targets : excused[u] \subseteq excused'[u]
    BY <2>4, <2>5
  <2> QED
    BY <2>3, <2>6
<1>7. TypeOK'
  BY <1>1, <1>2, <1>5, <1>6 DEF IInv, TypeOK, Doing
<1>8. OneOpenAlert' /\ Written'
  BY <1>1 DEF IInv, OneOpenAlert, Written
<1>9. Reported'
  <2>1. \A x \in Edits : call'[Incident(x)] = call[Incident(x)] /\ Incident(x) \in Targets
    BY <1>5, Members, Apart
  <2>2. \A x \in Edits : Lost(x) => Lost(x)'
    BY <1>6, Members DEF Lost
  <2> QED
    BY <1>1, <2>1, <2>2, RowsKept DEF IInv, Reported
<1>10. Announced'
  <2>1. \A g \in Files : Telling(g)' => g = f /\ Start(Consumer, AlertOf(f))
    <3>1. ASSUME ~Start(Consumer, AlertOf(f)) PROVE call'[Consumer] = None
      BY <1>1, <1>4, <3>1
    <3> QED
      BY <1>2, <1>5, <3>1, OneToOne DEF Telling
  <2>2. \A g \in Files : ~Telling(g)
    BY <1>1 DEF Telling
  <2>3. f \in EngineFiles /\ Start(Consumer, AlertOf(f)) => f \in early'
    <3>1. CASE LookupFails
      BY <3>1 DEF LookupFails
    <3>2. CASE Consume /\ Start(Consumer, AlertOf(f)) /\ f \in EngineFiles
      <4>1. ~UNCHANGED call
        <5>1. call'[Consumer] # None
          BY <1>5, <3>2
        <5> QED
          BY <1>1, <5>1
      <4>2. file[f] # "gone" /\ file[f] # "recorded"
            /\ early' = early \cup (IF file[f] = "recorded" THEN {} ELSE {f})
        BY <3>2, <4>1 DEF Consume, IsEngineWritten
      <4> QED
        BY <4>2
    <3> QED
      BY <3>1, <3>2
  <2>4. f \in OtherFiles /\ file[f] = "written" => excused'[AlertOf(f)] # {} \/ Telling(f)'
    <3>1. CASE Start(Consumer, AlertOf(f))
      BY <1>5, <3>1 DEF Telling
    <3>2. CASE Excuse(AlertOf(f), "debounced")
      BY <1>3, <3>2 DEF Excuse, IInv, TypeOK
    <3>3. CASE LookupFails
      BY <3>1, <3>3 DEF LookupFails
    <3>4. CASE Consume /\ f \in recent
      BY <3>2, <3>4 DEF Consume
    <3>5. CASE Consume /\ f \notin recent /\ file[f] = "written"
      <4>1. ~(file[f] = "gone" \/ IsEngineWritten(f))
        BY <3>5 DEF IsEngineWritten
      <4> QED
        BY <3>1, <3>5, <4>1 DEF Consume
    <3> QED
      BY <3>3, <3>4, <3>5
  <2>5. \A i \in DOMAIN queue' : file'[queue'[i]] # "none"
    BY <1>1, <1>2 DEF IInv, Announced
  <2>6. \A g \in EngineFiles : Told(AlertOf(g))' \/ Telling(g)' => g \in early'
    BY <1>1, <1>6, <2>1, <2>3, RowsKept DEF IInv, Announced, Files
  <2>7. \A g \in OtherFiles : /\ file'[g] = "written" /\ g \in recent'
                              /\ \A i \in DOMAIN queue' : queue'[i] # g
                              => Told(AlertOf(g))' \/ excused'[AlertOf(g)] # {} \/ Telling(g)'
    <3> SUFFICES ASSUME NEW g \in OtherFiles, file[g] = "written", g \in recent', g # f,
                        \A i \in DOMAIN queue' : queue'[i] # g
                 PROVE  Told(AlertOf(g))' \/ excused'[AlertOf(g)] # {}
      BY <1>1, <2>4
    <3>1. Told(AlertOf(g)) \/ excused[AlertOf(g)] # {}
      BY <1>1, <1>2, <2>2 DEF IInv, Announced, Files
    <3>2. AlertOf(g) \in Targets
      BY Members DEF Files
    <3> QED
      BY <1>1, <1>6, <3>1, <3>2, RowsKept
  <2>8. \A g \in OtherFiles : file'[g] # "recorded"
    BY <1>1 DEF IInv, Announced
  <2> QED
    BY <2>5, <2>6, <2>7, <2>8 DEF Announced
<1> QED
  BY <1>5, <1>7, <1>8, <1>9, <1>10 DEF IInv

-----------------------------------------------------------------------------
(* Refusals, the operator, and crashes.                                    *)

LEMMA RefuseInv ==
  ASSUME IInv, NEW k \in Gates, Refuse(k)
  PROVE  IInv'
<1> PICK t : t = AlertOf(k)
  OBVIOUS
<1>1. t \in Refusals /\ t \in Callers /\ t \in Targets
  BY Members
<1>2. /\ call[t] = None /\ Start(t, t) /\ marked' = marked \cup {k} /\ events' \in 0..MaxEvents
      /\ UNCHANGED <<prefs, alerts, posture, grant, edit, lock, tick, file, queue, recent, early,
                     excused>>
  BY AlertConstants DEF Refuse, Event, IInv, TypeOK, store, edits, files
<1>3. /\ Calls' /\ call' \in [Callers -> {None} \cup Doing]
      /\ \A q \in Callers : q # t => call'[q] = call[q]
  BY <1>1, <1>2, CallStarts, Apart
<1>4. TypeOK'
  BY <1>2, <1>3 DEF IInv, TypeOK, Doing
<1>5. OneOpenAlert' /\ Written'
  BY <1>2 DEF IInv, OneOpenAlert, Written
<1>6. Reported'
  <2>1. \A x \in Edits : call'[Incident(x)] = call[Incident(x)]
    BY <1>1, <1>3, Members, Apart
  <2> QED
    BY <1>2, <2>1, RowsKept, LostKept DEF IInv, Reported
<1>7. Announced'
  <2>1. \A f : Telling(f)' <=> Telling(f)
    BY <1>1, <1>3, Members, Apart DEF Telling
  <2> QED
    BY <1>2, <2>1, RowsKept DEF IInv, Announced
<1> QED
  BY <1>3, <1>4, <1>5, <1>6, <1>7 DEF IInv

LEMMA ToggleInv ==
  ASSUME IInv, NEW kind \in Switchable, Toggle(kind)
  PROVE  IInv'
<1>1. prefs' \in [made : BOOLEAN, off : SUBSET Switchable]
  BY DEF Toggle, IInv, TypeOK
<1>2. events' \in 0..MaxEvents
  BY AlertConstants DEF Toggle, Event, IInv, TypeOK
<1> QED
  BY <1>1, <1>2, QuietStep DEF Toggle, edits, files, IInv, TypeOK

\* Rows change their state; none is lost, and none opens again.
LEMMA ClearInv ==
  ASSUME IInv, NEW t \in Targets, Clear(t)
  PROVE  IInv'
<1>1. /\ events' \in 0..MaxEvents
      /\ UNCHANGED <<prefs, posture, grant, edit, lock, call, tick, file, queue, recent, early,
                     marked, excused>>
  BY AlertConstants DEF Clear, Event, IInv, TypeOK, edits, files
<1>2. alerts \in [Targets -> Row] /\ alerts[t] \in Row
  BY DEF IInv, TypeOK, Row
<1>3. PICK row \in Row :
         /\ alerts' = [alerts EXCEPT ![t] = row]
         /\ row.unread + row.read + row.gone = alerts[t].unread + alerts[t].read + alerts[t].gone
         /\ row.unread + row.read <= alerts[t].unread + alerts[t].read
  <2> PICK u, r, g : u = alerts[t].unread /\ r = alerts[t].read /\ g = alerts[t].gone
    OBVIOUS
  <2>1. u \in Nat /\ r \in Nat /\ g \in Nat
    BY <1>2 DEF Row
  <2>2. CASE u > 0 /\ Shift(t, u - 1, r + 1, g)
    <3> PICK row : row = [unread |-> u - 1, read |-> r + 1, gone |-> g]
      OBVIOUS
    <3>1. row \in Row /\ row.unread = u - 1 /\ row.read = r + 1 /\ row.gone = g
      BY <2>1, <2>2 DEF Row
    <3>2. alerts' = [alerts EXCEPT ![t] = row]
      BY <2>2 DEF Shift
    <3>3. row.unread + row.read + row.gone = u + r + g /\ row.unread + row.read <= u + r
      BY <2>1, <3>1
    <3> QED
      BY <3>1, <3>2, <3>3
  <2>3. CASE u > 0 /\ Shift(t, u - 1, r, g + 1)
    <3> PICK row : row = [unread |-> u - 1, read |-> r, gone |-> g + 1]
      OBVIOUS
    <3>1. row \in Row /\ row.unread = u - 1 /\ row.read = r /\ row.gone = g + 1
      BY <2>1, <2>3 DEF Row
    <3>2. alerts' = [alerts EXCEPT ![t] = row]
      BY <2>3 DEF Shift
    <3>3. row.unread + row.read + row.gone = u + r + g /\ row.unread + row.read <= u + r
      BY <2>1, <3>1
    <3> QED
      BY <3>1, <3>2, <3>3
  <2>4. CASE r > 0 /\ Shift(t, u, r - 1, g + 1)
    <3> PICK row : row = [unread |-> u, read |-> r - 1, gone |-> g + 1]
      OBVIOUS
    <3>1. row \in Row /\ row.unread = u /\ row.read = r - 1 /\ row.gone = g + 1
      BY <2>1, <2>4 DEF Row
    <3>2. alerts' = [alerts EXCEPT ![t] = row]
      BY <2>4 DEF Shift
    <3>3. row.unread + row.read + row.gone = u + r + g /\ row.unread + row.read <= u + r
      BY <2>1, <3>1
    <3> QED
      BY <3>1, <3>2, <3>3
  <2> QED
    BY <2>2, <2>3, <2>4 DEF Clear
<1>4. /\ alerts' \in [Targets -> Row] /\ alerts'[t] = row
      /\ \A u \in Targets : u # t => alerts'[u] = alerts[u]
  BY <1>2, <1>3
<1>5. \A u \in Targets : Told(u)' <=> Told(u)
  BY <1>3, <1>4 DEF Told
<1>6. \A u \in Targets : Open(u)' => Open(u)
  BY <1>2, <1>3, <1>4 DEF Open, Row
<1>7. TypeOK'
  BY <1>1, <1>4 DEF IInv, TypeOK, Row
<1>8. Calls'
  BY <1>1, <1>6, CallsKept, Members DEF IInv
<1>9. OneOpenAlert'
  <2> SUFFICES ASSUME NEW u \in Watched PROVE alerts'[u].unread + alerts'[u].read <= 1
    BY DEF OneOpenAlert
  <2>1. u \in Targets /\ alerts[u].unread + alerts[u].read <= 1
    BY Members DEF IInv, OneOpenAlert
  <2> QED
    BY <1>2, <1>3, <1>4, <2>1 DEF Row
<1>10. Written'
  BY <1>1 DEF IInv, Written
<1>11. Reported'
  BY <1>1, <1>5, LostKept, ReportedKept, Members DEF IInv
<1>12. Announced'
  <2>1. \A f : Telling(f)' <=> Telling(f)
    BY <1>1 DEF Telling
  <2> QED
    BY <1>1, <1>5, <2>1, Members DEF IInv, Announced, Files
<1> QED
  BY <1>7, <1>8, <1>9, <1>10, <1>11, <1>12 DEF IInv

LEMMA CrashInv ==
  ASSUME IInv, Crash
  PROVE  IInv'
<1>1. /\ edit' = [x \in Edits |-> IF edit[x] = "open" THEN "failed" ELSE edit[x]]
      /\ lock' = None /\ call' = [p \in Callers |-> None]
      /\ tick' = [check |-> 0, todo |-> {}] /\ queue' = <<>> /\ recent' = {} /\ marked' = {}
      /\ UNCHANGED <<prefs, alerts, posture, grant, file, early>>
      /\ events' \in 0..MaxEvents
  BY AlertConstants DEF Crash, Event, IInv, TypeOK, store
<1>2. /\ excused' \in [Targets -> SUBSET Excuses]
      /\ \A t \in Targets : excused[t] \subseteq excused'[t]
  <2>1. PICK hit : excused' = [t \in Targets |-> IF hit[t] THEN excused[t] \cup {"crash"} ELSE excused[t]]
    <3> PICK hit : hit = [t \in Targets |->
                            \/ \E p \in Callers : call[p] # None /\ call[p].target = t
                            \/ \E i \in DOMAIN queue : AlertOf(queue[i]) = t]
      OBVIOUS
    <3> QED
      BY DEF Crash
  <2>2. "crash" \in Excuses
    BY DEF Excuses
  <2> QED
    BY <2>1, <2>2 DEF IInv, TypeOK
<1>3. \A p \in Callers : call'[p] = None
  BY <1>1
<1>4. edit' \in [Edits -> {"idle", "open", "done", "failed"}]
  BY <1>1 DEF IInv, TypeOK
<1>5. \A x \in Edits : edit'[x] # "open" /\ (edit'[x] = "done" <=> edit[x] = "done")
  BY <1>1
<1>6. TypeOK'
  <2>1. queue' \in Seq(Files) /\ tick' \in [check : 0..3, todo : SUBSET Watched]
    BY <1>1
  <2>2. call' \in [Callers -> {None} \cup [target : Targets, at : Stages]]
    BY <1>1
  <2> QED
    BY <1>1, <1>2, <1>4, <2>1, <2>2 DEF IInv, TypeOK
<1>7. Calls' /\ OneOpenAlert'
  BY <1>1, <1>3 DEF IInv, Calls, OneOpenAlert
<1>8. Written'
  BY <1>1, <1>5 DEF IInv, Written, Edits
<1>9. Reported'
  <2>1. \A x \in Edits : Incident(x) \in Callers /\ (Lost(x) => Lost(x)')
    BY <1>2, Members DEF Lost
  <2>2. \A x \in Edits : edit[x] = "done" => call[Incident(x)] = None
    BY DEF IInv, Reported
  <2> QED
    BY <1>1, <1>3, <1>5, <2>1, <2>2, RowsKept DEF IInv, Reported
<1>10. Announced'
  <2>1. \A f : ~Telling(f)'
    BY <1>3, Members DEF Telling
  <2> QED
    BY <1>1, <2>1, RowsKept DEF IInv, Announced
<1> QED
  BY <1>6, <1>7, <1>8, <1>9, <1>10 DEF IInv

-----------------------------------------------------------------------------
(* The theorems.                                                           *)

LEMMA InitInv == Init => IInv
<1> SUFFICES ASSUME Init PROVE IInv
  OBVIOUS
<1> PICK old \in {{}, Grants} :
       /\ prefs = [made |-> old # {}, off |-> {}]
       /\ alerts = [t \in Targets |->
              IF t \in {Incident(g) : g \in old} THEN [NoRows EXCEPT !.gone = 1] ELSE NoRows]
       /\ posture = [made |-> old # {}, raw |-> "off", version |-> 0]
       /\ grant = [g \in Grants |-> IF g \in old THEN "active" ELSE "none"]
       /\ edit = [x \in Edits |-> IF x \in old THEN "done" ELSE "idle"]
       /\ lock = None
       /\ call = [p \in Callers |-> None]
       /\ tick = [check |-> 0, todo |-> {}]
       /\ file = [f \in Files |-> "none"]
       /\ queue = <<>> /\ recent = {} /\ marked = {}
       /\ events = 0
       /\ excused = [t \in Targets |-> {}]
       /\ early = {}
  BY DEF Init
<1> PICK acked : acked = [NoRows EXCEPT !.gone = 1]
  OBVIOUS
<1>1. /\ acked \in Row /\ acked.unread = 0 /\ acked.read = 0 /\ acked.gone = 1
      /\ NoRows \in Row /\ NoRows.unread = 0 /\ NoRows.read = 0 /\ NoRows.gone = 0
  BY DEF NoRows, Row
<1>2. \A t \in Targets : alerts[t] = IF t \in {Incident(g) : g \in old} THEN acked ELSE NoRows
  OBVIOUS
<1>3. \A t \in Targets : /\ alerts[t] \in Row /\ ~Open(t)
                         /\ Told(t) <=> t \in {Incident(g) : g \in old}
  BY <1>1, <1>2 DEF Open, Told
<1>4. TypeOK
  <2>1. alerts \in [Targets -> Row]
    BY <1>1
  <2>2. 0 \in Versions /\ 0 \in 0..MaxEvents /\ 0 \in 0..3
    BY AlertConstants DEF Versions
  <2>3. posture \in [made : BOOLEAN, raw : {"off", "on", "long"}, version : Versions]
    BY <2>2
  <2>4. edit \in [Edits -> {"idle", "open", "done", "failed"}]
        /\ grant \in [Grants -> {"none", "active", "expiring", "revoked"}]
    OBVIOUS
  <2>5. call \in [Callers -> {None} \cup [target : Targets, at : Stages]]
        /\ tick \in [check : 0..3, todo : SUBSET Watched] /\ queue \in Seq(Files)
    BY <2>2
  <2> QED
    BY <2>1, <2>2, <2>3, <2>4, <2>5 DEF TypeOK, Row
<1>5. Calls
  BY DEF Calls
<1>6. OneOpenAlert
  BY <1>1, <1>2, Members DEF OneOpenAlert
<1>7. Written
  BY DEF Written
<1>8. Reported
  BY <1>3, Members DEF Reported
<1>9. Announced
  <2>1. \A f \in Files : ~Told(AlertOf(f)) /\ ~Telling(f)
    <3>1. \A f \in Files : AlertOf(f) \notin {Incident(g) : g \in old}
      BY Members, Apart DEF Edits
    <3> QED
      BY <1>3, <3>1, Members DEF Telling
  <2> QED
    BY <2>1 DEF Announced, Files
<1> QED
  BY <1>4, <1>5, <1>6, <1>7, <1>8, <1>9 DEF IInv

LEMMA NextInv == IInv /\ [Next]_vars => IInv'
<1> SUFFICES ASSUME IInv, [Next]_vars PROVE IInv'
  OBVIOUS
<1>1. CASE UNCHANGED vars
  BY <1>1, QuietStep DEF vars, IInv, TypeOK
<1>2. CASE \E p \in Callers : Notify(p)
  BY <1>2, NotifyInv
<1>3. CASE Watch \/ TickFails
  BY <1>3, WatchInv DEF Watch
<1>4. CASE \E x \in Edits : Request(x)
  BY <1>4, OpenInv, EndEditInv DEF Request
<1>5. CASE (\E g \in Grants : Age(g) \/ Revoke(g)) \/ RawLogging
  BY <1>5, GrantInv, RawInv
<1>6. CASE (\E f \in Files : Deliver(f)) \/ Consume \/ LookupFails \/ WindowsPass
  BY <1>6, DeliverInv, TakeInv, WindowsInv
<1>7. CASE (\E k \in Gates : Refuse(k)) \/ (\E t \in Targets : Clear(t))
           \/ (\E kind \in Switchable : Toggle(kind)) \/ Crash
  BY <1>7, RefuseInv, ClearInv, ToggleInv, CrashInv
<1> QED
  BY <1>1, <1>2, <1>3, <1>4, <1>5, <1>6, <1>7 DEF Next

LEMMA Invariance == Spec => []IInv
BY InitInv, NextInv, PTL DEF Spec

\* The rows, the calls of notify() and the watchers' state stay well formed.
THEOREM AlertTypes == Spec => []TypeOK
<1>1. IInv => TypeOK
  BY DEF IInv
<1> QED
  BY <1>1, Invariance, PTL

\* GrantsWatcher._already_notified: the operator has one open reminder of each
\* grant, for any number of grants, ticks, failures and restarts.
THEOREM RemindersAreSingle == Spec => []OneOpenAlert
<1>1. IInv => OneOpenAlert
  BY DEF IInv
<1> QED
  BY <1>1, Invariance, PTL

\* audit_repo's incident of a critical edit, for any number of edits at once.
THEOREM EditsAreReported == Spec => []IncidentsAreTold
<1>1. IInv => IncidentsAreTold
  BY DEF IInv, Reported, Lost, IncidentsAreTold
<1> QED
  BY <1>1, Invariance, PTL

\* DeliverablesWatcher: for any files, those of the engine are announced only if
\* looked up too early, and those of plugins always, but for noted losses.
THEOREM FilesAreAnnounced == Spec => []EngineFilesAreQuiet
<1>1. IInv => EngineFilesAreQuiet
  BY DEF IInv, Announced, Telling, EngineFilesAreQuiet
<1> QED
  BY <1>1, Invariance, PTL
=============================================================================
