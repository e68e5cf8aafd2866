------------------------------ MODULE Guardrails -----------------------------
(* The data-class guardrails of EmberSpark: the policy rows and grants that  *)
(* operators edit on the Filtering and Security pages, and the checks that   *)
(* the engine, the chat, the tool runtime and the memory make against them.  *)
(*                                                                           *)
(* An edit reads its row and writes it at commit; a check reads the rows and *)
(* then the grants, each by a SELECT of its own, and resolves, classifies    *)
(* and redacts without waiting. Between any two of these steps other clients *)
(* run. The detectors themselves are a constant: Findings holds the hit      *)
(* sequences they may report of a text.                                      *)
EXTENDS Redaction

CONSTANTS
  Agents, Classes, Scopes,   \* agents, data classes, data scopes
  Rules,                     \* detector rule ids
  Defaults,                  \* BUILTIN_DEFAULTS: class -> [level, scopes, style, floor, consensus]
  Findings,                  \* the raw hit sequences the detectors may report
  TextLength,
  Bodies,                    \* request bodies of the category PUTs
  GrantBodies,               \* [owner, class, scopes, level] of the grant POSTs
  Points,                    \* the override points that are edited
  Clients,                   \* concurrent edit requests
  MaxEdits, MaxGrants        \* bounds

Global == "global"           \* owner of the global rows
Everyone == "__all__"        \* owner of a grant to every agent
Nobody == "none"             \* a check without an agent (agent_name is None)
Inherit == "inherit"         \* a column that is NULL
NoFloor == -1

Levels == {LevelOrder[i] : i \in DOMAIN LevelOrder}
Styles == {"placeholder", "last", "first", "initial", "strip", Inherit}
Answers == {"yes", "no", Inherit}   \* of require_consensus
Text == [i \in 1 .. TextLength |-> i]

ASSUME GuardrailConstants ==
  /\ Points \subseteq (Agents \cup {Global}) \X Classes
  /\ MaxEdits \in Nat /\ MaxGrants \in Nat /\ TextLength \in Nat /\ Kept \in Nat
  /\ Kinds \in [1 .. TextLength -> {"letter", "digit", "other"}]
  /\ \A c \in Classes : Defaults[c].level \in Levels /\ Defaults[c].scopes \subseteq Scopes
  /\ Bodies \subseteq [level : Levels, scopes : SUBSET Scopes, style : Styles, floor : Int,
                       consensus : Answers]
  /\ GrantBodies \subseteq [owner : Agents \cup {Everyone}, class : Classes,
                            scopes : SUBSET Scopes, level : Levels, lasting : BOOLEAN]

\* what a detector reports, a match of at least one character of the text, or
\* fusing, which makes the hits of the tier "consensus"
Hits == {h \in [class : Classes, lo : 0..TextLength, hi : 0..TextLength, conf : 0..10,
                rules : SUBSET Rules, tier : {"tier1", "tier2", "consensus"}] : h.lo < h.hi}

ASSUME FindingsAreHits == Findings \subseteq Seq(Hits)

VARIABLES
  rows,      \* data_class_policies: id -> row
  grants,    \* data_class_grants: a sequence, its index is the id
  edit,      \* what each client's edit has read and will write
  check,     \* the check that runs, or the last one's outcome
  window,    \* _last_notified: the keys told within the last five minutes
  edits,     \* number of edits started (bound)
  asked,     \* history: what the committed edits of a point ask for
  raced      \* history: points two edits of which have overlapped

guardVars == <<rows, grants, edit, check, window, edits, asked, raced>>

NoRow == [level |-> "absent"]
NoEdit == [kind |-> "none"]
NoCheck == [pc |-> "idle"]

-----------------------------------------------------------------------------
\* DataPolicyRepository

RowsOf(rs, p) == {i \in DOMAIN rs : rs[i].point = p}
Greatest(S) == CHOOSE i \in S : \A j \in S : j <= i

\* get_global, get_agent: SELECT .. LIMIT 1 finds the row of the lowest id
FirstRow(p) == IF RowsOf(rows, p) = {} THEN 0 ELSE Least(RowsOf(rows, p))

\* resolve_policy keeps, of the rows in the order list_all returns, the last
RowFor(rs, p) == IF RowsOf(rs, p) = {} THEN NoRow
                 ELSE rs[Greatest(RowsOf(rs, p))].values

NewId == IF DOMAIN rows = {} THEN 1 ELSE Greatest(DOMAIN rows) + 1

\* mutant: revoked and lapsed grants are still selected
ActiveGrants_Ended(agent) ==
  {g \in DOMAIN grants : agent = Nobody \/ grants[g].owner \in {agent, Everyone}}

\* DataGrantRepository.list_active and active_for_agent
ActiveGrants(agent) ==
  {g \in DOMAIN grants :
     /\ grants[g].live
     /\ agent = Nobody \/ grants[g].owner \in {agent, Everyone}}

-----------------------------------------------------------------------------
\* resolve_policy

Knob(own, global, default, inherit) ==
  IF own # inherit THEN own ELSE IF global # inherit THEN global ELSE default

GrantFor(gs, c, scope) ==
  LET covering == {g \in gs : grants[g].class = c /\ scope \in grants[g].scopes}
  IN  IF covering = {} THEN 0 ELSE Greatest(covering)

\* grant, then the agent's row, then the global row, then the default: the
\* first that covers the scope
LevelAt(own, global, c, scope, grant) ==
  LET Covers(r) == r # NoRow /\ scope \in r.scopes
  IN  IF grant # 0 THEN grants[grant].level
      ELSE IF Covers(own) THEN own.level
      ELSE IF Covers(global) THEN global.level
      ELSE IF scope \in Defaults[c].scopes THEN Defaults[c].level ELSE "allow"

ResolvePolicy(rs, gs, agent, scope) ==
  [c \in Classes |->
     LET own    == IF agent = Nobody THEN NoRow ELSE RowFor(rs, <<agent, c>>)
         global == RowFor(rs, <<Global, c>>)
         Of(row, knob, inherit) == IF row = NoRow THEN inherit ELSE row[knob]
         consensus == Knob(Of(own, "consensus", Inherit),
                           Of(global, "consensus", Inherit), Defaults[c].consensus, Inherit)
     IN  [level     |-> LevelAt(own, global, c, scope, GrantFor(gs, c, scope)),
          style     |-> Knob(Of(own, "style", Inherit), Of(global, "style", Inherit),
                             Defaults[c].style, Inherit),
          floor     |-> Knob(Of(own, "floor", NoFloor), Of(global, "floor", NoFloor),
                             Defaults[c].floor, NoFloor),
          consensus |-> consensus = "yes",
          off       |-> Of(own, "off", {}) \cup Of(global, "off", {})]]

\* The wiki's resolution order, as a reference: of all overrides of a class
\* that cover the scope, the one of the highest rank, then of the highest id.
Overrides(rs, gs, agent, scope, c) ==
  LET Latest(p) == {i \in RowsOf(rs, p) : \A j \in RowsOf(rs, p) : j <= i}
      Ranked(rank, p) == {<<rank, i, rs[i].values.level>> :
                            i \in {j \in Latest(p) : scope \in rs[j].values.scopes}}
      granted == {g \in DOMAIN gs :
                    /\ gs[g].live /\ gs[g].class = c /\ scope \in gs[g].scopes
                    /\ gs[g].owner \in (IF agent = Nobody THEN Agents ELSE {agent})
                                        \cup {Everyone}}
  IN  {<<3, g, gs[g].level>> : g \in granted}
      \cup (IF agent = Nobody THEN {} ELSE Ranked(2, <<agent, c>>))
      \cup Ranked(1, <<Global, c>>)
      \cup {<<0, 0, IF scope \in Defaults[c].scopes THEN Defaults[c].level ELSE "allow">>}

LevelInForce(rs, gs, agent, scope, c) ==
  LET all == Overrides(rs, gs, agent, scope, c)
  IN  (CHOOSE o \in all : \A p \in all : p[1] < o[1] \/ (p[1] = o[1] /\ p[2] <= o[2]))[3]

\* history: what a policy change leaves in force is noted in a running check
Watch(what, rs, gs) ==
  check' = IF check.pc # "rows" THEN check
           ELSE [check EXCEPT
                   !.moved = @ \cup {what},
                   !.lived = [c \in Classes |-> @[c] \cup
                                {LevelInForce(rs, gs, check.agent, check.scope, c)}]]

-----------------------------------------------------------------------------
\* the edits: filtering.py (category, detector) and security.py (policy)

Requests ==
  [kind : {"category", "policy"}, point : Points, body : Bodies]
  \cup [kind : {"revert"}, point : {p \in Points : p[1] # Global}]
  \cup [kind : {"detector"}, point : {p \in Points : p[1] = Global},
        rule : Rules, on : BOOLEAN]

\* the columns of a row that the Security page and a new row leave NULL
Blank == [level |-> "allow", scopes |-> {}, style |-> Inherit, floor |-> NoFloor,
          consensus |-> Inherit, off |-> {}]

\* what a request makes of the values it has read (NoRow when there is no row)
Written(values, r) ==
  LET old == IF values = NoRow THEN Blank ELSE values
      c   == r.point[2]
  IN  CASE r.kind = "category" ->
             [level |-> r.body.level, scopes |-> r.body.scopes, style |-> r.body.style,
              floor |-> r.body.floor, consensus |-> r.body.consensus, off |-> old.off]
        [] r.kind = "policy" ->
             [old EXCEPT !.level = r.body.level, !.scopes = r.body.scopes]
        [] r.kind = "detector" ->
             [old EXCEPT !.level  = IF values = NoRow THEN Defaults[c].level ELSE @,
                         !.scopes = IF values = NoRow THEN Defaults[c].scopes ELSE @,
                         !.off    = IF r.on THEN @ \ {r.rule} ELSE @ \cup {r.rule}]
        [] OTHER -> NoRow

\* the session reads the row the request is about
BeginEdit(c) ==
  /\ edit[c] = NoEdit
  /\ edits < MaxEdits
  /\ \E r \in Requests :
       LET seen == FirstRow(r.point)
       IN  /\ r.kind = "revert" => seen # 0
           /\ edit' = [edit EXCEPT ![c] =
                [kind |-> r.kind, request |-> r, row |-> seen,
                 read |-> IF seen = 0 THEN NoRow ELSE rows[seen].values]]
           /\ raced' = raced \cup {p \in {r.point} : \E d \in Clients \ {c} :
                                     edit[d] # NoEdit /\ edit[d].request.point = p}
  /\ edits' = edits + 1
  /\ UNCHANGED <<rows, grants, check, window, asked>>

\* mutant: an upsert that leaves a column out clears it
Updated_Clears(e) ==
  IF e.kind # "policy" THEN [rows EXCEPT ![e.row].values = Written(@, e.request)]
  ELSE [rows EXCEPT ![e.row].values =
          [Blank EXCEPT !.level = e.request.body.level, !.scopes = e.request.body.scopes]]

\* the UPDATE names the columns whose value the request changed
Updated(e) ==
  LET new == Written(e.read, e.request)
      old == rows[e.row].values
  IN  [rows EXCEPT ![e.row].values =
         [f \in DOMAIN old |-> IF new[f] # e.read[f] THEN new[f] ELSE old[f]]]

Inserted(e) ==
  [i \in DOMAIN rows \cup {NewId} |->
     IF i = NewId THEN [point |-> e.request.point, values |-> Written(NoRow, e.request)]
     ELSE rows[i]]

Deleted(e) == [i \in DOMAIN rows \ {e.row} |-> rows[i]]

\* the session commits; an id that SQLite has given to another row since is
\* that row's
CommitEdit(c) ==
  LET e == edit[c]
      p == e.request.point
  IN  /\ e # NoEdit
      /\ e.kind # "revert" => e.row \in DOMAIN rows \cup {0}
      /\ rows' = IF e.kind = "revert" THEN Deleted(e)
                 ELSE IF e.row = 0 THEN Inserted(e) ELSE Updated(e)
      /\ asked' = [asked EXCEPT ![p] = Written(@, e.request)]
      /\ raced' = raced \cup {q \in Points : /\ e.row \in DOMAIN rows
                                            /\ rows[e.row].point # p
                                            /\ q \in {p, rows[e.row].point}}
      /\ edit' = [edit EXCEPT ![c] = NoEdit]
      /\ Watch("rows", rows', grants)
      /\ UNCHANGED <<grants, window, edits>>

\* the commit fails, or the row to update is gone: 500, nothing is written
FailEdit(c) ==
  /\ edit[c] # NoEdit
  /\ edit' = [edit EXCEPT ![c] = NoEdit]
  /\ UNCHANGED <<rows, grants, check, window, edits, asked, raced>>

-----------------------------------------------------------------------------
\* the grants of security.py

CreateGrant ==
  /\ Len(grants) < MaxGrants
  /\ \E b \in GrantBodies :
       grants' = Append(grants, [owner |-> b.owner, class |-> b.class, scopes |-> b.scopes,
                                 level |-> b.level, lasting |-> b.lasting, live |-> TRUE])
  /\ Watch("grants", rows, grants')
  /\ UNCHANGED <<rows, edit, window, edits, asked, raced>>

\* RevokeGrant clears the active flag; a grant with a time to live lapses
EndGrant(g, by) ==
  /\ grants[g].live
  /\ by = "time" => ~grants[g].lasting
  /\ grants' = [grants EXCEPT ![g].live = FALSE]
  /\ Watch("grants", rows, grants')
  /\ UNCHANGED <<rows, edit, window, edits, asked, raced>>

RevokeGrant == \E g \in DOMAIN grants : EndGrant(g, "operator")
GrantLapses == \E g \in DOMAIN grants : EndGrant(g, "time")

-----------------------------------------------------------------------------
\* apply_guardrails

RowsRead == rows

\* _load_rows_and_grants: the first of its two SELECTs
ReadRows ==
  /\ check.pc \in {"idle", "passed", "refused"}
  /\ \E agent \in Agents \cup {Nobody}, scope \in Scopes :
       check' = [pc |-> "rows", agent |-> agent, scope |-> scope, rows |-> RowsRead,
                 lived |-> [c \in Classes |-> {LevelInForce(rows, grants, agent, scope, c)}],
                 moved |-> {}]
  /\ UNCHANGED <<rows, grants, edit, window, edits, asked, raced>>

RunClassifiers(raw, enabled) == Taken(raw, {i \in DOMAIN raw : raw[i].class \in enabled})

\* how a check has ended: the class that blocks it, or the hits it cuts out
Decided(pc, class, cut, policy) ==
  [pc |-> pc, agent |-> check.agent, scope |-> check.scope, class |-> class, cut |-> cut,
   levels |-> [c \in Classes |-> policy[c].level], lived |-> check.lived, moved |-> check.moved,
   style  |-> [c \in Classes |-> policy[c].style], out |-> ApplyRedactions(Text, cut, policy)]

\* the second SELECT, and everything up to the next await
Decide ==
  /\ check.pc = "rows"
  /\ \E raw \in Findings :
       LET policy  == ResolvePolicy(check.rows, ActiveGrants(check.agent),
                                    check.agent, check.scope)
           enabled == {c \in Classes : policy[c].level # "allow"}
           hits    == Accepted(FuseHits(RunClassifiers(raw, enabled)), policy)
           blocked == HitsAt("block", hits, policy)
       IN  check' = IF blocked # <<>>
                    THEN Decided("blocked", Head(blocked).class, <<>>, policy)
                    ELSE Decided("passed", "none", HitsAt("redact", hits, policy), policy)
  /\ UNCHANGED <<rows, grants, edit, window, edits, asked, raced>>

\* _notify_block: once per agent, class and scope within the window, whether
\* the notification is written or fails; then DATA_CLASS_BLOCKED is raised
NotifyBlock ==
  /\ check.pc = "blocked"
  /\ window' = window \cup {<<check.agent, check.class, check.scope>>}
  /\ check' = [check EXCEPT !.pc = "refused"]
  /\ UNCHANGED <<rows, grants, edit, edits, asked, raced>>

WindowPasses ==
  /\ \E key \in window : window' = window \ {key}
  /\ UNCHANGED <<rows, grants, edit, check, edits, asked, raced>>

-----------------------------------------------------------------------------
GuardInit ==
  /\ rows = <<>>
  /\ grants = <<>>
  /\ edit = [c \in Clients |-> NoEdit]
  /\ check = NoCheck
  /\ window = {}
  /\ edits = 0
  /\ asked = [p \in Points |-> NoRow]
  /\ raced = {}

GuardNext ==
  \/ \E c \in Clients : BeginEdit(c) \/ CommitEdit(c) \/ FailEdit(c)
  \/ CreateGrant \/ RevokeGrant \/ GrantLapses
  \/ ReadRows \/ Decide \/ NotifyBlock \/ WindowPasses

GuardSpec == GuardInit /\ [][GuardNext]_guardVars

-----------------------------------------------------------------------------
\* The columns of a row; NULL is Inherit or NoFloor.
Values == [level : Levels, scopes : SUBSET Scopes, style : Styles, floor : Int,
           consensus : Answers, off : SUBSET Rules]

RowsTyped(rs) ==
  /\ DOMAIN rs \subseteq Nat \ {0}
  /\ \A i \in DOMAIN rs : rs[i] \in [point : Points, values : Values]

\* Until it has decided, a check holds the rows it read.
CheckTyped ==
  /\ check.pc \in {"idle", "rows", "passed", "blocked", "refused"}
  /\ check.pc # "idle" =>
       /\ check.agent \in Agents \cup {Nobody} /\ check.scope \in Scopes
       /\ check.moved \subseteq {"rows", "grants"}
       /\ DOMAIN check.lived = Classes
  /\ check.pc = "rows" => RowsTyped(check.rows)
  /\ check.pc \in {"passed", "blocked", "refused"} => DOMAIN check.levels = Classes

GuardTypeOK ==
  /\ RowsTyped(rows)
  /\ grants \in Seq([owner : Agents \cup {Everyone}, class : Classes, scopes : SUBSET Scopes,
                     level : Levels, lasting : BOOLEAN, live : BOOLEAN])
  /\ edit \in [Clients -> {NoEdit} \cup
                [kind : {"category", "policy", "revert", "detector"}, request : Requests,
                 row : Nat, read : {NoRow} \cup Values]]
  /\ CheckTyped
  /\ edits \in 0..MaxEdits /\ Len(grants) \in 0..MaxGrants
  /\ asked \in [Points -> {NoRow} \cup Values] /\ raced \subseteq Points

-----------------------------------------------------------------------------
\* The level a check applies to a class was in force for its agent and scope at
\* some moment of the check, by the documented order grant, agent, global,
\* default. A change of the rows and a change of the grants that both land
\* between the two reads of _load_rows_and_grants are the one exception: the
\* check may then combine rows and grants that never stood together.
LevelWasInForce ==
  check.pc \in {"passed", "blocked", "refused"} /\ check.moved # {"rows", "grants"}
    => \A c \in Classes : check.levels[c] \in check.lived[c]

\* The override that checks resolve for a point is what the edits committed so
\* far ask for, field by field, unless two edits of the point have overlapped:
\* overlapping first edits leave two rows of which later edits write the first
\* and checks read the last, and overlapping detector toggles lose one.
EditsTakeEffect ==
  \A p \in Points \ raced : RowFor(rows, p) = asked[p]

\* A text that passes shows no character of a redacted hit beyond what its mask
\* style keeps, and loses no other, unless two redacted hits overlap: a hit
\* inside or across another shifts the places at which the other is cut.
RedactedIsHidden ==
  check.pc = "passed" =>
    LET cut    == check.cut
        hidden == UNION {(cut[i].lo + 1 .. cut[i].hi) \ Shown(check.style[cut[i].class], cut[i]) :
                           i \in DOMAIN cut}
    IN  (\A i, j \in DOMAIN cut : i # j => ~Overlap(cut[i], cut[j]))
          => /\ {check.out[i] : i \in DOMAIN check.out} \ {Mark} = (1 .. TextLength) \ hidden
             /\ \A i, j \in {k \in DOMAIN check.out : check.out[k] # Mark} :
                  i < j => check.out[i] < check.out[j]
=============================================================================
