------------------------------- MODULE ToolCalls -------------------------------
(***************************************************************************)
(* The tool calls of an agent's runs: ToolExecutor.call in the server, the *)
(* plugin in its sandbox child, the service or file the plugin changes,    *)
(* and the operator, who edits the plugin's configuration meanwhile.       *)
(*                                                                         *)
(* A plugin is what its execute() asks of the operator's configuration     *)
(* before it acts (needs), how many separate changes a complete call makes *)
(* (parts) and what it does with a part that fails (fails).  A change and  *)
(* the answer to it are apart: a connection may be lost after the service  *)
(* has acted, and the child may be killed between two parts.  Three        *)
(* plugins act through a program of the host's that they start, which on   *)
(* some hosts outlives a child that is killed.                             *)
(*                                                                         *)
(* needs:  "address"  the service, or the folder, is configured            *)
(*         "write"    the switch that lets the plugin write is on          *)
(*         "target"   the target is on the operator's allowlist            *)
(*         "secret"   the vault holds the credential                       *)
(* fails:  "raise"    an exception, which carries none of the parts done   *)
(*         "report"   an answer with ok=False and the parts done           *)
(*         "skip"     the part is left out and the plugin goes on          *)
(***************************************************************************)
EXTENDS Naturals, FiniteSets

CONSTANTS
    Calls,       \* calls in flight: runs, and the tools of one run
    Granted,     \* tools the agent's allowlist and permissions let it call
    Chunks,      \* messages that a long Telegram text is split into
    Recipients,  \* recipients of auto_share on Google Drive
    Images,      \* images asked for in one call
    Namespaced,  \* the sandbox gives the child a pid namespace: bubblewrap on a
                 \* host does, bubblewrap in a container and seatbelt do not
    MaxEdits     \* bound: operator edits in a behaviour

ASSUME ToolConstants ==
    /\ Chunks \in Nat \ {0} /\ Recipients \in Nat /\ Images \in Nat \ {0}
    /\ Namespaced \in BOOLEAN /\ MaxEdits \in Nat

-----------------------------------------------------------------------------
(* The plugins.                                                            *)

Tool(plugin, needs, parts, fails) ==
    [plugin |-> plugin, needs |-> needs, parts |-> parts, fails |-> fails]

ReadStates     == Tool("home_assistant", {"address", "secret", "target"}, 0, "raise")
GetState       == ReadStates
GetHistory     == ReadStates
RenderTemplate == Tool("home_assistant", {"address", "secret"}, 0, "raise")
CallService    == Tool("home_assistant", {"address", "secret", "write", "target"}, 1, "raise")
ListCalendars  == Tool("calendar", {"address", "secret"}, 0, "raise")
ReadEvents     == Tool("calendar", {"address", "secret", "target"}, 0, "raise")
GetEvent       == ReadEvents
FindFreeSlots  == ReadEvents
CreateEvent    == Tool("calendar", {"address", "secret", "write", "target"}, 1, "raise")
\* Any failure is taken for an event that is not in this calendar.
DeleteEvent    == Tool("calendar", {"address", "secret", "write", "target"}, 1, "report")
ListMailboxes  == Tool("imap_reader", {"address", "secret"}, 0, "raise")
SearchMail     == Tool("imap_reader", {"address", "secret", "target"}, 0, "raise")
\* Fetching with mark_seen_on_read sets the \Seen flag.
ReadMessage    == Tool("imap_reader", {"address", "secret", "target"}, 1, "raise")
ListChannels   == Tool("slack", {"secret"}, 0, "raise")
PostMessage    == Tool("slack", {"secret", "target"}, 1, "raise")
UpdateMessage  == PostMessage
React          == PostMessage
SendMessage    == Tool("telegram_messenger", {"secret", "target"}, Chunks, "report")
EditMessage    == Tool("telegram_messenger", {"secret", "target"}, 1, "report")
SetCommands    == Tool("telegram_messenger", {"secret"}, 1, "report")
SendMail       == Tool("email_sender", {"address", "secret", "target"}, 1, "raise")
PostWebhook    == Tool("webhook", {"secret", "target"}, 1, "raise")
SendRequest    == Tool("http_tool", {"secret", "target", "write"}, 1, "raise")
ReadFile       == Tool("filesystem", {"target"}, 0, "raise")
\* An existing file is truncated, then written.
WriteFile      == Tool("filesystem", {"target", "write"}, 2, "raise")
ReadCsv        == Tool("csv_io", {"target"}, 0, "raise")
WriteCsv       == Tool("csv_io", {"target", "write"}, 2, "raise")
WriteNote      == Tool("markdown_writer", {"target", "write"}, 2, "raise")
RunStatement   == Tool("sqlite", {"target", "write"}, 1, "raise")
Commit         == Tool("git", {"target", "write"}, 1, "raise")
RunCommand     == Tool("shell", {"target", "write"}, 1, "raise")
\* The paid request, then one file for each image.
DrawImages     == Tool("image_gen", {"address", "secret"}, 1 + Images, "raise")
ListRemote     == Tool("cloud_drive", {"secret", "target"}, 0, "raise")
SearchRemote   == ListRemote
GetFile        == Tool("cloud_drive", {"secret", "target"}, 1, "report")
\* The upload to Google Drive, then a grant for each recipient.
PutFile        == Tool("cloud_drive", {"secret", "write", "target"}, 1 + Recipients, "skip")
\* The upload, then one request for all the recipients.
PutOneDrive    == Tool("cloud_drive", {"secret", "write", "target"}, 2, "skip")
PutDropbox     == PutOneDrive
DeleteRemote   == Tool("cloud_drive", {"secret", "write", "target"}, 1, "report")
Search         == Tool("web_search", {"secret"}, 0, "raise")
\* DuckDuckGo's page is read without a key.
SearchKeyless  == Tool("web_search", {}, 0, "raise")
SearchWiki     == Tool("wikipedia", {}, 0, "report")
ReadSummary    == SearchWiki
\* The list of sections, then the one named.
ReadSection    == SearchWiki
ReadFeed       == Tool("rss_reader", {"target"}, 0, "raise")
FetchPage      == Tool("http_client", {"secret", "target", "write"}, 1, "raise")
ReadPdf        == Tool("pdf_reader", {"target"}, 0, "raise")
QueryJson      == Tool("json_query", {}, 0, "raise")
\* The operator may keep a list of the time zones.
TellTime       == Tool("datetime", {"target"}, 0, "raise")
Geocode        == Tool("maps", {}, 0, "report")
GeocodeMapbox  == Tool("maps", {"secret"}, 0, "report")
GeocodeGoogle  == GeocodeMapbox
Forecast       == Tool("weather", {}, 0, "report")
ForecastUs     == Forecast
ForecastByKey  == Tool("weather", {"secret"}, 0, "report")

Tools == {ReadStates, GetState, GetHistory, RenderTemplate, CallService, ListCalendars,
          ReadEvents, GetEvent, FindFreeSlots, CreateEvent, DeleteEvent, ListMailboxes,
          SearchMail, ReadMessage, ListChannels, PostMessage, UpdateMessage, React, SendMessage,
          EditMessage, SetCommands, SendMail, PostWebhook, SendRequest, ReadFile, WriteFile,
          ReadCsv, WriteCsv, WriteNote, RunStatement, Commit, RunCommand, DrawImages, ListRemote,
          SearchRemote, GetFile, PutFile, PutOneDrive, PutDropbox, DeleteRemote, Search,
          SearchKeyless, SearchWiki, ReadSummary, ReadSection, ReadFeed, FetchPage, ReadPdf,
          QueryJson, TellTime, Geocode, GeocodeMapbox, GeocodeGoogle, Forecast, ForecastUs,
          ForecastByKey}

ASSUME GrantedTools == Granted \subseteq Tools

Plugins == {t.plugin : t \in Tools}

Switches == {"address", "write", "target"}

\* The config schema's defaults: what holds when the operator has set nothing.
Default(p) ==
    IF p \in {"filesystem", "csv_io", "markdown_writer"} THEN {"target", "write"}
    ELSE IF p = "image_gen" THEN {"address"}
    ELSE IF p \in {"http_tool", "pdf_reader", "datetime"} THEN {"target"} ELSE {}

\* The sandbox child acts in tools of this kind only while the write switch is
\* on; without it the call is a read.
ActsOnlyIfWritable(t) == t = ReadMessage

\* The first part is done by a program that the child starts: git, the operator's
\* command, rclone.  The grants of a put are the plugin's own requests.
Spawns(t) == t.plugin \in {"git", "shell", "cloud_drive"}

-----------------------------------------------------------------------------
VARIABLES
    row,      \* what the operator's PluginConfigRow lets through
    drifted,  \* plugins whose row no longer validates against their schema
    vault,    \* plugins whose credential is in the vault
    call,     \* the calls, in the server and in their children
    edits     \* operator edits so far

vars == <<row, drifted, vault, call, edits>>

Outcomes == {"none", "ok", "refused", "failed", "timeout", "cancelled"}

\* pc: the call in the server; child: the sandboxed process, or the program it has
\* left running ("orphan"); tried: parts the
\* plugin has been through; done: parts that took effect; told: parts the plugin
\* counts as done; overtaken: the operator edited the plugin after the load.
Call == [pc : {"loaded", "waiting", "returned"}, tool : Tools, has : SUBSET Switches,
         cred : BOOLEAN, child : {"none", "working", "orphan", "gone"}, tried : Nat, done : Nat,
         told : Nat, out : Outcomes, overtaken : BOOLEAN]

NoCall == [pc |-> "idle"]

InFlight(c) == call[c] # NoCall

\* load_plugin_config: the row, the defaults when there is none, and the
\* defaults again when the row does not validate.
Loaded(p) == IF p \in drifted THEN Default(p) ELSE row[p]

Init ==
    /\ row = [p \in Plugins |-> Switches]
    /\ drifted = {}
    /\ vault = Plugins
    /\ call = [c \in Calls |-> NoCall]
    /\ edits = 0

\* The write switch is not looked at.
Admitted_NoSwitch(k) == k.tool.needs \ (k.has \cup {"write"}) \subseteq (IF k.cred THEN {"secret"} ELSE {})

Admitted(k) == k.tool.needs \subseteq k.has \cup (IF k.cred THEN {"secret"} ELSE {})

\* Parts this call will go through.
Parts(k) == IF ActsOnlyIfWritable(k.tool) /\ "write" \notin k.has THEN 0 ELSE k.tool.parts

-----------------------------------------------------------------------------
(* ToolExecutor.call, in the server.                                       *)

\* Allowlist, permissions, budget and the operator's configuration.  A call
\* that is denied or over its budget ends here with nothing done.
Load(c, t) ==
    /\ call[c] = NoCall
    /\ t \in Granted
    /\ call' = [call EXCEPT ![c] =
                  [pc |-> "loaded", tool |-> t, has |-> Loaded(t.plugin), cred |-> FALSE,
                   child |-> "none", tried |-> 0, done |-> 0, told |-> 0, out |-> "none",
                   overtaken |-> FALSE]]
    /\ UNCHANGED <<row, drifted, vault, edits>>

\* The arguments are validated, the secrets the configuration names are read (one
\* that is missing is left out) and the child is started.
Dispatch(c) ==
    /\ InFlight(c) /\ call[c].pc = "loaded"
    /\ call' = [call EXCEPT ![c].pc = "waiting", ![c].child = "working",
                            ![c].cred = call[c].tool.plugin \in vault]
    /\ UNCHANGED <<row, drifted, vault, edits>>

\* The child's response, or its death, reaches a server that still waits for it.
Answered(k, out) ==
    [k EXCEPT !.child = "gone", !.pc = "returned",
              !.out = IF k.pc = "waiting" THEN out ELSE k.out]

\* The caller gets its error, the child is not killed.
Timeout_NoKill(c) ==
    /\ InFlight(c) /\ call[c].pc = "waiting"
    /\ call' = [call EXCEPT ![c].pc = "returned", ![c].out = "timeout"]
    /\ UNCHANGED <<row, drifted, vault, edits>>

\* What is left of a child that is killed or dies.  Only a pid namespace takes the
\* program it has started with it.
Left(k) ==
    IF ~Namespaced /\ Spawns(k.tool) /\ Admitted(k) /\ k.tried = 0 /\ k.child = "working"
       /\ Parts(k) > 0
    THEN {"gone", "orphan"} ELSE {"gone"}

\* run_sandboxed: the wall clock of the policy.  The process it has started, which
\* is the child or the sandbox around it, is killed.
Timeout(c) ==
    /\ InFlight(c) /\ call[c].pc = "waiting"
    /\ \E left \in Left(call[c]) :
          call' = [call EXCEPT ![c].pc = "returned", ![c].out = "timeout", ![c].child = left]
    /\ UNCHANGED <<row, drifted, vault, edits>>

\* The run's max_runtime, or a cancelled chat turn, cancels the await; only its
\* own timeout makes run_sandboxed kill the child.
Cancel(c) ==
    /\ InFlight(c) /\ call[c].pc \in {"loaded", "waiting"}
    /\ call' = [call EXCEPT ![c].pc = "returned", ![c].out = "cancelled"]
    /\ UNCHANGED <<row, drifted, vault, edits>>

\* The outcome has been filtered, traced and given to the model.  The model keeps
\* the call for as long as something may still be done on its account.
Forget(c) ==
    /\ InFlight(c) /\ call[c].pc = "returned" /\ call[c].child \notin {"working", "orphan"}
    /\ call' = [call EXCEPT ![c] = NoCall]
    /\ UNCHANGED <<row, drifted, vault, edits>>

-----------------------------------------------------------------------------
(* The plugin, in its child.                                               *)

Working(c) == InFlight(c) /\ call[c].child = "working"

Refuse(c) ==
    /\ Working(c) /\ ~Admitted(call[c])
    /\ call' = [call EXCEPT ![c] = Answered(call[c], "refused")]
    /\ UNCHANGED <<row, drifted, vault, edits>>

Acting(c) == Working(c) /\ Admitted(call[c]) /\ call[c].tried < Parts(call[c])

\* A part is done and the plugin knows it.
PartDone(c) ==
    /\ Acting(c)
    /\ call' = [call EXCEPT ![c].tried = @ + 1, ![c].done = @ + 1, ![c].told = @ + 1]
    /\ UNCHANGED <<row, drifted, vault, edits>>

\* A failed part of a sequence is skipped, like one of the grants.
AfterFailure_GoesOn(k) ==
    IF k.tool.fails # "raise" /\ k.tool.parts > 1 THEN [k EXCEPT !.tried = @ + 1]
    ELSE Answered([k EXCEPT !.told = IF k.tool.fails = "raise" THEN 0 ELSE @], "failed")

\* The first part of a put is the upload: rclone's error is an answer.  A grant
\* that fails is left out of shared_with.
AfterFailure(k) ==
    IF k.tool.fails = "skip" /\ k.tried > 0 THEN [k EXCEPT !.tried = @ + 1]
    ELSE Answered([k EXCEPT !.told = IF k.tool.fails = "raise" THEN 0 ELSE @], "failed")

\* The service has acted; its answer is lost, or is an error, or comes after the
\* plugin's own timeout.
PartLost(c) ==
    /\ Acting(c)
    /\ call' = [call EXCEPT ![c] = AfterFailure([call[c] EXCEPT !.done = @ + 1])]
    /\ UNCHANGED <<row, drifted, vault, edits>>

\* The plugin's own timeout kills git or the command, not what these have started.
PartFails(c) ==
    /\ Acting(c)
    /\ \/ call' = [call EXCEPT ![c] = AfterFailure(call[c])]
       \/ /\ call[c].tool.plugin \in {"git", "shell"} /\ "orphan" \in Left(call[c])
          /\ call' = [call EXCEPT ![c] = [AfterFailure(call[c]) EXCEPT !.child = "orphan"]]
    /\ UNCHANGED <<row, drifted, vault, edits>>

\* A read, or every part has been through.  A read may fail, and a server that
\* still waits may refuse the answer: its schema, or the data-class guardrails.
Respond(c) ==
    /\ Working(c) /\ Admitted(call[c]) /\ call[c].tried = Parts(call[c])
    /\ \/ call' = [call EXCEPT ![c] = Answered(call[c], "ok")]
       \/ call' = [call EXCEPT ![c] = [Answered(call[c], "failed") EXCEPT !.told = 0]]
    /\ UNCHANGED <<row, drifted, vault, edits>>

\* The child dies with no frame on its stdout: a resource limit.
ChildDies(c) ==
    /\ Working(c)
    /\ \E left \in Left(call[c]) :
          call' = [call EXCEPT ![c] =
                     [Answered(call[c], "failed") EXCEPT !.told = 0, !.child = left]]
    /\ UNCHANGED <<row, drifted, vault, edits>>

\* The program that a dead child had started does its part, or does not.
OrphanEnds(c) ==
    /\ InFlight(c) /\ call[c].child = "orphan"
    /\ \/ call' = [call EXCEPT ![c].child = "gone", ![c].done = 1]
       \/ call' = [call EXCEPT ![c].child = "gone"]
    /\ UNCHANGED <<row, drifted, vault, edits>>

-----------------------------------------------------------------------------
(* The operator.                                                           *)

Edit(p) ==
    /\ edits < MaxEdits
    /\ edits' = edits + 1
    /\ call' = [c \in Calls |->
                  IF InFlight(c) /\ call[c].tool.plugin = p
                  THEN [call[c] EXCEPT !.overtaken = TRUE] ELSE call[c]]

\* update_plugin_config: the row is validated and replaced.
SavePluginConfig(p, switches) ==
    /\ row' = [row EXCEPT ![p] = switches]
    /\ drifted' = drifted \ {p}
    /\ Edit(p)
    /\ UNCHANGED vault

\* The row is deleted; the next load seeds it with the defaults.
ResetPluginConfig(p) ==
    /\ row' = [row EXCEPT ![p] = Default(p)]
    /\ drifted' = drifted \ {p}
    /\ Edit(p)
    /\ UNCHANGED vault

\* A new version of the plugin, whose schema refuses the row.
ChangeSchema(p) ==
    /\ drifted' = drifted \cup {p}
    /\ Edit(p)
    /\ UNCHANGED <<row, vault>>

SetSecret(p) ==
    /\ vault' = IF p \in vault THEN vault \ {p} ELSE vault \cup {p}
    /\ Edit(p)
    /\ UNCHANGED <<row, drifted>>

-----------------------------------------------------------------------------
Server(c) == Dispatch(c) \/ Timeout(c) \/ Cancel(c) \/ Forget(c)

Child(c) ==
    Refuse(c) \/ PartDone(c) \/ PartLost(c) \/ PartFails(c) \/ Respond(c) \/ ChildDies(c)
    \/ OrphanEnds(c)

Operator(p) ==
    \/ \E switches \in SUBSET Switches : SavePluginConfig(p, switches)
    \/ ResetPluginConfig(p) \/ ChangeSchema(p) \/ SetSecret(p)

Next ==
    \/ \E c \in Calls, t \in Tools : Load(c, t)
    \/ \E c \in Calls : Server(c) \/ Child(c)
    \/ \E p \in Plugins : Operator(p)

Spec == Init /\ [][Next]_vars

-----------------------------------------------------------------------------
TypeOK ==
    /\ row \in [Plugins -> SUBSET Switches]
    /\ drifted \subseteq Plugins
    /\ vault \subseteq Plugins
    /\ call \in [Calls -> Call \cup {NoCall}]
    /\ edits \in 0..MaxEdits

\* What a call says of itself matches what it did.  A refusal has changed
\* nothing.  Success means that every part is done and counted, a grant of a put
\* apart, which may be given without being listed in shared_with, never the
\* reverse.  A plugin that answers with the parts done has missed the one in
\* flight at most, so a retry from there repeats one part at most; no plugin ever
\* counts a part that is not done.
Honest(k) ==
    /\ k.told <= k.done
    /\ k.out = "refused" => k.done = 0
    /\ k.out = "ok" => \/ k.done = k.told /\ k.told = Parts(k)
                       \/ k.tool.fails = "skip" /\ k.done > 0
    /\ (k.out = "failed" /\ k.tool.fails = "report" /\ k.told > 0) => k.done <= k.told + 1

AnswersAreHonest ==
    \A c \in Calls : (InFlight(c) /\ call[c].pc = "returned") => Honest(call[c])

\* A step makes a change on account of call c.
Changes(c) == InFlight(c) /\ call'[c] # NoCall /\ call'[c].done > call[c].done

\* Once the server has given the model the outcome of a call, nothing more happens
\* on the call's account, unless the run was cancelled, which leaves the child at
\* work: a timeout has killed the child, and one that has answered is through.
\* Where the sandbox has no pid namespace, the program of a child that was killed
\* may still do the one part it was started for, and nothing after it.
NothingAfterTheAnswer ==
    [][\A c \in Calls : Changes(c) /\ call[c].pc = "returned"
          => \/ call[c].out = "cancelled"
             \/ /\ ~Namespaced /\ Spawns(call[c].tool)
                /\ call[c].out \in {"timeout", "failed"} /\ call'[c].done = 1]_vars

\* The operator's row has the switches the call needs, or did when it loaded it.
Allowed(k) ==
    \/ k.overtaken \/ k.tool.plugin \in drifted
    \/ k.tool.needs \ {"secret"} \subseteq row[k.tool.plugin]

\* A change is made only where the operator's saved configuration lets it be made
\* now, or did when the call loaded it.  The one gap is a row that the plugin's
\* schema has outgrown: the defaults then stand in for what the operator saved.
ChangesAreAllowed == [][\A c \in Calls : Changes(c) => Allowed(call[c])]_vars

-----------------------------------------------------------------------------
(* The inductive invariant behind the theorems of ToolCalls_proofs.        *)

\* Server and child: a server that waits has a child at work; one that no longer
\* waits has one only if it was cancelled.
Paired(k) ==
    /\ k.pc = "loaded" => k.child = "none" /\ k.out = "none"
    /\ k.pc = "waiting" => k.child = "working" /\ k.out = "none"
    /\ (k.pc = "returned" /\ k.child = "working") => k.out = "cancelled"
    /\ k.child = "none" => k.tried = 0 /\ k.done = 0 /\ k.told = 0
    /\ k.child = "orphan" =>
          /\ ~Namespaced /\ Spawns(k.tool) /\ Admitted(k) /\ k.done = 0 /\ k.told = 0
          /\ k.pc = "returned" /\ k.out \in {"timeout", "failed", "cancelled"}

\* A child at work: parts are done only if the call is admitted; a plugin that
\* goes on after a failed part has done its first, any other has done them all.
Progressing(k) == k.child = "working" =>
    /\ k.tried <= Parts(k) /\ k.told <= k.done /\ k.done <= k.tried
    /\ k.tried > 0 => Admitted(k)
    /\ IF k.tool.fails = "skip" THEN k.tried > 0 => k.done > 0
       ELSE k.told = k.tried /\ k.done = k.tried

\* A call that no edit has overtaken holds what would be loaded now.
Current(k) == k.overtaken \/ k.has = Loaded(k.tool.plugin)

IInv ==
    /\ TypeOK /\ AnswersAreHonest
    /\ \A c \in Calls : InFlight(c) => Paired(call[c]) /\ Progressing(call[c]) /\ Current(call[c])
================================================================================
