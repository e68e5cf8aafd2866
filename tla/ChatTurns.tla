----------------------------- MODULE ChatTurns ------------------------------
(***************************************************************************)
(* The chat turns of one session: the WebSocket handlers that accept       *)
(* messages and attach viewers, the background task that owns each turn,   *)
(* the broker between them, the session's history and turn rows, and the   *)
(* endpoint that deletes the session.                                      *)
(*                                                                         *)
(* Handlers and tasks share one event loop: what one does between two      *)
(* awaits is a step.  An answer is its number of chunks; of the history only *)
(* the answers are kept, not the messages, the error texts, the order of    *)
(* the rows or the 500 they are pruned to.                                 *)
(***************************************************************************)
EXTENDS Naturals, Sequences, FiniteSets

CONSTANTS
    Sockets,     \* WebSocket connections to the session
    MaxTurns,    \* bound: turns begun over the life of the database
    Chunks       \* chunks in a whole answer

ASSUME ChatConstants ==
    /\ MaxTurns \in Nat /\ Chunks \in Nat
    /\ IsFiniteSet(Sockets)

Turns == 1..MaxTurns
None  == 0

VARIABLES
    sock,      \* where the handler of a socket is
    aims,      \* the turn a resuming or starting handler is about
    view,      \* the viewer pump: off, or due or on a turn
    queue,     \* the pump's queue: chunks, and None for the done event
    seen,      \* the chunks of the turn shown to the client
    born,      \* turns begun
    step,      \* where the background task of a turn is
    said,      \* chunks the task has published, 0 when there is no task
    row,       \* ChatTurnRow: state and flushed chunks
    open,      \* brokers that are registered and not closed
    current,   \* _turn_by_session of the session
    alive,     \* the SessionRow exists
    history,   \* the turns with an answer among the SessionMemoryRows
    deleting   \* delete_session is past its check

client  == <<sock, aims>>
viewer  == <<view, queue, seen>>
task    == <<born, step, said>>
broker  == <<open, current>>
session == <<alive, history, deleting>>
vars    == <<client, viewer, task, row, broker, session>>

Off        == [mode |-> "off", turn |-> None]
Due(t)     == [mode |-> "due", turn |-> t]
On(t)      == [mode |-> "on", turn |-> t]
Row(s, n)  == [state |-> s, text |-> n]
NoRow      == Row("none", 0)

Init ==
    /\ sock = [v \in Sockets |-> "offline"]
    /\ aims = [v \in Sockets |-> None]
    /\ view = [v \in Sockets |-> Off]
    /\ queue = [v \in Sockets |-> <<>>]
    /\ seen = [v \in Sockets |-> <<>>]
    /\ born = 0
    /\ step = [t \in Turns |-> "unborn"]
    /\ said = [t \in Turns |-> 0]
    /\ row = [t \in Turns |-> NoRow]
    /\ open = {} /\ current = None
    /\ alive = TRUE /\ history = {} /\ deleting = FALSE

\* broker_for_session is not None: the turn indexed last is still open.
Streaming == current \in open

\* SessionMemory.append: ensures the SessionRow and adds an entry.
Remember(answers) ==
    /\ alive' = TRUE
    /\ history' = history \cup answers
    /\ UNCHANGED deleting

-----------------------------------------------------------------------------
(* chat_socket.                                                            *)

\* The session exists; a turn that is streaming is resumed.
Connect(v) ==
    /\ sock[v] = "offline" /\ alive
    /\ sock' = [sock EXCEPT ![v] = IF Streaming THEN "resuming" ELSE "idle"]
    /\ aims' = [aims EXCEPT ![v] = IF Streaming THEN current ELSE None]
    /\ seen' = [seen EXCEPT ![v] = <<>>]
    /\ UNCHANGED <<view, queue, task, row, broker, session>>

\* _send_resume replays the row, if there is one; then the pump is created,
\* which subscribes when it first runs.
Resume(v) ==
    /\ sock[v] = "resuming"
    /\ sock' = [sock EXCEPT ![v] = "idle"]
    /\ aims' = [aims EXCEPT ![v] = None]
    /\ seen' = [seen EXCEPT ![v] = [i \in 1..row[aims[v]].text |-> i]]
    /\ view' = [view EXCEPT ![v] = Due(aims[v])]
    /\ UNCHANGED <<queue, task, row, broker, session>>

\* A message that finds no turn streaming goes to the guardrail.
Send(v) ==
    /\ sock[v] = "idle"
    /\ ~Streaming
    /\ born + Cardinality({u \in Sockets : sock[u] \in {"guarding", "saved"}}) < MaxTurns
    /\ sock' = [sock EXCEPT ![v] = "guarding"]
    /\ UNCHANGED <<aims, viewer, task, row, broker, session>>

\* apply_guardrails refuses the message, or memory.append persists it.
Guard(v) ==
    /\ sock[v] = "guarding"
    /\ \/ /\ sock' = [sock EXCEPT ![v] = "idle"]
          /\ UNCHANGED session
       \/ /\ sock' = [sock EXCEPT ![v] = "saved"]
          /\ Remember({})
    /\ UNCHANGED <<aims, viewer, task, row, broker>>

\* create_broker; the handler now waits to send the started frame.
Register(v) ==
    /\ sock[v] = "saved"
    /\ LET t == born + 1
       IN  /\ born' = t
           /\ step' = [step EXCEPT ![t] = "registered"]
           /\ open' = open \cup {t}
           /\ current' = t
           /\ aims' = [aims EXCEPT ![v] = t]
    /\ sock' = [sock EXCEPT ![v] = "starting"]
    /\ UNCHANGED <<viewer, said, row, session>>

\* The frame is sent: the turn becomes a task and the pump moves to its broker,
\* where it subscribes before the task, which first opens a session, publishes.
Started(v) ==
    /\ sock[v] = "starting"
    /\ step' = [step EXCEPT ![aims[v]] = "spawned"]
    /\ sock' = [sock EXCEPT ![v] = "idle"]
    /\ aims' = [aims EXCEPT ![v] = None]
    /\ view' = [view EXCEPT ![v] = On(aims[v])]
    /\ queue' = [queue EXCEPT ![v] = <<>>]
    /\ seen' = [seen EXCEPT ![v] = <<>>]
    /\ UNCHANGED <<born, said, row, broker, session>>

\* The handler ends: its client is gone, which it learns from its next receive
\* or send, or the append failed.  One that was about to send the started
\* frame leaves a broker without a task.
Leave(v) ==
    /\ sock[v] \in {"resuming", "idle", "guarding", "starting"}
    /\ sock' = [sock EXCEPT ![v] = "offline"]
    /\ aims' = [aims EXCEPT ![v] = None]
    /\ view' = [view EXCEPT ![v] = Off]
    /\ queue' = [queue EXCEPT ![v] = <<>>]
    /\ seen' = [seen EXCEPT ![v] = <<>>]
    /\ UNCHANGED <<task, row, broker, session>>

-----------------------------------------------------------------------------
(* _viewer_pump.                                                           *)

Subscribe(v) ==
    /\ view[v].mode = "due"
    /\ view' = [view EXCEPT ![v] = On(view[v].turn)]
    /\ UNCHANGED <<client, queue, seen, task, row, broker, session>>

\* Forwards one event; stops after done.
Forward(v) ==
    /\ queue[v] # <<>>
    /\ queue' = [queue EXCEPT ![v] = Tail(@)]
    /\ IF Head(queue[v]) # None
       THEN /\ seen' = [seen EXCEPT ![v] = Append(@, Head(queue[v]))]
            /\ UNCHANGED view
       ELSE /\ seen' = [seen EXCEPT ![v] = <<>>]
            /\ view' = [view EXCEPT ![v] = Off]
    /\ UNCHANGED <<client, task, row, broker, session>>

-----------------------------------------------------------------------------
(* _run_turn_background and _run_chat_turn.                                *)

Go(t, from, to) ==
    /\ step[t] = from
    /\ step' = [step EXCEPT ![t] = to]
    /\ UNCHANGED born

\* TurnBroker.publish: to the queues of the pumps subscribed to the turn.
Publish(t, event) ==
    queue' = [v \in Sockets |-> IF view[v] = On(t) THEN Append(queue[v], event) ELSE queue[v]]

\* Mutant: the index is popped whichever turn it names.
Discard_Always(t) == open' = open \ {t} /\ current' = None

\* discard_broker.
Discard(t) ==
    /\ open' = open \ {t}
    /\ current' = IF current = t THEN None ELSE current

\* The row is inserted before the try: if that fails, the broker stays.
Launch(t) ==
    /\ \/ /\ Go(t, "spawned", "streaming")
          /\ row' = [row EXCEPT ![t] = Row("running", 0)]
       \/ /\ Go(t, "spawned", "stuck")
          /\ UNCHANGED row
    /\ UNCHANGED <<said, client, viewer, broker, session>>

Chunk(t) ==
    /\ step[t] = "streaming" /\ said[t] < Chunks
    /\ said' = [said EXCEPT ![t] = @ + 1]
    /\ Publish(t, said'[t])
    /\ UNCHANGED <<client, view, seen, born, step, row, broker, session>>

\* Mutant: the flush writes the chunk about to be published.
Flush_Ahead(t) ==
    /\ step[t] = "streaming" /\ row[t] # NoRow
    /\ row' = [row EXCEPT ![t].text = IF said[t] < Chunks THEN said[t] + 1 ELSE said[t]]
    /\ UNCHANGED <<client, viewer, task, broker, session>>

\* _maybe_flush_db, at most every quarter of a second, best effort.
Flush(t) ==
    /\ step[t] = "streaming" /\ row[t] # NoRow
    /\ row' = [row EXCEPT ![t].text = said[t]]
    /\ UNCHANGED <<client, viewer, task, broker, session>>

\* The whole answer is there and passed the output guardrail; or something
\* raised.
Answer(t) ==
    /\ \/ said[t] = Chunks /\ Go(t, "streaming", "answered")
       \/ Go(t, "streaming", "failed")
    /\ UNCHANGED <<said, client, viewer, row, broker, session>>

\* The answer enters the history.
Store(t) ==
    /\ \/ Go(t, "answered", "stored") /\ Remember({t})
       \/ Go(t, "answered", "failed") /\ UNCHANGED session
    /\ UNCHANGED <<said, client, viewer, row, broker>>

\* Mutant: the row is written again when it is gone, its session deleted.
Complete_Anyway(t) ==
    /\ \/ /\ Go(t, "stored", "closing")
          /\ row' = [row EXCEPT ![t] = Row("completed", Chunks)]
       \/ Go(t, "stored", "failed") /\ UNCHANGED row
    /\ UNCHANGED <<said, client, viewer, broker, session>>

\* Closes the row, if it is still there; then the title is generated.
Complete(t) ==
    /\ \/ /\ Go(t, "stored", "closing")
          /\ row' = IF row[t] = NoRow THEN row
                    ELSE [row EXCEPT ![t] = Row("completed", Chunks)]
       \/ Go(t, "stored", "failed") /\ UNCHANGED row
    /\ UNCHANGED <<said, client, viewer, broker, session>>

\* The error enters the history; a failure to record it is swallowed.
Apologise(t) ==
    /\ Go(t, "failed", "noted")
    /\ Remember({}) \/ UNCHANGED session
    /\ UNCHANGED <<said, client, viewer, row, broker>>

\* The error replaces the text, or follows the answer if there already was one.
RowFails(t) ==
    row' \in IF row[t] = NoRow THEN {row}
             ELSE {[row EXCEPT ![t] = Row("error", n)] :
                       n \in {0} \cup (IF said[t] = Chunks THEN {Chunks} ELSE {})}

\* Mutant: no finally around the handler of the error.
RowError_Leaks(t) ==
    /\ \/ /\ Go(t, "noted", "closing")
          /\ RowFails(t)
          /\ UNCHANGED said
       \/ /\ Go(t, "noted", "over")
          /\ said' = [said EXCEPT ![t] = 0]
          /\ UNCHANGED row
    /\ UNCHANGED <<client, viewer, broker, session>>

\* Closes the row of a failed turn; if that fails too, only the finally runs.
RowError(t) ==
    /\ \/ /\ Go(t, "noted", "closing")
          /\ RowFails(t)
          /\ UNCHANGED <<said, broker>>
       \/ /\ Go(t, "noted", "over")
          /\ said' = [said EXCEPT ![t] = 0]
          /\ Discard(t)
          /\ UNCHANGED row
    /\ UNCHANGED <<client, viewer, session>>

\* Publishes done, which closes the broker, and discards it.
Done(t) ==
    /\ Go(t, "closing", "over")
    /\ said' = [said EXCEPT ![t] = 0]
    /\ Publish(t, None)
    /\ Discard(t)
    /\ UNCHANGED <<client, view, seen, row, session>>

-----------------------------------------------------------------------------
(* delete_session, and a restart of the server.                            *)

\* 409 while a turn is streaming.
CheckDelete ==
    /\ ~Streaming /\ ~deleting
    /\ deleting' = TRUE
    /\ UNCHANGED <<client, viewer, task, row, broker, alive, history>>

CommitDelete ==
    /\ deleting /\ deleting' = FALSE
    /\ IF alive
       THEN /\ alive' = FALSE
            /\ history' = {}
            /\ row' = [t \in Turns |-> NoRow]
       ELSE UNCHANGED <<alive, history, row>>
    /\ UNCHANGED <<client, viewer, task, broker>>

\* Sockets, tasks and brokers are gone; reconcile_orphan_turns cancels the
\* running rows, or fails, which is logged.
Restart ==
    /\ sock' = [v \in Sockets |-> "offline"]
    /\ aims' = [v \in Sockets |-> None]
    /\ view' = [v \in Sockets |-> Off]
    /\ queue' = [v \in Sockets |-> <<>>]
    /\ seen' = [v \in Sockets |-> <<>>]
    /\ step' = [t \in Turns |-> IF t <= born THEN "over" ELSE "unborn"]
    /\ said' = [t \in Turns |-> 0]
    /\ open' = {} /\ current' = None
    /\ deleting' = FALSE
    /\ \/ row' = [t \in Turns |-> IF row[t].state = "running"
                                  THEN Row("cancelled", row[t].text) ELSE row[t]]
       \/ UNCHANGED row
    /\ UNCHANGED <<born, alive, history>>

-----------------------------------------------------------------------------
Handle(v) == Connect(v) \/ Resume(v) \/ Send(v) \/ Guard(v) \/ Register(v) \/ Started(v)
                \/ Leave(v) \/ Subscribe(v) \/ Forward(v)

Work(t) == Launch(t) \/ Chunk(t) \/ Answer(t) \/ Store(t) \/ Complete(t)
                \/ Apologise(t) \/ RowError(t) \/ Done(t)

Next == \/ \E v \in Sockets : Handle(v)
        \/ \E t \in Turns : Work(t) \/ Flush(t)
        \/ CheckDelete \/ CommitDelete \/ Restart

Spec == Init /\ [][Next]_vars

-----------------------------------------------------------------------------
Steps == {"unborn", "registered", "spawned", "streaming", "answered", "stored",
          "failed", "noted", "closing", "over", "stuck"}

Views == {Off} \cup {Due(t) : t \in Turns} \cup {On(t) : t \in Turns}

Rows == [state : {"none", "running", "completed", "error", "cancelled"}, text : 0..Chunks]

TypeOK ==
    /\ sock \in [Sockets -> {"offline", "resuming", "idle", "guarding", "saved", "starting"}]
    /\ aims \in [Sockets -> Turns \cup {None}]
    /\ view \in [Sockets -> Views]
    /\ queue \in [Sockets -> Seq(0..Chunks)]
    /\ seen \in [Sockets -> Seq(1..Chunks)]
    /\ born \in 0..MaxTurns
    /\ step \in [Turns -> Steps]
    /\ said \in [Turns -> 0..Chunks]
    /\ row \in [Turns -> Rows]
    /\ open \subseteq Turns /\ current \in Turns \cup {None}
    /\ alive \in BOOLEAN /\ deleting \in BOOLEAN
    /\ history \subseteq Turns

\* No client is shown a chunk twice or out of order, however it dropped and
\* resumed: the row it replays is never ahead of what was published before it
\* subscribed.
NoChunkTwice ==
    \A v \in Sockets : \A i, j \in 1..Len(seen[v]) : i < j => seen[v][i] < seen[v][j]

\* The row of a completed turn is backed by its answer in the history, even if
\* the session was deleted under the turn.
CompletedIsAnswered ==
    \A t \in Turns : row[t].state = "completed" => t \in history

\* The end of a turn does not hide a newer one: the newest turn, while its
\* broker is open, is the one a reconnecting client, the check for a second
\* message and delete_session find.
NewestIsFound == born \in open => current = born

\* A turn that began to stream leaves the registry when its task ends, whatever
\* failed on the way, so that the session takes messages again.
EndedTurnsUnblock == \A t \in Turns : step[t] = "over" => t \notin open

-----------------------------------------------------------------------------
(* The inductive invariant behind the theorems of ChatTurns_proofs.        *)

Pending == {v \in Sockets : sock[v] \in {"guarding", "saved"}}

\* The bound leaves a turn for each message on its way.
Reserved == born + Cardinality(Pending) <= MaxTurns

\* Turns begin in order; one that has not published has no text yet.
Unpublished ==
    /\ \A t \in Turns : t > born => step[t] = "unborn"
    /\ \A t \in Turns : step[t] \in {"unborn", "registered", "spawned"} =>
           said[t] = 0 /\ row[t] = NoRow
    /\ \A t \in Turns : step[t] = "streaming" => row[t].text <= said[t]

\* A handler about to send a started frame owns a turn that has no task.
Owned ==
    /\ \A v \in Sockets : sock[v] = "resuming" => aims[v] # None
    /\ \A v \in Sockets : sock[v] = "starting" =>
           aims[v] # None /\ step[aims[v]] = "registered"
    /\ \A u, v \in Sockets :
           (u # v /\ sock[u] = "starting" /\ sock[v] = "starting") => aims[u] # aims[v]

\* Only the pump of an accepted socket that has subscribed is sent events.
Attached ==
    /\ \A v \in Sockets : sock[v] \in {"offline", "resuming"} => view[v] = Off
    /\ \A v \in Sockets : view[v].mode # "on" => queue[v] = <<>>

\* What a client has seen and what its pump still holds for it is one ascending
\* run of chunks, with the done event at its end once the turn is over.
Ascending ==
    \A v \in Sockets :
        /\ \A i, j \in 1..Len(queue[v]) : i < j =>
               queue[v][i] # None /\ (queue[v][j] # None => queue[v][i] < queue[v][j])
        /\ \A i \in 1..Len(seen[v]), j \in 1..Len(queue[v]) :
               queue[v][j] # None => seen[v][i] < queue[v][j]

\* A viewer of a turn that may still publish has only what it published.
Behind ==
    \A v \in Sockets, t \in Turns : (view[v].mode # "off" /\ view[v].turn = t) =>
        /\ step[t] # "over" => \A j \in 1..Len(queue[v]) : queue[v][j] # None
        /\ step[t] \in {"unborn", "registered", "spawned", "streaming"} =>
               /\ \A i \in 1..Len(seen[v]) : seen[v][i] <= said[t]
               /\ \A j \in 1..Len(queue[v]) : queue[v][j] <= said[t]

\* An answer is in the history from its append until the session, and with it
\* the turn's row, is deleted.
Kept == \A t \in Turns : (step[t] = "stored" /\ row[t] # NoRow) => t \in history

IInv == /\ TypeOK /\ Reserved /\ Unpublished /\ Owned
        /\ Attached /\ Ascending /\ Behind /\ NoChunkTwice
        /\ Kept /\ CompletedIsAnswered
        /\ NewestIsFound /\ EndedTurnsUnblock

=============================================================================
