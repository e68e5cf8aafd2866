-------------------------- MODULE ToolCalls_proofs --------------------------
(***************************************************************************)
(* Theorems about both edges of the system: the calls that change what is  *)
(* outside (ToolCalls), and the event sources that take up what happens    *)
(* there (EventSources).                                                   *)
(*                                                                         *)
(* A step of ToolCalls touches one call, or is an edit that marks the      *)
(* calls of a plugin: what IInv says of one call is kept by each.          *)
(*                                                                         *)
(* The event sources share no variable with each other but the process, so *)
(* FeedInv has a part for the bot (UpdateInv) and one for the poller       *)
(* (RowInv), and a step of one leaves the other's as it is.                *)
(***************************************************************************)
EXTENDS ToolCalls, EventSources, FiniteSetTheorems, SequenceTheorems, WellFoundedInduction, TLAPS

\* What IInv says of one call.
Good(k) == /\ k \in Call /\ Paired(k) /\ Progressing(k) /\ Current(k)
           /\ k.pc = "returned" => Honest(k)

\* The call once its child has answered, and once it has gone on to the next part.
Ended(k, out, done, claim) ==
    [k EXCEPT !.child = "gone", !.pc = "returned",
              !.out = IF k.pc = "waiting" THEN out ELSE k.out,
              !.done = done, !.told = claim]

Further(k, done, claim) ==
    [k EXCEPT !.tried = k.tried + 1, !.done = done, !.told = claim]

LEMMA ToolFacts ==
  ASSUME NEW t \in Tools
  PROVE  /\ t.plugin \in Plugins /\ t.parts \in Nat
         /\ t.fails = "skip" => t.parts > 0 /\ ~ActsOnlyIfWritable(t)
<1>1. t.plugin \in Plugins
  BY DEF Plugins
<1>2. t.parts \in Nat /\ (t.fails = "skip" => t.parts > 0 /\ ~ActsOnlyIfWritable(t))
  BY ToolConstants DEF Tools, Tool, ActsOnlyIfWritable,
     ReadStates, GetState, GetHistory, RenderTemplate, CallService, ListCalendars,
     ReadEvents, GetEvent, FindFreeSlots, CreateEvent, DeleteEvent, ListMailboxes,
     SearchMail, ReadMessage, ListChannels, PostMessage, UpdateMessage, React, SendMessage,
     EditMessage, SetCommands, SendMail, PostWebhook, SendRequest, ReadFile, WriteFile,
     ReadCsv, WriteCsv, WriteNote, RunStatement, Commit, RunCommand, DrawImages, ListRemote,
     SearchRemote, GetFile, PutFile, PutOneDrive, PutDropbox, DeleteRemote, Search,
     SearchKeyless, SearchWiki, ReadSummary, ReadSection, ReadFeed, FetchPage, ReadPdf,
     QueryJson, TellTime, Geocode, GeocodeMapbox, GeocodeGoogle, Forecast, ForecastUs,
     ForecastByKey
<1> QED
  BY <1>1, <1>2

LEMMA PartsFacts ==
  ASSUME NEW k \in Call
  PROVE  Parts(k) \in Nat /\ (k.tool.fails = "skip" => Parts(k) > 0)
<1>1. k.tool \in Tools
  BY DEF Call
<1> QED
  BY <1>1, ToolFacts DEF Parts

LEMMA DefaultType == \A p : Default(p) \in SUBSET Switches
  BY DEF Default, Switches

LEMMA LoadedType ==
  ASSUME TypeOK, NEW p \in Plugins
  PROVE  Loaded(p) \in SUBSET Switches
  BY DefaultType DEF Loaded, TypeOK

LEMMA OneCall ==
  ASSUME IInv, NEW c \in Calls, InFlight(c)
  PROVE  Good(call[c])
<1>1. call[c] \in Call
  BY DEF IInv, TypeOK, InFlight
<1> QED
  BY <1>1 DEF IInv, Good, AnswersAreHonest

\* A step that replaces one call by a good one.
LEMMA Replaced ==
  ASSUME IInv, NEW c \in Calls, NEW k, Good(k) \/ k = NoCall,
         call' = [call EXCEPT ![c] = k], UNCHANGED <<row, drifted, vault, edits>>
  PROVE  IInv'
<1>1. TypeOK'
  BY DEF IInv, TypeOK, Good
<1>2. ASSUME NEW d \in Calls, call'[d] # NoCall
      PROVE  Good(call'[d])
  <2>1. CASE d = c
    BY <1>2, <2>1 DEF IInv, TypeOK
  <2>2. CASE d # c
    <3>1. call'[d] = call[d]
      BY <2>2 DEF IInv, TypeOK
    <3> QED
      BY <3>1, <1>2, OneCall DEF InFlight
  <2> QED
    BY <2>1, <2>2
<1>3. ASSUME NEW d \in Calls, InFlight(d)'
      PROVE  Paired(call[d])' /\ Progressing(call[d])' /\ Current(call[d])'
  <2>1. Good(call'[d])
    BY <1>2, <1>3 DEF InFlight
  <2>2. Loaded(call[d].tool.plugin)' = Loaded(call'[d].tool.plugin)
    BY DEF Loaded
  <2>3. Current(call[d])'
    BY <2>1, <2>2 DEF Good, Current
  <2> QED
    BY <2>1, <2>3 DEF Good
<1>4. AnswersAreHonest'
  BY <1>2 DEF AnswersAreHonest, InFlight, Good
<1> QED
  BY <1>1, <1>3, <1>4 DEF IInv

-----------------------------------------------------------------------------
(* One call, in the server and in its child.                               *)

LEMMA LoadedIsGood ==
  ASSUME TypeOK, NEW t \in Tools
  PROVE  Good([pc |-> "loaded", tool |-> t, has |-> Loaded(t.plugin), cred |-> FALSE,
               child |-> "none", tried |-> 0, done |-> 0, told |-> 0, out |-> "none",
               overtaken |-> FALSE])
<1> DEFINE k == [pc |-> "loaded", tool |-> t, has |-> Loaded(t.plugin), cred |-> FALSE,
                 child |-> "none", tried |-> 0, done |-> 0, told |-> 0, out |-> "none",
                 overtaken |-> FALSE]
<1>1. Loaded(t.plugin) \in SUBSET Switches
  BY ToolFacts, LoadedType
<1>2. k \in Call
  BY <1>1 DEF Call, Outcomes
<1> QED
  BY <1>2 DEF Good, Paired, Progressing, Current

LEMMA DispatchedIsGood ==
  ASSUME NEW k, Good(k), k.pc = "loaded", NEW b \in BOOLEAN
  PROVE  Good([k EXCEPT !.pc = "waiting", !.child = "working", !.cred = b])
<1> DEFINE n == [k EXCEPT !.pc = "waiting", !.child = "working", !.cred = b]
<1>1. n \in Call
  BY DEF Good, Call
<1>2. /\ n.pc = "waiting" /\ n.child = "working" /\ n.out = "none" /\ n.tool = k.tool
      /\ n.tried = 0 /\ n.done = 0 /\ n.told = 0 /\ n.has = k.has /\ n.overtaken = k.overtaken
  BY DEF Good, Call, Paired
<1>3. Parts(n) \in Nat
  BY <1>1, PartsFacts
<1>4. Paired(n)
  BY <1>2 DEF Paired
<1>5. Progressing(n)
  BY <1>2, <1>3 DEF Progressing
<1>6. Current(n)
  BY <1>2 DEF Good, Current
<1> QED
  BY <1>1, <1>2, <1>4, <1>5, <1>6 DEF Good

\* The child of a call that has not been answered, or its absence, is honest.
LEMMA UnansweredIsHonest ==
  ASSUME NEW k, Good(k), k.child # "gone"
  PROVE  k.told <= k.done /\ k.tried \in Nat /\ k.done \in Nat /\ k.told \in Nat
  BY DEF Good, Call, Paired, Progressing

\* What a child leaves running has done nothing yet.
LEMMA LeftIsIdle ==
  ASSUME NEW k, Good(k), "orphan" \in Left(k)
  PROVE  /\ k.child = "working" /\ ~Namespaced /\ Spawns(k.tool) /\ Admitted(k)
         /\ k.done = 0 /\ k.told = 0
<1>1. k.child = "working" /\ ~Namespaced /\ Spawns(k.tool) /\ Admitted(k) /\ k.tried = 0
  BY DEF Left
<1>2. k.done = 0 /\ k.told = 0
  BY <1>1 DEF Good, Progressing, Call
<1> QED
  BY <1>1, <1>2

\* A call that has ended, whose child leaves its program running.
LEMMA OrphanedIsGood ==
  ASSUME NEW k, Good(k), k.child = "gone", k.pc = "returned",
         ~Namespaced, Spawns(k.tool), Admitted(k), k.done = 0, k.told = 0,
         k.out \in {"timeout", "failed", "cancelled"}
  PROVE  Good([k EXCEPT !.child = "orphan"])
<1> DEFINE n == [k EXCEPT !.child = "orphan"]
<1>1. n \in Call /\ n.pc = k.pc /\ n.child = "orphan" /\ n.tool = k.tool /\ n.has = k.has
      /\ n.overtaken = k.overtaken /\ n.done = k.done /\ n.told = k.told /\ n.out = k.out
      /\ n.cred = k.cred /\ n.tried = k.tried
  BY DEF Good, Call
<1> HIDE DEF n
<1>2. Paired(n) /\ Progressing(n)
  BY <1>1 DEF Paired, Progressing, Admitted
<1>3. Honest(n)
  BY <1>1 DEF Good, Honest, Parts
<1>4. Current(n)
  BY <1>1 DEF Good, Current
<1>5. Good(n)
  BY <1>1, <1>2, <1>3, <1>4 DEF Good
<1> QED
  BY <1>5 DEF n

\* The program of a dead child does its part, or does not.
LEMMA OrphanEndedIsGood ==
  ASSUME NEW k, Good(k), k.child = "orphan",
         NEW n \in {[k EXCEPT !.child = "gone", !.done = 1], [k EXCEPT !.child = "gone"]}
  PROVE  Good(n)
<1>1. n \in Call /\ n.pc = k.pc /\ n.child = "gone" /\ n.tool = k.tool /\ n.has = k.has
      /\ n.overtaken = k.overtaken /\ n.done \in {0, 1} /\ n.told = 0 /\ n.out = k.out
      /\ n.pc = "returned" /\ n.out \in {"timeout", "failed", "cancelled"}
  <2>1. k \in Call /\ k.done = 0 /\ k.told = 0 /\ k.pc = "returned"
        /\ k.out \in {"timeout", "failed", "cancelled"}
    BY DEF Good, Paired
  <2>2. CASE n = [k EXCEPT !.child = "gone"]
    BY <2>1, <2>2 DEF Call
  <2>3. CASE n = [k EXCEPT !.child = "gone", !.done = 1]
    BY <2>1, <2>3 DEF Call
  <2> QED
    BY <2>2, <2>3
<1>2. Paired(n) /\ Progressing(n)
  BY <1>1 DEF Paired, Progressing
<1>3. Honest(n)
  BY <1>1 DEF Honest
<1>4. Current(n)
  BY <1>1 DEF Good, Current
<1> QED
  BY <1>1, <1>2, <1>3, <1>4 DEF Good

LEMMA EndedByServerIsGood ==
  ASSUME NEW k, Good(k), k.pc \in {"loaded", "waiting"},
         NEW n \in {[k EXCEPT !.pc = "returned", !.out = "timeout", !.child = "gone"],
                    [k EXCEPT !.pc = "returned", !.out = "cancelled"]}
  PROVE  Good(n)
<1>1. n \in Call /\ n.pc = "returned" /\ n.tool = k.tool /\ n.has = k.has
      /\ n.overtaken = k.overtaken /\ n.out \in {"timeout", "cancelled"}
      /\ n.tried = k.tried /\ n.done = k.done /\ n.told = k.told /\ n.cred = k.cred
      /\ (n.child = "gone" \/ (n.child = k.child /\ n.out = "cancelled"))
  BY DEF Good, Call, Outcomes
<1>2. k.child # "gone"
  BY DEF Good, Paired
<1>3. Honest(n)
  BY <1>1, <1>2, UnansweredIsHonest DEF Honest
<1>4. Paired(n)
  BY <1>1 DEF Good, Paired
<1>5. Progressing(n)
  BY <1>1 DEF Good, Progressing, Parts, Admitted
<1>6. Current(n)
  BY <1>1 DEF Good, Current
<1> QED
  BY <1>1, <1>3, <1>4, <1>5, <1>6 DEF Good

\* An answer from the child, with what it then counts as done.
LEMMA AnsweredIsGood ==
  ASSUME NEW k, Good(k), k.child = "working",
         NEW done \in Nat, NEW claim \in Nat, NEW out \in Outcomes \ {"none", "timeout", "cancelled"},
         claim <= done,
         out = "refused" => done = 0,
         out = "ok" => (done = claim /\ claim = Parts(k)) \/ (k.tool.fails = "skip" /\ done > 0),
         (out = "failed" /\ k.tool.fails = "report" /\ claim > 0) => done <= claim + 1
  PROVE  Good(Ended(k, out, done, claim))
<1> DEFINE n == Ended(k, out, done, claim)
<1>1. n \in Call /\ n.pc = "returned" /\ n.child = "gone" /\ n.tool = k.tool /\ n.has = k.has
      /\ n.overtaken = k.overtaken /\ n.done = done /\ n.told = claim
      /\ n.out = IF k.pc = "waiting" THEN out ELSE k.out
  BY DEF Good, Call, Outcomes, Ended
<1> HIDE DEF n
<1>2. k.pc # "waiting" => n.out = "cancelled"
  BY <1>1 DEF Good, Paired, Call
<1>3. Parts(n) = Parts(k)
  BY <1>1 DEF Parts
<1>4. Honest(n)
  BY <1>1, <1>2, <1>3 DEF Honest
<1>5. Paired(n) /\ Progressing(n)
  BY <1>1 DEF Paired, Progressing
<1>6. Current(n)
  BY <1>1 DEF Good, Current
<1>7. Good(n)
  BY <1>1, <1>4, <1>5, <1>6 DEF Good
<1> QED
  BY <1>7 DEF n

\* A part has been through, and the plugin goes on.
LEMMA GoesOnIsGood ==
  ASSUME NEW k, Good(k), k.child = "working", Admitted(k), k.tried < Parts(k),
         NEW done \in {k.done, k.done + 1}, NEW claim \in {k.told, k.told + 1},
         claim = k.told + 1 => done = k.done + 1,
         k.tried = 0 => claim = 1,
         k.tool.fails # "skip" => claim = k.told + 1
  PROVE  Good(Further(k, done, claim))
<1> DEFINE n == Further(k, done, claim)
<1>0. k.tried \in Nat /\ k.done \in Nat /\ k.told \in Nat /\ Parts(k) \in Nat /\ k \in Call
  BY PartsFacts DEF Good, Call
<1>7. k.tried + 1 \in Nat /\ done \in Nat /\ claim \in Nat
  BY <1>0
<1>1. n \in Call /\ n.pc = k.pc /\ n.child = k.child /\ n.tool = k.tool /\ n.has = k.has
      /\ n.overtaken = k.overtaken /\ n.done = done /\ n.told = claim /\ n.out = k.out
      /\ n.cred = k.cred /\ n.tried = k.tried + 1
  <2> DEFINE m == k.tried + 1
  <2>1. m \in Nat /\ n = [k EXCEPT !.tried = m, !.done = done, !.told = claim] /\ k \in Call
    BY <1>0, <1>7 DEF Further
  <2> HIDE DEF m
  <2>2. n \in Call /\ n.tried = m /\ n.pc = k.pc /\ n.child = k.child /\ n.tool = k.tool
        /\ n.has = k.has /\ n.overtaken = k.overtaken /\ n.done = done /\ n.told = claim
        /\ n.out = k.out /\ n.cred = k.cred
    BY <2>1, <1>7 DEF Call
  <2> QED
    BY <2>2 DEF m
<1> HIDE DEF n
<1>2. Parts(n) = Parts(k) /\ Admitted(n)
  BY <1>1 DEF Parts, Admitted
<1>3. Paired(n)
  BY <1>1 DEF Good, Paired
<1>4. Progressing(n)
  BY <1>0, <1>1, <1>2 DEF Good, Progressing
<1>5. Current(n)
  BY <1>1 DEF Good, Current
<1>6. n.pc = "returned" => Honest(n)
  <2> SUFFICES ASSUME n.pc = "returned" PROVE Honest(n)
    OBVIOUS
  <2>1. n.out = "cancelled"
    BY <1>1 DEF Good, Paired
  <2>2. claim <= done
    BY <1>0 DEF Good, Progressing
  <2> QED
    BY <1>1, <2>1, <2>2 DEF Honest
<1>8. Good(n)
  BY <1>1, <1>3, <1>4, <1>5, <1>6 DEF Good
<1> QED
  BY <1>8 DEF n

-----------------------------------------------------------------------------
(* Every step.                                                             *)

LEMMA InitInv == Init => IInv
  BY ToolConstants DEF Init, IInv, TypeOK, AnswersAreHonest, InFlight

LEMMA LoadInv ==
  ASSUME IInv, NEW c \in Calls, NEW t \in Tools, Load(c, t)
  PROVE  IInv'
<1>1. TypeOK
  BY DEF IInv
<1> QED
  BY <1>1, LoadedIsGood, Replaced DEF Load

LEMMA ServerInv ==
  ASSUME IInv, NEW c \in Calls, Server(c)
  PROVE  IInv'
<1>1. InFlight(c)
  BY DEF Server, Dispatch, Timeout, Cancel, Forget
<1>2. Good(call[c])
  BY <1>1, OneCall
<1>3. CASE Dispatch(c)
  <2> DEFINE b == call[c].tool.plugin \in vault
             n == [call[c] EXCEPT !.pc = "waiting", !.child = "working", !.cred = b]
  <2>0. b \in BOOLEAN /\ call[c].pc = "loaded"
    BY <1>3 DEF Dispatch
  <2>2. call' = [call EXCEPT ![c] = n]
    BY <1>3 DEF Dispatch
  <2> HIDE DEF b
  <2>1. Good(n)
    BY <1>2, <2>0, DispatchedIsGood
  <2> HIDE DEF n
  <2> QED
    BY <1>3, <2>1, <2>2, Replaced DEF Dispatch
<1>4. CASE Timeout(c)
  <2> DEFINE k == call[c]
             m == [k EXCEPT !.pc = "returned", !.out = "timeout", !.child = "gone"]
  <2>1. PICK left \in Left(k) :
          call' = [call EXCEPT ![c].pc = "returned", ![c].out = "timeout", ![c].child = left]
    BY <1>4 DEF Timeout
  <2> DEFINE n == [k EXCEPT !.pc = "returned", !.out = "timeout", !.child = left]
  <2>2. call' = [call EXCEPT ![c] = n]
    BY <2>1
  <2>3. Good(m)
    BY <1>2, <1>4, EndedByServerIsGood DEF Timeout
  <2>4. Good(n)
    <3>1. CASE left = "gone"
      BY <2>3, <3>1
    <3>2. CASE left = "orphan"
      <4>1. /\ ~Namespaced /\ Spawns(k.tool) /\ Admitted(k) /\ k.done = 0 /\ k.told = 0
        BY <1>2, <2>1, <3>2, LeftIsIdle
      <4>2. /\ m.child = "gone" /\ m.pc = "returned" /\ m.out = "timeout" /\ m.tool = k.tool
            /\ m.has = k.has /\ m.cred = k.cred /\ m.done = k.done /\ m.told = k.told
            /\ n = [m EXCEPT !.child = "orphan"]
        BY <1>2, <3>2 DEF Good, Call
      <4>3. Admitted(m)
        BY <4>1, <4>2 DEF Admitted
      <4> HIDE DEF m, n
      <4> QED
        BY <2>3, <4>1, <4>2, <4>3, OrphanedIsGood
    <3> QED
      BY <2>1, <3>1, <3>2 DEF Left
  <2> HIDE DEF n, m, k
  <2> QED
    BY <1>4, <2>2, <2>4, Replaced DEF Timeout
<1>5. CASE Cancel(c)
  <2> DEFINE n == [call[c] EXCEPT !.pc = "returned", !.out = "cancelled"]
  <2>1. Good(n)
    BY <1>2, <1>5, EndedByServerIsGood DEF Cancel
  <2>2. call' = [call EXCEPT ![c] = n]
    BY <1>5 DEF Cancel
  <2> HIDE DEF n
  <2> QED
    BY <1>5, <2>1, <2>2, Replaced DEF Cancel
<1>6. CASE Forget(c)
  BY <1>6, Replaced DEF Forget
<1> QED
  BY <1>3, <1>4, <1>5, <1>6 DEF Server

LEMMA ChildInv ==
  ASSUME IInv, NEW c \in Calls, Child(c)
  PROVE  IInv'
<1>12. CASE OrphanEnds(c)
  <2>1. Good(call[c]) /\ call[c].child = "orphan"
    BY <1>12, OneCall DEF OrphanEnds
  <2>2. PICK n \in {[call[c] EXCEPT !.child = "gone", !.done = 1],
                    [call[c] EXCEPT !.child = "gone"]} : call' = [call EXCEPT ![c] = n]
    BY <1>12 DEF OrphanEnds
  <2>3. Good(n)
    BY <2>1, OrphanEndedIsGood
  <2> QED
    BY <1>12, <2>2, <2>3, Replaced DEF OrphanEnds
<1> SUFFICES ASSUME ~OrphanEnds(c) PROVE IInv'
  BY <1>12
<1> DEFINE k == call[c]
<1>1. Good(k) /\ k.child = "working" /\ UNCHANGED <<row, drifted, vault, edits>>
  BY OneCall DEF Child, Refuse, PartDone, PartLost, PartFails, Respond, ChildDies,
                 Acting, Working
<1>2. /\ k \in Call /\ k.tried \in Nat /\ k.done \in Nat /\ k.told \in Nat /\ k.told <= k.done
      /\ Parts(k) \in Nat /\ (k.tool.fails = "skip" => Parts(k) > 0)
      /\ k.tried <= Parts(k) /\ k.done <= k.tried
      /\ k.tried > 0 => Admitted(k)
      /\ IF k.tool.fails = "skip" THEN k.tried > 0 => k.done > 0
         ELSE k.told = k.tried /\ k.done = k.tried
  BY <1>1, PartsFacts DEF Good, Call, Progressing
<1>9. k = call[c]
  OBVIOUS
<1> HIDE DEF k
\* The two ways on.
<1>3. ASSUME NEW done \in Nat, NEW claim \in Nat,
             NEW out \in Outcomes \ {"none", "timeout", "cancelled"},
             claim <= done,
             out = "refused" => done = 0,
             out = "ok" => (done = claim /\ claim = Parts(k)) \/ (k.tool.fails = "skip" /\ done > 0),
             (out = "failed" /\ k.tool.fails = "report" /\ claim > 0) => done <= claim + 1,
             call' = [call EXCEPT ![c] = Ended(k, out, done, claim)]
      PROVE  IInv'
  BY <1>1, <1>3, AnsweredIsGood, Replaced
<1>10. ASSUME NEW done \in Nat, NEW claim \in Nat, claim <= done,
              k.tool.fails = "report" /\ claim > 0 => done <= claim + 1,
              call' = [call EXCEPT ![c] = Ended(k, "failed", done, claim)]
       PROVE  IInv'
  <2>1. "failed" \in Outcomes \ {"none", "timeout", "cancelled"}
    BY DEF Outcomes
  <2>2. Good(Ended(k, "failed", done, claim))
    BY <1>1, <1>10, <2>1, AnsweredIsGood
  <2> QED
    BY <1>1, <1>10, <2>2, Replaced
<1>11. ASSUME call' = [call EXCEPT ![c] = Ended(k, "failed", k.done, 0)]
       PROVE  IInv'
  <2>1. k.done \in Nat /\ 0 \in Nat /\ 0 <= k.done /\ ~(0 > 0)
    BY <1>2
  <2> QED
    BY <1>10, <1>11, <2>1
\* The child dies at its first part and its program goes on.
<1>13. ASSUME "orphan" \in Left(k),
              call' = [call EXCEPT ![c] = [Ended(k, "failed", k.done, 0) EXCEPT !.child = "orphan"]]
       PROVE  IInv'
  <2> DEFINE m == Ended(k, "failed", k.done, 0)
  <2>1. /\ ~Namespaced /\ Spawns(k.tool) /\ Admitted(k) /\ k.done = 0
    BY <1>1, <1>13, LeftIsIdle
  <2>2. Good(m)
    BY <1>1, <1>2, AnsweredIsGood DEF Outcomes
  <2>3. /\ m.child = "gone" /\ m.pc = "returned" /\ m.tool = k.tool /\ m.has = k.has
        /\ m.cred = k.cred /\ m.done = 0 /\ m.told = 0 /\ m.out \in {"failed", "cancelled"}
    BY <1>1, <1>2, <2>1 DEF Ended, Good, Call, Paired
  <2>4. Admitted(m)
    BY <2>1, <2>3 DEF Admitted
  <2>6. call' = [call EXCEPT ![c] = [m EXCEPT !.child = "orphan"]]
    BY <1>13
  <2> HIDE DEF m
  <2>5. Good([m EXCEPT !.child = "orphan"])
    BY <2>1, <2>2, <2>3, <2>4, OrphanedIsGood
  <2> QED
    BY <1>1, <2>5, <2>6, Replaced
<1>0. ASSUME Admitted(k), k.tried < Parts(k),
             NEW done \in {k.done, k.done + 1}, NEW claim \in {k.told, k.told + 1},
             claim = k.told + 1 => done = k.done + 1,
             k.tried = 0 => claim = 1,
             k.tool.fails # "skip" => claim = k.told + 1,
             call' = [call EXCEPT ![c] = Further(k, done, claim)]
      PROVE  IInv'
  BY <1>0, <1>1, GoesOnIsGood, Replaced
<1>4. CASE Refuse(c)
  <2>1. call' = [call EXCEPT ![c] = Ended(k, "refused", k.done, k.told)]
    BY <1>2, <1>4, <1>9 DEF Refuse, Answered, Call, Ended
  <2>2. k.done = 0
    BY <1>2, <1>4, <1>9 DEF Refuse
  <2> QED
    BY <1>2, <1>3, <2>1, <2>2 DEF Outcomes
<1>5. CASE PartDone(c)
  <2>1. call' = [call EXCEPT ![c] = Further(k, k.done + 1, k.told + 1)]
    BY <1>5, <1>9 DEF PartDone, Further
  <2>2. Admitted(k) /\ k.tried < Parts(k)
    BY <1>5, <1>9 DEF PartDone, Acting
  <2>3. k.tried = 0 => k.told + 1 = 1
    BY <1>2
  <2> QED
    BY <1>0, <2>1, <2>2, <2>3
<1>14. CASE /\ PartFails(c) /\ "orphan" \in Left(k)
            /\ call' = [call EXCEPT ![c] = [AfterFailure(call[c]) EXCEPT !.child = "orphan"]]
  <2>1. k.tried = 0 /\ k.told = 0
    BY <1>1, <1>14, LeftIsIdle DEF Left
  <2>2. AfterFailure(k) = Ended(k, "failed", k.done, 0)
    <3>1. AfterFailure(k) = Answered([k EXCEPT !.told = 0], "failed")
      BY <1>2, <2>1 DEF AfterFailure, Call
    <3>2. Answered([k EXCEPT !.told = 0], "failed") = Ended(k, "failed", k.done, 0)
      BY <1>2 DEF Answered, Call, Ended
    <3> QED
      BY <3>1, <3>2
  <2> QED
    BY <1>9, <1>13, <1>14, <2>2
<1>6. CASE PartLost(c) \/ (PartFails(c) /\ call' = [call EXCEPT ![c] = AfterFailure(call[c])])
  <2>0. Admitted(k) /\ k.tried < Parts(k)
    BY <1>6, <1>9 DEF PartLost, PartFails, Acting
  <2>1. PICK done \in {k.done, k.done + 1} :
           call' = [call EXCEPT ![c] = AfterFailure([k EXCEPT !.done = done])]
    <3>1. k = [k EXCEPT !.done = k.done]
      BY <1>2 DEF Call
    <3>2. CASE PartLost(c)
      <4>1. call' = [call EXCEPT ![c] = AfterFailure([call[c] EXCEPT !.done = call[c].done + 1])]
        BY <3>2, Zenon DEF PartLost
      <4> QED
        BY <4>1, <1>9
    <3>3. CASE call' = [call EXCEPT ![c] = AfterFailure(call[c])]
      <4>1. call' = [call EXCEPT ![c] = AfterFailure([k EXCEPT !.done = k.done])]
        BY <1>9, <3>1, <3>3
      <4> QED
        BY <4>1
    <3> QED
      BY <1>6, <3>2, <3>3
  <2>2. CASE k.tool.fails = "skip" /\ k.tried > 0
    <3>1. AfterFailure([k EXCEPT !.done = done]) = Further(k, done, k.told)
      BY <1>2, <2>2 DEF AfterFailure, Call, Further
    <3>2. k.told # k.told + 1 /\ k.tried # 0
      BY <1>2, <2>2
    <3> QED
      BY <1>0, <2>0, <2>1, <2>2, <3>1, <3>2
  <2>3. CASE ~(k.tool.fails = "skip" /\ k.tried > 0)
    <3> DEFINE claim == IF k.tool.fails = "raise" THEN 0 ELSE k.told
    <3>1. AfterFailure([k EXCEPT !.done = done]) = Ended(k, "failed", done, claim)
      BY <1>2, <2>3 DEF AfterFailure, Answered, Call, Ended
    <3>2. /\ done \in Nat /\ claim \in Nat /\ claim <= done
          /\ (k.tool.fails = "report" /\ claim > 0) => done <= claim + 1
      BY <1>2
    <3>3. call' = [call EXCEPT ![c] = Ended(k, "failed", done, claim)]
      BY <2>1, <3>1
    <3> HIDE DEF claim
    <3> QED
      BY <1>10, <3>2, <3>3
  <2> QED
    BY <2>2, <2>3
<1>7. CASE Respond(c)
  <2>1. Admitted(k) /\ k.tried = Parts(k)
    BY <1>7, <1>9 DEF Respond
  <2>2. CASE call' = [call EXCEPT ![c] = Answered(call[c], "ok")]
    <3>1. call' = [call EXCEPT ![c] = Ended(k, "ok", k.done, k.told)]
      BY <1>2, <1>9, <2>2 DEF Answered, Call, Ended
    <3>2. (k.done = k.told /\ k.told = Parts(k)) \/ (k.tool.fails = "skip" /\ k.done > 0)
      BY <1>2, <2>1
    <3>3. k.done \in Nat /\ k.told \in Nat /\ k.told <= k.done
      BY <1>2
    <3>4. "ok" \in Outcomes \ {"none", "timeout", "cancelled"}
      BY DEF Outcomes
    <3> QED
      BY <1>3, <3>1, <3>2, <3>3, <3>4
  <2>3. CASE call' = [call EXCEPT ![c] = [Answered(call[c], "failed") EXCEPT !.told = 0]]
    <3>1. call' = [call EXCEPT ![c] = Ended(k, "failed", k.done, 0)]
      BY <1>2, <1>9, <2>3 DEF Answered, Call, Ended
    <3> QED
      BY <1>11, <3>1
  <2>4. \/ call' = [call EXCEPT ![c] = Answered(call[c], "ok")]
        \/ call' = [call EXCEPT ![c] = [Answered(call[c], "failed") EXCEPT !.told = 0]]
    BY <1>7, Zenon DEF Respond
  <2> QED
    BY <2>2, <2>3, <2>4, Zenon
<1>8. CASE ChildDies(c)
  <2>1. PICK left \in Left(k) :
          call' = [call EXCEPT ![c] = [Answered(call[c], "failed") EXCEPT !.told = 0, !.child = left]]
    BY <1>8, <1>9 DEF ChildDies
  <2>2. [Answered(k, "failed") EXCEPT !.told = 0, !.child = left]
           = [Ended(k, "failed", k.done, 0) EXCEPT !.child = left]
    BY <1>2 DEF Answered, Call, Ended
  <2>3. call' = [call EXCEPT ![c] = [Ended(k, "failed", k.done, 0) EXCEPT !.child = left]]
    BY <1>9, <2>1, <2>2
  <2>4. CASE left = "gone"
    <3>1. [Ended(k, "failed", k.done, 0) EXCEPT !.child = left] = Ended(k, "failed", k.done, 0)
      BY <1>2, <2>4 DEF Call, Ended
    <3> QED
      BY <1>11, <2>3, <3>1
  <2>5. CASE left = "orphan"
    BY <1>13, <2>3, <2>5
  <2> QED
    BY <2>1, <2>4, <2>5 DEF Left
<1>15. PartFails(c) => \/ call' = [call EXCEPT ![c] = AfterFailure(call[c])]
                       \/ /\ "orphan" \in Left(k)
                          /\ call' = [call EXCEPT ![c] = [AfterFailure(call[c]) EXCEPT !.child = "orphan"]]
  BY <1>9 DEF PartFails
<1> QED
  BY <1>4, <1>5, <1>6, <1>7, <1>8, <1>14, <1>15 DEF Child

\* The edits of one plugin overtake its calls and leave the others alone.
LEMMA OperatorInv ==
  ASSUME IInv, NEW p \in Plugins, Operator(p)
  PROVE  IInv'
<1>1. Edit(p)
  BY DEF Operator, SavePluginConfig, ResetPluginConfig, ChangeSchema, SetSecret
<1>2. /\ row' \in [Plugins -> SUBSET Switches] /\ drifted' \subseteq Plugins
      /\ vault' \subseteq Plugins
      /\ \A q \in Plugins \ {p} : row'[q] = row[q] /\ (q \in drifted' <=> q \in drifted)
  BY DefaultType DEF Operator, SavePluginConfig, ResetPluginConfig, ChangeSchema, SetSecret,
     IInv, TypeOK
<1>3. ASSUME NEW d \in Calls, call'[d] # NoCall
      PROVE  /\ call[d] # NoCall /\ call[d] \in Call /\ call'[d] \in Call
             /\ \/ call[d].tool.plugin = p /\ call'[d] = [call[d] EXCEPT !.overtaken = TRUE]
                \/ call[d].tool.plugin # p /\ call'[d] = call[d]
  <2>1. call'[d] = IF InFlight(d) /\ call[d].tool.plugin = p
                   THEN [call[d] EXCEPT !.overtaken = TRUE] ELSE call[d]
    BY <1>1 DEF Edit
  <2>2. call[d] # NoCall /\ call[d] \in Call
    BY <1>3, <2>1 DEF InFlight, IInv, TypeOK
  <2> QED
    BY <2>1, <2>2 DEF InFlight, Call
<1>4. call' \in [Calls -> Call \cup {NoCall}]
  BY <1>1, <1>3 DEF Edit
<1>5. TypeOK'
  BY <1>1, <1>2, <1>4, ToolConstants DEF Edit, IInv, TypeOK
<1>6. ASSUME NEW d \in Calls, call'[d] # NoCall
      PROVE  /\ Paired(call[d])' /\ Progressing(call[d])' /\ Current(call[d])'
             /\ call'[d].pc = "returned" => Honest(call[d])'
  <2>1. Good(call[d])
    BY <1>3, <1>6, OneCall DEF InFlight
  <2>2. CASE call[d].tool.plugin = p /\ call'[d] = [call[d] EXCEPT !.overtaken = TRUE]
    <3> DEFINE k == call[d]
               n == call'[d]
    <3>1. /\ n.pc = k.pc /\ n.tool = k.tool /\ n.has = k.has /\ n.cred = k.cred
          /\ n.child = k.child /\ n.tried = k.tried /\ n.done = k.done /\ n.told = k.told
          /\ n.out = k.out /\ n.overtaken = TRUE
      BY <1>3, <1>6, <2>2 DEF Call
    <3>2. Good(k)
      BY <2>1
    <3> HIDE DEF k
    <3> QED
      BY <3>1, <3>2 DEF Good, Paired, Progressing, Current, Honest, Parts, Admitted
  <2>3. CASE call[d].tool.plugin # p /\ call'[d] = call[d]
    <3>1. call[d].tool.plugin \in Plugins \ {p}
      BY <2>1, <2>3, ToolFacts DEF Good, Call
    <3>2. Loaded(call[d].tool.plugin)' = Loaded(call[d].tool.plugin)
      BY <1>2, <2>3, <3>1 DEF Loaded
    <3> QED
      BY <2>1, <2>3, <3>2 DEF Good, Current
  <2> QED
    BY <1>3, <1>6, <2>2, <2>3
<1> QED
  BY <1>5, <1>6 DEF IInv, AnswersAreHonest, InFlight

LEMMA NextInv == IInv /\ [Next]_vars => IInv'
<1> SUFFICES ASSUME IInv, [Next]_vars PROVE IInv'
  OBVIOUS
<1>1. CASE UNCHANGED vars
  BY <1>1 DEF vars, IInv, TypeOK, AnswersAreHonest, InFlight, Current, Loaded
<1>2. CASE Next
  BY <1>2, LoadInv, ServerInv, ChildInv, OperatorInv DEF Next
<1> QED
  BY <1>1, <1>2

LEMMA Invariance == Spec => []IInv
  BY InitInv, NextInv, PTL DEF Spec

-----------------------------------------------------------------------------
(* The theorems.                                                           *)

\* The variables stay in their types: no edit, answer or death of a child leaves
\* a call half described.
THEOREM CallTypes == Spec => []TypeOK
<1>1. IInv => TypeOK
  BY DEF IInv
<1> QED
  BY <1>1, Invariance, PTL

\* What ToolExecutor.call returns never claims more than the plugin did, for any
\* number of calls, parts and recipients.
THEOREM AnswersStayHonest == Spec => []AnswersAreHonest
<1>1. IInv => AnswersAreHonest
  BY DEF IInv
<1> QED
  BY <1>1, Invariance, PTL

\* A step that makes a change on account of a call is one of its child's, or of the
\* program that its child has left.
LEMMA OnlyPartsChange ==
  ASSUME IInv, [Next]_vars, NEW c \in Calls, Changes(c)
  PROVE  Acting(c) \/ (OrphanEnds(c) /\ call'[c].done = 1)
<1> USE DEF Changes
<1> DEFINE k == call[c]
<1>0. Good(k) /\ k \in Call /\ k.done \in Nat /\ ~(k.done > k.done)
  BY OneCall DEF Good, Call
<1>1. CASE UNCHANGED vars
  BY <1>0, <1>1 DEF vars
<1>2. ASSUME NEW d \in Calls, NEW t \in Tools, Load(d, t)
      PROVE  FALSE
  <2>1. d # c
    BY <1>2 DEF Load, InFlight
  <2>2. call'[c] = call[c]
    BY <1>2, <2>1 DEF Load, IInv, TypeOK
  <2> QED
    BY <1>0, <2>2
<1>3. ASSUME NEW d \in Calls, Server(d) \/ Child(d), d # c
      PROVE  FALSE
  <2>1. call'[c] = call[c]
    BY <1>3 DEF Server, Dispatch, Timeout, Cancel, Forget, Child, Refuse, PartDone,
                PartLost, PartFails, Respond, ChildDies, OrphanEnds, IInv, TypeOK
  <2> QED
    BY <1>0, <2>1
<1>4. CASE Server(c)
  <2>1. call'[c] = NoCall \/ call'[c].done = k.done
    BY <1>0, <1>4 DEF Server, Dispatch, Timeout, Cancel, Forget, IInv, TypeOK, Call
  <2> QED
    BY <1>0, <2>1
<1>5. CASE Refuse(c) \/ Respond(c) \/ ChildDies(c)
  <2>1. \A out, left : /\ Answered(k, out).done = k.done
                       /\ [Answered(k, out) EXCEPT !.told = 0].done = k.done
                       /\ [Answered(k, out) EXCEPT !.told = 0, !.child = left].done = k.done
    BY <1>0 DEF Answered, Call
  <2>2. DOMAIN call = Calls
    BY DEF IInv, TypeOK
  <2>3. \E out, left : \/ call'[c] = Answered(k, out)
                       \/ call'[c] = [Answered(k, out) EXCEPT !.told = 0]
                       \/ call'[c] = [Answered(k, out) EXCEPT !.told = 0, !.child = left]
    <3>1. CASE Refuse(c)
      BY <2>2, <3>1 DEF Refuse
    <3>2. CASE Respond(c)
      BY <2>2, <3>2 DEF Respond
    <3>3. CASE ChildDies(c)
      BY <2>2, <3>3 DEF ChildDies
    <3> QED
      BY <1>5, <3>1, <3>2, <3>3
  <2>4. call'[c].done = k.done
    BY <2>1, <2>3
  <2> QED
    BY <1>0, <2>4
<1>6. CASE PartDone(c) \/ PartLost(c) \/ PartFails(c)
  BY <1>6 DEF PartDone, PartLost, PartFails
<1>8. CASE OrphanEnds(c)
  <2>1. call'[c].done = 1 \/ call'[c].done = k.done
    BY <1>0, <1>8 DEF OrphanEnds, IInv, TypeOK, Call
  <2> QED
    BY <1>0, <1>8, <2>1
<1>7. ASSUME NEW p \in Plugins, Operator(p)
      PROVE  FALSE
  <2>1. call'[c] = call[c] \/ call'[c] = [call[c] EXCEPT !.overtaken = TRUE]
    BY <1>7 DEF Operator, SavePluginConfig, ResetPluginConfig, ChangeSchema, SetSecret, Edit
  <2>2. k \in Call
    BY <1>0
  <2>3. call'[c].done = k.done
    BY <2>1, <2>2 DEF Call
  <2> QED
    BY <1>0, <2>3
<1> QED
  BY <1>1, <1>2, <1>3, <1>4, <1>5, <1>6, <1>7, <1>8 DEF Next, Child

\* A call's answer is the last of its effects, for both kinds of sandbox, unless its
\* run was cancelled (run_sandboxed kills the child it stops waiting for only on its
\* own timeout) or the program that a killed child had started outlived it; that
\* program's one part is then the call's first and last.
THEOREM AnswersAreFinal == Spec => NothingAfterTheAnswer
<1> DEFINE Late(c) ==
      \/ call[c].out = "cancelled"
      \/ /\ ~Namespaced /\ Spawns(call[c].tool)
         /\ call[c].out \in {"timeout", "failed"} /\ call'[c].done = 1
<1>1. ASSUME IInv, [Next]_vars
      PROVE  [\A c \in Calls : Changes(c) /\ call[c].pc = "returned" => Late(c)]_vars
  <2>1. ASSUME NEW c \in Calls, Changes(c), call[c].pc = "returned"
        PROVE  Late(c)
    <3>1. Good(call[c])
      BY <1>1, <2>1, OneCall DEF Changes
    <3>2. CASE Acting(c)
      BY <2>1, <3>1, <3>2 DEF Acting, Working, Good, Paired
    <3>3. CASE OrphanEnds(c) /\ call'[c].done = 1
      BY <3>1, <3>3 DEF OrphanEnds, Good, Paired
    <3> QED
      BY <1>1, <2>1, <3>2, <3>3, OnlyPartsChange
  <2> QED
    BY <2>1
<1>2. IInv /\ [Next]_vars
      => [\A c \in Calls : Changes(c) /\ call[c].pc = "returned" => Late(c)]_vars
  BY <1>1
<1> QED
  BY <1>2, Invariance, PTL DEF Spec, NothingAfterTheAnswer

\* merge_config_and_args and the plugins' own switches let through only what the
\* operator's row lets through, now or when the call loaded it.
THEOREM ChangesStayAllowed == Spec => ChangesAreAllowed
<1>1. ASSUME IInv, [Next]_vars
      PROVE  [\A c \in Calls : Changes(c) => Allowed(call[c])]_vars
  <2>1. ASSUME NEW c \in Calls, Changes(c)
        PROVE  Allowed(call[c])
    <3>1. Admitted(call[c]) /\ Good(call[c])
      BY <1>1, <2>1, OneCall, OnlyPartsChange DEF Acting, Changes, OrphanEnds, Good, Paired
    <3> QED
      BY <3>1 DEF Good, Admitted, Current, Loaded, Allowed
  <2> QED
    BY <2>1
<1> QED
  BY <1>1, Invariance, PTL DEF Spec, ChangesAreAllowed

-----------------------------------------------------------------------------
(* EventSources.                                                           *)

\* A set of natural numbers that has an element has a least one.
LEMMA LeastExists ==
  ASSUME NEW S \in SUBSET Nat, S # {}
  PROVE  \E i \in S : \A j \in S : i <= j
<1> DEFINE R == {ss \in Nat \X Nat : ss[1] < ss[2]}
<1>1. IsWellFoundedOn(R, Nat)
  BY NatLessThanWellFounded DEF OpToRel
<1>2. \A i, j \in Nat : <<j, i>> \notin R => i <= j
  OBVIOUS
<1> HIDE DEF R
<1>3. PICK i \in S : \A j \in S : <<j, i>> \notin R
  BY <1>1, WFMin
<1>4. \A j \in S : i <= j
  <2> TAKE j \in S
  <2>1. i \in Nat /\ j \in Nat
    OBVIOUS
  <2> QED
    BY <1>2, <1>3, <2>1
<1> QED
  BY <1>4

\* SetToSeq lists a finite set without repeating an element.
LEMMA Listed ==
  ASSUME NEW S, IsFiniteSet(S)
  PROVE  LET s == SetToSeq(S)
         IN  /\ s \in [1..Cardinality(S) -> S] /\ Cardinality(S) \in Nat
             /\ \A i, j \in 1..Cardinality(S) : s[i] = s[j] => i = j
<1>1. Cardinality(S) \in Nat /\ \E f : f \in Bijection(1..Cardinality(S), S)
  BY FS_CardinalityType DEF ExistsBijection
<1>2. PICK f \in [1..Cardinality(S) -> S] :
         \A i, j \in 1..Cardinality(S) : f[i] = f[j] => i = j
  BY <1>1 DEF Bijection, Injection, IsInjective
<1>3. IsInjective(f)
  BY <1>2 DEF IsInjective
<1>4. \E g \in [1..Cardinality(S) -> S] : IsInjective(g)
  BY <1>3
<1>5. /\ SetToSeq(S) \in [1..Cardinality(S) -> S]
      /\ IsInjective(SetToSeq(S))
  BY <1>4 DEF SetToSeq
<1> QED
  BY <1>1, <1>5 DEF IsInjective

-----------------------------------------------------------------------------
\* The handlers an update was given to.
Takes(u) == {h \in DOMAIN work : work[h].update = u}

\* The bot has in hand the updates that follow last, none of which it handled
\* in this life: only those up to last may have had one handler more than
\* there were deaths.
UpdateInv ==
  /\ Len(inbox) <= events
  /\ acked <= Len(inbox) /\ last + Len(batch) <= Len(inbox)
  /\ \A i \in 1..Len(batch) : batch[i] = last + i
  /\ \A u \in 1..MaxEvents :
        Cardinality(Takes(u)) <= (IF up /\ u <= last THEN crashes + 1 ELSE crashes)

\* The same for the rows the poller has seen and is not just firing; and a
\* row can only be late once the first pass is over.
RowInv ==
  /\ sent \subseteq seen
  /\ late # {} => looked
  /\ looked => ~first
  /\ \A r \in Rows : told[r] <= (IF up /\ r \in seen \ sent THEN crashes + 1 ELSE crashes)
  /\ NewRowsAreTold

FeedInv == FeedTypeOK /\ UpdateInv /\ RowInv

\* What the proofs need of the constants, and of the types of the sources.
LEMMA Bounds ==
  /\ IsFiniteSet(Rows) /\ MaxEvents \in Nat /\ MaxCrashes \in Nat
  /\ PendingCap \in Nat /\ PendingCap > 0
BY EventAssumption

LEMMA RowTypes ==
  ASSUME FeedTypeOK
  PROVE  /\ listing \subseteq Rows /\ seen \subseteq Rows /\ sent \subseteq Rows
         /\ first \in BOOLEAN /\ looked \in BOOLEAN /\ late \subseteq Rows /\ dropped \subseteq Rows
         /\ told \in [Rows -> 0..MaxCrashes + 1] /\ crashes \in 0..MaxCrashes
BY DEF FeedTypeOK

\* A step that leaves the poller and the process alone keeps RowInv, ...
LEMMA RowsKept ==
  ASSUME RowInv, UNCHANGED <<up, crashes, poller>>
  PROVE  RowInv'
BY DEF RowInv, poller, NewRowsAreTold

\* ... and one that leaves the bot and its handlers alone keeps UpdateInv.
LEMMA UpdatesKept ==
  ASSUME FeedTypeOK, UpdateInv, UNCHANGED <<up, crashes, bot, work>>, events' \in {events, events + 1}
  PROVE  UpdateInv'
<1>1. \A u : Takes(u)' = Takes(u)
  BY DEF Takes
<1> QED
  BY <1>1 DEF UpdateInv, bot, FeedTypeOK

-----------------------------------------------------------------------------
(* The poller.                                                             *)

LEMMA ListInv ==
  ASSUME RowInv, FeedTypeOK, NEW r \in Rows, ListRow(r) \/ UnlistRow(r)
  PROVE  RowInv' /\ FeedTypeOK' /\ UNCHANGED <<up, crashes, bot, work>>
<1>1. /\ events < MaxEvents /\ events' = events + 1
      /\ listing' \subseteq listing \cup {r}
      /\ \/ late' = late \cup {r} /\ looked /\ r \notin seen
         \/ late' \subseteq late
      /\ UNCHANGED <<up, crashes, source, bot, work, seen, first, sent, told, looked,
                     dropped, pending, busy>>
  BY DEF ListRow, UnlistRow, Happens, process, watcher
<1>2. RowInv'
  <2>1. late' # {} => looked
    BY <1>1 DEF RowInv
  <2>2. NewRowsAreTold'
    BY <1>1 DEF RowInv, NewRowsAreTold
  <2> QED
    BY <1>1, <2>1, <2>2 DEF RowInv
<1>3. FeedTypeOK'
  <2>1. events' \in 0..MaxEvents /\ listing' \subseteq Rows /\ late' \subseteq Rows
    BY <1>1, RowTypes, Bounds DEF FeedTypeOK
  <2> QED
    BY <1>1, <2>1 DEF FeedTypeOK, bot
<1> QED
  BY <1>1, <1>2, <1>3

LEMMA FetchInv ==
  ASSUME RowInv, FeedTypeOK, NEW b \in SUBSET Rows, Fetch(b)
  PROVE  RowInv' /\ FeedTypeOK'
<1> DEFINE news == IF first THEN {} ELSE listing \ seen
<1>1. /\ up /\ sent = {} /\ b \subseteq news /\ dropped' = dropped \cup (news \ b)
      /\ sent' = b /\ seen' = seen \cup listing /\ first' = FALSE /\ looked' = TRUE
      /\ UNCHANGED <<up, crashes, events, source, bot, work, listing, told, late,
                     pending, busy>>
  BY DEF Fetch, On, FirstPass, process, watcher
<1>2. \A r \in Rows : told'[r] <= (IF up /\ r \in seen' \ sent' THEN crashes + 1 ELSE crashes)
  <2> SUFFICES ASSUME NEW r \in Rows
               PROVE  told[r] <= (IF up /\ r \in seen' \ sent' THEN crashes + 1 ELSE crashes)
    BY <1>1
  <2>1. told[r] <= (IF r \in seen THEN crashes + 1 ELSE crashes)
    BY <1>1 DEF RowInv
  <2>2. told[r] \in Nat /\ crashes \in Nat
    BY RowTypes
  <2>3. r \in sent' => r \notin seen
    BY <1>1
  <2> QED
    BY <1>1, <2>1, <2>2, <2>3
<1>3. NewRowsAreTold'
  <2> SUFFICES ASSUME NEW r \in seen' \cap late'
               PROVE  r \in sent' \/ r \in dropped' \/ told'[r] > 0
    BY DEF NewRowsAreTold
  <2>1. CASE r \in seen
    BY <1>1, <2>1 DEF RowInv, NewRowsAreTold
  <2>2. CASE r \notin seen
    <3>1. ~first /\ r \in news
      BY <1>1, <2>2 DEF RowInv
    <3> QED
      BY <1>1, <3>1
  <2> QED
    BY <2>1, <2>2
<1>4. FeedTypeOK'
  <2>1. /\ sent' \subseteq Rows /\ seen' \subseteq Rows /\ dropped' \subseteq Rows
        /\ first' \in BOOLEAN /\ looked' \in BOOLEAN
    BY <1>1, RowTypes
  <2> QED
    BY <1>1, <2>1 DEF FeedTypeOK, bot
<1>5. sent' \subseteq seen' /\ looked' /\ ~first'
  BY <1>1
<1> QED
  BY <1>1, <1>2, <1>3, <1>4, <1>5 DEF RowInv

LEMMA TellInv ==
  ASSUME RowInv, FeedTypeOK, NEW fails \in BOOLEAN, Tell(fails)
  PROVE  RowInv' /\ FeedTypeOK'
<1>1. /\ up /\ sent' = {}
      /\ told' = (IF fails THEN told
                  ELSE [r \in Rows |-> IF r \in sent THEN told[r] + 1 ELSE told[r]])
      /\ dropped' = (IF fails THEN dropped \cup sent ELSE dropped)
      /\ UNCHANGED <<up, crashes, events, source, bot, work, listing, seen, first, looked,
                     late, pending, busy>>
  BY DEF Tell, On, process, watcher
<1>2. /\ crashes \in Nat /\ crashes + 1 \in 0..MaxCrashes + 1
      /\ \A r \in Rows : /\ told[r] \in Nat /\ told'[r] \in Nat
                         /\ told'[r] = (IF ~fails /\ r \in sent THEN told[r] + 1 ELSE told[r])
  <2>1. crashes \in Nat /\ crashes + 1 \in 0..MaxCrashes + 1
    BY RowTypes, Bounds
  <2>2. \A r \in Rows : told[r] \in Nat
    BY RowTypes, Bounds
  <2>3. CASE fails
    BY <1>1, <2>1, <2>2, <2>3
  <2>4. CASE ~fails
    BY <1>1, <2>1, <2>2, <2>4
  <2> QED
    BY <2>3, <2>4
<1>3. \A r \in Rows : told'[r] <= (IF r \in seen THEN crashes + 1 ELSE crashes)
  BY <1>1, <1>2 DEF RowInv
<1>4. NewRowsAreTold'
  <2> SUFFICES ASSUME NEW r \in seen' \cap late'
               PROVE  r \in sent' \/ r \in dropped' \/ told'[r] > 0
    BY DEF NewRowsAreTold
  <2>1. r \in Rows /\ (r \in sent \/ r \in dropped \/ told[r] > 0)
    BY <1>1, RowTypes DEF RowInv, NewRowsAreTold
  <2> QED
    BY <1>1, <1>2, <2>1
<1>5. FeedTypeOK'
  <2>1. sent' \subseteq Rows /\ dropped' \subseteq Rows
    BY <1>1, RowTypes
  <2>2. told' \in [Rows -> 0..MaxCrashes + 1]
    <3>1. \A r \in Rows : told'[r] \in 0..MaxCrashes + 1
      <4> TAKE r \in Rows
      <4>1. told'[r] \in Nat /\ told'[r] <= crashes + 1 /\ crashes \in 0..MaxCrashes
        BY <1>2, <1>3, RowTypes
      <4> QED
        BY <4>1, Bounds
    <3> QED
      BY <1>1, <3>1, RowTypes
  <2> QED
    BY <1>1, <2>1, <2>2 DEF FeedTypeOK, bot
<1> QED
  BY <1>1, <1>3, <1>4, <1>5 DEF RowInv

-----------------------------------------------------------------------------
(* The bot.                                                                *)

Work == [update : 1..MaxEvents, step : Steps, run : Runs]

LEMMA BotTypes ==
  ASSUME FeedTypeOK
  PROVE  /\ inbox \in Seq(Kinds) /\ Len(inbox) \in 0..MaxEvents
         /\ acked \in 0..MaxEvents /\ last \in 0..MaxEvents
         /\ batch \in Seq(1..MaxEvents) /\ work \in Seq(Work)
         /\ up \in BOOLEAN /\ crashes \in 0..MaxCrashes
         /\ events \in 0..MaxEvents
BY Bounds DEF FeedTypeOK, Work

LEMMA TakesFinite ==
  ASSUME work \in Seq(Work), NEW u
  PROVE  IsFiniteSet(Takes(u)) /\ Cardinality(Takes(u)) \in Nat
<1>1. IsFiniteSet(DOMAIN work)
  BY FS_Interval
<1>2. Takes(u) \subseteq DOMAIN work
  BY DEF Takes
<1> QED
  BY <1>1, <1>2, FS_Subset, FS_CardinalityType

\* The loop over the updates k + 1, ..., k + m, none of which was handled in
\* this life: those up to the last one handled start at most one handler each.
LEMMA HandleInv ==
  ASSUME FeedTypeOK, UpdateInv, up,
         NEW k \in Nat, NEW m \in Nat, NEW q, q = [i \in 1..m |-> k + i],
         last <= k, k + m <= Len(inbox), Handle(q),
         acked' \in Nat, acked' <= Len(inbox),
         UNCHANGED <<up, crashes, events, inbox>>
  PROVE  UpdateInv' /\ last' \in 0..MaxEvents /\ batch' \in Seq(1..MaxEvents) /\ work' \in Seq(Work)
<1> DEFINE presses == {i \in 1..Len(q) : inbox[q[i]] = "press"}
           n == IF presses = {} THEN Len(q) ELSE CHOOSE i \in presses : \A j \in presses : i <= j
           taken == {q[i] : i \in {j \in 1..n : inbox[q[j]] \notin {"press", "foreign"}}}
           mine == SetToSeq(taken)
           more == [i \in 1..Len(mine) |-> [update |-> mine[i], step |-> "new", run |-> "none"]]
<1>1. /\ last' = (IF n = 0 THEN last ELSE q[n])
      /\ batch' = SubSeq(q, n + 1, Len(q))
      /\ work' = work \o more
  BY DEF Handle, Rest
<1>2. q \in Seq(Nat) /\ Len(q) = m /\ \A i \in 1..m : q[i] = k + i
  OBVIOUS
<1>3. n \in 0..m /\ (n = 0 => m = 0)
  <2>1. CASE presses = {}
    BY <1>2, <2>1
  <2>2. CASE presses # {}
    <3>1. presses \in SUBSET Nat
      BY <1>2
    <3>2. \E i \in presses : \A j \in presses : i <= j
      BY ONLY <2>2, <3>1, LeastExists
    <3>3. n \in presses
      BY <2>2, <3>2
    <3>4. presses \subseteq 1..m
      BY <1>2
    <3> HIDE DEF n, presses
    <3> QED
      BY <3>3, <3>4
  <2> QED
    BY <2>1, <2>2
<1> HIDE DEF n, presses
<1>4. taken \subseteq (k + 1)..(k + n) /\ IsFiniteSet(taken)
  <2>1. \A i \in 1..n : q[i] \in (k + 1)..(k + n)
    BY <1>2, <1>3
  <2>2. taken \subseteq (k + 1)..(k + n)
    BY <2>1
  <2>3. k + 1 \in Int /\ k + n \in Int
    BY <1>3
  <2>4. IsFiniteSet((k + 1)..(k + n))
    BY <2>3, FS_Interval
  <2> HIDE DEF taken
  <2> QED
    BY <2>2, <2>4, FS_Subset
<1>5. PICK c \in Nat : /\ mine \in [1..c -> taken]
                       /\ \A i, j \in 1..c : mine[i] = mine[j] => i = j
  BY <1>4, Listed
<1> HIDE DEF taken
<1>6. mine \in Seq(taken) /\ Len(mine) = c
  BY <1>5
<1> HIDE DEF mine
<1>7. /\ more \in Seq(Work) /\ Len(more) = c
      /\ \A i \in 1..c : more[i].update = mine[i]
  <2>1. "new" \in Steps /\ "none" \in Runs
    BY DEF Steps, Runs
  <2>2. \A i \in 1..c : mine[i] \in 1..MaxEvents
    <3>1. Len(inbox) \in 0..MaxEvents
      BY BotTypes
    <3>2. (k + 1)..(k + n) \subseteq 1..MaxEvents
      BY <1>3, <3>1, Bounds
    <3> QED
      BY <1>4, <1>5, <3>2
  <2>3. \A i \in 1..c : [update |-> mine[i], step |-> "new", run |-> "none"] \in Work
    BY <2>1, <2>2 DEF Work
  <2> QED
    BY <1>6, <2>3
<1> HIDE DEF more
<1>8. /\ work' \in Seq(Work) /\ Len(work) \in Nat /\ Len(work') = Len(work) + c
      /\ \A h \in 1..Len(work) : work'[h] = work[h]
      /\ \A i \in 1..c : work'[Len(work) + i].update = mine[i]
  <2>1. work \in Seq(Work)
    BY BotTypes
  <2>2. /\ Len(work) \in Nat /\ Len(work') = Len(work) + c
        /\ work' \in Seq(Work)
    <3>1. work \o more \in Seq(Work) /\ Len(work \o more) = Len(work) + Len(more)
      BY ONLY <1>7, <2>1
    <3> QED
      BY <1>1, <1>7, <2>1, <3>1
  <2>3. \A h \in 1..Len(work) : work'[h] = work[h]
    BY <1>1, <1>7, <2>1
  <2>4. \A i \in 1..c : work'[Len(work) + i] = more[i]
    BY <1>1, <1>7, <2>1
  <2> QED
    BY <1>7, <2>2, <2>3, <2>4
<1>9. \A h \in 1..Len(work') : h \in 1..Len(work) \/ \E j \in 1..c : h = Len(work) + j
  <2> SUFFICES ASSUME NEW h \in 1..Len(work'), h \notin 1..Len(work)
               PROVE  \E j \in 1..c : h = Len(work) + j
    OBVIOUS
  <2>1. h - Len(work) \in 1..c /\ h = Len(work) + (h - Len(work))
    BY <1>8
  <2> QED
    BY <2>1
<1>10. /\ last' = (IF n = 0 THEN last ELSE k + n) /\ last' \in 0..MaxEvents /\ last <= last'
      /\ batch' \in Seq(1..MaxEvents) /\ last' + Len(batch') <= Len(inbox)
      /\ \A i \in 1..Len(batch') : batch'[i] = last' + i
  <2>1. /\ last \in Nat /\ Len(inbox) \in 0..MaxEvents
    BY BotTypes
  <2>2. last' = (IF n = 0 THEN last ELSE k + n)
    BY <1>1, <1>2, <1>3
  <2>3. /\ batch' \in Seq(Nat) /\ Len(batch') = m - n
        /\ \A i \in 1..(m - n) : batch'[i] = k + n + i
    BY <1>1, <1>2, <1>3
  <2>4. last' \in 0..MaxEvents /\ last <= last' /\ last' + Len(batch') <= Len(inbox)
    BY <1>3, <2>1, <2>2, <2>3, Bounds
  <2>5. \A i \in 1..Len(batch') : batch'[i] = last' + i
    BY <1>3, <2>2, <2>3
  <2>6. batch' \in Seq(1..MaxEvents)
    <3>1. \A i \in 1..m : k + i \in 1..MaxEvents
      BY <2>1, Bounds
    <3>2. \A i \in (n + 1)..m : q[i] \in 1..MaxEvents
      BY <1>2, <1>3, <3>1
    <3>3. n + 1 \in Int /\ m \in Int
      BY <1>3
    <3>4. SubSeq(q, n + 1, m) \in Seq(1..MaxEvents)
      BY <3>2, <3>3, SubSeqProperties
    <3> QED
      BY <1>1, <1>2, <3>4
  <2> QED
    BY <2>2, <2>4, <2>5, <2>6
<1>11. ASSUME NEW u \in 1..MaxEvents
       PROVE  Cardinality(Takes(u)') <= (IF u <= last' THEN crashes + 1 ELSE crashes)
  <2>1. /\ IsFiniteSet(Takes(u)) /\ Cardinality(Takes(u)) \in Nat /\ crashes \in Nat /\ last \in Nat
        /\ Cardinality(Takes(u)) <= (IF u <= last THEN crashes + 1 ELSE crashes)
    BY TakesFinite, BotTypes DEF UpdateInv
  <2>2. CASE \E i \in 1..c : mine[i] = u
    <3>1. PICK i \in 1..c : mine[i] = u
      BY <2>2
    <3>2. u > last /\ u <= last'
      BY <1>3, <1>4, <1>6, <1>10, <2>1, <3>1
    <3>3. Takes(u)' = Takes(u) \cup {Len(work) + i}
      <4>1. \A h \in 1..Len(work') : h \in 1..Len(work) \/ \E j \in 1..c : h = Len(work) + j
        BY <1>9
      <4>3. DOMAIN work = 1..Len(work) /\ DOMAIN work' = 1..Len(work') /\ Len(work) + i \in 1..Len(work')
        BY <1>8, BotTypes
      <4>2. ASSUME NEW h \in 1..Len(work')
            PROVE  work'[h].update = u <=> (h \in Takes(u) \/ h = Len(work) + i)
        <5>1. CASE h \in 1..Len(work)
          BY <1>8, <4>3, <5>1 DEF Takes
        <5>2. ASSUME NEW j \in 1..c, h = Len(work) + j
              PROVE  work'[h].update = u <=> (h \in Takes(u) \/ h = Len(work) + i)
          <6>1. work'[h].update = u <=> j = i
            BY <1>5, <1>8, <3>1, <5>2
          <6>2. h \notin 1..Len(work) /\ (j = i <=> h = Len(work) + i)
            <7>1. Len(work) \in Nat /\ i \in Nat /\ j \in Nat /\ j >= 1
              BY <1>8
            <7> QED
              BY <5>2, <7>1
          <6> QED
            BY <4>3, <6>1, <6>2 DEF Takes
        <5> QED
          BY <4>1, <5>1, <5>2
      <4>4. Takes(u)' = {h \in 1..Len(work') : work'[h].update = u}
        BY <4>3 DEF Takes
      <4>5. Takes(u) \subseteq 1..Len(work')
        BY <1>8, <4>3 DEF Takes
      <4> QED
        BY <4>2, <4>3, <4>4, <4>5
    <3>4. /\ Cardinality(Takes(u) \cup {Len(work) + i}) \in Nat
          /\ Cardinality(Takes(u) \cup {Len(work) + i}) <= Cardinality(Takes(u)) + 1
      <4>1. Cardinality(Takes(u) \cup {Len(work) + i})
              = IF Len(work) + i \in Takes(u) THEN Cardinality(Takes(u)) ELSE Cardinality(Takes(u)) + 1
        BY <2>1, FS_AddElement
      <4> QED
        BY <2>1, <4>1
    <3> QED
      BY <1>10, <2>1, <3>2, <3>3, <3>4
  <2>3. CASE \A i \in 1..c : mine[i] # u
    <3>1. \A h \in 1..Len(work') : h \in 1..Len(work) \/ \E j \in 1..c : h = Len(work) + j
      BY <1>9
    <3>2. DOMAIN work = 1..Len(work) /\ DOMAIN work' = 1..Len(work')
      BY <1>8, BotTypes
    <3>3. Takes(u)' = Takes(u)
      <4>1. \A h \in 1..Len(work') : work'[h].update = u => h \in 1..Len(work)
        BY <1>8, <2>3, <3>1
      <4>2. \A h \in 1..Len(work) : h \in 1..Len(work') /\ work'[h] = work[h]
        BY <1>8
      <4> QED
        BY <3>2, <4>1, <4>2 DEF Takes
    <3> QED
      BY <1>10, <2>1, <3>3
  <2> QED
    BY <2>2, <2>3
<1>12. UpdateInv'
  BY <1>10, <1>11 DEF UpdateInv
<1> QED
  BY <1>8, <1>10, <1>12

LEMMA PollInv ==
  ASSUME FeedInv, Poll \/ PollLost
  PROVE  FeedInv'
<1> USE DEF FeedInv
<1>1. /\ up /\ acked' = Offset - 1 /\ batch = <<>>
      /\ UNCHANGED <<up, crashes, events, source, inbox, poller, pending, busy>>
  BY DEF Poll, PollLost, On, process, watcher
<1>2. /\ acked' \in Nat /\ acked' <= Len(inbox) /\ last <= acked'
      /\ last \in Nat /\ Len(inbox) \in 0..MaxEvents
  <2>1. acked \in Nat /\ last \in Nat /\ Len(inbox) \in 0..MaxEvents
    BY BotTypes, Bounds
  <2>2. Offset - 1 = IF last = 0 THEN acked ELSE last
    BY <2>1 DEF Offset
  <2>3. acked <= Len(inbox) /\ last <= Len(inbox)
    BY <1>1, <2>1 DEF UpdateInv
  <2> QED
    BY <1>1, <2>1, <2>2, <2>3
<1>3. UpdateInv' /\ last' \in 0..MaxEvents /\ batch' \in Seq(1..MaxEvents) /\ work' \in Seq(Work)
  <2>1. CASE Poll
    <3>1. Handle([i \in 1..(Len(inbox) - acked') |-> acked' + i])
      BY <2>1 DEF Poll
    <3>2. Len(inbox) - acked' \in Nat /\ acked' + (Len(inbox) - acked') <= Len(inbox)
      BY <1>2
    <3> QED
      BY <1>1, <1>2, <3>1, <3>2, HandleInv
  <2>2. CASE PollLost
    <3>1. UNCHANGED <<last, batch, work>>
      BY <2>2 DEF PollLost
    <3>2. \A u : Takes(u)' = Takes(u)
      BY <3>1 DEF Takes
    <3> QED
      BY <1>1, <1>2, <3>1, <3>2, BotTypes DEF UpdateInv
  <2> QED
    BY <2>1, <2>2
<1>4. RowInv'
  BY <1>1, RowsKept
<1>5. FeedTypeOK'
  <2>1. acked' \in 0..MaxEvents
    BY <1>2, Bounds
  <2> QED
    BY <1>1, <1>3, <2>1 DEF FeedTypeOK, poller, Work
<1> QED
  BY <1>3, <1>4, <1>5

LEMMA PressedInv ==
  ASSUME FeedInv, Pressed
  PROVE  FeedInv'
<1> USE DEF FeedInv
<1>1. /\ up /\ Handle(batch)
      /\ UNCHANGED <<up, crashes, events, source, inbox, acked, poller, pending, busy>>
  BY DEF Pressed, On, process, watcher
<1>2. /\ last \in Nat /\ Len(batch) \in Nat /\ batch = [i \in 1..Len(batch) |-> last + i]
      /\ last + Len(batch) <= Len(inbox) /\ acked \in Nat /\ acked <= Len(inbox)
  BY BotTypes DEF UpdateInv
<1>3. UpdateInv' /\ last' \in 0..MaxEvents /\ batch' \in Seq(1..MaxEvents) /\ work' \in Seq(Work)
  <2>1. acked' \in Nat /\ acked' <= Len(inbox) /\ last <= last
    BY <1>1, <1>2
  <2> QED
    BY ONLY <1>1, <1>2, <2>1, HandleInv, FeedInv
<1>4. RowInv'
  BY <1>1, RowsKept
<1>5. FeedTypeOK'
  BY <1>1, <1>3 DEF FeedTypeOK, poller, Work
<1> QED
  BY <1>3, <1>4, <1>5

\* A handler's step: it answers for the update it was started for.
LEMMA HandlerInv ==
  ASSUME FeedInv, NEW h \in DOMAIN work, Handler(h)
  PROVE  FeedInv'
<1> USE DEF FeedInv
<1>1. work \in Seq(Work)
  BY BotTypes
<1>2. /\ work' \in Seq(Work) /\ DOMAIN work' = DOMAIN work
      /\ \A i \in DOMAIN work : work'[i].update = work[i].update
      /\ UNCHANGED <<process, events, source, bot, poller, watcher>>
  <2> DEFINE Kept == /\ work' \in Seq(Work) /\ DOMAIN work' = DOMAIN work
                     /\ \A i \in DOMAIN work : work'[i].update = work[i].update
                     /\ UNCHANGED <<process, events, source, bot, poller,
                                    watcher>>
  <2>1. ASSUME NEW from, NEW to \in Work, to.update = work[h].update, Works(h, from, to)
        PROVE  Kept
    BY <1>1, <2>1 DEF Works
  <2>2. work[h] \in Work
    BY <1>1
  <2>3. ASSUME NEW st \in Steps, NEW ru \in Runs
        PROVE  /\ [work[h] EXCEPT !.step = st] \in Work
               /\ [work[h] EXCEPT !.step = st].update = work[h].update
               /\ [work[h] EXCEPT !.step = st, !.run = ru] \in Work
               /\ [work[h] EXCEPT !.step = st, !.run = ru].update = work[h].update
    BY <2>2 DEF Work
  <2>4. {"new", "running", "cancelling", "done"} = Steps /\ {"none", "running", "stopped", "completed"} = Runs
    BY DEF Steps, Runs
  <2>5. CASE Reply(h) \/ CancelRead(h)
    <3>1. \E from, st : /\ st \in Steps
                        /\ Works(h, from, [work[h] EXCEPT !.step = st])
      BY <2>4, <2>5 DEF Reply, CancelRead
    <3> QED
      BY <2>1, <2>3, <2>4, <3>1
  <2>6. CASE Finish(h)
    <3>1. PICK ru \in Runs : Works(h, "running", [work[h] EXCEPT !.step = "done", !.run = ru])
      BY <2>2, <2>4, <2>6 DEF Finish, Work
    <3> QED
      BY <2>1, <2>3, <2>4, <3>1
  <2>7. ASSUME NEW ru \in {"none", "running"}, Fire(h, ru)
        PROVE  Kept
    <3>1. Works(h, "new", [work[h] EXCEPT !.step = "running", !.run = ru])
      BY <2>7 DEF Fire
    <3> QED
      BY <2>1, <2>3, <2>4, <3>1
  <2>8. ASSUME NEW g \in DOMAIN work, CancelWrite(h, g)
        PROVE  Kept
    <3>1. /\ work' = [work EXCEPT ![h].step = "done", ![g].run = "stopped"]
          /\ UNCHANGED <<process, events, source, bot, poller, watcher>>
      BY <2>8 DEF CancelWrite
    <3>2. PICK w : w = [work EXCEPT ![h] = [work[h] EXCEPT !.step = "done"]]
      OBVIOUS
    <3>3. /\ w \in Seq(Work) /\ DOMAIN w = DOMAIN work
          /\ \A i \in DOMAIN work : w[i].update = work[i].update
      <4>1. PICK e \in Work : e = [work[h] EXCEPT !.step = "done"] /\ e.update = work[h].update
        BY <2>3, <2>4
      <4>2. w = [work EXCEPT ![h] = e]
        BY <3>2, <4>1
      <4> QED
        BY <1>1, <4>1, <4>2
    <3>4. [w[g] EXCEPT !.run = "stopped"] \in Work /\ [w[g] EXCEPT !.run = "stopped"].update = w[g].update
      <4>1. w[g] \in Work
        BY <3>3
      <4> QED
        BY <2>4, <4>1 DEF Work
    <3>5. work' = [w EXCEPT ![g] = [w[g] EXCEPT !.run = "stopped"]]
      BY <3>1, <3>2
    <3>6. /\ work' \in Seq(Work) /\ DOMAIN work' = DOMAIN work
          /\ \A i \in DOMAIN work : work'[i].update = work[i].update
      BY <3>3, <3>4, <3>5
    <3> QED
      BY <3>1, <3>6
  <2> QED
    BY <2>5, <2>6, <2>7, <2>8 DEF Handler
<1>3. \A u : Takes(u)' = Takes(u)
  BY <1>2 DEF Takes
<1>4. UpdateInv'
  BY <1>2, <1>3 DEF UpdateInv, process, bot
<1>5. RowInv'
  BY <1>2, RowsKept DEF process
<1>6. FeedTypeOK'
  BY <1>2 DEF FeedTypeOK, process, bot, poller, watcher, Work
<1> QED
  BY <1>4, <1>5, <1>6

-----------------------------------------------------------------------------
(* The outside, the watcher and the process.                               *)

LEMMA MessageInv ==
  ASSUME FeedInv, NEW kind \in Kinds, Message(kind)
  PROVE  FeedInv'
<1> USE DEF FeedInv
<1>1. /\ events < MaxEvents /\ events' = events + 1 /\ inbox' = Append(inbox, kind)
      /\ UNCHANGED <<up, crashes, source, acked, last, batch, work, poller, pending, busy>>
  BY DEF Message, Happens, process, watcher
<1>2. inbox \in Seq(Kinds) /\ Len(inbox) \in Nat /\ events \in 0..MaxEvents
      /\ Len(inbox) <= events /\ acked \in Nat /\ last \in Nat /\ Len(batch) \in Nat
  BY BotTypes, Bounds DEF UpdateInv
<1>3. inbox' \in Seq(Kinds) /\ Len(inbox') = Len(inbox) + 1 /\ Len(inbox') <= MaxEvents
      /\ events' \in 0..MaxEvents
  BY <1>1, <1>2, Bounds
<1>4. UpdateInv'
  <2>1. \A u : Takes(u)' = Takes(u)
    BY <1>1 DEF Takes
  <2> QED
    BY <1>1, <1>2, <1>3, <2>1 DEF UpdateInv
<1>5. RowInv'
  BY <1>1, RowsKept
<1>6. FeedTypeOK'
  BY <1>1, <1>3 DEF FeedTypeOK, poller
<1> QED
  BY <1>4, <1>5, <1>6

\* Steps of the watcher and of the operator.
LEMMA AsideInv ==
  ASSUME FeedInv,
         UNCHANGED <<up, crashes, bot, work, poller>>,
         events' \in {events, events + 1}, events' \in 0..MaxEvents,
         source' \in [Sources -> {"off", "on", "dead"}],
         pending' \in 0..PendingCap, busy' \in BOOLEAN
  PROVE  FeedInv'
<1> USE DEF FeedInv
<1>1. UpdateInv' /\ RowInv'
  BY UpdatesKept, RowsKept
<1>2. FeedTypeOK'
  BY DEF FeedTypeOK, bot, poller
<1> QED
  BY <1>1, <1>2

LEMMA SourceInv ==
  ASSUME FeedInv,
         \/ FileChanges \/ Burst
         \/ \E s \in Sources : Stop(s) \/ Dies(s)
         \/ \E fails \in BOOLEAN : BurstEnds(fails)
  PROVE  FeedInv'
<1>1. /\ source \in [Sources -> {"off", "on", "dead"}] /\ events \in 0..MaxEvents
      /\ pending \in 0..PendingCap /\ busy \in BOOLEAN
  BY DEF FeedInv, FeedTypeOK
<1>2. CASE FileChanges
  <2>1. /\ events < MaxEvents /\ events' = events + 1 /\ busy' = busy /\ source' = source
        /\ pending' \in 0..PendingCap
        /\ UNCHANGED <<up, crashes, bot, work, poller>>
    BY <1>1, <1>2, Bounds DEF FileChanges, Happens, process
  <2> QED
    BY <1>1, <2>1, AsideInv, Bounds
<1>3. CASE Burst
  <2>1. /\ events' = events /\ busy' = TRUE /\ source' = source /\ pending' = 0
        /\ UNCHANGED <<up, crashes, bot, work, poller>>
    BY <1>3 DEF Burst, process
  <2>2. pending' \in 0..PendingCap
    BY <2>1, Bounds
  <2> QED
    BY <1>1, <2>1, <2>2, AsideInv
<1>4. ASSUME NEW s \in Sources, Stop(s) \/ Dies(s)
      PROVE  FeedInv'
  <2>1. /\ source' = [source EXCEPT ![s] = "off"] \/ source' = [source EXCEPT ![s] = "dead"]
        /\ UNCHANGED <<up, crashes, events, bot, work, poller, pending, busy>>
    BY <1>4 DEF Stop, Dies, process, watcher
  <2>2. source' \in [Sources -> {"off", "on", "dead"}]
    BY <1>1, <2>1
  <2> QED
    BY <1>1, <2>1, <2>2, AsideInv
<1>5. ASSUME NEW fails \in BOOLEAN, BurstEnds(fails)
      PROVE  FeedInv'
  <2>1. /\ busy' = FALSE
        /\ source' = source \/ source' = [source EXCEPT !["watcher"] = "dead"]
        /\ UNCHANGED <<up, crashes, events, bot, work, poller, pending>>
    BY <1>5 DEF BurstEnds, process
  <2>2. source' \in [Sources -> {"off", "on", "dead"}]
    BY <1>1, <2>1
  <2> QED
    BY <1>1, <2>1, <2>2, AsideInv
<1> QED
  BY <1>2, <1>3, <1>4, <1>5

LEMMA DeathInv ==
  ASSUME FeedInv, Crash \/ StartUp
  PROVE  FeedInv'
<1> USE DEF FeedInv
<1>1. crashes \in 0..MaxCrashes /\ last \in Nat /\ work \in Seq(Work) /\ Len(batch) \in Nat
      /\ Len(inbox) \in Nat
  BY BotTypes, Bounds
<1>2. CASE Crash
  <2>1. /\ up /\ up' = FALSE /\ crashes < MaxCrashes /\ crashes' = crashes + 1
        /\ work' = [h \in DOMAIN work |-> [work[h] EXCEPT !.step = "done"]]
        /\ UNCHANGED <<events, source, bot, poller, watcher>>
    BY <1>2 DEF Crash
  <2>2. /\ work' \in Seq(Work) /\ DOMAIN work' = DOMAIN work
        /\ \A h \in DOMAIN work : work'[h].update = work[h].update
    <3>1. ASSUME NEW h \in DOMAIN work
          PROVE  work'[h] \in Work /\ work'[h].update = work[h].update
      <4>1. work[h] \in Work /\ work'[h] = [work[h] EXCEPT !.step = "done"]
        BY <1>1, <2>1
      <4>2. "done" \in Steps
        BY DEF Steps
      <4> QED
        BY <4>1, <4>2 DEF Work
    <3>2. DOMAIN work = 1..Len(work) /\ Len(work) \in Nat
      BY <1>1
    <3>3. work' \in [1..Len(work) -> Work]
      BY <2>1, <3>1, <3>2
    <3> QED
      BY <3>1, <3>2, <3>3
  <2>3. crashes' \in 0..MaxCrashes /\ crashes + 1 = crashes'
    BY <1>1, <2>1, Bounds
  <2>4. UpdateInv'
    <3>1. \A u : Takes(u)' = Takes(u)
      BY <2>2 DEF Takes
    <3>2. \A u \in 1..MaxEvents : Cardinality(Takes(u)) <= crashes + 1
      <4> TAKE u \in 1..MaxEvents
      <4>1. Cardinality(Takes(u)) \in Nat
        BY <1>1, TakesFinite
      <4> QED
        BY <1>1, <4>1 DEF UpdateInv
    <3> QED
      BY <2>1, <2>3, <3>1, <3>2 DEF UpdateInv, bot
  <2>5. RowInv'
    <3>1. \A r \in Rows : told[r] <= crashes + 1
      BY <1>1, RowTypes DEF RowInv
    <3> QED
      BY <2>1, <2>3, <3>1 DEF RowInv, poller, NewRowsAreTold
  <2>6. FeedTypeOK'
    BY <2>1, <2>2, <2>3 DEF FeedTypeOK, bot, poller, watcher, Work
  <2> QED
    BY <2>4, <2>5, <2>6
<1>3. CASE StartUp
  <2>1. /\ ~up /\ up' = TRUE /\ last' = 0 /\ batch' = <<>>
        /\ source' = [s \in Sources |-> IF source[s] = "off" THEN "off" ELSE "on"]
        /\ seen' = {} /\ first' = TRUE /\ sent' = {} /\ looked' = FALSE /\ late' = {}
        /\ dropped' = {} /\ pending' = 0 /\ busy' = FALSE
        /\ UNCHANGED <<crashes, events, inbox, acked, work, listing, told>>
    BY <1>3 DEF StartUp
  <2>2. UpdateInv'
    <3>1. \A u : Takes(u)' = Takes(u)
      BY <2>1 DEF Takes
    <3> QED
      BY <1>1, <2>1, <3>1 DEF UpdateInv
  <2>3. RowInv'
    <3>1. \A r \in Rows : told'[r] <= crashes
      BY <2>1 DEF RowInv
    <3> QED
      BY <2>1, <3>1 DEF RowInv, NewRowsAreTold
  <2>4. FeedTypeOK'
    <3>1. source' \in [Sources -> {"off", "on", "dead"}]
      BY <2>1
    <3>2. 0 \in 0..MaxEvents /\ 0 \in 0..PendingCap
      BY Bounds
    <3>3. <<>> \in Seq(1..MaxEvents) /\ {} \subseteq Rows
      OBVIOUS
    <3>4. /\ up' \in BOOLEAN /\ first' \in BOOLEAN /\ looked' \in BOOLEAN /\ busy' \in BOOLEAN
          /\ last' \in 0..MaxEvents /\ pending' \in 0..PendingCap /\ batch' \in Seq(1..MaxEvents)
          /\ seen' \subseteq Rows /\ sent' \subseteq Rows /\ late' \subseteq Rows
          /\ dropped' \subseteq Rows
      BY <2>1, <3>2, <3>3
    <3> QED
      BY <2>1, <3>1, <3>4 DEF FeedTypeOK
  <2> QED
    BY <2>2, <2>3, <2>4
<1> QED
  BY <1>2, <1>3

-----------------------------------------------------------------------------
LEMMA FeedStarts ==
  ASSUME FeedInit
  PROVE  FeedInv
<1> USE DEF FeedInit
<1>1. \A u : Takes(u) = {}
  BY DEF Takes
<1>2. Cardinality({}) = 0
  BY FS_EmptySet
<1>3. UpdateInv
  <2>1. Len(inbox) = 0 /\ Len(batch) = 0 /\ acked = 0 /\ last = 0 /\ events = 0 /\ crashes = 0
    OBVIOUS
  <2>2. \A u : Cardinality(Takes(u)) = 0
    BY <1>1, <1>2
  <2> QED
    BY ONLY <2>1, <2>2 DEF UpdateInv
<1>4. RowInv
  BY DEF RowInv, NewRowsAreTold
<1>5. FeedTypeOK
  <2>1. 0 \in 0..MaxEvents /\ 0 \in 0..MaxCrashes /\ 0 \in 0..PendingCap /\ 0 \in 0..MaxCrashes + 1
    BY Bounds
  <2>2. source \in [Sources -> {"off", "on", "dead"}] /\ told \in [Rows -> 0..MaxCrashes + 1]
    BY <2>1
  <2>3. <<>> \in Seq(Kinds) /\ <<>> \in Seq(1..MaxEvents)
        /\ <<>> \in Seq([update : 1..MaxEvents, step : Steps, run : Runs])
        /\ Len(<<>>) = 0
    OBVIOUS
  <2>4. inbox = <<>> /\ batch = <<>> /\ work = <<>>
    OBVIOUS
  <2>5. Len(inbox) <= MaxEvents
    BY <2>3, <2>4, Bounds
  <2> QED
    BY <2>1, <2>2, <2>3, <2>4, <2>5 DEF FeedTypeOK
<1> QED
  BY <1>3, <1>4, <1>5 DEF FeedInv

LEMMA FeedSteps ==
  ASSUME FeedInv, [FeedNext]_feedVars
  PROVE  FeedInv'
<1>1. CASE \E kind \in Kinds : Message(kind)
  BY <1>1, MessageInv
<1>2. ASSUME NEW r \in Rows, ListRow(r) \/ UnlistRow(r)
      PROVE  FeedInv'
  <2>1. RowInv' /\ FeedTypeOK' /\ UNCHANGED <<up, crashes, bot, work>>
    BY <1>2, ListInv DEF FeedInv
  <2>2. events' = events + 1
    BY <1>2 DEF ListRow, UnlistRow, Happens
  <2>3. UpdateInv'
    BY <2>1, <2>2, UpdatesKept DEF FeedInv
  <2> QED
    BY <2>1, <2>3 DEF FeedInv
<1>3. ASSUME \/ Passes
             \/ \E fails \in BOOLEAN : Tell(fails)
      PROVE  FeedInv'
  <2>1. RowInv' /\ FeedTypeOK'
    BY <1>3, FetchInv, TellInv DEF FeedInv, Passes
  <2>2. UNCHANGED <<up, crashes, events, bot, work>>
    BY <1>3 DEF Passes, Fetch, Tell, process
  <2>3. UpdateInv'
    BY <2>2, UpdatesKept DEF FeedInv
  <2> QED
    BY <2>1, <2>3 DEF FeedInv
<1>4. CASE UNCHANGED feedVars
  <2>1. UNCHANGED <<up, crashes, events, source, bot, work, poller, pending, busy>>
    BY <1>4 DEF feedVars, process, watcher
  <2> QED
    BY <2>1, AsideInv DEF FeedInv, FeedTypeOK
<1> QED
  BY <1>1, <1>2, <1>3, <1>4, PollInv, PressedInv, HandlerInv, SourceInv, DeathInv DEF FeedNext

LEMMA FeedInvariance == FeedSpec => []FeedInv
<1>1. FeedInit => FeedInv
  BY FeedStarts
<1>2. FeedInv /\ [FeedNext]_feedVars => FeedInv'
  BY FeedSteps
<1> QED
  BY <1>1, <1>2, PTL DEF FeedSpec

\* Type correctness of the event sources: no queue, set or counter leaves its
\* range whatever arrives, stops, fails or dies.
THEOREM FeedTypes == FeedSpec => []FeedTypeOK
<1>1. FeedInv => FeedTypeOK
  BY DEF FeedInv
<1> QED
  BY <1>1, FeedInvariance, PTL

\* In each life of the server an update is given to at most one handler, and a
\* row is told of at most once: the offset and the seen set do not repeat, so
\* what is done twice was done by two lives.
THEOREM EventsAreTakenOnce == FeedSpec => []OncePerLife
<1>1. FeedInv => OncePerLife
  <2> SUFFICES ASSUME FeedInv PROVE OncePerLife
    OBVIOUS
  <2> USE DEF FeedInv
  <2>1. /\ Len(inbox) \in 0..MaxEvents /\ crashes \in Nat /\ work \in Seq(Work)
    BY BotTypes, Bounds
  <2>2. \A u \in 1..Len(inbox) : Cardinality({h \in DOMAIN work : work[h].update = u}) <= crashes + 1
    <3> TAKE u \in 1..Len(inbox)
    <3>1. u \in 1..MaxEvents /\ Cardinality(Takes(u)) \in Nat
      BY <2>1, TakesFinite, Bounds
    <3> QED
      BY <2>1, <3>1 DEF UpdateInv, Takes
  <2>3. \A r \in Rows : told[r] <= crashes + 1
    BY <2>1, RowTypes DEF RowInv
  <2> QED
    BY <2>2, <2>3 DEF OncePerLife
<1> QED
  BY <1>1, FeedInvariance, PTL

\* A row that appeared after the poller's first pass and that it has seen was
\* told of, is being told of, or was lost to an overfull or failed fire.
THEOREM RowsAreTold == FeedSpec => []NewRowsAreTold
<1>1. FeedInv => NewRowsAreTold
  BY DEF FeedInv, RowInv
<1> QED
  BY <1>1, FeedInvariance, PTL
=============================================================================
