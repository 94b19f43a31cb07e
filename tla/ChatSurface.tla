------------------------------- MODULE ChatSurface -------------------------------
(***************************************************************************)
(* The VS Code extension: one controller that starts turns in an embedded  *)
(* engine, folds the events of every session it ever started into one view *)
(* and keeps the edits of a turn for review (apps/vscode/src/controller.ts, *)
(* engine/host.ts, chat/view-model.ts, edits/review.ts, inline/provider.ts). *)
(* Commands of the user and events of the engine interleave; the engine is  *)
(* modelled by the events a turn emits.                                     *)
(***************************************************************************)
EXTENDS Naturals

CONSTANTS
  MaxTurns,  (* Bound: prompts submitted.                                 *)
  MaxHosts,  (* Bound: engine hosts built.                                *)
  MaxCalls,  (* Bound: tool calls of one turn, and of its subagent.        *)
  Subagents, (* Turns may run a subagent.                                 *)
  Resets,    (* Session settings may change.                              *)
  GhostText, (* Completions are enabled.                                  *)
  Reverts,   (* Edits may be reverted.                                    *)
  Reads      (* Tool calls may edit nothing.                              *)

SurfaceAssumption ==
  /\ {MaxTurns, MaxHosts, MaxCalls} \subseteq Nat \ {0}
  /\ {Subagents, Resets, GhostText, Reverts, Reads} \subseteq BOOLEAN

VARIABLES
  host,      (* chatHost, 0 for none.                                     *)
  made,      (* Hosts built so far.                                       *)
  turnOf,    (* turnOf[h]: the turnId host h knows of, 0 for none.         *)
  turns,     (* The engine's side of every turn submitted.                *)
  view,      (* The view model.                                           *)
  review,    (* The edits awaiting review; all are in the file on screen.  *)
  settled,   (* History: the edits accepted or reverted.                  *)
  reverting, (* What a revert under way undoes, {} for none.               *)
  running,   (* The context key adze.running.                             *)
  refused,   (* History: the engine refused a turn the controller let go.  *)
  ghost      (* The completion being asked for.                           *)

vars == <<host, made, turnOf, turns, view, review, settled, reverting, running, refused, ghost>>

Turns == 1 .. MaxTurns
Hosts == 1 .. MaxHosts

(* Events carry the id of the turn or of its subagent's turn; a tool call   *)
(* and the edit it makes are named by that id and a number.                 *)
TurnId(t, l) == <<t, l>>
Call(id, k) == <<id, k>>
TurnIds == {TurnId(t, l) : t \in Turns, l \in {"main", "sub"}}
Calls == {Call(id, k) : id \in TurnIds, k \in 1 .. MaxCalls + 1}
NoTurn == TurnId(0, "main")

Turn == [host: Hosts \cup {0}, at: {"unused", "main", "sub", "over", "rejected"},
         cancelled: BOOLEAN,
         seq: [{"main", "sub"} -> Nat], calls: [{"main", "sub"} -> 0 .. MaxCalls + 1],
         edits: SUBSET Calls]
View == [turn: TurnIds \cup {NoTurn}, status: {"idle", "running", "finished"},
         expected: Nat, dropped: Nat, tools: SUBSET Calls]

Init ==
  /\ host = 0 /\ made = 0 /\ turnOf = [h \in Hosts |-> 0]
  /\ turns = [t \in Turns |->
       [host |-> 0, at |-> "unused", cancelled |-> FALSE, seq |-> [l \in {"main", "sub"} |-> 0],
        calls |-> [l \in {"main", "sub"} |-> 0], edits |-> {}]]
  /\ view = [turn |-> NoTurn, status |-> "idle", expected |-> 0, dropped |-> 0, tools |-> {}]
  /\ review = {} /\ settled = {} /\ reverting = {} /\ running = FALSE /\ refused = FALSE
  /\ ghost = "idle"

Live(t) == turns[t].at \in {"main", "sub"}
ActiveOn(h) == {t \in Turns : turns[t].host = h /\ Live(t)}
Unused == {t \in Turns : turns[t].at = "unused"}
OnScreen(t) == view.turn \in {TurnId(t, "main"), TurnId(t, "sub")}

-----------------------------------------------------------------------------
(* The fold of an event into the view.                                     *)

(* Slip of trackSequence: the expectation of the last turn is kept. *)
TrackAcrossTurns(v, id, seq, n) ==
  LET gap == IF seq > v.expected THEN seq - v.expected ELSE v.expected - seq
  IN [v EXCEPT !.dropped = gap, !.expected = seq + n]

(* For n events one after the other, the first with number seq: those of    *)
(* another turn than the view's are each compared with 0, and the last of   *)
(* them is what counts.                                                     *)
trackSequence(v, id, seq, n) ==
  LET same == v.turn = id
      gap == IF seq > v.expected THEN seq - v.expected ELSE 0
  IN [v EXCEPT !.dropped = IF same THEN @ + gap ELSE seq + n - 1, !.expected = seq + n]

onTurnStarted(v, id) ==
  [trackSequence(v, id, 0, 1) EXCEPT !.turn = id, !.status = "running", !.tools = {}]

(* n events about tool calls and edits.                                     *)
onCall(v, id, seq, n, tools) == [trackSequence(v, id, seq, n) EXCEPT !.tools = @ \cup tools]

onTurnCompleted(v, id, seq) == [trackSequence(v, id, seq, 1) EXCEPT !.status = "finished"]

-----------------------------------------------------------------------------
(* The user's commands.                                                     *)

(* Submit with an idle host: the host is built when there is none, and the  *)
(* engine emits turn.started before turnSubmit returns.                     *)
Submit ==
  LET h == IF host = 0 THEN made + 1 ELSE host IN
  /\ h \in Hosts /\ turnOf[h] = 0 /\ ActiveOn(h) = {}
  /\ \E t \in Unused :
       /\ \A u \in Unused : t <= u
       /\ turns' = [turns EXCEPT ![t].host = h, ![t].at = "main", ![t].seq["main"] = 1]
       /\ turnOf' = [turnOf EXCEPT ![h] = t]
       /\ view' = onTurnStarted(view, TurnId(t, "main"))
  /\ host' = h /\ made' = IF host = 0 THEN h ELSE made
  /\ review' = {} /\ running' = TRUE
  /\ UNCHANGED <<settled, reverting, refused, ghost>>

(* The engine or the gateway refuses: no credential, a ceiling it cannot    *)
(* keep, or a turn of this session that is still in flight.                 *)
SubmitFails ==
  LET h == IF host = 0 THEN made + 1 ELSE host IN
  /\ Unused # {} /\ h \in Hosts
  /\ turnOf[h] = 0
  /\ host' = h /\ made' = IF host = 0 THEN h ELSE made
  /\ refused' = (refused \/ ActiveOn(h) # {})
  /\ running' = FALSE
  /\ UNCHANGED <<turnOf, turns, view, review, settled, reverting, ghost>>

(* cancel reaches the turn the host knows of, and no other.                 *)
Cancel ==
  /\ host # 0 /\ turnOf[host] # 0
  /\ turns' = [turns EXCEPT ![turnOf[host]].cancelled = TRUE]
  /\ UNCHANGED <<host, made, turnOf, view, review, settled, reverting, running, refused, ghost>>

(* resetSessions: the host is let go at once and its session closed; what   *)
(* its turn still emits is folded as before.                                *)
Reset ==
  /\ Resets /\ host # 0
  /\ turns' = [t \in Turns |->
       IF t \in ActiveOn(host) THEN [turns[t] EXCEPT !.cancelled = TRUE] ELSE turns[t]]
  /\ turnOf' = [turnOf EXCEPT ![host] = 0]
  /\ host' = 0
  /\ UNCHANGED <<made, view, review, settled, reverting, running, refused, ghost>>

Accept ==
  /\ review # {}
  /\ settled' = settled \cup review /\ review' = {}
  /\ UNCHANGED <<host, made, turnOf, turns, view, reverting, running, refused, ghost>>

(* revert plans the inverse of what is recorded and waits for the editor.   *)
RevertStarts ==
  /\ Reverts /\ review # {} /\ reverting = {}
  /\ reverting' = review
  /\ UNCHANGED <<host, made, turnOf, turns, view, review, settled, running, refused, ghost>>

(* The editor applied the inverse: every edit of the file is forgotten.     *)
RevertEnds ==
  /\ reverting # {}
  /\ settled' = settled \cup reverting
  /\ review' = {} /\ reverting' = {}
  /\ UNCHANGED <<host, made, turnOf, turns, view, running, refused, ghost>>

RevertDeclined ==
  /\ reverting # {}
  /\ reverting' = {}
  /\ UNCHANGED <<host, made, turnOf, turns, view, review, settled, running, refused, ghost>>

-----------------------------------------------------------------------------
(* The engine's events.                                                     *)

(* The number of events of a tool call that was denied, that ran, and that  *)
(* ran and applied an edit (a refused edit counts as none).  They come after *)
(* the tool has run, all at once.                                           *)
Outcomes == {4} \cup (IF Reads THEN {1, 2} ELSE {})

CallTool(t, n) ==
  LET l == turns[t].at
      id == TurnId(t, l)
      call == Call(id, turns[t].calls[l] + 1)
  IN /\ Live(t)
     /\ turns[t].calls[l] < MaxCalls /\ (turns[t].cancelled => turns[t].calls[l] = 0)
     /\ turns' = [turns EXCEPT ![t].seq[l] = @ + n, ![t].calls[l] = @ + 1,
                    ![t].edits = IF n = 4 THEN @ \cup {call} ELSE @]
     /\ view' = onCall(view, id, turns[t].seq[l], n, {call})
     /\ review' = IF n = 4 THEN review \cup {call} ELSE review
     /\ UNCHANGED <<host, made, turnOf, settled, reverting, running, refused, ghost>>

(* A subagent's turn reports through the same sink.                         *)
SubagentStarts(t) ==
  /\ Subagents /\ turns[t].at = "main" /\ ~turns[t].cancelled /\ turns[t].seq["sub"] = 0
  /\ turns' = [turns EXCEPT ![t].at = "sub", ![t].seq["sub"] = 1]
  /\ view' = onTurnStarted(view, TurnId(t, "sub"))
  /\ review' = {}
  /\ UNCHANGED <<host, made, turnOf, settled, reverting, running, refused, ghost>>

(* The host takes any turn.completed for that of its own turn.              *)
SubagentCompletes(t) ==
  /\ turns[t].at = "sub"
  /\ turns' = [turns EXCEPT ![t].at = "main", ![t].seq["sub"] = @ + 1]
  /\ view' = onTurnCompleted(view, TurnId(t, "sub"), turns[t].seq["sub"])
  /\ turnOf' = [turnOf EXCEPT ![turns[t].host] = 0]
  /\ UNCHANGED <<host, made, review, settled, reverting, running, refused, ghost>>

(* turn.completed, and the finally blocks of the submit that awaited it.    *)
Completes(t) ==
  /\ turns[t].at = "main"
  /\ turns' = [turns EXCEPT ![t].at = "over", ![t].seq["main"] = @ + 1]
  /\ view' = onTurnCompleted(view, TurnId(t, "main"), turns[t].seq["main"])
  /\ turnOf' = [turnOf EXCEPT ![turns[t].host] = 0]
  /\ running' = FALSE
  /\ UNCHANGED <<host, made, review, settled, reverting, refused, ghost>>

(* The turn's promise rejects, as it does when the prompt for an approval    *)
(* fails: no turn.completed is emitted, and the same finally blocks run.     *)
Rejects(t) ==
  /\ turns[t].at = "main"
  /\ turns' = [turns EXCEPT ![t].at = "rejected"]
  /\ turnOf' = [turnOf EXCEPT ![turns[t].host] = 0]
  /\ running' = FALSE
  /\ UNCHANGED <<host, made, view, review, settled, reverting, refused, ghost>>

(* A subagent's turn that rejects is a failed call of the turn that asked.  *)
SubagentRejects(t) ==
  /\ turns[t].at = "sub"
  /\ turns' = [turns EXCEPT ![t].at = "main"]
  /\ UNCHANGED <<host, made, turnOf, view, review, settled, reverting, running, refused, ghost>>

-----------------------------------------------------------------------------
(* Ghost text: a completion is asked for after a pause in the typing.       *)

Busy == (host # 0 /\ turnOf[host] # 0) \/ ghost = "running"

Debounce ==
  /\ GhostText /\ ~Busy /\ ghost = "idle"
  /\ ghost' = "debounce"
  /\ UNCHANGED <<host, made, turnOf, turns, view, review, settled, reverting, running, refused>>

Complete ==
  /\ ghost = "debounce"
  /\ ghost' \in {"running", "idle"}
  /\ UNCHANGED <<host, made, turnOf, turns, view, review, settled, reverting, running, refused>>

Completed ==
  /\ ghost = "running"
  /\ ghost' = "idle"
  /\ UNCHANGED <<host, made, turnOf, turns, view, review, settled, reverting, running, refused>>

User == Submit \/ SubmitFails \/ Cancel \/ Reset \/ Accept \/ RevertStarts

Engine(t) ==
  \/ \E n \in Outcomes : CallTool(t, n)
  \/ SubagentStarts(t) \/ SubagentCompletes(t) \/ SubagentRejects(t)
  \/ Completes(t) \/ Rejects(t)

Next ==
  \/ User \/ RevertEnds \/ RevertDeclined
  \/ \E t \in Turns : Engine(t)
  \/ Debounce \/ Complete \/ Completed

Spec == Init /\ [][Next]_vars

-----------------------------------------------------------------------------
(* Properties.                                                             *)

(* The types of the surface.                                               *)
TypeOK ==
  /\ host \in Hosts \cup {0} /\ made \in Hosts \cup {0}
  /\ turnOf \in [Hosts -> Turns \cup {0}] /\ turns \in [Turns -> Turn] /\ view \in View
  /\ review \subseteq Calls /\ settled \subseteq Calls /\ reverting \subseteq Calls
  /\ {running, refused} \subseteq BOOLEAN /\ ghost \in {"idle", "debounce", "running"}

(* The tool calls turn t itself has reported.                              *)
Reported(t) == {Call(TurnId(t, "main"), k) : k \in 1 .. turns[t].calls["main"]}

(* The engine is in the same process and loses nothing: the view of a live  *)
(* turn shows every call it reported and no dropped event.                  *)
TranscriptIsHonest ==
  \A t \in Turns : Live(t) => Reported(t) \subseteq view.tools /\ view.dropped = 0

(* The view says that a turn runs only of one that does, or that rejected   *)
(* without having been completed.                                           *)
ShownAsRunning ==
  view.status = "running" => \E t \in Turns : OnScreen(t) /\ (Live(t) \/ turns[t].at = "rejected")

(* The context key says that a turn is in flight exactly while one is, and  *)
(* so does the view, except that it goes on saying so of a turn that        *)
(* rejected.                                                                *)
RunningIsKnown ==
  LET inFlight == \E t \in Turns : Live(t) IN
  running = inFlight /\ (inFlight => view.status = "running") /\ ShownAsRunning

(* The user can cancel the turn in flight, and is not offered a second one  *)
(* the engine refuses.                                                      *)
CancelReaches ==
  /\ ~refused
  /\ \A h \in Hosts : host = h /\ ActiveOn(h) # {} => turnOf[h] \in ActiveOn(h)

(* Every edit the turn on screen applied waits for review until the user    *)
(* accepted or reverted it.                                                 *)
EditsAwaitReview ==
  \A t \in Turns : OnScreen(t) => turns[t].edits \subseteq review \cup settled

(* Whatever subagents, settings and completions did meanwhile, once no turn *)
(* is in flight the surface is at rest: no host believes in a turn, the     *)
(* context key is off, and nothing is shown as running but a turn on screen *)
(* that rejected.                                                           *)
RestIsRest ==
  (\A t \in Turns : ~Live(t)) =>
    /\ ~running
    /\ view.status = "running" => \E t \in Turns : OnScreen(t) /\ turns[t].at = "rejected"
    /\ \A h \in Hosts : turnOf[h] = 0

-----------------------------------------------------------------------------
(* The inductive invariants, proved in MCSurfaces: of every editor, and of  *)
(* one without subagents, changed settings and reverts.                     *)

HostsKnowTheirTurns ==
  \A h \in Hosts : turnOf[h] # 0 => Live(turnOf[h]) /\ turns[turnOf[h]].host = h

KeyIsLive == running => \E t \in Turns : Live(t)

RestInv == TypeOK /\ HostsKnowTheirTurns /\ KeyIsLive /\ ShownAsRunning

(* The turn in flight is that of the host there is, which knows it; the     *)
(* view is of that turn and expects its next event.                         *)
ViewIsCurrent ==
  \A t \in Turns : Live(t) =>
    /\ turns[t].at = "main" /\ turns[t].host = host /\ host # 0 /\ turnOf[host] = t
    /\ running /\ view.status = "running"
    /\ view.turn = TurnId(t, "main") /\ view.expected = turns[t].seq["main"]

UnusedAreBlank ==
  \A t \in Unused : turns[t].edits = {} /\ turns[t].calls["main"] = 0

PlainInv ==
  /\ RestInv /\ ~refused /\ reverting = {} /\ view.dropped = 0
  /\ ViewIsCurrent /\ UnusedAreBlank /\ TranscriptIsHonest /\ EditsAwaitReview

-----------------------------------------------------------------------------
(* Promises of the documentation the code does not keep; see README.md.    *)

(* status.ts: "Adze is running on" the model, shown while the view says so, *)
(* and chat.js keeps the send button off for as long.                        *)
ShownRunningMeansRunning == view.status = "running" => \E t \in Turns : Live(t)

(* inline/provider.ts: "Never while a turn is running."                     *)
NeverWhileATurnRuns ==
  [][ghost = "debounce" /\ ghost' = "running" => \A t \in Turns : ~Live(t)]_vars

(* review.ts: a revert undoes "the recorded edits in one editor": what it   *)
(* forgets it has undone.                                                   *)
RevertUndoesWhatItForgets ==
  [][reverting # {} /\ reverting' = {} /\ review' = {} => review \subseteq settled']_vars

=============================================================================
