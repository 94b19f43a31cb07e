------------------------------ MODULE TurnMachine ------------------------------
(***************************************************************************)
(* The agent loop of @adze/core: one engine session, the turns submitted   *)
(* to it one after the other, and the subagent a `task' call may start     *)
(* inside a turn (packages/core/src/turn.ts, dispatch.ts, engine.ts).      *)
(*                                                                         *)
(* The engine is single threaded: code between two awaits is one atomic    *)
(* step.  Every await ends an action, and so does every call of the event  *)
(* sink, because the sink runs the embedder's code synchronously and that  *)
(* code may call turnCancel or sessionClose before it returns.  An action  *)
(* is therefore the code from one such point to the next.                  *)
(*                                                                         *)
(* runTurn is the same code for a turn and for a subagent, so its state is *)
(* a frame per level: "turn" for the turn the embedder submitted, "sub"    *)
(* for the subagent running inside one of its tool calls.                  *)
(***************************************************************************)
EXTENDS Messages, FiniteSets

CONSTANTS
  MaxTurns,     (* Bound: turns submitted in one behaviour.               *)
  MaxCalls,     (* Bound: tool calls in one assistant message.            *)
  TurnSteps,    (* budget.maxSteps of a turn.                             *)
  SubSteps,     (* budget.maxSteps of a subagent, by default 12.          *)
  TokenBudget,  (* budget.maxTokens of a turn; a subagent has none.       *)
  StepTokens,   (* What one response may add to usage; 0: no usage sent.  *)
  Faults        (* What may throw: "approval", "sink", "budget".           *)

Level == {"turn", "sub"}

(* budget.maxSteps of each level.                                          *)
StepBudget == [l \in Level |-> IF l = "turn" THEN TurnSteps ELSE SubSteps]

ASSUME BoundsAssumption == MaxTurns \in Nat \ {0} /\ MaxCalls \in Nat
ASSUME BudgetAssumption ==
  /\ StepBudget \in [Level -> Nat \ {0}]
  /\ TokenBudget \in Nat \ {0}
  /\ StepTokens \subseteq Nat
ASSUME FaultsAssumption == Faults \subseteq {"approval", "sink", "budget"}

VARIABLES
  fr,        (* fr[l]: the locals of runTurn, runStep and runToolCalls.   *)
  history,   (* history[l]: session.history of the session level l uses.  *)
  active,    (* session.activeTurn: the turn id, or 0 for undefined.      *)
  aborted,   (* controller.signal.aborted; a subagent shares the signal.  *)
  open,      (* The session is in engine.runtimes.                        *)
  submitted, (* Turns submitted so far; the last one's id.                *)
  usage,     (* session.usage, in tokens.                                 *)
  turns,     (* session.turns.                                            *)
  result,    (* result[t]: how turn t's promise settled.                  *)
  lateRuns,  (* History variable: tool bodies entered after the abort.    *)
  saidAbort  (* History variable: an approval of this turn said "abort".  *)

vars == <<fr, history, active, aborted, open, submitted, usage, turns,
          result, lateRuns, saidAbort>>
observed == <<lateRuns, saidAbort>>
session == <<active, open, submitted, result>>
totals  == <<usage, turns>>

TurnIds == 1 .. MaxTurns

StopReasons ==
  {"end-turn", "max-steps", "budget-exhausted", "cancelled", "refused", "error"}

(* Where runTurn is suspended.  "answered", "emitted" and "completed" are  *)
(* the sink calls after a model response, after a tool call and at the end. *)
Points ==
  {"idle", "turnStart", "stream", "answered", "pre", "approval", "exec", "task",
   "dispatched", "emitted", "turnEnd", "completed"}

(* The points of runToolCalls: the assistant message waits for its answers. *)
ToolPoints == {"pre", "approval", "exec", "task", "dispatched", "emitted"}

(* What dispatchToolCall returned: a denial, or `executed' with a result    *)
(* the tool produced ("ran") or with an error no tool produced ("unran").   *)
Outcomes == {"none", "ran", "unran", "denied", "abort"}

Frame ==
  [pc: Points, steps: Nat, tokens: Nat, calls: Nat, at: Nat, outcome: Outcomes,
   abort: BOOLEAN, finish: {"stop", "error"}, stop: StopReasons,
   ran: SUBSET Nat, started: SUBSET Nat, denied: SUBSET Nat]

IdleFrame ==
  [pc |-> "idle", steps |-> 0, tokens |-> 0, calls |-> 0, at |-> 0,
   outcome |-> "none", abort |-> FALSE, finish |-> "stop",
   stop |-> "end-turn", ran |-> {}, started |-> {}, denied |-> {}]

Init ==
  /\ fr = [l \in Level |-> IdleFrame]
  /\ history = [l \in Level |-> <<>>]
  /\ active = 0 /\ aborted = FALSE /\ open = TRUE /\ submitted = 0
  /\ usage = 0 /\ turns = 0
  /\ result = [t \in TurnIds |-> "none"]
  /\ lateRuns = 0 /\ saidAbort = FALSE

-----------------------------------------------------------------------------
(* The embedder.                                                           *)

(* turnSubmit, down to the sink call for turn.started inside runTurn.      *)
TurnSubmit ==
  /\ open
  /\ active = 0
  /\ submitted < MaxTurns
  /\ submitted' = submitted + 1
  /\ active' = submitted + 1
  /\ aborted' = FALSE
  /\ fr' = [fr EXCEPT !["turn"] = [IdleFrame EXCEPT !.pc = "turnStart"]]
  /\ lateRuns' = 0 /\ saidAbort' = FALSE
  /\ UNCHANGED <<history, open, result, totals>>

(* turnCancel for turn t when it answers cancelled: true.                   *)
TurnCancel(t) ==
  /\ open
  /\ active = t
  /\ aborted' = TRUE
  /\ UNCHANGED <<fr, history, session, totals, observed>>

(* Slip of SessionClose: closing the session forgets the turn that is still running. *)
SessionCloseForgets ==
  /\ open
  /\ open' = FALSE
  /\ active' = 0
  /\ aborted' = (aborted \/ active # 0)
  /\ UNCHANGED <<fr, history, submitted, result, totals, observed>>

(* sessionClose aborts the turn in flight but does not wait for it.         *)
SessionClose ==
  /\ open
  /\ open' = FALSE
  /\ aborted' = (aborted \/ active # 0)
  /\ UNCHANGED <<fr, history, active, submitted, result, totals, observed>>

-----------------------------------------------------------------------------
(* The loop.                                                               *)

(* Slip of Exhausted: the ceilings are inclusive. *)
ExhaustedPast(l, f) ==
  IF f.steps > StepBudget[l] THEN "max-steps"
  ELSE IF l = "turn" /\ f.tokens > TokenBudget THEN "budget-exhausted"
  ELSE "none"

(* The ceilings a level checks, in BudgetTracker.check's order.            *)
Exhausted(l, f) ==
  IF f.steps >= StepBudget[l] THEN "max-steps"
  ELSE IF l = "turn" /\ f.tokens >= TokenBudget THEN "budget-exhausted"
  ELSE "none"

(* Slip of Preflight: the budget is checked and the signal is not. *)
PreflightUncancelled(l, f) == Exhausted(l, f)

(* preflight: why no further model request is made, or "none".             *)
Preflight(l, f) == IF aborted THEN "cancelled" ELSE Exhausted(l, f)

(* loop returned: the session is charged and the turnEnd hooks are fired.   *)
(* A subagent charges the session made for it, which nothing reads again.   *)
Stop(l, f, reason) ==
  /\ fr' = [fr EXCEPT ![l] = [f EXCEPT !.pc = "turnEnd", !.stop = reason]]
  /\ IF l = "turn" THEN usage' = usage + f.tokens /\ turns' = turns + 1
                   ELSE UNCHANGED totals

(* One iteration of loop: stop, or hand the request to the provider.        *)
BeginStep(l, f) ==
  LET reason == Preflight(l, f) IN
  IF reason = "none"
    THEN /\ fr' = [fr EXCEPT ![l] = [f EXCEPT !.pc = "stream"]]
         /\ UNCHANGED totals
    ELSE Stop(l, f, reason)

(* The turnStart hooks answered; injected context is one more message.      *)
TurnStartHooks(l) ==
  /\ fr[l].pc = "turnStart"
  /\ \E injected \in {<<>>, <<User>>} :
       history' = [history EXCEPT ![l] = @ \o injected \o <<User>>]
  /\ BeginStep(l, fr[l])
  /\ UNCHANGED <<session, aborted, observed>>

(* Slip of StreamThrows: the provider's own finish reason becomes the turn's. *)
StreamThrowsUnmapped(l) ==
  /\ fr[l].pc = "stream"
  /\ Stop(l, fr[l], "length")
  /\ UNCHANGED <<session, history, aborted, observed>>

(* provider.stream threw: the turn stops and nothing is appended.           *)
StreamThrows(l) ==
  /\ fr[l].pc = "stream"
  /\ Stop(l, fr[l], "error")
  /\ UNCHANGED <<session, history, aborted, observed>>

(* The stream ended with n calls; usage.updated is emitted.                 *)
StreamEnds(l) ==
  /\ fr[l].pc = "stream"
  /\ \E n \in 0 .. MaxCalls, tokens \in StepTokens, finish \in {"stop", "error"} :
       fr' = [fr EXCEPT ![l].pc = "answered", ![l].steps = @ + 1,
                        ![l].tokens = @ + tokens, ![l].calls = n,
                        ![l].finish = finish]
  /\ UNCHANGED <<session, history, aborted, totals, observed>>

(* Dispatching call k starts from the registry lookup: an unknown tool is   *)
(* an `executed' outcome at once, a known one waits on its tool.pre hooks.  *)
Dispatch(l, f, k) ==
  \E known \in BOOLEAN :
    fr' = [fr EXCEPT ![l] =
      [f EXCEPT !.at = k, !.pc = IF known THEN "pre" ELSE "dispatched",
                !.outcome = IF known THEN "none" ELSE "unran"]]

(* Slip of AfterResponse: the assistant message is appended before the signal is looked at. *)
AfterResponseEager(l) ==
  LET f == fr[l] IN
  /\ f.pc = "answered"
  /\ history' = [history EXCEPT ![l] = Append(@, Asks(f.calls))]
  /\ IF aborted
       THEN Stop(l, f, "cancelled")
       ELSE IF f.calls = 0
              THEN Stop(l, f, IF f.finish = "error" THEN "error" ELSE "end-turn")
              ELSE Dispatch(l, f, 1) /\ UNCHANGED totals
  /\ UNCHANGED <<session, aborted, observed>>

(* The rest of runStep once usage.updated was delivered.                    *)
AfterResponse(l) ==
  LET f == fr[l] IN
  /\ f.pc = "answered"
  /\ IF aborted
       THEN Stop(l, f, "cancelled") /\ UNCHANGED history
       ELSE /\ history' = [history EXCEPT ![l] = Append(@, Asks(f.calls))]
            /\ IF f.calls = 0
                 THEN Stop(l, f, IF f.finish = "error" THEN "error" ELSE "end-turn")
                 ELSE Dispatch(l, f, 1) /\ UNCHANGED totals
  /\ UNCHANGED <<session, aborted, observed>>

-----------------------------------------------------------------------------
(* dispatchToolCall.                                                       *)

(* The call's dispatch returned this outcome; its events are emitted next. *)
Dispatched(l, outcome) ==
  fr' = [fr EXCEPT ![l].pc = "dispatched", ![l].outcome = outcome]

(* The grant is minted and the tool's execute is entered.  The signal is    *)
(* not looked at again.  A `task' body, offered to turns only, runs a       *)
(* subagent with a fresh history while the session is still known.          *)
EnterTool(l) ==
  /\ lateRuns' = lateRuns + (IF aborted THEN 1 ELSE 0)
  /\ \/ /\ fr' = [fr EXCEPT ![l].pc = "exec", ![l].ran = @ \cup {fr[l].at}]
        /\ UNCHANGED history
     \/ /\ l = "turn" /\ open
        /\ fr' = [fr EXCEPT !["turn"].pc = "task", !["turn"].ran = @ \cup {fr[l].at},
                            !["sub"] = [IdleFrame EXCEPT !.pc = "turnStart"]]
        /\ history' = [history EXCEPT !["sub"] = <<>>]

(* The tool.pre hooks answered.  A denial ends the call, bad (rewritten)    *)
(* arguments are an `executed' error, and the gate allows, denies or asks.  *)
PreHooks(l) ==
  /\ fr[l].pc = "pre"
  /\ \/ /\ \E outcome \in {"denied", "unran"} : Dispatched(l, outcome)
        /\ UNCHANGED <<history, lateRuns>>
     \/ /\ fr' = [fr EXCEPT ![l].pc = "approval"]
        /\ UNCHANGED <<history, lateRuns>>
     \/ EnterTool(l)
  /\ UNCHANGED <<session, aborted, totals, saidAbort>>

(* The person answered the approval request.                                *)
ApprovalAnswered(l) ==
  /\ fr[l].pc = "approval"
  /\ \/ EnterTool(l) /\ UNCHANGED saidAbort
     \/ /\ \E outcome \in {"denied", "abort"} :
             /\ Dispatched(l, outcome)
             /\ saidAbort' = (saidAbort \/ outcome = "abort")
        /\ UNCHANGED <<history, lateRuns>>
  /\ UNCHANGED <<session, aborted, totals>>

(* Slip of ToolReturns: a tool.post hook may still deny the call. *)
ToolReturnsDenied(l) ==
  /\ fr[l].pc = "exec"
  /\ \E outcome \in {"ran", "denied"} : Dispatched(l, outcome)
  /\ UNCHANGED <<session, history, aborted, totals, observed>>

(* The tool returned or threw, and the tool.post hooks answered.            *)
ToolReturns(l) ==
  /\ fr[l].pc = "exec"
  /\ Dispatched(l, "ran")
  /\ UNCHANGED <<session, history, aborted, totals, observed>>

-----------------------------------------------------------------------------
(* runToolCalls.                                                           *)

(* The events of one call: tool.denied, or tool.started with tool.finished. *)
EmitOutcome(l) ==
  LET f == fr[l] IN
  /\ f.pc = "dispatched"
  /\ fr' = [fr EXCEPT ![l] =
       IF f.outcome \in {"denied", "abort"}
         THEN [f EXCEPT !.pc = "emitted", !.denied = @ \cup {f.at},
                        !.abort = f.outcome = "abort"]
         ELSE [f EXCEPT !.pc = "emitted", !.started = @ \cup {f.at}]]
  /\ UNCHANGED <<session, history, aborted, totals, observed>>

(* Slip of Skipping: the signal is looked at between steps only, not between tool calls. *)
SkippingOnAbortOnly(f) == f.abort

(* Calls the loop will not dispatch: it is aborting or was cancelled.       *)
Skipping(f) == f.abort \/ aborted

(* runToolCalls returned: all its locals are gone but the abort it reports. *)
AfterTools(f) ==
  [f EXCEPT !.at = 0, !.outcome = "none", !.ran = {}, !.started = {}, !.denied = {}]

NextCall(l) ==
  LET f == fr[l] IN
  /\ f.pc = "emitted"
  /\ f.at < f.calls
  /\ ~Skipping(f)
  /\ Dispatch(l, f, f.at + 1)
  /\ UNCHANGED <<session, history, aborted, totals, observed>>

(* Slip of CloseStep: skipped calls get no synthetic result. *)
CloseStepRagged(l) ==
  LET f == fr[l] IN
  /\ f.pc = "emitted"
  /\ f.at = f.calls \/ Skipping(f)
  /\ history' = [history EXCEPT ![l] = @ \o Answers(f.at)]
  /\ IF f.abort THEN Stop(l, AfterTools(f), "refused") ELSE BeginStep(l, AfterTools(f))
  /\ UNCHANGED <<session, aborted, observed>>

(* Slip of CloseStep: an abort ends the tool phase but not the turn. *)
CloseStepGoesOn(l) ==
  LET f == fr[l] IN
  /\ f.pc = "emitted"
  /\ f.at = f.calls \/ Skipping(f)
  /\ history' = [history EXCEPT ![l] = @ \o Answers(f.calls)]
  /\ BeginStep(l, AfterTools(f))
  /\ UNCHANGED <<session, aborted, observed>>

(* Slip of CloseStep: the step is closed only by its last call, skipped ones or not. *)
CloseStepWaits(l) ==
  LET f == fr[l] IN
  /\ f.pc = "emitted"
  /\ f.at = f.calls
  /\ history' = [history EXCEPT ![l] = @ \o Answers(f.calls)]
  /\ IF f.abort THEN Stop(l, AfterTools(f), "refused") ELSE BeginStep(l, AfterTools(f))
  /\ UNCHANGED <<session, aborted, observed>>

(* Calls not dispatched get synthetic results, all answers are appended     *)
(* together, and the step ends: refused, cancelled, or another iteration.   *)
CloseStep(l) ==
  LET f == fr[l] IN
  /\ f.pc = "emitted"
  /\ f.at = f.calls \/ Skipping(f)
  /\ history' = [history EXCEPT ![l] = @ \o Answers(f.calls)]
  /\ IF f.abort THEN Stop(l, AfterTools(f), "refused") ELSE BeginStep(l, AfterTools(f))
  /\ UNCHANGED <<session, aborted, observed>>

-----------------------------------------------------------------------------
(* The end of runTurn.                                                     *)

(* The turnEnd hooks answered; turn.completed is emitted.                   *)
TurnEndHooks(l) ==
  /\ fr[l].pc = "turnEnd"
  /\ fr' = [fr EXCEPT ![l].pc = "completed"]
  /\ UNCHANGED <<session, history, aborted, totals, observed>>

(* runTurn is over: turnSubmit's finally clears activeTurn and the promise  *)
(* settles; for a subagent the parent's task body has its result, an error  *)
(* result when the subagent threw.                                          *)
Leave(l, how) ==
  IF l = "turn"
    THEN /\ fr' = [fr EXCEPT !["turn"] = IdleFrame]
         /\ active' = 0
         /\ result' = [result EXCEPT ![active] = how]
         /\ UNCHANGED <<open, submitted, history>>
    ELSE /\ fr' = [fr EXCEPT !["sub"] = IdleFrame, !["turn"].pc = "dispatched",
                             !["turn"].outcome = "ran"]
         /\ history' = [history EXCEPT !["sub"] = <<>>]
         /\ UNCHANGED session

RunTurnReturns(l) ==
  /\ fr[l].pc = "completed"
  /\ Leave(l, fr[l].stop)
  /\ UNCHANGED <<aborted, totals, observed>>

(* The sink threw where no handler of the loop catches it.                  *)
SinkThrows(l) ==
  /\ "sink" \in Faults
  /\ fr[l].pc \in {"turnStart", "answered", "emitted", "completed"}
  /\ Leave(l, "threw")
  /\ UNCHANGED <<aborted, totals, observed>>

(* The turn asked for a spend ceiling the provider has no prices for.       *)
BudgetRefused ==
  /\ "budget" \in Faults
  /\ fr["turn"].pc = "turnStart"
  /\ Leave("turn", "threw")
  /\ UNCHANGED <<aborted, totals, observed>>

(* The embedder's approval channel rejected instead of answering.           *)
ApprovalRejects(l) ==
  /\ "approval" \in Faults
  /\ fr[l].pc = "approval"
  /\ Leave(l, "threw")
  /\ UNCHANGED <<aborted, totals, observed>>

-----------------------------------------------------------------------------
Embedder ==
  \/ TurnSubmit
  \/ \E t \in TurnIds : TurnCancel(t)
  \/ SessionClose

(* What the engine, its hooks, the provider and the tools do by themselves. *)
Engine(l) ==
  \/ TurnStartHooks(l)
  \/ StreamThrows(l)
  \/ StreamEnds(l)
  \/ AfterResponse(l)
  \/ PreHooks(l)
  \/ ToolReturns(l)
  \/ EmitOutcome(l)
  \/ NextCall(l)
  \/ CloseStep(l)
  \/ TurnEndHooks(l)
  \/ RunTurnReturns(l)

(* What may go wrong, and need not.                                        *)
Fault(l) ==
  \/ SinkThrows(l)
  \/ ApprovalRejects(l)
  \/ l = "turn" /\ BudgetRefused

Next == Embedder \/ \E l \in Level : Engine(l) \/ ApprovalAnswered(l) \/ Fault(l)

Spec == Init /\ [][Next]_vars

(* Hooks are bounded by withTimeout, tools by limits.timeoutMs and model    *)
(* streams are assumed to end; nothing makes a person answer an approval.   *)
FairSpec == Spec /\ \A l \in Level : WF_vars(Engine(l))

-----------------------------------------------------------------------------
(* Properties.                                                             *)

FramesOK  == fr \in [Level -> Frame]
HistoryOK == history \in [Level -> Seq(Message)]
TurnsOK   == active \in 0 .. MaxTurns /\ submitted \in 0 .. MaxTurns
FlagsOK   == aborted \in BOOLEAN /\ open \in BOOLEAN /\ saidAbort \in BOOLEAN
CountsOK  == usage \in Nat /\ turns \in Nat /\ lateRuns \in Nat
ResultOK  == result \in [TurnIds -> StopReasons \cup {"none", "threw"}]

(* The types of the session's and the loop's state.                        *)
TypeOK == FramesOK /\ HistoryOK /\ TurnsOK /\ FlagsOK /\ CountsOK /\ ResultOK

(* The turns that threw out of runTurn instead of returning a reason.       *)
Thrown == {t \in TurnIds : result[t] = "threw"}

(* Every request a provider sees, and every history a turn leaves behind,  *)
(* answers each tool call in order, whatever was denied, skipped, aborted  *)
(* or cancelled on the way.  A turn whose sink or approval callback threw   *)
(* may leave its last step unanswered, and no more than that: the steps    *)
(* left unanswered are at most the turns that threw, no such step has some  *)
(* answers and not the others, and what later turns add is answered.        *)
ReplayableHistory ==
  /\ fr["sub"].pc = "stream" => HistoryIsLinear(history["sub"])
  /\ fr["turn"].pc \in {"idle", "stream"} =>
       LET h == history["turn"] IN
       /\ Cardinality(Unanswered(h)) <= Cardinality(Thrown)
       /\ \A p \in Unanswered(h) : p = Len(h) \/ h[p + 1].role # "tool"

(* The stop reason a turn reports is the true one: cancelled only after a  *)
(* cancel, refused exactly when an approval of this loop said abort, a     *)
(* budget only when its ceiling was reached, and end-turn only when the    *)
(* model's last message asked for nothing.                                 *)
StopReasonIsTrue ==
  \A l \in Level : LET f == fr[l] IN f.pc \in {"turnEnd", "completed"} =>
    /\ f.stop = "cancelled" => aborted
    /\ f.stop = "refused" <=> f.abort
    /\ f.stop = "max-steps" => f.steps = StepBudget[l]
    /\ f.stop = "budget-exhausted" => l = "turn" /\ f.tokens >= TokenBudget
    /\ f.stop = "end-turn" => f.calls = 0 /\ f.finish = "stop"

(* A denied call never ran, and is never reported as a started one.        *)
DeniedNeverRan ==
  \A l \in Level : fr[l].denied \cap (fr[l].ran \cup fr[l].started) = {}

(* Both ceilings are exclusive: no model request starts at or past one.    *)
RequestWithinBudget ==
  \A l \in Level : fr[l].pc = "stream" =>
    /\ fr[l].steps < StepBudget[l]
    /\ l = "turn" => fr[l].tokens < TokenBudget

(* A cancelled turn enters at most one more tool body, a subagent's calls  *)
(* included: the one whose dispatch was already waiting.                   *)
OneLateRunAtMost == lateRuns <= 1

(* Once the signal is aborted nothing asks the model again, at any level.  *)
NoRequestAfterCancel ==
  [][\A l \in Level : fr'[l].pc = "stream" /\ fr[l].pc # "stream" => ~aborted]_vars

(* A subagent runs only inside the task call of the turn that is active.   *)
SubagentInsideTurn ==
  (fr["sub"].pc # "idle" <=> fr["turn"].pc = "task")
  /\ (fr["turn"].pc # "idle" <=> active # 0)

(* A submitted turn settles, or it waits on an approval for ever.          *)
TurnsSettle ==
  \A t \in TurnIds :
    active = t ~> \/ result[t] # "none"
                  \/ [](\E l \in Level : fr[l].pc = "approval")

-----------------------------------------------------------------------------
(* What a session promises about its history, as Conversation states it.    *)

(* The conversation with the answers of a tool phase in progress filled in: *)
(* once the assistant message is appended they are bound to follow it.      *)
Answered ==
  IF fr["turn"].pc \in ToolPoints
    THEN history["turn"] \o Answers(fr["turn"].calls)
    ELSE history["turn"]

Phase ==
  CASE fr["turn"].pc = "idle"      -> "idle"
    [] fr["turn"].pc = "turnStart" -> "begun"
    [] OTHER                       -> "prompted"

Promise == INSTANCE Conversation
             WITH log <- Answered, phase <- Phase, current <- active, cancelled <- aborted

(* While no callback throws, the loop is a conversation: every turn appends *)
(* its prompt once, then whole exchanges, none of them after a cancel, or   *)
(* it is refused before it appended anything.                               *)
KeepsPromise == Promise!Spec

-----------------------------------------------------------------------------
(* Promises of the documentation the code does not keep; see README.md.    *)

(* types.ts of @adze/sdk: the next turn after any turn is still valid.     *)
NextTurnIsValid ==
  fr["turn"].pc \in {"idle", "stream"} => HistoryIsLinear(history["turn"])

(* events.ts of @adze/core: tool.started means the tool actually ran.      *)
StartedMeansRan == \A l \in Level : fr[l].started \subseteq fr[l].ran

(* docs/guides/embedding.md: answering abort ends the turn as refused.     *)
AbortEndsTheTurn ==
  fr["turn"].pc = "completed" /\ saidAbort => fr["turn"].stop = "refused"

(* messages.ts of @adze/protocol: cancelled is false for a finished turn.   *)
CancelFalseOnceFinished ==
  [][\A t \in TurnIds : TurnCancel(t) => fr["turn"].pc # "completed"]_vars

=============================================================================
