------------------------------ MODULE TurnBudget ------------------------------
(***************************************************************************)
(* One turn against its budget (packages/core/src/budget.ts, the parts of  *)
(* turn.ts and engine.ts that consult it, and the usage the provider       *)
(* gateway reports, packages/providers/src/gateway.ts and usage.ts).       *)
(*                                                                         *)
(* Two accounts of the same turn are kept: what the provider bills for     *)
(* every request made on the turn's behalf, and what the BudgetTracker was *)
(* told.  Time passes only while a response, a tool or a person is waited  *)
(* for: a tool is cut at its deadline, the others have none.  Hooks answer *)
(* at once here (module HookBus bounds their time).                        *)
(***************************************************************************)
EXTENDS Integers

CONSTANTS
  Budget,      (* TurnBudget of the turn; Unlimited where it says nothing.    *)
  SubSteps,    (* maxSteps of a subagent, its whole budget.                   *)
  ToolTimeout, (* ToolLimits.timeoutMs of the engine.                         *)
  SearchTimeout, (* DEFAULT_TIMEOUT_MS of the retrieval tools.                *)
  Prices,      (* The price sheet per kind of token, or Unpriced.             *)
  Unpriced,
  Responses,   (* What one response may be billed: [fresh, cached] tokens.    *)
  Faults,      (* "silent": no usage is reported; "midway": streams may fail  *)
               (* after a part of them was forwarded.                         *)
  Tools,       (* What calls may do: "quick" ones take no time, "command" is  *)
               (* cut at the step's limit, "asked" is one a person must allow *)
               (* first, "search" has a limit of its own, "task" delegates.   *)
  Latency,     (* The least time a response takes.                            *)
  MaxCalls,    (* Bound: calls in one response.                               *)
  Horizon      (* Bound: the last moment of the clock.                        *)

Unlimited == -1
Limit == Nat \cup {Unlimited}
Usage == [fresh: Nat, cached: Nat]
Level == {"turn", "sub"}

BudgetAssumption ==
  Budget \in [steps: Limit \ {0}, tokens: Limit \ {0}, wall: Limit \ {0}, spend: Limit]
SizesAssumption ==
  /\ SubSteps \in Nat \ {0} /\ ToolTimeout \in Nat /\ SearchTimeout \in Nat
  /\ MaxCalls \in Nat /\ Horizon \in Nat
  /\ Responses \subseteq Usage /\ Responses # {}
  /\ Prices \in Usage \cup {Unpriced}
  /\ Faults \subseteq {"silent", "midway"}
  /\ Tools \subseteq {"quick", "command", "asked", "search", "task"}
  /\ Latency \in Nat

VARIABLES
  fr,       (* fr[l]: the tracker and the locals of level l's runTurn.        *)
  clock,    (* Date.now().                                                    *)
  aborted,  (* The turn's signal, which a subagent shares.                    *)
  billed,   (* What the provider bills for the turn, subagents included.      *)
  stop      (* How the turn ended, or "none".                                 *)

vars == <<fr, clock, aborted, billed, stop>>

(* tracker: steps, used, startedAt.  calls: tool calls not yet dispatched.     *)
(* limit: the timeout toolLimitsFor gave this step; toolsAt: when it did.      *)
(* sentAt: when the request was made; deadline: when the running tool is cut.  *)
Points == {"idle", "check", "stream", "calls", "approval", "tool", "task"}
Frame == [pc: Points, steps: Nat, used: Usage, startedAt: Nat, calls: Nat,
          sentAt: Nat, limit: Nat, toolsAt: Nat, deadline: Limit]

Zero == [fresh |-> 0, cached |-> 0]
NewFrame(pc, now) ==
  [pc |-> pc, steps |-> 0, used |-> Zero, startedAt |-> now, calls |-> 0,
   sentAt |-> now, limit |-> 0, toolsAt |-> now, deadline |-> Unlimited]

StopReasons == {"none", "rejected", "end-turn", "max-steps", "budget-exhausted",
                "cancelled", "error"}

-----------------------------------------------------------------------------
(* The accounts.                                                           *)

TotalTokens(u) == u.fresh + u.cached

Cost(u) == u.fresh * Prices.fresh + u.cached * Prices.cached

AddUsage(a, b) == [fresh |-> a.fresh + b.fresh, cached |-> a.cached + b.cached]

(* toProtocolUsage: a response without a usage record counts as nothing.   *)
Reported(r) == IF "silent" \in Faults THEN Zero ELSE r

MinOf(a, b) == IF a <= b THEN a ELSE b
MaxOf(a, b) == IF a >= b THEN a ELSE b

-----------------------------------------------------------------------------
(* BudgetTracker.                                                          *)

(* The ceilings of a level: a subagent is given a number of steps only.    *)
Ceiling(l) ==
  IF l = "turn" THEN Budget
  ELSE [steps |-> SubSteps, tokens |-> Unlimited, wall |-> Unlimited,
        spend |-> Unlimited]

Reached(limit, observed) == limit # Unlimited /\ observed >= limit

Elapsed(l) == clock - fr[l].startedAt

OverTokens(l) == Reached(Ceiling(l).tokens, TotalTokens(fr[l].used))
OverSpend(l)  == Ceiling(l).spend # Unlimited /\ Cost(fr[l].used) >= Ceiling(l).spend

OverClock(l)  == Reached(Ceiling(l).wall, Elapsed(l))

(* BudgetTracker.check: the stop reason of the first ceiling reached.      *)
Check(l) ==
  IF Reached(Ceiling(l).steps, fr[l].steps) THEN "max-steps"
  ELSE IF OverTokens(l) \/ OverClock(l) \/ OverSpend(l) THEN "budget-exhausted"
  ELSE "none"

(* Slip of ToolLimit: a call is bounded by its own timeout only.          *)
ToolLimitUnclamped(l) == ToolTimeout

(* toolLimitsFor: the tighter of the tool's timeout and the time left.     *)
ToolLimit(l) ==
  IF Ceiling(l).wall = Unlimited THEN ToolTimeout
  ELSE MinOf(ToolTimeout, MaxOf(0, Ceiling(l).wall - Elapsed(l)))

-----------------------------------------------------------------------------
Init ==
  /\ fr = [l \in Level |-> NewFrame("idle", 0)]
  /\ clock = 0 /\ aborted = FALSE /\ billed = Zero /\ stop = "none"

(* A spend ceiling without prices is refused; any other turn begins.        *)
Submit ==
  /\ fr["turn"].pc = "idle" /\ stop = "none"
  /\ IF Budget.spend # Unlimited /\ Prices = Unpriced
       THEN stop' = "rejected" /\ UNCHANGED fr
       ELSE fr' = [fr EXCEPT !["turn"] = NewFrame("check", clock)] /\ UNCHANGED stop
  /\ UNCHANGED <<clock, aborted, billed>>

(* The embedder cancels the turn.                                           *)
Cancel ==
  /\ fr["turn"].pc # "idle"
  /\ aborted' = TRUE
  /\ UNCHANGED <<fr, clock, billed, stop>>

(* Time passes while a level waits: for a response, a person or a tool that *)
(* is not due yet.                                                          *)
Tick ==
  /\ clock < Horizon
  /\ \E l \in Level :
       \/ fr[l].pc \in {"stream", "approval"}
       \/ fr[l].pc = "tool" /\ clock < fr[l].deadline
  /\ clock' = clock + 1
  /\ UNCHANGED <<fr, aborted, billed, stop>>

(* Level l's runTurn returned with its locals f.  A subagent's usage stays  *)
(* with the session made for it; the call that started it is answered.      *)
End(l, f, reason) ==
  IF l = "turn"
    THEN stop' = reason /\ fr' = [fr EXCEPT !["turn"] = [f EXCEPT !.pc = "idle"]]
    ELSE /\ fr' = [fr EXCEPT !["sub"] = [f EXCEPT !.pc = "idle"], !["turn"] = [@ EXCEPT !.pc = "calls"]]
         /\ UNCHANGED stop

(* preflight, and the request when nothing speaks against it.               *)
Preflight(l) ==
  LET reason == IF aborted THEN "cancelled" ELSE Check(l) IN
  /\ fr[l].pc = "check"
  /\ IF reason = "none"
       THEN fr' = [fr EXCEPT ![l] = [@ EXCEPT !.pc = "stream", !.sentAt = clock]] /\ UNCHANGED stop
       ELSE End(l, fr[l], reason)
  /\ UNCHANGED <<clock, aborted, billed>>

(* The provider bills what it produced; AddUsage is the tracker's sum.      *)
Bill(r) ==
  billed' = [fresh |-> billed.fresh + r.fresh, cached |-> billed.cached + r.cached]

(* The request failed before anything was forwarded: the turn stops.        *)
StreamThrows(l) ==
  /\ fr[l].pc = "stream"
  /\ \E r \in Responses \cup {Zero} : Bill(r)
  /\ End(l, fr[l], "error")
  /\ UNCHANGED <<clock, aborted>>

(* The signal stopped the stream: it ends without a usage record.           *)
StreamAborts(l) ==
  /\ fr[l].pc = "stream" /\ aborted
  /\ \E r \in Responses \cup {Zero} : Bill(r)
  /\ End(l, [fr[l] EXCEPT !.steps = @ + 1], "cancelled")
  /\ UNCHANGED <<clock, aborted>>

(* The response f.used already counts is looked at: the tool phase begins   *)
(* under the limit of this moment, or runTurn is over.                      *)
Answered(l, f, n, failed) ==
  IF aborted THEN End(l, f, "cancelled")
  ELSE IF n = 0 THEN End(l, f, IF failed THEN "error" ELSE "end-turn")
  ELSE /\ fr' = [fr EXCEPT ![l] = [f EXCEPT !.pc = "calls", !.calls = n,
                                          !.limit = ToolLimit(l), !.toolsAt = clock]]
       /\ UNCHANGED stop

Took(l) == clock >= MinOf(fr[l].sentAt + Latency, Horizon)

(* The response ended and was recorded as reported.                         *)
StreamEnds(l) ==
  /\ fr[l].pc = "stream" /\ Took(l)
  /\ \E r \in Responses, n \in 0 .. MaxCalls :
       /\ Bill(r)
       /\ Answered(l, [fr[l] EXCEPT !.steps = @ + 1, !.used = AddUsage(@, Reported(r))],
                   n, FALSE)
  /\ UNCHANGED <<clock, aborted>>

(* The stream failed after a part of it was forwarded: the gateway yields a *)
(* finish of zero usage, and the calls that came through are run.           *)
StreamBreaks(l) ==
  /\ fr[l].pc = "stream" /\ Took(l) /\ "midway" \in Faults
  /\ \E r \in Responses, n \in 0 .. MaxCalls :
       /\ Bill(r)
       /\ Answered(l, [fr[l] EXCEPT !.steps = @ + 1, !.used = AddUsage(@, Zero)], n, TRUE)
  /\ UNCHANGED <<clock, aborted>>

-----------------------------------------------------------------------------
(* The tool phase.                                                         *)

(* A tool body is entered that is cut when `limit' has passed.               *)
Enter(f, limit) == [f EXCEPT !.pc = "tool", !.deadline = clock + limit]

(* The next call is dispatched.  Every call of a step has the same limit,   *)
(* a subagent only a limit on its steps, and a subagent starts none.         *)
Dispatch(l) ==
  LET f == [fr[l] EXCEPT !.calls = @ - 1] IN
  /\ fr[l].pc = "calls" /\ fr[l].calls > 0 /\ ~aborted
  /\ \/ "quick" \in Tools /\ fr' = [fr EXCEPT ![l] = f]
     \/ "command" \in Tools /\ fr' = [fr EXCEPT ![l] = Enter(f, f.limit)]
     \/ "asked" \in Tools /\ fr' = [fr EXCEPT ![l] = [f EXCEPT !.pc = "approval"]]
     \/ "search" \in Tools /\ fr' = [fr EXCEPT ![l] = Enter(f, SearchTimeout)]
     \/ /\ "task" \in Tools /\ l = "turn"
        /\ fr' = [fr EXCEPT !["turn"] = [f EXCEPT !.pc = "task"],
                            !["sub"] = NewFrame("check", clock)]
  /\ UNCHANGED <<clock, aborted, billed, stop>>

(* The person asked about a command answered.                               *)
Answer(l) ==
  /\ fr[l].pc = "approval"
  /\ \E g \in {Enter(fr[l], fr[l].limit), [fr[l] EXCEPT !.pc = "calls"]} :
       fr' = [fr EXCEPT ![l] = g]
  /\ UNCHANGED <<clock, aborted, billed, stop>>

(* The tool returned, at the latest when its timeout cut it.                *)
ToolReturns(l) ==
  /\ fr[l].pc = "tool"
  /\ fr' = [fr EXCEPT ![l] = [@ EXCEPT !.pc = "calls", !.deadline = Unlimited]]
  /\ UNCHANGED <<clock, aborted, billed, stop>>

(* All calls are answered, with made-up results after a cancel.             *)
StepCloses(l) ==
  /\ fr[l].pc = "calls" /\ (fr[l].calls = 0 \/ aborted)
  /\ IF aborted THEN End(l, [fr[l] EXCEPT !.calls = 0], "cancelled")
                ELSE fr' = [fr EXCEPT ![l] = [@ EXCEPT !.pc = "check"]] /\ UNCHANGED stop
  /\ UNCHANGED <<clock, aborted, billed>>

Done == stop # "none" /\ UNCHANGED vars

Run(l) == \/ Preflight(l) \/ StreamThrows(l) \/ StreamAborts(l) \/ StreamEnds(l)
          \/ StreamBreaks(l) \/ Dispatch(l) \/ ToolReturns(l) \/ StepCloses(l)

Next == Submit \/ Cancel \/ Tick \/ (\E l \in Level : Run(l) \/ Answer(l)) \/ Done

Spec == Init /\ [][Next]_vars

(* Time goes on; the engine does not stop between two awaits, a provider    *)
(* ends its stream, and a tool returns at its deadline at the latest.        *)
FairSpec == /\ Spec
            /\ WF_vars(Submit) /\ WF_vars(Tick)
            /\ \A l \in Level : WF_vars(Run(l))

-----------------------------------------------------------------------------
(* Properties.                                                             *)

(* A type invariant.                                                       *)
TypeOK ==
  /\ fr \in [Level -> Frame]
  /\ clock \in 0 .. Horizon /\ aborted \in BOOLEAN
  /\ billed \in Usage /\ stop \in StopReasons

(* Less than the token and the spend ceiling and one more response.         *)
WithinOneResponse(u) ==
  /\ Budget.tokens # Unlimited =>
       \E r \in Responses : TotalTokens(u) < Budget.tokens + TotalTokens(r)
  /\ Budget.spend # Unlimited =>
       u = Zero \/ \E r \in Responses : Cost(u) < Budget.spend + Cost(r)

(* What the tracker was told stays within the ceilings, whatever is lost,   *)
(* broken off, cancelled or delegated.                                      *)
CountWithinBudget == WithinOneResponse(fr["turn"].used)

(* The bill is what the tracker was told only where every response sends    *)
(* its usage and no subagent runs: there the ceilings bind it as well, one   *)
(* request that failed or was aborted included.                             *)
LosesNothing == Faults = {} /\ "task" \notin Tools
BillWithinBudget == LosesNothing => WithinOneResponse(billed)

(* Where usage is lost or delegated the ceiling on steps still bounds the    *)
(* bill: a step makes one request and each of its calls may be a subagent    *)
(* with its own steps.                                                      *)
StepRequests == 1 + MaxCalls * SubSteps
BillWithinSteps ==
  Budget.steps # Unlimited =>
    \E r \in Responses : TotalTokens(billed) <= Budget.steps * StepRequests * TotalTokens(r)

(* A turn that says it ran out of budget has really used one up: the bill,  *)
(* the steps or the clock reached a ceiling the caller set, whatever the     *)
(* tracker was not told.                                                    *)
ExhaustedIsEarned ==
  /\ stop = "max-steps" => Reached(Budget.steps, fr["turn"].steps)
  /\ stop = "budget-exhausted" =>
       \/ Reached(Budget.tokens, TotalTokens(billed))
       \/ Reached(Budget.wall, Elapsed("turn"))
       \/ Budget.spend # Unlimited /\ Cost(billed) >= Budget.spend

(* No tool runs past the wall clock of the turn (or past the start of its    *)
(* step when the model's answer was already late) by more than the calls of  *)
(* its step before it could take, each of which was given the time left at   *)
(* the start of the step, and a search its own: a first command ends by the   *)
(* wall clock.  A person or a subagent may take any time.                   *)
AsksNobody == Tools \cap {"asked", "task"} = {}
SearchTime == IF "search" \in Tools THEN SearchTimeout ELSE 0
ToolsEndInTime ==
  LET f == fr["turn"]
      before == MaxCalls - 1 - f.calls
  IN AsksNobody /\ Budget.wall # Unlimited /\ f.pc = "tool" =>
       clock <= MaxOf(f.startedAt + Budget.wall, f.toolsAt)
                  + before * f.limit + (before + 1) * SearchTime

(* A wall clock ends the turn of a model that never stops asking for tools  *)
(* and delegating, unless a person it asked never answers.                   *)
TurnIsOver == stop # "none" \/ \E l \in Level : fr[l].pc = "approval"
BudgetEndsTheTurn == <>[]TurnIsOver

-----------------------------------------------------------------------------
(* The inductive invariant of any turn, proved in MCTurnParts.              *)

(* A subagent runs inside a call of the turn; a turn that runs has not       *)
(* stopped; and a request is out only under the ceilings of its level.       *)
Underway ==
  /\ fr["sub"].pc # "idle" <=> fr["turn"].pc = "task"
  /\ fr["turn"].pc = "task" => "task" \in Tools
  /\ fr["turn"].pc # "idle" => stop = "none" /\ (Budget.spend # Unlimited => Prices # Unpriced)
  /\ fr["turn"].pc = "idle" /\ stop \in {"none", "rejected"} => billed = Zero /\ fr["turn"].used = Zero
  /\ fr["turn"].pc = "stream" => ~OverTokens("turn") /\ ~OverSpend("turn")
  /\ \A l \in Level :
       /\ fr[l].calls <= MaxCalls
       /\ fr[l].pc = "stream" => ~Reached(Ceiling(l).steps, fr[l].steps)
       /\ Ceiling(l).steps # Unlimited => fr[l].steps <= Ceiling(l).steps

(* The tracker is told no more than is billed, and all of it where nothing   *)
(* is lost.                                                                 *)
Told ==
  LET u == fr["turn"].used IN
  /\ u.fresh <= billed.fresh /\ u.cached <= billed.cached
  /\ LosesNothing /\ fr["turn"].pc # "idle" => billed = u

(* The requests made for a turn, by what its frame f and that of its         *)
(* subagent s have counted, and no more than those of all its steps.         *)
CountedIn(f, s) ==
  LET all == f.steps * StepRequests
  IN CASE f.pc = "idle" -> Budget.steps * StepRequests
       [] f.pc \in {"check", "stream"} -> all
       [] f.pc \in {"calls", "approval", "tool"} -> all - f.calls * SubSteps
       [] f.pc = "task" -> all - (f.calls + 1) * SubSteps + s.steps
Counted == CountedIn(fr["turn"], fr["sub"])
Requested ==
  Budget.steps # Unlimited =>
    \E n \in 0 .. Counted, r \in Responses : TotalTokens(billed) <= n * TotalTokens(r)

(* The calls of a step are over by the limits of those dispatched.          *)
Limited ==
  LET f == fr["turn"]
      each == f.limit + SearchTime
  IN AsksNobody =>
       /\ f.pc \notin {"approval", "task"}
       /\ f.pc = "calls" => clock <= f.toolsAt + (MaxCalls - f.calls) * each
       /\ f.pc = "tool" => /\ f.calls < MaxCalls /\ clock <= f.deadline
                           /\ f.deadline <= f.toolsAt + (MaxCalls - f.calls) * each
       /\ f.pc \in {"calls", "tool"} /\ Budget.wall # Unlimited =>
            f.toolsAt + f.limit <= MaxOf(f.startedAt + Budget.wall, f.toolsAt)

BudgetInv ==
  /\ TypeOK /\ Underway /\ Told /\ Requested /\ Limited
  /\ CountWithinBudget /\ BillWithinBudget /\ ExhaustedIsEarned

=============================================================================
