------------------------------ MODULE MCTurnParts ------------------------------
(***************************************************************************)
(* What ends a turn, and the two parts it rests on: its loop with every     *)
(* callback that may throw, its budget, and the bus its hooks are on, side   *)
(* by side.  A behaviour is one of one part, chosen at its start; the        *)
(* variables of the others are None throughout.                             *)
(***************************************************************************)
EXTENDS Integers, SequenceTheorems, WellFoundedInduction, TLAPS

CONSTANTS
  None, f1,
  Unpriced, Prices, SubSteps, ToolTimeout, SearchTimeout,           (* Of every budgeted turn. *)
  CeilingTurn, LossyTurn, LiveTurn,                                 (* The three turns.        *)
  Caller, Hooks, Handlers, Fires, Disposes                          (* The bus.                *)

VARIABLES
  part,
  fr, aborted,
  history, active, open, submitted, usage, turns, result, lateRuns, saidAbort,
  clock, billed, stop,
  hooks, known, fire

Unlimited == -1

(* The loop: one turn of a step of two calls, one of them a subagent at most *)
(* at a time.                                                               *)
Loop == INSTANCE TurnMachine WITH
          MaxTurns <- 1, MaxCalls <- 2, TurnSteps <- 1, SubSteps <- 1,
          TokenBudget <- 2, StepTokens <- {2}, Faults <- {"approval", "sink", "budget"}

(* A turn against its budget, as p describes it.                            *)
Turns(p) == INSTANCE TurnBudget WITH
              Budget <- p.budget, Responses <- p.responses, Faults <- p.faults, Tools <- p.tools,
              MaxCalls <- p.calls, Latency <- p.latency, Horizon <- p.horizon

Tokens(fresh, cached) == [fresh |-> fresh, cached |-> cached]
TwoPrices == Tokens(3, 1)

(* Each ceiling is the first one reached in some behaviour.  Cached tokens  *)
(* count as many as fresh ones, and cost less.                              *)
FourCeilings ==
  [budget |-> [steps |-> 3, tokens |-> 6, wall |-> 3, spend |-> 9],
   responses |-> {Tokens(2, 0), Tokens(0, 3), Tokens(1, 1)},
   faults |-> {}, tools |-> {"quick", "command", "search"}, calls |-> 2, latency |-> 0,
   horizon |-> 7]

(* Streams break off with their usage lost, and calls delegate.              *)
Lossy ==
  [budget |-> [steps |-> 2, tokens |-> 3, wall |-> Unlimited, spend |-> 9],
   responses |-> {Tokens(2, 0), Tokens(1, 1)},
   faults |-> {"midway"}, tools |-> {"quick", "task"}, calls |-> 2, latency |-> 0, horizon |-> 0]

(* A model that always asks for more, under a wall clock alone.             *)
ClockOnly ==
  [budget |-> [steps |-> Unlimited, tokens |-> Unlimited, wall |-> 3, spend |-> Unlimited],
   responses |-> {Tokens(0, 0)},
   faults |-> {"midway"}, tools |-> {"quick", "command", "asked", "search", "task"},
   calls |-> 2, latency |-> 1, horizon |-> 7]

(* Fires change nothing another fire reads, so one of them meets every      *)
(* interleaving with the list.                                              *)
Bus == INSTANCE HookBus

ASSUME ConstantsAreLegal ==
  /\ Turns(CeilingTurn)!BudgetAssumption /\ Turns(CeilingTurn)!SizesAssumption
  /\ Turns(LossyTurn)!BudgetAssumption /\ Turns(LossyTurn)!SizesAssumption
  /\ Turns(LiveTurn)!BudgetAssumption /\ Turns(LiveTurn)!SizesAssumption
  /\ Bus!HooksAssumption /\ f1 \in Fires

onlyLoop   == <<history, active, open, submitted, usage, turns, result, lateRuns, saidAbort>>
onlyBudget == <<clock, billed, stop>>
loopVars   == <<fr, aborted, onlyLoop>>
budgetVars == <<fr, aborted, onlyBudget>>
hookVars   == <<hooks, known, fire>>
vars       == <<part, fr, aborted, onlyLoop, onlyBudget, hookVars>>

NoTurn == fr = None /\ aborted = None
NoLoop ==
  /\ history = None /\ active = None /\ open = None /\ submitted = None /\ usage = None
  /\ turns = None /\ result = None /\ lateRuns = None /\ saidAbort = None
NoBudget == clock = None /\ billed = None /\ stop = None
NoHooks  == hooks = None /\ known = None /\ fire = None

Init ==
  \/ part = "loop" /\ Loop!Init /\ NoBudget /\ NoHooks
  \/ part = "ceilings" /\ Turns(CeilingTurn)!Init /\ NoLoop /\ NoHooks
  \/ part = "lossy" /\ Turns(LossyTurn)!Init /\ NoLoop /\ NoHooks
  \/ part = "live" /\ Turns(LiveTurn)!Init /\ NoLoop /\ NoHooks
  \/ part = "bus" /\ Bus!Init /\ NoTurn /\ NoLoop /\ NoBudget

Next ==
  \/ part = "loop" /\ Loop!Next /\ UNCHANGED <<part, onlyBudget, hookVars>>
  \/ part = "ceilings" /\ Turns(CeilingTurn)!Next /\ UNCHANGED <<part, onlyLoop, hookVars>>
  \/ part = "lossy" /\ Turns(LossyTurn)!Next /\ UNCHANGED <<part, onlyLoop, hookVars>>
  \/ part = "live" /\ Turns(LiveTurn)!Next /\ UNCHANGED <<part, onlyLoop, hookVars>>
  \/ part = "bus" /\ Bus!Next /\ UNCHANGED <<part, fr, aborted, onlyLoop, onlyBudget>>

InPart(p, A) == part = p /\ A

(* The fairness of the FairSpec of TurnMachine, TurnBudget and HookBus.     *)
Spec ==
  /\ Init /\ [][Next]_vars
  /\ \A l \in Loop!Level : WF_loopVars(InPart("loop", Loop!Engine(l)))
  /\ WF_budgetVars(InPart("live", Turns(LiveTurn)!Submit))
  /\ WF_budgetVars(InPart("live", Turns(LiveTurn)!Tick))
  /\ \A l \in Turns(LiveTurn)!Level : WF_budgetVars(InPart("live", Turns(LiveTurn)!Run(l)))
  /\ WF_hookVars(InPart("bus", Bus!Fails(f1)))

-----------------------------------------------------------------------------
(* The type invariants of TurnBudget and HookBus; TurnMachine's is proved in *)
(* TurnMachine_proofs.                                                      *)
TypesHold ==
  /\ part = "ceilings" => Turns(CeilingTurn)!TypeOK
  /\ part = "lossy" => Turns(LossyTurn)!TypeOK
  /\ part = "live" => Turns(LiveTurn)!TypeOK
  /\ part = "bus" => Bus!TypeOK

(* The token and the spend ceiling bind what BudgetTracker was told in every *)
(* turn, and where nothing is lost or delegated what the provider bills: less *)
(* than the ceiling and one more response.  Where something is, the ceiling   *)
(* on steps still bounds the bill.  A turn that says a ceiling ended it has   *)
(* reached one the caller set, and no tool of it runs past the wall clock by  *)
(* more than the calls before it in its step took                           *)
(* (packages/core/src/budget.ts), all variables within types.               *)
KeepsCeilings(p) ==
  /\ Turns(p)!CountWithinBudget /\ Turns(p)!BillWithinBudget /\ Turns(p)!BillWithinSteps
  /\ Turns(p)!ExhaustedIsEarned /\ Turns(p)!ToolsEndInTime
CeilingsAreTrue ==
  /\ TypesHold
  /\ part = "ceilings" => KeepsCeilings(CeilingTurn)
  /\ part = "lossy" => KeepsCeilings(LossyTurn)
  /\ part = "live" => KeepsCeilings(LiveTurn)

(* Whatever is registered and disposed while it waits, a fire asks hooks in *)
(* the order they were registered and none twice; one that passed asked     *)
(* every handler that did not move under it and, before a tool runs, took   *)
(* no silence for consent; and it returns what its last rewriting hook left. *)
FireIsFaithful ==
  part = "bus" => Bus!AskedInOrder /\ Bus!PassedMeansAsked /\ Bus!RewritesChain

(* A submitted turn settles, whatever throws, cancels or closes meanwhile,  *)
(* or it waits on an approval for ever (AdzeEngine.turnSubmit and runTurn);  *)
(* a wall clock ends the turn of a model that never stops asking for tools   *)
(* and delegating, unless a person it asked never answers; and a fire ends,  *)
(* however many of its hooks never answer.                                  *)
NothingHangs ==
  /\ <>[](part = "live" => Turns(LiveTurn)!TurnIsOver)
  /\ InPart("loop", active = 1) ~>
       \/ InPart("loop", result[1] # "none")
       \/ [](InPart("loop", \E l \in Loop!Level : fr[l].pc = "approval"))
  /\ InPart("bus", fire[f1].status = "waiting") ~> InPart("bus", fire[f1].status # "waiting")

-----------------------------------------------------------------------------
(* Proofs about a budgeted turn, for any budget, prices, sizes and clock.    *)

(* The locals of runTurn stay within their types.                           *)
LEMMA FrameTypes ==
  ASSUME NEW p, NEW f \in Turns(p)!Frame
  PROVE  /\ \A pc \in Turns(p)!Points : [f EXCEPT !.pc = pc] \in Turns(p)!Frame
         /\ \A now \in Nat : [f EXCEPT !.pc = "stream", !.sentAt = now] \in Turns(p)!Frame
         /\ [f EXCEPT !.pc = "calls", !.deadline = Unlimited] \in Turns(p)!Frame
         /\ [f EXCEPT !.steps = @ + 1] \in Turns(p)!Frame
         /\ [f EXCEPT !.calls = 0] \in Turns(p)!Frame
         /\ f.calls > 0 => [f EXCEPT !.calls = @ - 1] \in Turns(p)!Frame
         /\ \A u \in Turns(p)!Usage :
              [f EXCEPT !.steps = @ + 1, !.used = Turns(p)!AddUsage(@, u)] \in Turns(p)!Frame
         /\ \A n, limit, now \in Nat :
              [f EXCEPT !.pc = "calls", !.calls = n, !.limit = limit, !.toolsAt = now] \in Turns(p)!Frame
         /\ \A limit \in Nat : clock \in Nat => Turns(p)!Enter(f, limit) \in Turns(p)!Frame
<1>1. ASSUME NEW u \in Turns(p)!Usage PROVE Turns(p)!AddUsage(f.used, u) \in Turns(p)!Usage
  BY DEF Turns!AddUsage, Turns!Usage, Turns!Frame
<1>2. ASSUME NEW limit \in Nat, clock \in Nat PROVE clock + limit \in Turns(p)!Limit
  BY <1>2 DEF Turns!Limit
<1>3. Turns(p)!Unlimited = -1 /\ -1 \in Turns(p)!Limit
  BY DEF Turns!Limit, Turns!Unlimited
<1>4. \A pc \in Turns(p)!Points : [f EXCEPT !.pc = pc] \in Turns(p)!Frame
  BY DEF Turns!Frame
<1>5. \A now \in Nat : [f EXCEPT !.pc = "stream", !.sentAt = now] \in Turns(p)!Frame
  BY DEF Turns!Frame, Turns!Points
<1>6. [f EXCEPT !.pc = "calls", !.deadline = Unlimited] \in Turns(p)!Frame
  <2>1. PICK d \in Turns(p)!Limit : d = Unlimited
    BY <1>3 DEF Unlimited
  <2>2. [f EXCEPT !.pc = "calls", !.deadline = d] \in Turns(p)!Frame
    BY DEF Turns!Frame, Turns!Points
  <2> QED BY <2>1, <2>2
<1>7. /\ [f EXCEPT !.steps = @ + 1] \in Turns(p)!Frame /\ [f EXCEPT !.calls = 0] \in Turns(p)!Frame
      /\ f.calls > 0 => [f EXCEPT !.calls = @ - 1] \in Turns(p)!Frame
  BY DEF Turns!Frame
<1>8. ASSUME NEW u \in Turns(p)!Usage
      PROVE  [f EXCEPT !.steps = @ + 1, !.used = Turns(p)!AddUsage(@, u)] \in Turns(p)!Frame
  <2>1. PICK w \in Turns(p)!Usage : w = Turns(p)!AddUsage(f.used, u)
    BY <1>1
  <2>2. PICK n \in Nat : n = f.steps + 1
    BY DEF Turns!Frame
  <2>3. [f EXCEPT !.steps = n, !.used = w] \in Turns(p)!Frame
    BY DEF Turns!Frame
  <2> QED BY <2>1, <2>2, <2>3
<1>9. \A n, limit, now \in Nat :
        [f EXCEPT !.pc = "calls", !.calls = n, !.limit = limit, !.toolsAt = now] \in Turns(p)!Frame
  BY DEF Turns!Frame, Turns!Points
<1>10. ASSUME NEW limit \in Nat, clock \in Nat PROVE Turns(p)!Enter(f, limit) \in Turns(p)!Frame
  <2>1. PICK d \in Turns(p)!Limit : d = clock + limit
    BY <1>2, <1>10
  <2>2. [f EXCEPT !.pc = "tool", !.deadline = d] \in Turns(p)!Frame
    BY DEF Turns!Frame, Turns!Points
  <2> QED BY <2>1, <2>2 DEF Turns!Enter
<1> QED BY <1>4, <1>5, <1>6, <1>7, <1>8, <1>9, <1>10

LEMMA NewFrameType ==
  ASSUME NEW p, NEW pc \in Turns(p)!Points, NEW now \in Nat
  PROVE  Turns(p)!NewFrame(pc, now) \in Turns(p)!Frame
BY DEF Turns!NewFrame, Turns!Frame, Turns!Zero, Turns!Usage, Turns!Limit, Turns!Unlimited

LEMMA EndType ==
  ASSUME NEW p, Turns(p)!TypeOK, NEW l \in Turns(p)!Level, NEW f \in Turns(p)!Frame,
         NEW reason \in Turns(p)!StopReasons, Turns(p)!End(l, f, reason)
  PROVE  fr' \in [Turns(p)!Level -> Turns(p)!Frame] /\ stop' \in Turns(p)!StopReasons
<1>1. /\ fr \in [Turns(p)!Level -> Turns(p)!Frame] /\ fr["turn"] \in Turns(p)!Frame
      /\ stop \in Turns(p)!StopReasons
  BY DEF Turns!TypeOK, Turns!Level
<1>2. /\ [f EXCEPT !.pc = "idle"] \in Turns(p)!Frame /\ [fr["turn"] EXCEPT !.pc = "calls"] \in Turns(p)!Frame
  BY <1>1, FrameTypes DEF Turns!Points
<1>3. CASE l = "turn"
  <2>1. fr' = [fr EXCEPT !["turn"] = [f EXCEPT !.pc = "idle"]] /\ stop' = reason
    BY <1>3 DEF Turns!End
  <2> QED BY <1>1, <1>2, <2>1
<1>4. CASE l # "turn"
  <2>1. /\ fr' = [fr EXCEPT !["sub"] = [f EXCEPT !.pc = "idle"], !["turn"] = [@ EXCEPT !.pc = "calls"]]
        /\ stop' = stop
    BY <1>4 DEF Turns!End
  <2>2. fr' = [fr EXCEPT !["sub"] = [f EXCEPT !.pc = "idle"],
                         !["turn"] = [fr["turn"] EXCEPT !.pc = "calls"]]
    BY <1>1, <2>1
  <2> QED BY <1>1, <1>2, <2>1, <2>2, Zenon
<1> QED BY <1>3, <1>4

LEMMA ToolLimitType ==
  ASSUME NEW p, Turns(p)!BudgetAssumption, Turns(p)!SizesAssumption, Turns(p)!TypeOK, NEW l \in Turns(p)!Level
  PROVE  Turns(p)!ToolLimit(l) \in Nat
<1>1. fr[l].startedAt \in Nat /\ clock \in Nat
  BY DEF Turns!TypeOK, Turns!SizesAssumption, Turns!Frame
<1>2. Turns(p)!Ceiling(l).wall \in Nat \cup {-1} /\ ToolTimeout \in Nat
  BY DEF Turns!Ceiling, Turns!BudgetAssumption, Turns!SizesAssumption, Turns!Limit, Turns!Unlimited
<1> QED BY <1>1, <1>2 DEF Turns!ToolLimit, Turns!MinOf, Turns!MaxOf, Turns!Elapsed, Turns!Unlimited

LEMMA AnsweredType ==
  ASSUME NEW p, Turns(p)!BudgetAssumption, Turns(p)!SizesAssumption, Turns(p)!TypeOK,
         NEW l \in Turns(p)!Level, NEW f \in Turns(p)!Frame, NEW n \in Nat,
         NEW failed, Turns(p)!Answered(l, f, n, failed)
  PROVE  fr' \in [Turns(p)!Level -> Turns(p)!Frame] /\ stop' \in Turns(p)!StopReasons
<1>1. \A reason \in {"cancelled", "error", "end-turn"} : Turns(p)!End(l, f, reason) =>
        fr' \in [Turns(p)!Level -> Turns(p)!Frame] /\ stop' \in Turns(p)!StopReasons
  BY EndType DEF Turns!StopReasons
<1>2. Turns(p)!ToolLimit(l) \in Nat /\ clock \in Nat
  BY ToolLimitType DEF Turns!TypeOK, Turns!SizesAssumption
<1>3. [f EXCEPT !.pc = "calls", !.calls = n, !.limit = Turns(p)!ToolLimit(l), !.toolsAt = clock]
        \in Turns(p)!Frame
  BY <1>2, FrameTypes
<1>4. CASE ~aborted /\ n # 0
  BY <1>3, <1>4 DEF Turns!Answered, Turns!TypeOK
<1>5. CASE aborted
  BY <1>1, <1>5 DEF Turns!Answered
<1>6. CASE ~aborted /\ n = 0
  BY <1>1, <1>6 DEF Turns!Answered
<1> QED BY <1>4, <1>5, <1>6

LEMMA BillType ==
  ASSUME NEW p, Turns(p)!SizesAssumption, Turns(p)!TypeOK,
         NEW r \in p.responses \cup {Turns(p)!Zero}, Turns(p)!Bill(r)
  PROVE  billed' \in Turns(p)!Usage
BY DEF Turns!Bill, Turns!SizesAssumption, Turns!TypeOK, Turns!Usage, Turns!Zero

LEMMA TurnTypesInit ==
  ASSUME NEW p, Turns(p)!SizesAssumption, Turns(p)!Init
  PROVE  Turns(p)!TypeOK
<1>1. fr \in [Turns(p)!Level -> Turns(p)!Frame]
  <2>1. Turns(p)!NewFrame("idle", 0) \in Turns(p)!Frame
    BY NewFrameType DEF Turns!Points
  <2> QED BY <2>1 DEF Turns!Init
<1>2. billed \in Turns(p)!Usage /\ stop \in Turns(p)!StopReasons
  BY DEF Turns!Init, Turns!Zero, Turns!Usage, Turns!StopReasons
<1>3. clock \in 0 .. p.horizon /\ aborted \in BOOLEAN
  <2>1. p.horizon \in Nat
    BY DEF Turns!SizesAssumption
  <2>2. clock = 0 /\ aborted = FALSE
    BY DEF Turns!Init
  <2>3. aborted \in BOOLEAN
    BY <2>2, Zenon
  <2>4. 0 \in 0 .. p.horizon
    BY <2>1
  <2> QED BY <2>2, <2>3, <2>4, Zenon
<1> QED BY <1>1, <1>2, <1>3 DEF Turns!TypeOK

LEMMA TurnTypesStep ==
  ASSUME NEW p, Turns(p)!BudgetAssumption, Turns(p)!SizesAssumption, Turns(p)!TypeOK,
         Turns(p)!Next \/ UNCHANGED Turns(p)!vars
  PROVE  Turns(p)!TypeOK'
<1>t. /\ fr \in [Turns(p)!Level -> Turns(p)!Frame] /\ clock \in 0 .. p.horizon /\ aborted \in BOOLEAN
      /\ billed \in Turns(p)!Usage /\ stop \in Turns(p)!StopReasons
      /\ p.horizon \in Nat /\ clock \in Nat
  BY DEF Turns!TypeOK, Turns!SizesAssumption
<1>c. /\ "turn" \in Turns(p)!Level /\ "sub" \in Turns(p)!Level
      /\ \A l \in Turns(p)!Level : fr[l] \in Turns(p)!Frame
  BY <1>t DEF Turns!Level
<1>e. ASSUME NEW l \in Turns(p)!Level, NEW f \in Turns(p)!Frame,
             fr' = [fr EXCEPT ![l] = f], UNCHANGED <<clock, aborted, billed, stop>>
      PROVE  Turns(p)!TypeOK'
  BY <1>t, <1>e DEF Turns!TypeOK
<1>s. /\ \A l \in Turns(p)!Level : Turns(p)!Check(l) \in Turns(p)!StopReasons
      /\ {"cancelled", "error"} \subseteq Turns(p)!StopReasons
  BY DEF Turns!Check, Turns!StopReasons
<1>1. CASE Turns(p)!Submit
  <2>1. CASE p.budget.spend # Turns(p)!Unlimited /\ Prices = Unpriced
    BY <1>t, <1>1, <2>1 DEF Turns!Submit, Turns!TypeOK, Turns!StopReasons
  <2>2. CASE ~(p.budget.spend # Turns(p)!Unlimited /\ Prices = Unpriced)
    <3>1. /\ fr' = [fr EXCEPT !["turn"] = Turns(p)!NewFrame("check", clock)]
          /\ UNCHANGED <<clock, aborted, billed, stop>>
      BY <1>1, <2>2 DEF Turns!Submit
    <3>2. Turns(p)!NewFrame("check", clock) \in Turns(p)!Frame
      BY <1>t, NewFrameType DEF Turns!Points
    <3> QED BY <1>c, <1>e, <3>1, <3>2
  <2> QED BY <2>1, <2>2
<1>2. CASE Turns(p)!Cancel
  BY <1>t, <1>2 DEF Turns!Cancel, Turns!TypeOK
<1>3. CASE Turns(p)!Tick
  BY <1>t, <1>3 DEF Turns!Tick, Turns!TypeOK
<1>4. ASSUME NEW l \in Turns(p)!Level, Turns(p)!Preflight(l) PROVE Turns(p)!TypeOK'
  <2> DEFINE reason == IF aborted THEN "cancelled" ELSE Turns(p)!Check(l)
  <2>1. reason \in Turns(p)!StopReasons
    BY <1>s
  <2>2. CASE reason = "none"
    <3>1. /\ fr' = [fr EXCEPT ![l] = [fr[l] EXCEPT !.pc = "stream", !.sentAt = clock]]
          /\ UNCHANGED <<clock, aborted, billed, stop>>
      BY <1>t, <1>4, <2>2 DEF Turns!Preflight
    <3>2. [fr[l] EXCEPT !.pc = "stream", !.sentAt = clock] \in Turns(p)!Frame
      BY <1>t, <1>c, FrameTypes
    <3> QED BY <1>e, <3>1, <3>2
  <2>3. CASE reason # "none"
    <3>1. Turns(p)!End(l, fr[l], reason) /\ UNCHANGED <<clock, aborted, billed>>
      BY <1>4, <2>3 DEF Turns!Preflight
    <3>2. fr' \in [Turns(p)!Level -> Turns(p)!Frame] /\ stop' \in Turns(p)!StopReasons
      BY <1>c, <2>1, <3>1, EndType
    <3> QED BY <1>t, <3>1, <3>2 DEF Turns!TypeOK
  <2> QED BY <2>2, <2>3
<1>5. ASSUME NEW l \in Turns(p)!Level, Turns(p)!StreamThrows(l) PROVE Turns(p)!TypeOK'
  <2>1. /\ \E r \in p.responses \cup {Turns(p)!Zero} : Turns(p)!Bill(r)
        /\ Turns(p)!End(l, fr[l], "error") /\ UNCHANGED <<clock, aborted>>
    BY <1>5 DEF Turns!StreamThrows
  <2>2. billed' \in Turns(p)!Usage
    BY <2>1, BillType
  <2>3. fr' \in [Turns(p)!Level -> Turns(p)!Frame] /\ stop' \in Turns(p)!StopReasons
    BY <1>c, <1>s, <2>1, EndType
  <2> QED BY <1>t, <2>1, <2>2, <2>3 DEF Turns!TypeOK
<1>6. ASSUME NEW l \in Turns(p)!Level, Turns(p)!StreamAborts(l) PROVE Turns(p)!TypeOK'
  <2>1. PICK f : /\ f = [fr[l] EXCEPT !.steps = @ + 1]
                 /\ \E r \in p.responses \cup {Turns(p)!Zero} : Turns(p)!Bill(r)
                 /\ Turns(p)!End(l, f, "cancelled") /\ UNCHANGED <<clock, aborted>>
    BY <1>6 DEF Turns!StreamAborts
  <2>2. billed' \in Turns(p)!Usage
    BY <2>1, BillType
  <2>3. f \in Turns(p)!Frame
    BY <1>c, <2>1, FrameTypes
  <2>4. fr' \in [Turns(p)!Level -> Turns(p)!Frame] /\ stop' \in Turns(p)!StopReasons
    BY <1>s, <2>1, <2>3, EndType
  <2> QED BY <1>t, <2>1, <2>2, <2>4 DEF Turns!TypeOK
<1>7. ASSUME NEW l \in Turns(p)!Level, Turns(p)!StreamEnds(l) \/ Turns(p)!StreamBreaks(l)
      PROVE  Turns(p)!TypeOK'
  <2>1. /\ \A r \in p.responses : Turns(p)!Reported(r) \in Turns(p)!Usage
        /\ Turns(p)!Zero \in Turns(p)!Usage /\ 0 .. p.calls \subseteq Nat
    BY DEF Turns!SizesAssumption, Turns!Reported, Turns!Usage, Turns!Zero
  <2>2. PICK r \in p.responses, u \in Turns(p)!Usage :
          \E n \in 0 .. p.calls : \E failed \in BOOLEAN :
            /\ Turns(p)!Bill(r) /\ UNCHANGED <<clock, aborted>>
            /\ Turns(p)!Answered(l,
                 [fr[l] EXCEPT !.steps = @ + 1, !.used = Turns(p)!AddUsage(@, u)], n, failed)
    BY <1>7, <2>1 DEF Turns!StreamEnds, Turns!StreamBreaks
  <2>3. billed' \in Turns(p)!Usage
    BY <2>2, BillType
  <2>4. PICK f : /\ f = [fr[l] EXCEPT !.steps = @ + 1, !.used = Turns(p)!AddUsage(@, u)]
                 /\ \E n \in 0 .. p.calls : \E failed \in BOOLEAN :
                      /\ UNCHANGED <<clock, aborted>>
                      /\ Turns(p)!Answered(l, f, n, failed)
    BY <2>2
  <2>5. f \in Turns(p)!Frame
    BY <1>c, <2>2, <2>4, FrameTypes
  <2>6. fr' \in [Turns(p)!Level -> Turns(p)!Frame] /\ stop' \in Turns(p)!StopReasons
    BY <2>1, <2>4, <2>5, AnsweredType
  <2> QED BY <1>t, <2>2, <2>3, <2>6 DEF Turns!TypeOK
<1>8. ASSUME NEW l \in Turns(p)!Level, Turns(p)!Dispatch(l) PROVE Turns(p)!TypeOK'
  <2>1. PICK f \in Turns(p)!Frame : f = [fr[l] EXCEPT !.calls = @ - 1]
    BY <1>c, <1>8, FrameTypes DEF Turns!Dispatch
  <2>2. UNCHANGED <<clock, aborted, billed, stop>>
    BY <1>8 DEF Turns!Dispatch
  <2>3. /\ f.limit \in Nat /\ SearchTimeout \in Nat
        /\ [f EXCEPT !.pc = "approval"] \in Turns(p)!Frame /\ [f EXCEPT !.pc = "task"] \in Turns(p)!Frame
    <3>1. f.limit \in Nat /\ SearchTimeout \in Nat
      BY DEF Turns!Frame, Turns!SizesAssumption
    <3> QED BY <3>1, FrameTypes DEF Turns!Points
  <2>4. Turns(p)!Enter(f, f.limit) \in Turns(p)!Frame /\ Turns(p)!Enter(f, SearchTimeout) \in Turns(p)!Frame
    BY <1>t, <2>3, FrameTypes
  <2>5. Turns(p)!NewFrame("check", clock) \in Turns(p)!Frame
    BY <1>t, NewFrameType DEF Turns!Points
  <2>6. CASE \E g \in {f, Turns(p)!Enter(f, f.limit), [f EXCEPT !.pc = "approval"],
                       Turns(p)!Enter(f, SearchTimeout)} : fr' = [fr EXCEPT ![l] = g]
    BY <1>e, <2>2, <2>3, <2>4, <2>6
  <2>7. CASE fr' = [fr EXCEPT !["turn"] = [f EXCEPT !.pc = "task"],
                              !["sub"] = Turns(p)!NewFrame("check", clock)]
    BY <1>t, <1>c, <2>2, <2>3, <2>5, <2>7 DEF Turns!TypeOK
  <2> QED BY <1>8, <2>1, <2>6, <2>7 DEF Turns!Dispatch
<1>9. ASSUME NEW l \in Turns(p)!Level, Turns(p)!Answer(l) PROVE Turns(p)!TypeOK'
  <2>1. /\ \E g \in {Turns(p)!Enter(fr[l], fr[l].limit), [fr[l] EXCEPT !.pc = "calls"]} :
             fr' = [fr EXCEPT ![l] = g]
        /\ UNCHANGED <<clock, aborted, billed, stop>>
    BY <1>9 DEF Turns!Answer
  <2>2. fr[l].limit \in Nat
    BY <1>c DEF Turns!Frame
  <2>3. /\ Turns(p)!Enter(fr[l], fr[l].limit) \in Turns(p)!Frame
        /\ [fr[l] EXCEPT !.pc = "calls"] \in Turns(p)!Frame
    BY <1>t, <1>c, <2>2, FrameTypes DEF Turns!Points
  <2> QED BY <1>e, <2>1, <2>3
<1>10. ASSUME NEW l \in Turns(p)!Level, Turns(p)!ToolReturns(l) PROVE Turns(p)!TypeOK'
  <2>1. /\ fr' = [fr EXCEPT ![l] = [fr[l] EXCEPT !.pc = "calls", !.deadline = Unlimited]]
        /\ UNCHANGED <<clock, aborted, billed, stop>>
    BY <1>t, <1>10 DEF Turns!ToolReturns, Turns!Unlimited, Unlimited
  <2>2. [fr[l] EXCEPT !.pc = "calls", !.deadline = Unlimited] \in Turns(p)!Frame
    BY <1>c, FrameTypes
  <2> QED BY <1>e, <2>1, <2>2
<1>11. ASSUME NEW l \in Turns(p)!Level, Turns(p)!StepCloses(l) PROVE Turns(p)!TypeOK'
  <2>1. CASE aborted
    <3>1. PICK f : f = [fr[l] EXCEPT !.calls = 0] /\ Turns(p)!End(l, f, "cancelled")
                     /\ UNCHANGED <<clock, aborted, billed>>
      BY <1>11, <2>1 DEF Turns!StepCloses
    <3>2. f \in Turns(p)!Frame
      BY <1>c, <3>1, FrameTypes
    <3>3. fr' \in [Turns(p)!Level -> Turns(p)!Frame] /\ stop' \in Turns(p)!StopReasons
      BY <1>s, <3>1, <3>2, EndType
    <3> QED BY <1>t, <3>1, <3>3 DEF Turns!TypeOK
  <2>2. CASE ~aborted
    <3>1. /\ fr' = [fr EXCEPT ![l] = [fr[l] EXCEPT !.pc = "check"]]
          /\ UNCHANGED <<clock, aborted, billed, stop>>
      BY <1>t, <1>11, <2>2 DEF Turns!StepCloses
    <3>2. [fr[l] EXCEPT !.pc = "check"] \in Turns(p)!Frame
      BY <1>c, FrameTypes DEF Turns!Points
    <3> QED BY <1>e, <3>1, <3>2
  <2> QED BY <2>1, <2>2
<1>12. CASE UNCHANGED Turns(p)!vars \/ Turns(p)!Done
  BY <1>t, <1>12 DEF Turns!vars, Turns!Done, Turns!TypeOK
<1> QED BY <1>1, <1>2, <1>3, <1>4, <1>5, <1>6, <1>7, <1>8, <1>9, <1>10, <1>11, <1>12
        DEF Turns!Next, Turns!Run

-----------------------------------------------------------------------------
(* Proofs about the ceilings of a turn: its bill, and the end of its tools.  *)

(* Tokens and their cost add up.                                            *)
LEMMA Sums ==
  ASSUME NEW p, NEW a \in Turns(p)!Usage, NEW b \in Turns(p)!Usage
  PROVE  /\ Turns(p)!AddUsage(a, b) \in Turns(p)!Usage
         /\ Turns(p)!TotalTokens(a) \in Nat /\ Turns(p)!TotalTokens(b) \in Nat
         /\ Turns(p)!TotalTokens(Turns(p)!AddUsage(a, b)) = Turns(p)!TotalTokens(a) + Turns(p)!TotalTokens(b)
BY DEF Turns!AddUsage, Turns!TotalTokens, Turns!Usage

LEMMA CostsOf ==
  ASSUME NEW x \in Nat, NEW y \in Nat, NEW u \in Nat, NEW v \in Nat, NEW c \in Nat, NEW d \in Nat
  PROVE  /\ x * c + y * d \in Nat /\ u * c + v * d \in Nat
         /\ (x + u) * c + (y + v) * d = (x * c + y * d) + (u * c + v * d)
<1>1. x * c \in Nat /\ y * d \in Nat /\ u * c \in Nat /\ v * d \in Nat
  OBVIOUS
<1>2. (x + u) * c = x * c + u * c /\ (y + v) * d = y * d + v * d
  OBVIOUS
<1> QED BY <1>1, <1>2

LEMMA Costs ==
  ASSUME NEW p, Prices \in Turns(p)!Usage, NEW a \in Turns(p)!Usage, NEW b \in Turns(p)!Usage
  PROVE  /\ Turns(p)!Cost(a) \in Nat /\ Turns(p)!Cost(b) \in Nat
         /\ Turns(p)!Cost(Turns(p)!AddUsage(a, b)) = Turns(p)!Cost(a) + Turns(p)!Cost(b)
<1>1. /\ a.fresh \in Nat /\ a.cached \in Nat /\ b.fresh \in Nat /\ b.cached \in Nat
      /\ Prices.fresh \in Nat /\ Prices.cached \in Nat
  BY DEF Turns!Usage
<1>2. Turns(p)!Cost(Turns(p)!AddUsage(a, b)) =
        (a.fresh + b.fresh) * Prices.fresh + (a.cached + b.cached) * Prices.cached
  BY DEF Turns!Cost, Turns!AddUsage
<1>3. /\ Turns(p)!Cost(a) = a.fresh * Prices.fresh + a.cached * Prices.cached
      /\ Turns(p)!Cost(b) = b.fresh * Prices.fresh + b.cached * Prices.cached
  BY DEF Turns!Cost
<1> QED BY <1>1, <1>2, <1>3, CostsOf

(* More tokens cost no less, and at least one response is as large as any    *)
(* that was billed: what is below the ceilings grows to less than one more.  *)
LEMMA OneMoreResponse ==
  ASSUME NEW p, Turns(p)!BudgetAssumption, Turns(p)!SizesAssumption, NEW u \in Turns(p)!Usage,
         p.budget.tokens # Unlimited => Turns(p)!TotalTokens(u) < p.budget.tokens,
         p.budget.spend # Unlimited => Prices # Unpriced /\ Turns(p)!Cost(u) < p.budget.spend,
         NEW r \in p.responses \cup {Turns(p)!Zero}
  PROVE  Turns(p)!WithinOneResponse(Turns(p)!AddUsage(u, r))
<1>1. /\ r \in Turns(p)!Usage /\ p.responses \subseteq Turns(p)!Usage /\ p.responses # {}
      /\ p.budget.tokens \in Int /\ p.budget.spend \in Int
  BY DEF Turns!SizesAssumption, Turns!BudgetAssumption, Turns!Limit, Turns!Usage, Turns!Zero,
     Turns!Unlimited
<1>2. PICK w : w = Turns(p)!AddUsage(u, r)
  OBVIOUS
<1>3. PICK s \in p.responses : r \in p.responses => s = r
  BY <1>1
<1>4. ASSUME p.budget.tokens # Unlimited
      PROVE  Turns(p)!TotalTokens(w) < p.budget.tokens + Turns(p)!TotalTokens(s)
  <2>1. /\ Turns(p)!TotalTokens(w) = Turns(p)!TotalTokens(u) + Turns(p)!TotalTokens(r)
        /\ Turns(p)!TotalTokens(u) \in Nat /\ Turns(p)!TotalTokens(r) \in Nat
        /\ Turns(p)!TotalTokens(s) \in Nat
    BY <1>1, <1>2, <1>3, Sums
  <2>2. r \notin p.responses => Turns(p)!TotalTokens(r) = 0
    BY DEF Turns!TotalTokens, Turns!Zero
  <2>3. Turns(p)!TotalTokens(r) <= Turns(p)!TotalTokens(s)
    BY <1>3, <2>1, <2>2
  <2> QED BY <1>1, <1>4, <2>1, <2>3
<1>5. ASSUME p.budget.spend # Unlimited
      PROVE  Turns(p)!Cost(w) < p.budget.spend + Turns(p)!Cost(s)
  <2>0. Prices \in Turns(p)!Usage
    BY <1>5 DEF Turns!SizesAssumption
  <2>1. /\ Turns(p)!Cost(w) = Turns(p)!Cost(u) + Turns(p)!Cost(r)
        /\ Turns(p)!Cost(u) \in Nat /\ Turns(p)!Cost(r) \in Nat
        /\ Turns(p)!Cost(s) \in Nat
    BY <1>1, <1>2, <1>3, <2>0, Costs
  <2>2. r \notin p.responses => Turns(p)!Cost(r) = 0
    <3>1. Prices.fresh \in Nat /\ Prices.cached \in Nat
      BY <2>0 DEF Turns!Usage
    <3>2. 0 * Prices.fresh + 0 * Prices.cached = 0
      BY <3>1
    <3> QED BY <3>2 DEF Turns!Cost, Turns!Zero
  <2>3. Turns(p)!Cost(r) <= Turns(p)!Cost(s)
    BY <1>3, <2>1, <2>2
  <2> QED BY <1>1, <1>5, <2>1, <2>3
<1>6. /\ p.budget.tokens # Unlimited =>
           \E q \in p.responses : Turns(p)!TotalTokens(w) < p.budget.tokens + Turns(p)!TotalTokens(q)
      /\ p.budget.spend # Unlimited =>
           \E q \in p.responses : Turns(p)!Cost(w) < p.budget.spend + Turns(p)!Cost(q)
  BY <1>4, <1>5
<1>7. Turns(p)!WithinOneResponse(w)
  BY <1>6 DEF Turns!WithinOneResponse, Turns!Unlimited, Unlimited
<1> QED BY <1>2, <1>7

(* The limit of a step ends by the wall clock, or at once.                  *)
LEMMA LimitEnds ==
  ASSUME NEW now \in Nat, NEW began \in Nat, NEW wall \in Nat, NEW own \in Nat, NEW p
  PROVE  now + Turns(p)!MinOf(own, Turns(p)!MaxOf(0, wall - (now - began)))
           <= Turns(p)!MaxOf(began + wall, now)
BY DEF Turns!MinOf, Turns!MaxOf

(* The requests of n steps of c calls, each of which may make m more.        *)
LEMMA Requests ==
  ASSUME NEW n \in Nat, NEW k \in Nat, NEW c \in Nat, NEW m \in Nat, NEW most \in Nat
  PROVE  /\ n * (1 + c * m) \in Nat /\ most * (1 + c * m) \in Nat
         /\ (n + 1) * (1 + c * m) \in Nat /\ k * m \in Nat /\ (k + 1) * m \in Nat
         /\ (k + 1) * m = k * m + m
         /\ k <= c => (n + 1) * (1 + c * m) - k * m >= n * (1 + c * m) + 1
         /\ n <= most => n * (1 + c * m) <= most * (1 + c * m)
<1>1. \A x, y \in Nat : x * y \in Nat /\ (x + 1) * y = x * y + y
  OBVIOUS
<1>2. ASSUME NEW x \in Nat, NEW y \in Nat, NEW z \in Nat, x <= y PROVE x * z <= y * z
  <2>1. PICK d \in Nat : y = x + d
    <3>1. y - x \in Nat /\ y = x + (y - x)
      BY <1>2
    <3> QED BY <3>1
  <2>2. y * z = x * z + d * z /\ d * z \in Nat /\ x * z \in Nat
    BY <2>1
  <2> QED BY <2>2
<1>3. PICK u \in Nat : u = 1 + c * m
  <2>1. c * m \in Nat
    BY <1>1
  <2> QED BY <2>1
<1>4. /\ n * u \in Nat /\ most * u \in Nat /\ (n + 1) * u \in Nat /\ k * m \in Nat /\ (k + 1) * m \in Nat
      /\ (k + 1) * m = k * m + m /\ (n + 1) * u = n * u + u /\ c * m \in Nat
  BY <1>1
<1>5. k <= c => k * m <= c * m
  BY <1>2
<1>6. n <= most => n * u <= most * u
  BY <1>2
<1>7. k <= c => (n + 1) * u - k * m >= n * u + 1
  BY <1>3, <1>4, <1>5
<1> QED BY <1>3, <1>4, <1>6, <1>7

(* A bill of n requests and one more is a bill of n + 1.                     *)
LEMMA BillOfRequests ==
  ASSUME NEW p, Turns(p)!SizesAssumption, NEW b \in Turns(p)!Usage,
         NEW q \in p.responses \cup {Turns(p)!Zero}, NEW n \in Nat, NEW r \in p.responses,
         Turns(p)!TotalTokens(b) <= n * Turns(p)!TotalTokens(r)
  PROVE  \E w \in p.responses :
           Turns(p)!TotalTokens(Turns(p)!AddUsage(b, q)) <= (n + 1) * Turns(p)!TotalTokens(w)
<1>1. q \in Turns(p)!Usage /\ r \in Turns(p)!Usage
  BY DEF Turns!SizesAssumption, Turns!Usage, Turns!Zero
<1>2. /\ Turns(p)!TotalTokens(b) \in Nat /\ Turns(p)!TotalTokens(q) \in Nat /\ Turns(p)!TotalTokens(r) \in Nat
      /\ Turns(p)!TotalTokens(Turns(p)!AddUsage(b, q)) = Turns(p)!TotalTokens(b) + Turns(p)!TotalTokens(q)
  BY <1>1, Sums
<1>3. PICK x \in Nat, y \in Nat, z \in Nat :
        /\ x = Turns(p)!TotalTokens(b) /\ y = Turns(p)!TotalTokens(q) /\ z = Turns(p)!TotalTokens(r)
  BY <1>2
<1>4. \A a \in Nat : n * a \in Nat /\ (n + 1) * a = n * a + a
  OBVIOUS
<1>5. CASE y <= z
  <2>1. x + y <= (n + 1) * z
    BY <1>3, <1>4, <1>5
  <2> QED BY <1>2, <1>3, <2>1
<1>6. CASE ~(y <= z)
  <2>1. q \in p.responses
    <3>1. q \notin p.responses => y = 0
      BY <1>3 DEF Turns!TotalTokens, Turns!Zero
    <3> QED BY <1>6, <3>1
  <2>2. n * z <= n * y
    <3>1. PICK d \in Nat : y = z + d
      <4>1. y - z \in Nat /\ y = z + (y - z)
        BY <1>6
      <4> QED BY <4>1
    <3>2. n * y = n * z + n * d /\ n * d \in Nat /\ n * z \in Nat
      BY <3>1
    <3> QED BY <3>2
  <2>3. x + y <= (n + 1) * y
    BY <1>3, <1>4, <2>2
  <2> QED BY <1>2, <1>3, <2>1, <2>3
<1> QED BY <1>5, <1>6

(* The types of the frames and of the accounts.                             *)
LEMMA Frames ==
  ASSUME NEW p, Turns(p)!SizesAssumption, Turns(p)!TypeOK
  PROVE  /\ fr \in [{"turn", "sub"} -> Turns(p)!Frame]
         /\ fr["turn"] \in Turns(p)!Frame /\ fr["sub"] \in Turns(p)!Frame
         /\ clock \in Nat /\ billed \in Turns(p)!Usage
         /\ p.calls \in Nat /\ SubSteps \in Nat \ {0} /\ SearchTimeout \in Nat
BY DEF Turns!TypeOK, Turns!Level, Turns!SizesAssumption

LEMMA FrameFields ==
  ASSUME NEW p, NEW f \in Turns(p)!Frame
  PROVE  /\ f.pc \in Turns(p)!Points /\ f.steps \in Nat /\ f.used \in Turns(p)!Usage /\ f.startedAt \in Nat
         /\ f.calls \in Nat /\ f.sentAt \in Nat /\ f.limit \in Nat /\ f.toolsAt \in Nat
         /\ f.deadline \in Turns(p)!Limit
BY DEF Turns!Frame

LEMMA CountedType ==
  ASSUME NEW p, Turns(p)!BudgetAssumption, Turns(p)!SizesAssumption, p.budget.steps # Unlimited,
         NEW f \in Turns(p)!Frame, NEW s \in Turns(p)!Frame
  PROVE  /\ Turns(p)!CountedIn(f, s) \in Int
         /\ p.budget.steps \in Nat /\ p.calls \in Nat /\ SubSteps \in Nat
<1>1. p.budget.steps \in Nat /\ p.calls \in Nat /\ SubSteps \in Nat
  BY DEF Turns!BudgetAssumption, Turns!SizesAssumption, Turns!Limit, Turns!Unlimited, Unlimited
<1>2. f.steps \in Nat /\ f.calls \in Nat /\ s.steps \in Nat /\ f.pc \in Turns(p)!Points
  BY FrameFields
<1>3. /\ f.steps * (1 + p.calls * SubSteps) \in Nat /\ p.budget.steps * (1 + p.calls * SubSteps) \in Nat
      /\ f.calls * SubSteps \in Nat /\ (f.calls + 1) * SubSteps \in Nat
  BY <1>1, <1>2, Requests
<1>4. PICK a \in Nat, b \in Nat, c \in Nat, d \in Nat :
        /\ a = f.steps * (1 + p.calls * SubSteps) /\ b = p.budget.steps * (1 + p.calls * SubSteps)
        /\ c = f.calls * SubSteps /\ d = (f.calls + 1) * SubSteps
  BY <1>3
<1>5. /\ f.pc = "idle" => Turns(p)!CountedIn(f, s) = b
      /\ f.pc \in {"check", "stream"} => Turns(p)!CountedIn(f, s) = a
      /\ f.pc \in {"calls", "approval", "tool"} => Turns(p)!CountedIn(f, s) = a - c
      /\ f.pc = "task" => Turns(p)!CountedIn(f, s) = a - d + s.steps
  BY <1>4 DEF Turns!CountedIn, Turns!StepRequests
<1>6. Turns(p)!CountedIn(f, s) \in Int
  BY <1>2, <1>5 DEF Turns!Points
<1> QED BY <1>1, <1>6

(* A bill that stays or grows by one request stays within what is counted.   *)
LEMMA RequestedStays ==
  ASSUME NEW p, Turns(p)!Requested, billed' = billed, NEW x, NEW y,
         p.budget.steps # Unlimited =>
           /\ x \in Int /\ y \in Int /\ x <= y
           /\ Turns(p)!Counted = x /\ (Turns(p)!Counted)' = y
  PROVE  Turns(p)!Requested'
<1> SUFFICES ASSUME p.budget.steps # Unlimited
             PROVE  \E n \in 0 .. y, r \in p.responses :
                      Turns(p)!TotalTokens(billed') <= n * Turns(p)!TotalTokens(r)
  BY DEF Turns!Requested, Turns!Unlimited, Unlimited, Turns!TotalTokens
<1>1. PICK n \in 0 .. x, r \in p.responses :
        Turns(p)!TotalTokens(billed) <= n * Turns(p)!TotalTokens(r)
  BY DEF Turns!Requested, Turns!Unlimited, Unlimited
<1>2. n \in 0 .. y
  OBVIOUS
<1>3. Turns(p)!TotalTokens(billed') <= n * Turns(p)!TotalTokens(r)
  BY <1>1
<1> QED BY <1>2, <1>3

LEMMA RequestedGrows ==
  ASSUME NEW p, Turns(p)!SizesAssumption, billed \in Turns(p)!Usage, Turns(p)!Requested,
         NEW q \in p.responses \cup {Turns(p)!Zero}, Turns(p)!Bill(q), NEW x, NEW y,
         p.budget.steps # Unlimited =>
           /\ x \in Int /\ y \in Int /\ x + 1 <= y
           /\ Turns(p)!Counted = x /\ (Turns(p)!Counted)' = y
  PROVE  Turns(p)!Requested'
<1> SUFFICES ASSUME p.budget.steps # Unlimited
             PROVE  \E n \in 0 .. y, r \in p.responses :
                      Turns(p)!TotalTokens(billed') <= n * Turns(p)!TotalTokens(r)
  BY DEF Turns!Requested, Turns!Unlimited, Unlimited, Turns!TotalTokens
<1>1. PICK n \in 0 .. x, r \in p.responses :
        Turns(p)!TotalTokens(billed) <= n * Turns(p)!TotalTokens(r)
  BY DEF Turns!Requested, Turns!Unlimited, Unlimited
<1>2. n \in Nat /\ n + 1 \in 0 .. y
  OBVIOUS
<1>3. billed' = Turns(p)!AddUsage(billed, q)
  BY DEF Turns!Bill, Turns!AddUsage
<1>4. PICK w \in p.responses :
        Turns(p)!TotalTokens(Turns(p)!AddUsage(billed, q)) <= (n + 1) * Turns(p)!TotalTokens(w)
  BY <1>1, <1>2, BillOfRequests
<1>5. Turns(p)!TotalTokens(billed') <= (n + 1) * Turns(p)!TotalTokens(w)
  BY <1>3, <1>4
<1> QED BY <1>2, <1>5

(* What a request made under the ceilings adds to the bill.                 *)
LEMMA BillGrows ==
  ASSUME NEW p, Turns(p)!BudgetAssumption, Turns(p)!SizesAssumption, Turns(p)!TypeOK,
         Turns(p)!Underway, Turns(p)!Told, NEW l \in {"turn", "sub"}, fr[l].pc = "stream",
         NEW r \in p.responses \cup {Turns(p)!Zero}, Turns(p)!Bill(r)
  PROVE  /\ billed' = Turns(p)!AddUsage(billed, r) /\ billed' \in Turns(p)!Usage
         /\ billed.fresh <= billed'.fresh /\ billed.cached <= billed'.cached
         /\ Turns(p)!LosesNothing => l = "turn" /\ Turns(p)!WithinOneResponse(billed')
         /\ l = "turn" =>
              \A u \in p.responses \cup {Turns(p)!Zero} :
                Turns(p)!WithinOneResponse(Turns(p)!AddUsage(fr["turn"].used, u))
<1>1. PICK f \in Turns(p)!Frame : f = fr["turn"]
  BY Frames
<1>2. billed' = Turns(p)!AddUsage(billed, r) /\ r \in Turns(p)!Usage /\ billed \in Turns(p)!Usage
  BY Frames DEF Turns!Bill, Turns!AddUsage, Turns!SizesAssumption, Turns!Usage, Turns!Zero
<1>3. /\ billed' \in Turns(p)!Usage /\ billed.fresh <= billed'.fresh /\ billed.cached <= billed'.cached
  BY <1>2 DEF Turns!AddUsage, Turns!Usage
<1>4. Turns(p)!LosesNothing => l = "turn" /\ billed = f.used
  BY <1>1 DEF Turns!Underway, Turns!Told, Turns!LosesNothing
<1>5. ASSUME l = "turn", NEW u \in p.responses \cup {Turns(p)!Zero}
      PROVE  Turns(p)!WithinOneResponse(Turns(p)!AddUsage(f.used, u))
  <2>1. f.used \in Turns(p)!Usage /\ f.pc = "stream"
    BY <1>1, <1>5, FrameFields
  <2>2. /\ p.budget.spend # Unlimited => Prices # Unpriced
        /\ ~Turns(p)!Reached(p.budget.tokens, Turns(p)!TotalTokens(f.used))
        /\ ~(p.budget.spend # Unlimited /\ Turns(p)!Cost(f.used) >= p.budget.spend)
    BY <1>1, <2>1 DEF Turns!Underway, Turns!OverTokens, Turns!OverSpend, Turns!Ceiling,
       Turns!Unlimited, Unlimited
  <2>3. /\ Turns(p)!TotalTokens(f.used) \in Int /\ p.budget.tokens \in Int /\ p.budget.spend \in Int
        /\ p.budget.spend # Unlimited => Turns(p)!Cost(f.used) \in Int
    <3>1. Turns(p)!TotalTokens(f.used) \in Int
      BY <2>1, Sums
    <3>2. p.budget.tokens \in Int /\ p.budget.spend \in Int
      BY DEF Turns!BudgetAssumption, Turns!Limit, Turns!Unlimited
    <3>3. ASSUME p.budget.spend # Unlimited PROVE Turns(p)!Cost(f.used) \in Int
      <4>1. Prices \in Turns(p)!Usage
        BY <2>2, <3>3 DEF Turns!SizesAssumption
      <4> QED BY <2>1, <4>1, Costs
    <3> QED BY <3>1, <3>2, <3>3
  <2>4. /\ p.budget.tokens # Unlimited => Turns(p)!TotalTokens(f.used) < p.budget.tokens
        /\ p.budget.spend # Unlimited => Prices # Unpriced /\ Turns(p)!Cost(f.used) < p.budget.spend
    BY <2>2, <2>3 DEF Turns!Reached, Turns!Unlimited, Unlimited
  <2> QED BY <1>5, <2>1, <2>4, OneMoreResponse
<1>6. Turns(p)!LosesNothing => Turns(p)!WithinOneResponse(billed')
  <2>1. SUFFICES ASSUME Turns(p)!LosesNothing PROVE Turns(p)!WithinOneResponse(billed')
    OBVIOUS
  <2>2. Turns(p)!WithinOneResponse(Turns(p)!AddUsage(f.used, r))
    BY <1>4, <1>5, <2>1
  <2>3. Turns(p)!AddUsage(f.used, r) = billed'
    BY <1>2, <1>4, <2>1
  <2> QED BY <2>2, <2>3
<1> QED BY <1>1, <1>2, <1>3, <1>4, <1>5, <1>6

LEMMA BillNothing ==
  ASSUME NEW p, billed \in Turns(p)!Usage, billed' = billed
  PROVE  Turns(p)!Bill(Turns(p)!Zero)
BY DEF Turns!Bill, Turns!Zero, Turns!Usage

(* Where no frame changes, only time passes: the invariant stays.            *)
LEMMA NothingMoves ==
  ASSUME NEW p, Turns(p)!SizesAssumption, Turns(p)!BudgetInv, Turns(p)!TypeOK', fr' = fr, billed' = billed,
         stop' = stop \/ (fr["turn"].pc = "idle" /\ stop = "none" /\ stop' = "rejected"),
         clock' = clock \/ ( /\ clock' = clock + 1 /\ fr["turn"].pc \notin {"idle", "calls"}
                             /\ fr["turn"].pc = "tool" => clock < fr["turn"].deadline )
  PROVE  Turns(p)!BudgetInv'
<1>1. PICK f \in Turns(p)!Frame, s \in Turns(p)!Frame : f = fr["turn"] /\ s = fr["sub"]
  BY Frames DEF Turns!BudgetInv
<1>2. fr'["turn"] = f /\ fr'["sub"] = s
  BY <1>1
<1>3. Turns(p)!Underway'
  <2>1. Turns(p)!Underway
    BY DEF Turns!BudgetInv
  <2> QED BY <1>1, <2>1 DEF Turns!Underway, Turns!OverTokens, Turns!OverSpend, Turns!Ceiling,
             Turns!Reached, Turns!TotalTokens, Turns!Cost, Turns!Zero, Turns!Level
<1>4. Turns(p)!Told' /\ Turns(p)!CountWithinBudget' /\ Turns(p)!BillWithinBudget'
  BY DEF Turns!BudgetInv, Turns!Told, Turns!CountWithinBudget, Turns!BillWithinBudget,
         Turns!WithinOneResponse, Turns!TotalTokens, Turns!Cost, Turns!LosesNothing
<1>5. Turns(p)!Requested'
  BY DEF Turns!BudgetInv, Turns!Requested, Turns!Counted, Turns!CountedIn, Turns!TotalTokens
<1>6. Turns(p)!ExhaustedIsEarned'
  <2>1. Turns(p)!ExhaustedIsEarned /\ (f.pc # "idle" => stop = "none")
    BY <1>1 DEF Turns!BudgetInv, Turns!Underway
  <2>2. stop' \in {"max-steps", "budget-exhausted"} => stop' = stop /\ clock' = clock
    BY <1>1, <2>1
  <2> QED BY <2>1, <2>2 DEF Turns!ExhaustedIsEarned, Turns!TotalTokens, Turns!Cost,
       Turns!Reached, Turns!Elapsed
<1>7. Turns(p)!Limited'
  <2>1. Turns(p)!Limited
    BY DEF Turns!BudgetInv
  <2>2. CASE clock' = clock
    BY <2>1, <2>2 DEF Turns!Limited, Turns!MaxOf, Turns!AsksNobody, Turns!SearchTime
  <2>3. CASE clock' = clock + 1 /\ f.pc # "calls" /\ (f.pc = "tool" => clock < f.deadline)
    <3>1. clock \in Nat /\ f.deadline \in Int
      <4>1. f.deadline \in Turns(p)!Limit /\ clock \in Nat
        BY Frames, FrameFields DEF Turns!BudgetInv
      <4> QED BY <4>1 DEF Turns!Limit, Turns!Unlimited
    <3>2. f.pc = "tool" => clock' <= f.deadline
      BY <2>3, <3>1
    <3> QED BY <1>1, <1>2, <2>1, <2>3, <3>2 DEF Turns!Limited, Turns!MaxOf, Turns!AsksNobody, Turns!SearchTime
  <2> QED BY <1>1, <2>2, <2>3
<1> QED BY <1>3, <1>4, <1>5, <1>6, <1>7 DEF Turns!BudgetInv

(* A turn ends with a bill within its ceilings and for a reason that is true. *)
LEMMA TurnEnds ==
  ASSUME NEW p, Turns(p)!BudgetAssumption, Turns(p)!SizesAssumption, Turns(p)!BudgetInv, Turns(p)!TypeOK',
         NEW h \in Turns(p)!Frame, NEW reason, Turns(p)!End("turn", h, reason),
         fr["turn"].pc \in {"check", "stream", "calls"}, reason \notin {"none", "rejected"},
         NEW r \in p.responses \cup {Turns(p)!Zero}, Turns(p)!Bill(r),
         fr["turn"].pc # "stream" => billed' = billed,
         h.calls <= p.calls, p.budget.steps # Unlimited => h.steps <= p.budget.steps,
         Turns(p)!WithinOneResponse(h.used),
         h.used.fresh <= billed'.fresh, h.used.cached <= billed'.cached,
         reason = "max-steps" => Turns(p)!Reached(p.budget.steps, h.steps),
         reason = "budget-exhausted" =>
           \/ Turns(p)!Reached(p.budget.tokens, Turns(p)!TotalTokens(billed'))
           \/ Turns(p)!Reached(p.budget.wall, clock' - h.startedAt)
           \/ p.budget.spend # Unlimited /\ Turns(p)!Cost(billed') >= p.budget.spend
  PROVE  Turns(p)!BudgetInv'
<1>1. PICK f \in Turns(p)!Frame, s \in Turns(p)!Frame : f = fr["turn"] /\ s = fr["sub"]
  BY Frames DEF Turns!BudgetInv
<1>2. PICK g : g = [h EXCEPT !.pc = "idle"]
  OBVIOUS
<1>3. stop' = reason /\ fr' = [fr EXCEPT !["turn"] = g]
  BY <1>2 DEF Turns!End
<1>4. /\ g \in Turns(p)!Frame /\ g.pc = "idle" /\ g.steps = h.steps /\ g.startedAt = h.startedAt
      /\ g.calls = h.calls /\ g.used = h.used
  <2>1. g \in Turns(p)!Frame
    BY <1>2, FrameTypes, Zenon DEF Turns!Points
  <2> QED BY <1>2, <2>1 DEF Turns!Frame
<1>5. fr'["turn"] = g /\ fr'["sub"] = s
  BY <1>1, <1>3, Frames DEF Turns!BudgetInv
<1>6. /\ Turns(p)!TypeOK /\ Turns(p)!Underway /\ Turns(p)!Told /\ billed \in Turns(p)!Usage
      /\ Turns(p)!Requested /\ s.pc = "idle"
  BY <1>1, Frames DEF Turns!BudgetInv, Turns!Underway
<1>7. Turns(p)!Underway'
  <2>1. \A l \in {"turn", "sub"} :
          /\ fr'[l].calls <= p.calls /\ fr'[l].pc # "stream"
          /\ Turns(p)!Ceiling(l).steps # Unlimited => fr'[l].steps <= Turns(p)!Ceiling(l).steps
    <3>1. s.calls <= p.calls /\ s.steps <= SubSteps /\ SubSteps # Unlimited
      <4>1. SubSteps \in Nat
        BY Frames, <1>6
      <4> QED BY <1>1, <1>6, <4>1 DEF Turns!Underway, Turns!Ceiling, Turns!Level, Turns!Unlimited, Unlimited
    <3> QED BY <1>4, <1>5, <1>6, <3>1 DEF Turns!Ceiling
  <2> QED BY <1>3, <1>4, <1>5, <1>6, <2>1 DEF Turns!Underway, Turns!Ceiling, Turns!Level, Turns!Unlimited, Unlimited
<1>8. Turns(p)!Told' /\ Turns(p)!Limited'
  BY <1>4, <1>5 DEF Turns!Told, Turns!Limited
<1>9. Turns(p)!CountWithinBudget'
  BY <1>4, <1>5 DEF Turns!CountWithinBudget, Turns!WithinOneResponse, Turns!TotalTokens, Turns!Cost
<1>10. Turns(p)!LosesNothing => Turns(p)!WithinOneResponse(billed')
  <2>1. CASE f.pc = "stream"
    BY <1>1, <1>6, <2>1, BillGrows
  <2>2. CASE f.pc # "stream"
    BY <1>1, <2>2 DEF Turns!BudgetInv, Turns!BillWithinBudget, Turns!WithinOneResponse, Turns!TotalTokens, Turns!Cost
  <2> QED BY <2>1, <2>2
<1>11. Turns(p)!BillWithinBudget'
  BY <1>10 DEF Turns!BillWithinBudget, Turns!WithinOneResponse, Turns!TotalTokens, Turns!Cost, Turns!LosesNothing
<1>12. Turns(p)!Requested'
  <2> DEFINE x == Turns(p)!CountedIn(f, s)
             y == Turns(p)!CountedIn(g, s)
  <2>1. Turns(p)!Counted = x /\ (Turns(p)!Counted)' = y
    BY <1>1, <1>5 DEF Turns!Counted, Turns!CountedIn
  <2>2. ASSUME p.budget.steps # Unlimited
        PROVE  /\ x \in Int /\ y \in Int /\ x <= y /\ (f.pc = "stream" => x + 1 <= y)
    <3>1. x \in Int /\ y \in Int /\ p.budget.steps \in Nat /\ p.calls \in Nat /\ SubSteps \in Nat
      BY <1>4, <2>2, CountedType
    <3>2. f.steps \in Nat /\ f.calls \in Nat
      BY FrameFields
    <3>3. f.steps <= p.budget.steps /\ (f.pc = "stream" => f.steps < p.budget.steps)
      <4>1. /\ f.steps <= p.budget.steps
            /\ f.pc = "stream" => ~Turns(p)!Reached(p.budget.steps, f.steps)
        BY <1>1, <1>6, <2>2 DEF Turns!Underway, Turns!Ceiling, Turns!Level, Turns!Unlimited, Unlimited
      <4> QED BY <2>2, <3>1, <3>2, <4>1 DEF Turns!Reached, Turns!Unlimited, Unlimited
    <3>4. PICK a \in Nat, b \in Nat, c \in Nat :
            /\ a = f.steps * (1 + p.calls * SubSteps) /\ b = p.budget.steps * (1 + p.calls * SubSteps)
            /\ c = f.calls * SubSteps
      BY <3>1, <3>2, Requests
    <3>5. a <= b
      BY <3>1, <3>2, <3>3, <3>4, Requests
    <3>6. f.pc = "stream" => a + 1 <= b
      <4>1. f.steps + 1 \in Nat /\ (f.pc = "stream" => f.steps + 1 <= p.budget.steps)
        BY <3>1, <3>2, <3>3
      <4>2. f.pc = "stream" => (f.steps + 1) * (1 + p.calls * SubSteps) <= b
        BY <3>1, <3>4, <4>1, Requests
      <4>3. (f.steps + 1) * (1 + p.calls * SubSteps) - 0 * SubSteps >= a + 1
        BY <3>1, <3>2, <3>4, Requests
      <4>4. 0 * SubSteps = 0 /\ (f.steps + 1) * (1 + p.calls * SubSteps) \in Int
        BY <3>1, <3>2, Requests
      <4> QED BY <4>2, <4>3, <4>4
    <3>7. y = b /\ (f.pc \in {"check", "stream"} => x = a) /\ (f.pc = "calls" => x = a - c)
      BY <1>4, <3>4 DEF Turns!CountedIn, Turns!StepRequests
    <3> QED BY <1>1, <3>1, <3>5, <3>6, <3>7
  <2> HIDE DEF x, y
  <2>3. CASE f.pc = "stream"
    <3>1. p.budget.steps # Unlimited =>
            /\ x \in Int /\ y \in Int /\ x + 1 <= y /\ Turns(p)!Counted = x /\ (Turns(p)!Counted)' = y
      BY <2>1, <2>2, <2>3
    <3> QED BY <1>6, <3>1, RequestedGrows
  <2>4. CASE f.pc # "stream"
    <3>1. p.budget.steps # Unlimited =>
            /\ x \in Int /\ y \in Int /\ x <= y /\ Turns(p)!Counted = x /\ (Turns(p)!Counted)' = y
      BY <2>1, <2>2
    <3> QED BY <1>1, <1>6, <2>4, <3>1, RequestedStays
  <2> QED BY <2>3, <2>4
<1>13. Turns(p)!ExhaustedIsEarned'
  BY <1>3, <1>4, <1>5
     DEF Turns!ExhaustedIsEarned, Turns!Reached, Turns!Elapsed, Turns!Unlimited, Unlimited,
         Turns!TotalTokens, Turns!Cost
<1> QED BY <1>7, <1>8, <1>9, <1>11, <1>12, <1>13 DEF Turns!BudgetInv

(* A turn goes on with what it was told, and is told no more than is billed. *)
LEMMA TurnGoesOn ==
  ASSUME NEW p, Turns(p)!BudgetAssumption, Turns(p)!SizesAssumption, Turns(p)!BudgetInv, Turns(p)!TypeOK',
         NEW g \in Turns(p)!Frame, fr' = [fr EXCEPT !["turn"] = g], fr["turn"].pc # "task",
         g.pc \notin {"idle", "task"}, stop' = "none",
         p.budget.spend # Unlimited => Prices # Unpriced,
         g.pc = "stream" =>
           /\ ~Turns(p)!Reached(p.budget.tokens, Turns(p)!TotalTokens(g.used))
           /\ ~(p.budget.spend # Unlimited /\ Turns(p)!Cost(g.used) >= p.budget.spend)
           /\ ~Turns(p)!Reached(p.budget.steps, g.steps),
         g.calls <= p.calls, p.budget.steps # Unlimited => g.steps <= p.budget.steps,
         Turns(p)!WithinOneResponse(g.used), Turns(p)!LosesNothing => billed' = g.used,
         g.used.fresh <= billed'.fresh, g.used.cached <= billed'.cached,
         Turns(p)!Requested', Turns(p)!Limited'
  PROVE  Turns(p)!BudgetInv'
<1>1. PICK s \in Turns(p)!Frame : s = fr["sub"]
  BY Frames DEF Turns!BudgetInv
<1>2. fr'["turn"] = g /\ fr'["sub"] = s
  BY <1>1, Frames DEF Turns!BudgetInv
<1>3. Turns(p)!Underway /\ Turns(p)!TypeOK /\ s.pc = "idle"
  BY <1>1 DEF Turns!BudgetInv, Turns!Underway
<1>4. Turns(p)!Underway'
  <2>1. s.calls <= p.calls /\ s.steps <= SubSteps /\ SubSteps # Unlimited
    <3>1. SubSteps \in Nat
      BY <1>3, Frames
    <3> QED BY <1>1, <1>3, <3>1 DEF Turns!Underway, Turns!Ceiling, Turns!Level, Turns!Unlimited, Unlimited
  <2>2. \A l \in {"turn", "sub"} :
          /\ fr'[l].calls <= p.calls
          /\ fr'[l].pc = "stream" => ~Turns(p)!Reached(Turns(p)!Ceiling(l).steps, fr'[l].steps)
          /\ Turns(p)!Ceiling(l).steps # Unlimited => fr'[l].steps <= Turns(p)!Ceiling(l).steps
    BY <1>2, <1>3, <2>1 DEF Turns!Ceiling
  <2>3. /\ fr'["turn"].pc = "stream" => ~(Turns(p)!OverTokens("turn"))' /\ ~(Turns(p)!OverSpend("turn"))'
    BY <1>2 DEF Turns!OverTokens, Turns!OverSpend, Turns!Ceiling, Turns!Reached, Turns!TotalTokens,
       Turns!Cost, Turns!Unlimited, Unlimited
  <2> QED BY <1>2, <1>3, <2>2, <2>3 DEF Turns!Underway, Turns!Ceiling, Turns!Level, Turns!Reached,
             Turns!Unlimited, Unlimited
<1>5. Turns(p)!Told'
  BY <1>2 DEF Turns!Told, Turns!LosesNothing
<1>6. Turns(p)!CountWithinBudget' /\ Turns(p)!BillWithinBudget'
  BY <1>2 DEF Turns!CountWithinBudget, Turns!BillWithinBudget, Turns!WithinOneResponse,
     Turns!TotalTokens, Turns!Cost, Turns!LosesNothing
<1>7. Turns(p)!ExhaustedIsEarned'
  BY DEF Turns!ExhaustedIsEarned
<1> QED BY <1>4, <1>5, <1>6, <1>7 DEF Turns!BudgetInv

(* A subagent moves, or is over and its call answered: its requests are on    *)
(* the bill and not in what the turn was told.                              *)
LEMMA SubMoves ==
  ASSUME NEW p, Turns(p)!BudgetAssumption, Turns(p)!SizesAssumption, Turns(p)!BudgetInv, Turns(p)!TypeOK',
         NEW f \in Turns(p)!Frame, NEW s \in Turns(p)!Frame, fr["turn"] = f, fr["sub"] = s,
         NEW g \in Turns(p)!Frame, NEW z \in Turns(p)!Frame, fr'["turn"] = g, fr'["sub"] = z,
         f.pc = "task", stop' = stop,
         z.pc # "idle" => g = f,
         z.pc = "idle" => g = [f EXCEPT !.pc = "calls"],
         z.calls <= p.calls, z.steps <= SubSteps, z.pc = "stream" => z.steps < SubSteps,
         NEW r \in p.responses \cup {Turns(p)!Zero}, Turns(p)!Bill(r),
         s.pc # "stream" => billed' = billed /\ z.steps = s.steps,
         s.pc = "stream" /\ z.pc # "idle" => z.steps = s.steps + 1
  PROVE  Turns(p)!BudgetInv'
<1>1. /\ Turns(p)!TypeOK /\ Turns(p)!Underway /\ Turns(p)!Told /\ Turns(p)!Requested
      /\ billed \in Turns(p)!Usage /\ stop = "none" /\ "task" \in p.tools /\ ~Turns(p)!LosesNothing
      /\ SubSteps \in Nat
  BY Frames DEF Turns!BudgetInv, Turns!Underway, Turns!LosesNothing
<1>2. /\ g.pc = IF z.pc = "idle" THEN "calls" ELSE "task"
      /\ g.steps = f.steps /\ g.used = f.used /\ g.calls = f.calls /\ g.startedAt = f.startedAt
  BY DEF Turns!Frame
<1>3. billed.fresh <= billed'.fresh /\ billed.cached <= billed'.cached
  <2>1. CASE s.pc = "stream"
    BY <1>1, <2>1, BillGrows
  <2>2. CASE s.pc # "stream"
    BY <1>1, <2>2 DEF Turns!Usage
  <2> QED BY <2>1, <2>2
<1>4. Turns(p)!Underway'
  <2>1. f.calls <= p.calls /\ (p.budget.steps # Unlimited => f.steps <= p.budget.steps)
    BY <1>1 DEF Turns!Underway, Turns!Ceiling, Turns!Level, Turns!Unlimited, Unlimited
  <2>2. \A l \in {"turn", "sub"} :
          /\ fr'[l].calls <= p.calls
          /\ fr'[l].pc = "stream" => ~Turns(p)!Reached(Turns(p)!Ceiling(l).steps, fr'[l].steps)
          /\ Turns(p)!Ceiling(l).steps # Unlimited => fr'[l].steps <= Turns(p)!Ceiling(l).steps
    <3>1. z.steps \in Nat
      BY FrameFields
    <3> QED BY <1>1, <1>2, <2>1, <3>1 DEF Turns!Ceiling, Turns!Reached
  <2>3. p.budget.spend # Unlimited => Prices # Unpriced
    BY <1>1 DEF Turns!Underway, Turns!Unlimited, Unlimited
  <2> QED BY <1>1, <1>2, <2>2, <2>3 DEF Turns!Underway, Turns!Ceiling, Turns!Level, Turns!Reached,
             Turns!Unlimited, Unlimited
<1>5. Turns(p)!Told'
  <2>1. /\ f.used.fresh \in Nat /\ f.used.cached \in Nat /\ billed.fresh \in Nat /\ billed.cached \in Nat
        /\ billed'.fresh \in Nat /\ billed'.cached \in Nat
    BY <1>1, FrameFields DEF Turns!Usage, Turns!TypeOK
  <2>2. f.used.fresh <= billed.fresh /\ f.used.cached <= billed.cached
    BY <1>1 DEF Turns!Told
  <2>3. f.used.fresh <= billed'.fresh /\ f.used.cached <= billed'.cached
    BY <1>3, <2>1, <2>2
  <2> QED BY <1>1, <1>2, <2>3 DEF Turns!Told, Turns!LosesNothing
<1>6. Turns(p)!CountWithinBudget' /\ Turns(p)!BillWithinBudget' /\ Turns(p)!ExhaustedIsEarned'
  BY <1>1, <1>2 DEF Turns!BudgetInv, Turns!CountWithinBudget, Turns!BillWithinBudget, Turns!WithinOneResponse,
     Turns!TotalTokens, Turns!Cost, Turns!LosesNothing, Turns!ExhaustedIsEarned
<1>7. Turns(p)!Limited'
  BY <1>1 DEF Turns!Limited, Turns!AsksNobody
<1>8. Turns(p)!Requested'
  <2> DEFINE x == Turns(p)!CountedIn(f, s)
             y == Turns(p)!CountedIn(g, z)
  <2>1. Turns(p)!Counted = x /\ (Turns(p)!Counted)' = y
    BY DEF Turns!Counted, Turns!CountedIn
  <2>2. ASSUME p.budget.steps # Unlimited
        PROVE  /\ x \in Int /\ y \in Int /\ x <= y /\ (s.pc = "stream" => x + 1 <= y)
    <3>1. x \in Int /\ y \in Int /\ p.calls \in Nat /\ SubSteps \in Nat
      BY <2>2, CountedType
    <3>2. f.steps \in Nat /\ f.calls \in Nat /\ s.steps \in Nat /\ z.steps \in Nat
      BY FrameFields
    <3>3. s.steps <= SubSteps /\ (s.pc = "stream" => s.steps < SubSteps)
      <4>1. /\ s.steps <= SubSteps
            /\ s.pc = "stream" => ~(s.steps >= SubSteps)
        BY <1>1 DEF Turns!Underway, Turns!Ceiling, Turns!Level, Turns!Reached, Turns!Unlimited
      <4> QED BY <3>1, <3>2, <4>1
    <3>4. PICK a \in Nat, b \in Nat, c \in Nat :
            /\ a = f.steps * (1 + p.calls * SubSteps) /\ b = (f.calls + 1) * SubSteps
            /\ c = f.calls * SubSteps
      BY <3>1, <3>2, Requests
    <3>5. b = c + SubSteps
      BY <3>1, <3>2, <3>4, Requests
    <3>6. x = a - b + s.steps
      BY <3>4 DEF Turns!CountedIn, Turns!StepRequests
    <3>7. CASE z.pc = "idle"
      <4>1. y = a - c
        BY <1>2, <3>4, <3>7 DEF Turns!CountedIn, Turns!StepRequests
      <4> HIDE DEF x, y
      <4> QED BY <3>1, <3>2, <3>3, <3>5, <3>6, <4>1
    <3>8. CASE z.pc # "idle"
      <4>1. y = a - b + z.steps
        BY <1>2, <3>4, <3>8 DEF Turns!CountedIn, Turns!StepRequests
      <4>2. z.steps >= s.steps /\ (s.pc = "stream" => z.steps = s.steps + 1)
        BY <3>2, <3>8
      <4> HIDE DEF x, y
      <4> QED BY <3>1, <3>2, <3>6, <4>1, <4>2
    <3> QED BY <3>7, <3>8
  <2> HIDE DEF x, y
  <2>3. CASE s.pc = "stream"
    <3>1. p.budget.steps # Unlimited =>
            /\ x \in Int /\ y \in Int /\ x + 1 <= y /\ Turns(p)!Counted = x /\ (Turns(p)!Counted)' = y
      BY <2>1, <2>2, <2>3
    <3> QED BY <1>1, <3>1, RequestedGrows
  <2>4. CASE s.pc # "stream"
    <3>1. p.budget.steps # Unlimited =>
            /\ x \in Int /\ y \in Int /\ x <= y /\ Turns(p)!Counted = x /\ (Turns(p)!Counted)' = y
      BY <2>1, <2>2
    <3> QED BY <1>1, <2>4, <3>1, RequestedStays
  <2> QED BY <2>3, <2>4
<1> QED BY <1>4, <1>5, <1>6, <1>7, <1>8 DEF Turns!BudgetInv

(* What c calls of a step that may take m each have taken when k are left.   *)
LEMMA CallsTake ==
  ASSUME NEW c \in Nat, NEW k \in Nat, NEW m \in Nat, k <= c
  PROVE  (c - k) * m \in Nat /\ (k > 0 => (c - (k - 1)) * m = (c - k) * m + m)
<1>1. PICK d \in Nat : d = c - k
  OBVIOUS
<1>2. d * m \in Nat /\ (d + 1) * m = d * m + m
  OBVIOUS
<1>3. k > 0 => c - (k - 1) = d + 1
  BY <1>1
<1> QED BY <1>1, <1>2, <1>3

(* A call of the turn is dispatched: it ends by its own limit after those    *)
(* before it.                                                               *)
LEMMA LimitedDispatch ==
  ASSUME NEW p, Turns(p)!SizesAssumption, Turns(p)!BudgetInv,
         NEW f \in Turns(p)!Frame, NEW g \in Turns(p)!Frame, fr["turn"] = f, fr'["turn"] = g,
         f.pc = "calls", f.calls > 0, g.calls = f.calls - 1, clock' = clock,
         g.limit = f.limit, g.toolsAt = f.toolsAt, g.startedAt = f.startedAt,
         NEW w \in Nat, w = f.limit \/ (w = SearchTimeout /\ "search" \in p.tools),
         \/ g.pc = "calls"
         \/ g.pc = "tool" /\ g.deadline = clock + w
         \/ g.pc = "approval" /\ "asked" \in p.tools
  PROVE  Turns(p)!Limited'
<1> SUFFICES ASSUME Turns(p)!AsksNobody PROVE Turns(p)!Limited'
  BY DEF Turns!Limited, Turns!AsksNobody
<1>1. /\ f.limit \in Nat /\ f.toolsAt \in Nat /\ f.calls \in Nat /\ clock \in Nat
      /\ p.calls \in Nat /\ SearchTimeout \in Nat /\ f.calls <= p.calls
  BY FrameFields, Frames DEF Turns!BudgetInv, Turns!Underway, Turns!Level
<1>2. PICK m \in Nat : m = f.limit + Turns(p)!SearchTime
  BY <1>1 DEF Turns!SearchTime
<1>3. w <= m
  BY <1>1, <1>2 DEF Turns!SearchTime
<1>4. PICK a \in Nat : a = (p.calls - f.calls) * m /\ (p.calls - g.calls) * m = a + m
  <2>1. /\ (p.calls - f.calls) * m \in Nat
        /\ (p.calls - (f.calls - 1)) * m = (p.calls - f.calls) * m + m
    BY <1>1, CallsTake
  <2> QED BY <2>1
<1>5. clock <= f.toolsAt + a
  BY <1>2, <1>4 DEF Turns!BudgetInv, Turns!Limited
<1>6. g.pc # "approval" /\ g.calls < p.calls
  BY <1>1 DEF Turns!AsksNobody
<1>7. p.budget.wall # Unlimited =>
        g.toolsAt + g.limit <= Turns(p)!MaxOf(g.startedAt + p.budget.wall, g.toolsAt)
  BY DEF Turns!BudgetInv, Turns!Limited, Turns!Unlimited, Unlimited
<1>8. g.pc = "calls" => clock' <= g.toolsAt + (p.calls - g.calls) * (g.limit + Turns(p)!SearchTime)
  BY <1>1, <1>2, <1>4, <1>5
<1>9. g.pc = "tool" =>
        /\ clock' <= g.deadline
        /\ g.deadline <= g.toolsAt + (p.calls - g.calls) * (g.limit + Turns(p)!SearchTime)
  <2>1. ASSUME g.pc = "tool" PROVE clock <= clock + w /\ clock + w <= f.toolsAt + (a + m)
    BY <1>1, <1>2, <1>3, <1>5
  <2> QED BY <1>2, <1>4, <2>1
<1> QED BY <1>6, <1>7, <1>8, <1>9 DEF Turns!Limited, Turns!MaxOf, Turns!SearchTime, Turns!AsksNobody,
           Turns!Unlimited, Unlimited

(* The tool phase of the turn begins, at most all the calls left.            *)
LEMMA LimitedBegins ==
  ASSUME NEW p, Turns(p)!BudgetAssumption, Turns(p)!SizesAssumption, Turns(p)!BudgetInv,
         NEW g \in Turns(p)!Frame, fr'["turn"] = g, g.pc = "calls", g.calls <= p.calls, clock' = clock,
         g.toolsAt = clock, g.startedAt = fr["turn"].startedAt, g.limit = Turns(p)!ToolLimit("turn")
  PROVE  Turns(p)!Limited'
<1>1. /\ g.limit \in Nat /\ g.calls \in Nat /\ g.startedAt \in Nat /\ clock \in Nat
      /\ p.calls \in Nat /\ SearchTimeout \in Nat /\ ToolTimeout \in Nat
  BY FrameFields, Frames DEF Turns!BudgetInv, Turns!SizesAssumption
<1>2. clock <= clock + (p.calls - g.calls) * (g.limit + Turns(p)!SearchTime)
  <2>1. PICK m \in Nat : m = g.limit + Turns(p)!SearchTime
    BY <1>1 DEF Turns!SearchTime
  <2>2. (p.calls - g.calls) * m \in Nat
    BY <1>1, CallsTake
  <2> QED BY <1>1, <2>1, <2>2
<1>3. p.budget.wall # Unlimited => clock + g.limit <= Turns(p)!MaxOf(g.startedAt + p.budget.wall, clock)
  <2>1. p.budget.wall # Unlimited => p.budget.wall \in Nat
    BY DEF Turns!BudgetAssumption, Turns!Limit, Turns!Unlimited, Unlimited
  <2>2. p.budget.wall # Unlimited => g.limit = Turns(p)!MinOf(ToolTimeout,
          Turns(p)!MaxOf(0, p.budget.wall - (clock - g.startedAt)))
    BY DEF Turns!ToolLimit, Turns!Ceiling, Turns!Elapsed, Turns!Unlimited, Unlimited
  <2> QED BY <1>1, <2>1, <2>2, LimitEnds
<1> QED BY <1>2, <1>3 DEF Turns!Limited, Turns!MaxOf, Turns!SearchTime, Turns!AsksNobody,
           Turns!Unlimited, Unlimited

(* The turn's requests, as its own level goes on.                           *)
LEMMA TurnRequested ==
  ASSUME NEW p, Turns(p)!BudgetAssumption, Turns(p)!SizesAssumption, Turns(p)!BudgetInv,
         NEW f \in Turns(p)!Frame, NEW g \in Turns(p)!Frame, fr["turn"] = f, fr'["turn"] = g,
         fr'["sub"] = fr["sub"],
         NEW r \in p.responses \cup {Turns(p)!Zero}, Turns(p)!Bill(r),
         f.pc = "stream" => g.pc = "calls" /\ g.steps = f.steps + 1 /\ g.calls <= p.calls,
         f.pc # "stream" => billed' = billed /\ g.steps = f.steps,
         \/ f.pc = "stream"
         \/ f.pc = "check" /\ g.pc = "stream"
         \/ f.pc = "calls" /\ f.calls = 0 /\ g.pc = "check"
         \/ /\ f.pc \in {"calls", "approval", "tool"} /\ g.pc \in {"calls", "approval", "tool"}
            /\ g.calls = f.calls \/ (f.calls > 0 /\ g.calls = f.calls - 1)
  PROVE  Turns(p)!Requested'
<1>1. PICK s \in Turns(p)!Frame : s = fr["sub"]
  BY Frames DEF Turns!BudgetInv
<1>2. Turns(p)!Requested /\ billed \in Turns(p)!Usage
  BY Frames DEF Turns!BudgetInv
<1> DEFINE x == Turns(p)!CountedIn(f, s)
           y == Turns(p)!CountedIn(g, s)
<1>3. Turns(p)!Counted = x /\ (Turns(p)!Counted)' = y
  BY <1>1 DEF Turns!Counted, Turns!CountedIn
<1>4. ASSUME p.budget.steps # Unlimited
      PROVE  /\ x \in Int /\ y \in Int /\ x <= y /\ (f.pc = "stream" => x + 1 <= y)
  <2>1. x \in Int /\ y \in Int /\ p.calls \in Nat /\ SubSteps \in Nat
    BY <1>4, CountedType
  <2>2. f.steps \in Nat /\ f.calls \in Nat /\ g.steps \in Nat /\ g.calls \in Nat
    BY FrameFields
  <2>3. PICK a \in Nat, c \in Nat, d \in Nat :
          /\ a = f.steps * (1 + p.calls * SubSteps) /\ c = f.calls * SubSteps /\ d = g.calls * SubSteps
    BY <2>1, <2>2, Requests
  <2>4. CASE f.pc = "stream"
    <3>1. PICK b \in Nat : b = (f.steps + 1) * (1 + p.calls * SubSteps)
      BY <2>1, <2>2, Requests
    <3>2. b - d >= a + 1
      BY <2>1, <2>2, <2>3, <2>4, <3>1, Requests
    <3>3. x = a /\ y = b - d
      BY <2>3, <2>4, <3>1 DEF Turns!CountedIn, Turns!StepRequests
    <3> HIDE DEF x, y
    <3> QED BY <2>1, <3>2, <3>3
  <2>5. CASE f.pc = "check" /\ g.pc = "stream"
    BY <2>1, <2>5 DEF Turns!CountedIn, Turns!StepRequests
  <2>6. CASE f.pc = "calls" /\ f.calls = 0 /\ g.pc = "check"
    <3>1. c = 0
      BY <2>1, <2>3, <2>6
    <3>2. x = a - c /\ y = a
      BY <2>3, <2>6 DEF Turns!CountedIn, Turns!StepRequests
    <3> HIDE DEF x, y
    <3> QED BY <2>6, <3>1, <3>2
  <2>7. CASE /\ f.pc \in {"calls", "approval", "tool"} /\ g.pc \in {"calls", "approval", "tool"}
             /\ g.calls = f.calls \/ (f.calls > 0 /\ g.calls = f.calls - 1)
    <3>1. d <= c
      <4>1. CASE g.calls = f.calls
        BY <2>3, <4>1
      <4>2. CASE f.calls > 0 /\ g.calls = f.calls - 1
        <5>1. f.calls = g.calls + 1
          BY <2>2, <4>2
        <5>2. c = d + SubSteps
          BY <2>1, <2>2, <2>3, <5>1, Requests
        <5> QED BY <2>1, <5>2
      <4> QED BY <2>7, <4>1, <4>2
    <3>2. x = a - c /\ y = a - d
      BY <2>3, <2>7 DEF Turns!CountedIn, Turns!StepRequests
    <3> HIDE DEF x, y
    <3> QED BY <2>7, <3>1, <3>2
  <2> QED BY <2>4, <2>5, <2>6, <2>7
<1> HIDE DEF x, y
<1>5. CASE f.pc = "stream"
  <2>1. p.budget.steps # Unlimited =>
          /\ x \in Int /\ y \in Int /\ x + 1 <= y /\ Turns(p)!Counted = x /\ (Turns(p)!Counted)' = y
    BY <1>3, <1>4, <1>5
  <2> QED BY <1>2, <2>1, RequestedGrows
<1>6. CASE f.pc # "stream"
  <2>1. p.budget.steps # Unlimited =>
          /\ x \in Int /\ y \in Int /\ x <= y /\ Turns(p)!Counted = x /\ (Turns(p)!Counted)' = y
    BY <1>3, <1>4
  <2> QED BY <1>2, <1>6, <2>1, RequestedStays
<1> QED BY <1>5, <1>6

(* Level l's turn is over, within its ceilings.                             *)
LEMMA LevelEnds ==
  ASSUME NEW p, Turns(p)!BudgetAssumption, Turns(p)!SizesAssumption, Turns(p)!BudgetInv, Turns(p)!TypeOK',
         NEW l \in {"turn", "sub"}, NEW e \in Turns(p)!Frame, fr[l] = e,
         NEW h \in Turns(p)!Frame, NEW reason, Turns(p)!End(l, h, reason),
         e.pc \in {"check", "stream", "calls"}, reason \notin {"none", "rejected"},
         NEW r \in p.responses \cup {Turns(p)!Zero}, Turns(p)!Bill(r),
         h.calls <= p.calls, Turns(p)!Ceiling(l).steps # Unlimited => h.steps <= Turns(p)!Ceiling(l).steps,
         e.pc # "stream" => billed' = billed /\ h.steps = e.steps,
         l = "turn" =>
           /\ Turns(p)!WithinOneResponse(h.used)
           /\ h.used.fresh <= billed'.fresh /\ h.used.cached <= billed'.cached
           /\ reason = "max-steps" => Turns(p)!Reached(p.budget.steps, h.steps)
           /\ reason = "budget-exhausted" =>
                \/ Turns(p)!Reached(p.budget.tokens, Turns(p)!TotalTokens(billed'))
                \/ Turns(p)!Reached(p.budget.wall, clock' - h.startedAt)
                \/ p.budget.spend # Unlimited /\ Turns(p)!Cost(billed') >= p.budget.spend
  PROVE  Turns(p)!BudgetInv'
<1>1. CASE l = "turn"
  <2>1. p.budget.steps # Unlimited => h.steps <= p.budget.steps
    BY <1>1 DEF Turns!Ceiling
  <2>2. /\ Turns(p)!End("turn", h, reason) /\ fr["turn"].pc \in {"check", "stream", "calls"}
        /\ fr["turn"].pc # "stream" => billed' = billed
    BY <1>1
  <2> QED BY <1>1, <2>1, <2>2, TurnEnds
<1>2. CASE l = "sub"
  <2>1. PICK f \in Turns(p)!Frame : f = fr["turn"] /\ f.pc = "task"
    BY <1>2, Frames DEF Turns!BudgetInv, Turns!Underway
  <2>2. PICK z : z = [h EXCEPT !.pc = "idle"]
    OBVIOUS
  <2>3. PICK g : g = [f EXCEPT !.pc = "calls"]
    OBVIOUS
  <2>4. z \in Turns(p)!Frame /\ g \in Turns(p)!Frame
    BY <2>2, <2>3, FrameTypes, Zenon DEF Turns!Points
  <2>5. z.pc = "idle" /\ z.steps = h.steps /\ z.calls = h.calls
    BY <2>2 DEF Turns!Frame
  <2>6. fr \in [{"turn", "sub"} -> Turns(p)!Frame]
    BY Frames DEF Turns!BudgetInv
  <2>7. fr' = [fr EXCEPT !["sub"] = z, !["turn"] = g] /\ stop' = stop
    BY <1>2, <2>1, <2>2, <2>3, <2>6 DEF Turns!End
  <2>8. fr'["sub"] = z /\ fr'["turn"] = g
    BY <2>6, <2>7
  <2>9. z.steps <= SubSteps
    <3>1. SubSteps \in Nat
      BY Frames DEF Turns!BudgetInv
    <3> QED BY <1>2, <2>5, <3>1 DEF Turns!Ceiling, Unlimited
  <2>10. /\ fr["turn"] = f /\ fr["sub"] = e /\ f.pc = "task" /\ stop' = stop
         /\ z.pc # "idle" => g = f
         /\ z.pc = "idle" => g = [f EXCEPT !.pc = "calls"]
         /\ z.calls <= p.calls /\ z.steps <= SubSteps /\ (z.pc = "stream" => z.steps < SubSteps)
         /\ e.pc # "stream" => billed' = billed /\ z.steps = e.steps
         /\ e.pc = "stream" /\ z.pc # "idle" => z.steps = e.steps + 1
    BY <1>2, <2>1, <2>3, <2>5, <2>7, <2>9
  <2> QED BY <2>4, <2>8, <2>10, SubMoves
<1> QED BY <1>1, <1>2

(* Level l's turn goes on.                                                  *)
LEMMA LevelGoesOn ==
  ASSUME NEW p, Turns(p)!BudgetAssumption, Turns(p)!SizesAssumption, Turns(p)!BudgetInv, Turns(p)!TypeOK',
         NEW l \in {"turn", "sub"}, NEW e \in Turns(p)!Frame, fr[l] = e,
         NEW g \in Turns(p)!Frame, fr' = [fr EXCEPT ![l] = g], stop' = stop,
         NEW r \in p.responses \cup {Turns(p)!Zero}, Turns(p)!Bill(r),
         g.pc \notin {"idle", "task"}, g.calls <= p.calls,
         e.pc = "stream" =>
           /\ g.pc = "calls" /\ g.steps = e.steps + 1
           /\ l = "turn" => /\ Turns(p)!WithinOneResponse(g.used)
                            /\ Turns(p)!LosesNothing => billed' = g.used
                            /\ g.used.fresh <= billed'.fresh /\ g.used.cached <= billed'.cached,
         e.pc # "stream" => billed' = billed /\ g.steps = e.steps /\ g.used = e.used,
         \/ e.pc = "stream"
         \/ e.pc = "check" /\ g.pc = "stream"
         \/ e.pc = "calls" /\ e.calls = 0 /\ g.pc = "check"
         \/ /\ e.pc \in {"calls", "approval", "tool"} /\ g.pc \in {"calls", "approval", "tool"}
            /\ g.calls = e.calls \/ (e.calls > 0 /\ g.calls = e.calls - 1),
         g.pc = "stream" => ~Turns(p)!OverTokens(l) /\ ~Turns(p)!OverSpend(l)
                            /\ ~Turns(p)!Reached(Turns(p)!Ceiling(l).steps, e.steps),
         l = "turn" => Turns(p)!Limited'
  PROVE  Turns(p)!BudgetInv'
<1>1. fr \in [{"turn", "sub"} -> Turns(p)!Frame] /\ billed \in Turns(p)!Usage
  BY Frames DEF Turns!BudgetInv
<1>2. Turns(p)!Underway /\ Turns(p)!Told
  BY DEF Turns!BudgetInv
<1>3. e.steps \in Nat /\ SubSteps \in Nat /\ Turns(p)!Ceiling(l).steps \in Nat \cup {-1}
  BY FrameFields, Frames DEF Turns!BudgetInv, Turns!Ceiling, Turns!BudgetAssumption, Turns!Limit, Turns!Unlimited
<1>4. /\ Turns(p)!Ceiling(l).steps # Unlimited => e.steps <= Turns(p)!Ceiling(l).steps
      /\ e.pc = "stream" /\ Turns(p)!Ceiling(l).steps # Unlimited => e.steps < Turns(p)!Ceiling(l).steps
  BY <1>2, <1>3 DEF Turns!Underway, Turns!Level, Turns!Reached, Turns!Unlimited, Unlimited
<1>5. Turns(p)!Ceiling(l).steps # Unlimited => g.steps <= Turns(p)!Ceiling(l).steps
  BY <1>3, <1>4 DEF Unlimited
<1>6. e.pc \notin {"idle", "task"}
  OBVIOUS
<1>7. CASE l = "turn"
  <2>1. fr["turn"] = e /\ fr'["turn"] = g /\ fr'["sub"] = fr["sub"] /\ fr' = [fr EXCEPT !["turn"] = g]
    BY <1>1, <1>7
  <2>2. stop' = "none" /\ (p.budget.spend # Unlimited => Prices # Unpriced)
    BY <1>2, <1>6, <2>1 DEF Turns!Underway, Turns!Unlimited, Unlimited
  <2>3. Turns(p)!Requested'
    BY <2>1, TurnRequested
  <2>4. p.budget.steps # Unlimited => g.steps <= p.budget.steps
    BY <1>5, <1>7 DEF Turns!Ceiling
  <2>5. /\ Turns(p)!WithinOneResponse(g.used) /\ (Turns(p)!LosesNothing => billed' = g.used)
        /\ g.used.fresh <= billed'.fresh /\ g.used.cached <= billed'.cached
    <3>1. CASE e.pc = "stream"
      BY <1>7, <3>1
    <3>2. CASE e.pc # "stream"
      BY <1>2, <1>6, <2>1, <3>2 DEF Turns!BudgetInv, Turns!CountWithinBudget, Turns!Told
    <3> QED BY <3>1, <3>2
  <2>6. g.pc = "stream" =>
           /\ ~Turns(p)!Reached(p.budget.tokens, Turns(p)!TotalTokens(g.used))
           /\ ~(p.budget.spend # Unlimited /\ Turns(p)!Cost(g.used) >= p.budget.spend)
           /\ ~Turns(p)!Reached(p.budget.steps, g.steps)
    BY <1>7, <2>1 DEF Turns!OverTokens, Turns!OverSpend, Turns!Ceiling, Turns!Unlimited, Unlimited
  <2>7. Turns(p)!Limited' /\ e.pc # "task"
    BY <1>6, <1>7
  <2> QED BY <2>1, <2>2, <2>3, <2>4, <2>5, <2>6, <2>7, TurnGoesOn
<1>8. CASE l = "sub"
  <2>1. PICK f \in Turns(p)!Frame : f = fr["turn"] /\ f.pc = "task"
    BY <1>1, <1>2, <1>6, <1>8 DEF Turns!Underway
  <2>2. fr["sub"] = e /\ fr'["sub"] = g /\ fr'["turn"] = f
    BY <1>1, <1>8, <2>1
  <2>3. g.steps <= SubSteps /\ (g.pc = "stream" => g.steps < SubSteps)
    <3>1. /\ g.steps <= SubSteps
          /\ g.pc = "stream" => e.pc # "stream" /\ ~(e.steps >= SubSteps)
      BY <1>3, <1>5, <1>8 DEF Turns!Ceiling, Turns!Reached, Turns!Unlimited, Unlimited
    <3> QED BY <1>3, <3>1
  <2> QED BY <2>1, <2>2, <2>3, SubMoves
<1> QED BY <1>7, <1>8

(* What was told costs no more than what is billed.                         *)
LEMMA ToldCostsNoMore ==
  ASSUME NEW p, NEW u \in Turns(p)!Usage, NEW b \in Turns(p)!Usage, u.fresh <= b.fresh, u.cached <= b.cached
  PROVE  /\ Turns(p)!TotalTokens(u) \in Nat /\ Turns(p)!TotalTokens(b) \in Nat
         /\ Turns(p)!TotalTokens(u) <= Turns(p)!TotalTokens(b)
         /\ Prices \in Turns(p)!Usage =>
              /\ Turns(p)!Cost(u) \in Nat /\ Turns(p)!Cost(b) \in Nat
              /\ Turns(p)!Cost(u) <= Turns(p)!Cost(b)
<1>1. PICK d \in Turns(p)!Usage : b = Turns(p)!AddUsage(u, d)
  <2>1. PICK x \in Nat, y \in Nat : b.fresh = u.fresh + x /\ b.cached = u.cached + y
    <3>1. /\ b.fresh - u.fresh \in Nat /\ b.fresh = u.fresh + (b.fresh - u.fresh)
          /\ b.cached - u.cached \in Nat /\ b.cached = u.cached + (b.cached - u.cached)
      BY DEF Turns!Usage
    <3> QED BY <3>1
  <2>2. PICK d \in Turns(p)!Usage : d = [fresh |-> x, cached |-> y]
    BY DEF Turns!Usage
  <2> QED BY <2>1, <2>2 DEF Turns!AddUsage, Turns!Usage
<1>2. /\ Turns(p)!TotalTokens(u) \in Nat /\ Turns(p)!TotalTokens(d) \in Nat
      /\ Turns(p)!TotalTokens(b) = Turns(p)!TotalTokens(u) + Turns(p)!TotalTokens(d)
  BY <1>1, Sums
<1>3. Prices \in Turns(p)!Usage =>
        /\ Turns(p)!Cost(u) \in Nat /\ Turns(p)!Cost(d) \in Nat
        /\ Turns(p)!Cost(b) = Turns(p)!Cost(u) + Turns(p)!Cost(d)
  BY <1>1, Costs
<1>4. Turns(p)!TotalTokens(b) \in Nat /\ Turns(p)!TotalTokens(u) <= Turns(p)!TotalTokens(b)
  BY <1>2
<1>5. Prices \in Turns(p)!Usage => Turns(p)!Cost(b) \in Nat /\ Turns(p)!Cost(u) <= Turns(p)!Cost(b)
  BY <1>3
<1> QED BY <1>2, <1>3, <1>4, <1>5

(* The checks before a request: it is made, or the turn is over.             *)
LEMMA PreflightKeeps ==
  ASSUME NEW p, Turns(p)!BudgetAssumption, Turns(p)!SizesAssumption, Turns(p)!BudgetInv, Turns(p)!TypeOK',
         NEW l \in {"turn", "sub"}, Turns(p)!Preflight(l)
  PROVE  Turns(p)!BudgetInv'
<1>0. /\ Turns(p)!TypeOK /\ Turns(p)!Underway /\ Turns(p)!Told /\ Turns(p)!CountWithinBudget
      /\ fr \in [{"turn", "sub"} -> Turns(p)!Frame] /\ billed \in Turns(p)!Usage /\ clock \in Nat
  BY Frames DEF Turns!BudgetInv
<1>1. PICK e \in Turns(p)!Frame : e = fr[l]
  BY <1>0
<1>2. e.pc = "check" /\ clock' = clock /\ billed' = billed /\ Turns(p)!Bill(Turns(p)!Zero)
  BY <1>0, <1>1, BillNothing DEF Turns!Preflight
<1>3. /\ e.calls <= p.calls
      /\ Turns(p)!Ceiling(l).steps # Unlimited => e.steps <= Turns(p)!Ceiling(l).steps
  BY <1>0, <1>1 DEF Turns!Underway, Turns!Level, Turns!Unlimited, Unlimited
<1>4. PICK reason : reason = IF aborted THEN "cancelled" ELSE Turns(p)!Check(l)
  OBVIOUS
<1>5. /\ reason = "none" => /\ ~Turns(p)!OverTokens(l) /\ ~Turns(p)!OverSpend(l)
                            /\ ~Turns(p)!Reached(Turns(p)!Ceiling(l).steps, e.steps)
      /\ reason = "max-steps" => Turns(p)!Reached(Turns(p)!Ceiling(l).steps, e.steps)
      /\ reason = "budget-exhausted" => Turns(p)!OverTokens(l) \/ Turns(p)!OverClock(l) \/ Turns(p)!OverSpend(l)
      /\ reason # "rejected"
  BY <1>1, <1>4 DEF Turns!Check
<1>6. CASE reason = "none"
  <2>1. PICK g : g = [e EXCEPT !.pc = "stream", !.sentAt = clock]
    OBVIOUS
  <2>2. fr' = [fr EXCEPT ![l] = g] /\ stop' = stop
    BY <1>0, <1>1, <1>4, <1>6, <2>1 DEF Turns!Preflight
  <2>3. g \in Turns(p)!Frame
    BY <1>0, <2>1, FrameTypes
  <2>4. g.pc = "stream" /\ g.steps = e.steps /\ g.used = e.used /\ g.calls = e.calls
    BY <2>1 DEF Turns!Frame
  <2>5. l = "turn" => Turns(p)!Limited'
    <3>1. l = "turn" => fr'["turn"].pc = "stream"
      BY <1>0, <2>2, <2>4
    <3> QED BY <3>1 DEF Turns!Limited
  <2>6. /\ g.pc \notin {"idle", "task"} /\ g.calls <= p.calls /\ e.pc # "stream" /\ e.pc = "check"
        /\ ~Turns(p)!OverTokens(l) /\ ~Turns(p)!OverSpend(l)
        /\ ~Turns(p)!Reached(Turns(p)!Ceiling(l).steps, e.steps)
    BY <1>2, <1>3, <1>5, <1>6, <2>4
  <2> QED BY <1>1, <1>2, <2>2, <2>3, <2>4, <2>5, <2>6, LevelGoesOn
<1>7. CASE reason # "none"
  <2>1. Turns(p)!End(l, e, reason) /\ reason \notin {"none", "rejected"}
    BY <1>1, <1>4, <1>5, <1>7 DEF Turns!Preflight
  <2>2. ASSUME l = "turn"
        PROVE  /\ Turns(p)!WithinOneResponse(e.used)
               /\ e.used.fresh <= billed'.fresh /\ e.used.cached <= billed'.cached
               /\ reason = "max-steps" => Turns(p)!Reached(p.budget.steps, e.steps)
               /\ reason = "budget-exhausted" =>
                    \/ Turns(p)!Reached(p.budget.tokens, Turns(p)!TotalTokens(billed'))
                    \/ Turns(p)!Reached(p.budget.wall, clock' - e.startedAt)
                    \/ p.budget.spend # Unlimited /\ Turns(p)!Cost(billed') >= p.budget.spend
    <3>1. /\ Turns(p)!WithinOneResponse(e.used)
          /\ e.used.fresh <= billed.fresh /\ e.used.cached <= billed.cached
      BY <1>0, <1>1, <2>2 DEF Turns!CountWithinBudget, Turns!Told
    <3>2. e.used \in Turns(p)!Usage /\ p.budget.tokens \in Int /\ p.budget.spend \in Int
      BY FrameFields DEF Turns!BudgetAssumption, Turns!Limit, Turns!Unlimited
    <3>3. reason = "max-steps" => Turns(p)!Reached(p.budget.steps, e.steps)
      BY <1>5, <2>2 DEF Turns!Ceiling
    <3>4. ASSUME Turns(p)!OverTokens(l) PROVE Turns(p)!Reached(p.budget.tokens, Turns(p)!TotalTokens(billed))
      <4>1. Turns(p)!Reached(p.budget.tokens, Turns(p)!TotalTokens(e.used))
        BY <1>1, <2>2, <3>4 DEF Turns!OverTokens, Turns!Ceiling
      <4>2. /\ Turns(p)!TotalTokens(e.used) \in Nat /\ Turns(p)!TotalTokens(billed) \in Nat
            /\ Turns(p)!TotalTokens(e.used) <= Turns(p)!TotalTokens(billed)
        BY <1>0, <3>1, <3>2, ToldCostsNoMore
      <4> QED BY <3>2, <4>1, <4>2 DEF Turns!Reached
    <3>5. ASSUME Turns(p)!OverClock(l) PROVE Turns(p)!Reached(p.budget.wall, clock - e.startedAt)
      BY <1>1, <2>2, <3>5 DEF Turns!OverClock, Turns!Ceiling, Turns!Elapsed
    <3>6. ASSUME Turns(p)!OverSpend(l) PROVE p.budget.spend # Unlimited /\ Turns(p)!Cost(billed) >= p.budget.spend
      <4>1. p.budget.spend # Unlimited /\ Turns(p)!Cost(e.used) >= p.budget.spend
        BY <1>1, <2>2, <3>6 DEF Turns!OverSpend, Turns!Ceiling, Turns!Unlimited, Unlimited
      <4>2. Prices \in Turns(p)!Usage
        BY <1>0, <1>1, <1>2, <2>2, <4>1 DEF Turns!Underway, Turns!SizesAssumption, Turns!Unlimited, Unlimited
      <4>3. /\ Turns(p)!Cost(e.used) \in Nat /\ Turns(p)!Cost(billed) \in Nat
            /\ Turns(p)!Cost(e.used) <= Turns(p)!Cost(billed)
        BY <1>0, <3>1, <3>2, <4>2, ToldCostsNoMore
      <4> QED BY <3>2, <4>1, <4>3
    <3> QED BY <1>2, <1>5, <3>1, <3>3, <3>4, <3>5, <3>6
  <2> QED BY <1>1, <1>2, <1>3, <2>1, <2>2, LevelEnds
<1> QED BY <1>6, <1>7

(* A request that fails, is aborted, ends or breaks off.                    *)
LEMMA StreamKeeps ==
  ASSUME NEW p, Turns(p)!BudgetAssumption, Turns(p)!SizesAssumption, Turns(p)!BudgetInv, Turns(p)!TypeOK',
         NEW l \in {"turn", "sub"},
         \/ Turns(p)!StreamThrows(l) \/ Turns(p)!StreamAborts(l)
         \/ Turns(p)!StreamEnds(l) \/ Turns(p)!StreamBreaks(l)
  PROVE  Turns(p)!BudgetInv'
<1>0. /\ Turns(p)!TypeOK /\ Turns(p)!Underway /\ Turns(p)!Told /\ Turns(p)!CountWithinBudget
      /\ fr \in [{"turn", "sub"} -> Turns(p)!Frame] /\ billed \in Turns(p)!Usage /\ clock \in Nat
      /\ SubSteps \in Nat /\ p.calls \in Nat
  BY Frames DEF Turns!BudgetInv
<1>1. PICK e \in Turns(p)!Frame : e = fr[l]
  BY <1>0
<1>2. e.pc = "stream" /\ clock' = clock
  BY <1>1 DEF Turns!StreamThrows, Turns!StreamAborts, Turns!StreamEnds, Turns!StreamBreaks
<1>3. e.steps \in Nat /\ e.used \in Turns(p)!Usage /\ e.calls <= p.calls
  BY <1>0, <1>1, FrameFields DEF Turns!Underway, Turns!Level
<1>4. /\ Turns(p)!Ceiling(l).steps # Unlimited =>
           e.steps <= Turns(p)!Ceiling(l).steps /\ e.steps + 1 <= Turns(p)!Ceiling(l).steps
  <2>1. Turns(p)!Ceiling(l).steps \in Nat \cup {-1}
    BY <1>0 DEF Turns!Ceiling, Turns!BudgetAssumption, Turns!Limit, Turns!Unlimited
  <2>2. Turns(p)!Ceiling(l).steps # Unlimited => ~(e.steps >= Turns(p)!Ceiling(l).steps)
    BY <1>0, <1>1, <1>2 DEF Turns!Underway, Turns!Level, Turns!Reached, Turns!Unlimited, Unlimited
  <2> QED BY <1>3, <2>1, <2>2 DEF Unlimited
<1>5. ASSUME NEW r \in p.responses \cup {Turns(p)!Zero}, Turns(p)!Bill(r), l = "turn"
      PROVE  /\ billed' = Turns(p)!AddUsage(billed, r)
             /\ Turns(p)!WithinOneResponse(e.used)
             /\ e.used.fresh <= billed'.fresh /\ e.used.cached <= billed'.cached
             /\ \A u \in {r, Turns(p)!Zero} : LET w == Turns(p)!AddUsage(e.used, u) IN
                  /\ Turns(p)!WithinOneResponse(w)
                  /\ w.fresh <= billed'.fresh /\ w.cached <= billed'.cached
  <2>1. e.used.fresh <= billed.fresh /\ e.used.cached <= billed.cached /\ Turns(p)!WithinOneResponse(e.used)
    BY <1>0, <1>1, <1>5 DEF Turns!Told, Turns!CountWithinBudget
  <2>2. /\ billed' = Turns(p)!AddUsage(billed, r)
        /\ \A u \in {r, Turns(p)!Zero} : Turns(p)!WithinOneResponse(Turns(p)!AddUsage(e.used, u))
    BY <1>0, <1>1, <1>2, <1>5, BillGrows
  <2>3. r \in Turns(p)!Usage
    BY <1>5 DEF Turns!SizesAssumption, Turns!Usage, Turns!Zero
  <2>4. /\ e.used.fresh <= billed'.fresh /\ e.used.cached <= billed'.cached
        /\ \A u \in {r, Turns(p)!Zero} :
             /\ Turns(p)!AddUsage(e.used, u).fresh <= billed'.fresh
             /\ Turns(p)!AddUsage(e.used, u).cached <= billed'.cached
    BY <1>0, <1>3, <2>1, <2>2, <2>3 DEF Turns!AddUsage, Turns!Usage, Turns!Zero
  <2> QED BY <2>1, <2>2, <2>4
<1>6. CASE Turns(p)!StreamThrows(l)
  <2>1. PICK r \in p.responses \cup {Turns(p)!Zero} : Turns(p)!Bill(r) /\ Turns(p)!End(l, e, "error")
    BY <1>1, <1>6 DEF Turns!StreamThrows
  <2>2. l = "turn" => /\ Turns(p)!WithinOneResponse(e.used)
                      /\ e.used.fresh <= billed'.fresh /\ e.used.cached <= billed'.cached
    BY <1>5, <2>1
  <2> QED BY <1>1, <1>2, <1>3, <1>4, <2>1, <2>2, LevelEnds
<1>7. CASE Turns(p)!StreamAborts(l)
  <2>1. PICK h : h = [e EXCEPT !.steps = @ + 1]
    OBVIOUS
  <2>2. PICK r \in p.responses \cup {Turns(p)!Zero} : Turns(p)!Bill(r) /\ Turns(p)!End(l, h, "cancelled")
    BY <1>1, <1>7, <2>1 DEF Turns!StreamAborts
  <2>3. h \in Turns(p)!Frame
    BY <2>1, FrameTypes
  <2>4. h.steps = e.steps + 1 /\ h.calls = e.calls /\ h.used = e.used
    BY <2>1 DEF Turns!Frame
  <2>5. l = "turn" => /\ Turns(p)!WithinOneResponse(h.used)
                      /\ h.used.fresh <= billed'.fresh /\ h.used.cached <= billed'.cached
    BY <1>5, <2>2, <2>4
  <2>6. /\ h.calls <= p.calls
        /\ Turns(p)!Ceiling(l).steps # Unlimited => h.steps <= Turns(p)!Ceiling(l).steps
    BY <1>3, <1>4, <2>4
  <2> QED BY <1>1, <1>2, <2>2, <2>3, <2>5, <2>6, LevelEnds
<1>8. CASE Turns(p)!StreamEnds(l) \/ Turns(p)!StreamBreaks(l)
  <2>0. PICK r \in p.responses :
          /\ Turns(p)!Bill(r)
          /\ \E u \in {r, Turns(p)!Zero} : \E n \in 0 .. p.calls : \E failed \in BOOLEAN :
               /\ Turns(p)!LosesNothing => u = r
               /\ Turns(p)!Answered(l, [e EXCEPT !.steps = @ + 1, !.used = Turns(p)!AddUsage(@, u)], n, failed)
    <3>1. CASE Turns(p)!StreamEnds(l)
      BY <1>1, <3>1 DEF Turns!StreamEnds, Turns!Reported, Turns!LosesNothing
    <3>2. CASE Turns(p)!StreamBreaks(l)
      BY <1>1, <3>2 DEF Turns!StreamBreaks, Turns!LosesNothing
    <3> QED BY <1>8, <3>1, <3>2
  <2>1. PICK u \in {r, Turns(p)!Zero}, n \in 0 .. p.calls, failed \in BOOLEAN :
          /\ Turns(p)!Bill(r) /\ (Turns(p)!LosesNothing => u = r)
          /\ Turns(p)!Answered(l, [e EXCEPT !.steps = @ + 1, !.used = Turns(p)!AddUsage(@, u)], n, failed)
    BY <2>0
  <2>2. u \in Turns(p)!Usage /\ n \in Nat /\ n <= p.calls
    BY <1>0, <2>1 DEF Turns!SizesAssumption, Turns!Usage, Turns!Zero
  <2>3. PICK h : h = [e EXCEPT !.steps = @ + 1, !.used = Turns(p)!AddUsage(@, u)]
    OBVIOUS
  <2>4. h \in Turns(p)!Frame
    BY <2>2, <2>3, FrameTypes
  <2>5. /\ h.steps = e.steps + 1 /\ h.calls = e.calls /\ h.startedAt = e.startedAt
        /\ h.used = Turns(p)!AddUsage(e.used, u)
    BY <2>3, <2>4 DEF Turns!Frame
  <2>6. Turns(p)!Answered(l, h, n, failed)
    BY <2>1, <2>3
  <2>7. l = "turn" => /\ Turns(p)!WithinOneResponse(h.used)
                      /\ h.used.fresh <= billed'.fresh /\ h.used.cached <= billed'.cached
    BY <1>5, <2>1, <2>5
  <2>8. CASE \E reason \in {"cancelled", "error", "end-turn"} : Turns(p)!End(l, h, reason)
    <3>1. PICK reason \in {"cancelled", "error", "end-turn"} : Turns(p)!End(l, h, reason)
      BY <2>8
    <3>2. /\ h.calls <= p.calls
          /\ Turns(p)!Ceiling(l).steps # Unlimited => h.steps <= Turns(p)!Ceiling(l).steps
      BY <1>3, <1>4, <2>5
    <3> QED BY <1>1, <1>2, <2>1, <2>4, <2>7, <3>1, <3>2, LevelEnds
  <2>9. CASE /\ stop' = stop
             /\ fr' = [fr EXCEPT ![l] = [h EXCEPT !.pc = "calls", !.calls = n,
                                                  !.limit = Turns(p)!ToolLimit(l), !.toolsAt = clock]]
    <3>1. PICK limit \in Nat : limit = Turns(p)!ToolLimit(l)
      BY <1>0, ToolLimitType DEF Turns!Level
    <3>2. PICK g : g = [h EXCEPT !.pc = "calls", !.calls = n, !.limit = limit, !.toolsAt = clock]
      OBVIOUS
    <3>3. g \in Turns(p)!Frame
      BY <1>0, <2>2, <2>4, <3>2, FrameTypes
    <3>4. /\ g.pc = "calls" /\ g.calls = n /\ g.toolsAt = clock /\ g.limit = limit /\ g.steps = e.steps + 1
          /\ g.used = h.used /\ g.startedAt = e.startedAt
      BY <2>4, <2>5, <3>2 DEF Turns!Frame
    <3>5. fr' = [fr EXCEPT ![l] = g]
      BY <2>9, <3>1, <3>2
    <3>6. l = "turn" => Turns(p)!Limited'
      <4>1. l = "turn" => fr'["turn"] = g /\ g.startedAt = fr["turn"].startedAt /\ g.limit = Turns(p)!ToolLimit("turn")
        BY <1>0, <1>1, <3>1, <3>4, <3>5
      <4>2. g.pc = "calls" /\ g.calls <= p.calls /\ clock' = clock /\ g.toolsAt = clock
        BY <1>2, <2>2, <3>4
      <4> QED BY <3>3, <4>1, <4>2, LimitedBegins
    <3>7. l = "turn" /\ Turns(p)!LosesNothing => billed' = g.used
      <4>1. l = "turn" /\ Turns(p)!LosesNothing => billed = e.used
        BY <1>0, <1>1, <1>2 DEF Turns!Told
      <4> QED BY <1>5, <2>1, <2>5, <3>4, <4>1
    <3>8. /\ g.pc \notin {"idle", "task"} /\ g.calls <= p.calls /\ g.pc # "stream"
          /\ g.pc = "calls" /\ g.steps = e.steps + 1
          /\ l = "turn" => /\ Turns(p)!WithinOneResponse(g.used)
                           /\ Turns(p)!LosesNothing => billed' = g.used
                           /\ g.used.fresh <= billed'.fresh /\ g.used.cached <= billed'.cached
      BY <2>2, <2>7, <3>4, <3>7
    <3> QED BY <1>1, <1>2, <2>1, <2>9, <3>3, <3>5, <3>6, <3>8, LevelGoesOn
  <2> QED BY <2>6, <2>8, <2>9 DEF Turns!Answered
<1> QED BY <1>6, <1>7, <1>8

(* The next call of a step is dispatched.                                   *)
LEMMA DispatchKeeps ==
  ASSUME NEW p, Turns(p)!BudgetAssumption, Turns(p)!SizesAssumption, Turns(p)!BudgetInv, Turns(p)!TypeOK',
         NEW l \in {"turn", "sub"}, Turns(p)!Dispatch(l)
  PROVE  Turns(p)!BudgetInv'
<1>0. /\ Turns(p)!TypeOK /\ Turns(p)!Underway /\ Turns(p)!Told /\ Turns(p)!Requested
      /\ fr \in [{"turn", "sub"} -> Turns(p)!Frame] /\ billed \in Turns(p)!Usage /\ clock \in Nat
      /\ SubSteps \in Nat \ {0} /\ p.calls \in Nat /\ SearchTimeout \in Nat
  BY Frames DEF Turns!BudgetInv
<1>1. PICK e \in Turns(p)!Frame : e = fr[l]
  BY <1>0
<1>2. /\ e.pc = "calls" /\ e.calls > 0 /\ clock' = clock /\ billed' = billed /\ stop' = stop
      /\ Turns(p)!Bill(Turns(p)!Zero)
  BY <1>0, <1>1, BillNothing DEF Turns!Dispatch
<1>3. e.calls <= p.calls /\ e.calls \in Nat /\ e.limit \in Nat
  BY <1>0, <1>1, FrameFields DEF Turns!Underway, Turns!Level
<1>4. PICK h : h = [e EXCEPT !.calls = @ - 1]
  OBVIOUS
<1>5. h \in Turns(p)!Frame
  BY <1>2, <1>4, FrameTypes
<1>6. /\ h.pc = "calls" /\ h.calls = e.calls - 1 /\ h.steps = e.steps /\ h.used = e.used
      /\ h.limit = e.limit /\ h.toolsAt = e.toolsAt /\ h.startedAt = e.startedAt
  BY <1>2, <1>4 DEF Turns!Frame
<1>7. ASSUME NEW g \in Turns(p)!Frame, fr' = [fr EXCEPT ![l] = g], NEW w \in Nat,
             g.calls = h.calls, g.steps = h.steps, g.used = h.used,
             g.limit = h.limit, g.toolsAt = h.toolsAt, g.startedAt = h.startedAt,
             w = h.limit \/ (w = SearchTimeout /\ "search" \in p.tools),
             \/ g.pc = "calls"
             \/ g.pc = "tool" /\ g.deadline = clock + w
             \/ g.pc = "approval" /\ "asked" \in p.tools
      PROVE  Turns(p)!BudgetInv'
  <2>1. l = "turn" => Turns(p)!Limited'
    <3>1. SUFFICES ASSUME l = "turn" PROVE Turns(p)!Limited'
      OBVIOUS
    <3>2. fr["turn"] = e /\ fr'["turn"] = g
      BY <1>0, <1>1, <1>7, <3>1
    <3>3. /\ g.calls = e.calls - 1 /\ g.limit = e.limit /\ g.toolsAt = e.toolsAt /\ g.startedAt = e.startedAt
          /\ w = e.limit \/ (w = SearchTimeout /\ "search" \in p.tools)
      BY <1>6, <1>7
    <3> QED BY <1>2, <1>7, <3>2, <3>3, LimitedDispatch
  <2>2. /\ g.pc \notin {"idle", "task"} /\ g.calls <= p.calls /\ e.pc # "stream" /\ g.pc # "stream"
        /\ billed' = billed /\ g.steps = e.steps /\ g.used = e.used
        /\ e.pc \in {"calls", "approval", "tool"} /\ g.pc \in {"calls", "approval", "tool"}
        /\ e.calls > 0 /\ g.calls = e.calls - 1
    <3>1. g.calls = e.calls - 1 /\ g.calls <= p.calls
      BY <1>0, <1>3, <1>6, <1>7
    <3>2. g.pc \in {"calls", "tool", "approval"} /\ g.steps = e.steps /\ g.used = e.used
      BY <1>6, <1>7
    <3> QED BY <1>2, <3>1, <3>2
  <2> QED BY <1>1, <1>2, <1>7, <2>1, <2>2, LevelGoesOn
<1>8. CASE fr' = [fr EXCEPT ![l] = h]
  BY <1>3, <1>5, <1>6, <1>7, <1>8
<1>9. ASSUME NEW w \in Nat, fr' = [fr EXCEPT ![l] = Turns(p)!Enter(h, w)],
             w = h.limit \/ (w = SearchTimeout /\ "search" \in p.tools)
      PROVE  Turns(p)!BudgetInv'
  <2>1. PICK g \in Turns(p)!Frame : g = Turns(p)!Enter(h, w)
    BY <1>0, <1>5, FrameTypes
  <2>2. /\ g.pc = "tool" /\ g.deadline = clock + w
        /\ g.calls = h.calls /\ g.steps = h.steps /\ g.used = h.used
        /\ g.limit = h.limit /\ g.toolsAt = h.toolsAt /\ g.startedAt = h.startedAt
    BY <1>5, <2>1 DEF Turns!Enter, Turns!Frame
  <2>3. fr' = [fr EXCEPT ![l] = g]
    BY <1>9, <2>1
  <2> QED BY <1>7, <1>9, <2>2, <2>3
<1>10. CASE "asked" \in p.tools /\ fr' = [fr EXCEPT ![l] = [h EXCEPT !.pc = "approval"]]
  <2>1. PICK g \in Turns(p)!Frame : g = [h EXCEPT !.pc = "approval"]
    BY <1>5, FrameTypes, Zenon DEF Turns!Points
  <2>2. /\ g.pc = "approval" /\ g.calls = h.calls /\ g.steps = h.steps /\ g.used = h.used
        /\ g.limit = h.limit /\ g.toolsAt = h.toolsAt /\ g.startedAt = h.startedAt
    BY <1>5, <2>1 DEF Turns!Frame
  <2>3. fr' = [fr EXCEPT ![l] = g] /\ h.limit \in Nat
    BY <1>3, <1>6, <1>10, <2>1
  <2> QED BY <1>7, <1>10, <2>2, <2>3
<1>11. CASE /\ "task" \in p.tools /\ l = "turn"
            /\ fr' = [fr EXCEPT !["turn"] = [h EXCEPT !.pc = "task"], !["sub"] = Turns(p)!NewFrame("check", clock)]
  <2>1. PICK g : g = [h EXCEPT !.pc = "task"]
    OBVIOUS
  <2>2. PICK z : z = Turns(p)!NewFrame("check", clock)
    OBVIOUS
  <2>3. fr' = [fr EXCEPT !["turn"] = g, !["sub"] = z]
    BY <1>11, <2>1, <2>2
  <2>4. g \in Turns(p)!Frame /\ z \in Turns(p)!Frame
    <3>1. g \in Turns(p)!Frame
      BY <1>5, <2>1, FrameTypes, Zenon DEF Turns!Points
    <3>2. z \in Turns(p)!Frame
      BY <1>0, <2>2, NewFrameType DEF Turns!Points
    <3> QED BY <3>1, <3>2
  <2>5. /\ g.pc = "task" /\ g.calls = h.calls /\ g.steps = h.steps /\ g.used = h.used
        /\ z.pc = "check" /\ z.calls = 0 /\ z.steps = 0
    BY <1>5, <2>1, <2>2 DEF Turns!Frame, Turns!NewFrame
  <2>6. fr'["turn"] = g /\ fr'["sub"] = z /\ fr["turn"] = e
    BY <1>0, <1>1, <1>11, <2>3
  <2>7. /\ stop = "none" /\ (p.budget.spend # Unlimited => Prices # Unpriced)
        /\ p.budget.steps # Unlimited => e.steps <= p.budget.steps
    BY <1>0, <1>2, <2>6 DEF Turns!Underway, Turns!Ceiling, Turns!Level, Turns!Unlimited, Unlimited
  <2>8. Turns(p)!Underway'
    <3>1. \A k \in {"turn", "sub"} :
            /\ fr'[k].calls <= p.calls /\ fr'[k].pc # "stream"
            /\ Turns(p)!Ceiling(k).steps # Unlimited => fr'[k].steps <= Turns(p)!Ceiling(k).steps
      BY <1>0, <1>3, <1>6, <2>5, <2>6, <2>7 DEF Turns!Ceiling
    <3> QED BY <1>2, <1>11, <2>5, <2>6, <2>7, <3>1 DEF Turns!Underway, Turns!Ceiling, Turns!Level,
               Turns!Unlimited, Unlimited
  <2>9. Turns(p)!Told'
    BY <1>0, <1>2, <1>6, <1>11, <2>5, <2>6 DEF Turns!Told, Turns!LosesNothing
  <2>10. Turns(p)!CountWithinBudget' /\ Turns(p)!BillWithinBudget' /\ Turns(p)!ExhaustedIsEarned'
    BY <1>2, <1>6, <2>5, <2>6, <2>7 DEF Turns!BudgetInv, Turns!CountWithinBudget, Turns!BillWithinBudget,
       Turns!WithinOneResponse, Turns!TotalTokens, Turns!Cost, Turns!LosesNothing, Turns!ExhaustedIsEarned
  <2>11. Turns(p)!Limited'
    BY <1>11 DEF Turns!Limited, Turns!AsksNobody
  <2>12. Turns(p)!Requested'
    <3>1. PICK s \in Turns(p)!Frame : s = fr["sub"]
      BY <1>0
    <3> DEFINE x == Turns(p)!CountedIn(e, s)
               y == Turns(p)!CountedIn(g, z)
    <3>2. Turns(p)!Counted = x /\ (Turns(p)!Counted)' = y
      BY <2>6, <3>1 DEF Turns!Counted, Turns!CountedIn
    <3>3. ASSUME p.budget.steps # Unlimited PROVE x \in Int /\ y \in Int /\ x <= y
      <4>1. x \in Int /\ y \in Int
        BY <2>4, <3>3, CountedType
      <4>2. g.calls + 1 = e.calls
        BY <1>3, <1>6, <2>5
      <4>3. y = x
        <5>1. PICK a \in Nat, c \in Nat :
                a = e.steps * (1 + p.calls * SubSteps) /\ c = e.calls * SubSteps
          <6>1. e.steps \in Nat
            BY FrameFields
          <6> QED BY <1>0, <1>3, <6>1, Requests
        <5>2. x = a - c
          BY <1>2, <5>1 DEF Turns!CountedIn, Turns!StepRequests
        <5>3. y = a - c + 0
          BY <1>6, <2>5, <4>2, <5>1 DEF Turns!CountedIn, Turns!StepRequests
        <5> HIDE DEF x, y
        <5> QED BY <5>1, <5>2, <5>3
      <4> HIDE DEF x, y
      <4> QED BY <4>1, <4>3
    <3> HIDE DEF x, y
    <3>4. p.budget.steps # Unlimited =>
            /\ x \in Int /\ y \in Int /\ x <= y /\ Turns(p)!Counted = x /\ (Turns(p)!Counted)' = y
      BY <3>2, <3>3
    <3> QED BY <1>0, <1>2, <3>4, RequestedStays
  <2> QED BY <2>8, <2>9, <2>10, <2>11, <2>12 DEF Turns!BudgetInv
<1>12. \/ fr' = [fr EXCEPT ![l] = h]
       \/ fr' = [fr EXCEPT ![l] = Turns(p)!Enter(h, h.limit)]
       \/ "asked" \in p.tools /\ fr' = [fr EXCEPT ![l] = [h EXCEPT !.pc = "approval"]]
       \/ "search" \in p.tools /\ fr' = [fr EXCEPT ![l] = Turns(p)!Enter(h, SearchTimeout)]
       \/ /\ "task" \in p.tools /\ l = "turn"
          /\ fr' = [fr EXCEPT !["turn"] = [h EXCEPT !.pc = "task"], !["sub"] = Turns(p)!NewFrame("check", clock)]
  BY <1>1, <1>4 DEF Turns!Dispatch
<1> QED BY <1>0, <1>3, <1>6, <1>8, <1>9, <1>10, <1>11, <1>12

(* The person answered, or the tool returned.                               *)
LEMMA AnswerKeeps ==
  ASSUME NEW p, Turns(p)!BudgetAssumption, Turns(p)!SizesAssumption, Turns(p)!BudgetInv, Turns(p)!TypeOK',
         NEW l \in {"turn", "sub"}, Turns(p)!Answer(l) \/ Turns(p)!ToolReturns(l)
  PROVE  Turns(p)!BudgetInv'
<1>0. /\ Turns(p)!TypeOK /\ Turns(p)!Underway /\ Turns(p)!Limited
      /\ fr \in [{"turn", "sub"} -> Turns(p)!Frame] /\ billed \in Turns(p)!Usage /\ clock \in Nat
  BY Frames DEF Turns!BudgetInv
<1>1. PICK e \in Turns(p)!Frame : e = fr[l]
  BY <1>0
<1>2. /\ e.pc \in {"approval", "tool"} /\ clock' = clock /\ billed' = billed /\ stop' = stop
      /\ Turns(p)!Bill(Turns(p)!Zero)
  BY <1>0, <1>1, BillNothing DEF Turns!Answer, Turns!ToolReturns
<1>3. e.calls <= p.calls /\ e.calls \in Nat /\ e.limit \in Nat /\ e.toolsAt \in Nat
  BY <1>0, <1>1, FrameFields DEF Turns!Underway, Turns!Level
<1>4. ASSUME NEW g \in Turns(p)!Frame, fr' = [fr EXCEPT ![l] = g], g.pc \in {"calls", "tool"},
             g.calls = e.calls, g.steps = e.steps, g.used = e.used,
             l = "turn" => Turns(p)!Limited'
      PROVE  Turns(p)!BudgetInv'
  <2>1. /\ g.pc \notin {"idle", "task"} /\ g.calls <= p.calls /\ e.pc # "stream" /\ g.pc # "stream"
        /\ e.pc \in {"calls", "approval", "tool"} /\ g.pc \in {"calls", "approval", "tool"}
    BY <1>2, <1>3, <1>4
  <2> QED BY <1>1, <1>2, <1>4, <2>1, LevelGoesOn
<1>5. CASE Turns(p)!Answer(l)
  <2>1. PICK g : /\ g \in {Turns(p)!Enter(e, e.limit), [e EXCEPT !.pc = "calls"]}
                 /\ fr' = [fr EXCEPT ![l] = g] /\ e.pc = "approval"
    BY <1>1, <1>5 DEF Turns!Answer
  <2>2. g \in Turns(p)!Frame
    <3>1. Turns(p)!Enter(e, e.limit) \in Turns(p)!Frame
      BY <1>0, <1>3, FrameTypes
    <3>2. [e EXCEPT !.pc = "calls"] \in Turns(p)!Frame
      BY FrameTypes, Zenon DEF Turns!Points
    <3> QED BY <2>1, <3>1, <3>2
  <2>3. g.pc \in {"calls", "tool"} /\ g.calls = e.calls /\ g.steps = e.steps /\ g.used = e.used
    BY <2>1, <2>2 DEF Turns!Enter, Turns!Frame
  <2>4. l = "turn" => Turns(p)!Limited'
    BY <1>0, <1>1, <2>1 DEF Turns!Limited, Turns!AsksNobody
  <2> QED BY <1>4, <2>1, <2>2, <2>3, <2>4
<1>6. CASE Turns(p)!ToolReturns(l)
  <2>1. PICK g : g = [e EXCEPT !.pc = "calls", !.deadline = Unlimited]
    OBVIOUS
  <2>2. fr' = [fr EXCEPT ![l] = g] /\ e.pc = "tool"
    BY <1>0, <1>1, <1>6, <2>1 DEF Turns!ToolReturns, Turns!Unlimited, Unlimited
  <2>3. g \in Turns(p)!Frame
    BY <2>1, FrameTypes
  <2>4. /\ g.pc = "calls" /\ g.calls = e.calls /\ g.steps = e.steps /\ g.used = e.used
        /\ g.limit = e.limit /\ g.toolsAt = e.toolsAt /\ g.startedAt = e.startedAt
    BY <2>1 DEF Turns!Frame
  <2>5. l = "turn" => Turns(p)!Limited'
    <3>1. SUFFICES ASSUME l = "turn", Turns(p)!AsksNobody PROVE Turns(p)!Limited'
      BY DEF Turns!Limited, Turns!AsksNobody
    <3>2. fr["turn"] = e /\ fr'["turn"] = g
      BY <1>0, <1>1, <2>2, <3>1
    <3>3. PICK n \in Int : n = (p.calls - g.calls) * (g.limit + Turns(p)!SearchTime)
      <4>1. p.calls \in Nat /\ Turns(p)!SearchTime \in Nat
        BY DEF Turns!SizesAssumption, Turns!SearchTime
      <4> QED BY <1>3, <2>4, <4>1, CallsTake
    <3>4. clock <= e.deadline /\ e.deadline <= e.toolsAt + n
      BY <1>0, <2>2, <2>4, <3>1, <3>2, <3>3 DEF Turns!Limited
    <3>5. e.deadline \in Int
      BY FrameFields DEF Turns!Limit, Turns!Unlimited
    <3>6. clock' <= g.toolsAt + n
      BY <1>0, <1>2, <1>3, <2>4, <3>4, <3>5
    <3>7. p.budget.wall # Unlimited =>
            g.toolsAt + g.limit <= Turns(p)!MaxOf(g.startedAt + p.budget.wall, g.toolsAt)
      BY <1>0, <2>2, <2>4, <3>1, <3>2 DEF Turns!Limited, Turns!Unlimited, Unlimited
    <3> QED BY <2>4, <3>2, <3>3, <3>6, <3>7 DEF Turns!Limited, Turns!MaxOf, Turns!SearchTime, Turns!AsksNobody,
               Turns!Unlimited, Unlimited
  <2> QED BY <1>4, <2>2, <2>3, <2>4, <2>5
<1> QED BY <1>5, <1>6

(* All calls of the step are answered.                                      *)
LEMMA CloseKeeps ==
  ASSUME NEW p, Turns(p)!BudgetAssumption, Turns(p)!SizesAssumption, Turns(p)!BudgetInv, Turns(p)!TypeOK',
         NEW l \in {"turn", "sub"}, Turns(p)!StepCloses(l)
  PROVE  Turns(p)!BudgetInv'
<1>0. /\ Turns(p)!TypeOK /\ Turns(p)!Underway /\ Turns(p)!Told /\ Turns(p)!CountWithinBudget
      /\ fr \in [{"turn", "sub"} -> Turns(p)!Frame] /\ billed \in Turns(p)!Usage
  BY Frames DEF Turns!BudgetInv
<1>1. PICK e \in Turns(p)!Frame : e = fr[l]
  BY <1>0
<1>2. /\ e.pc = "calls" /\ clock' = clock /\ billed' = billed /\ Turns(p)!Bill(Turns(p)!Zero)
  BY <1>0, <1>1, BillNothing DEF Turns!StepCloses
<1>3. /\ e.calls <= p.calls /\ p.calls \in Nat
      /\ Turns(p)!Ceiling(l).steps # Unlimited => e.steps <= Turns(p)!Ceiling(l).steps
  BY <1>0, <1>1 DEF Turns!Underway, Turns!Level, Turns!Unlimited, Unlimited, Turns!SizesAssumption
<1>4. CASE aborted
  <2>1. PICK h : h = [e EXCEPT !.calls = 0] /\ Turns(p)!End(l, h, "cancelled")
    BY <1>1, <1>4 DEF Turns!StepCloses
  <2>2. h \in Turns(p)!Frame
    BY <2>1, FrameTypes
  <2>3. h.calls = 0 /\ h.steps = e.steps /\ h.used = e.used
    BY <2>1 DEF Turns!Frame
  <2>4. l = "turn" => /\ Turns(p)!WithinOneResponse(h.used)
                      /\ h.used.fresh <= billed'.fresh /\ h.used.cached <= billed'.cached
    BY <1>0, <1>1, <1>2, <2>3 DEF Turns!CountWithinBudget, Turns!Told
  <2>5. /\ h.calls <= p.calls
        /\ Turns(p)!Ceiling(l).steps # Unlimited => h.steps <= Turns(p)!Ceiling(l).steps
    BY <1>3, <2>3
  <2> QED BY <1>1, <1>2, <2>1, <2>2, <2>3, <2>4, <2>5, LevelEnds
<1>5. CASE ~aborted
  <2>1. PICK g : g = [e EXCEPT !.pc = "check"]
    OBVIOUS
  <2>2. fr' = [fr EXCEPT ![l] = g] /\ stop' = stop /\ e.calls = 0
    BY <1>0, <1>1, <1>5, <2>1 DEF Turns!StepCloses
  <2>3. g \in Turns(p)!Frame
    BY <2>1, FrameTypes, Zenon DEF Turns!Points
  <2>4. g.pc = "check" /\ g.calls = e.calls /\ g.steps = e.steps /\ g.used = e.used
    BY <2>1 DEF Turns!Frame
  <2>5. l = "turn" => Turns(p)!Limited'
    <3>1. l = "turn" => fr'["turn"].pc = "check"
      BY <1>0, <2>2, <2>4
    <3> QED BY <3>1 DEF Turns!Limited
  <2>6. g.pc \notin {"idle", "task"} /\ g.calls <= p.calls /\ e.pc # "stream" /\ g.pc # "stream"
    BY <1>2, <1>3, <2>4
  <2> QED BY <1>1, <1>2, <2>2, <2>3, <2>4, <2>5, <2>6, LevelGoesOn
<1> QED BY <1>4, <1>5

(* A turn is submitted, or refused for want of prices.                      *)
LEMMA SubmitKeeps ==
  ASSUME NEW p, Turns(p)!BudgetAssumption, Turns(p)!SizesAssumption, Turns(p)!BudgetInv, Turns(p)!TypeOK',
         Turns(p)!Submit
  PROVE  Turns(p)!BudgetInv'
<1>1. /\ fr["turn"].pc = "idle" /\ stop = "none" /\ billed = Turns(p)!Zero /\ fr["turn"].used = Turns(p)!Zero
      /\ clock' = clock /\ billed' = billed
  BY DEF Turns!Submit, Turns!BudgetInv, Turns!Underway
<1>2. CASE p.budget.spend # Turns(p)!Unlimited /\ Prices = Unpriced
  <2>1. stop' = "rejected" /\ fr' = fr
    BY <1>2 DEF Turns!Submit
  <2> QED BY <1>1, <2>1, NothingMoves
<1>3. CASE ~(p.budget.spend # Turns(p)!Unlimited /\ Prices = Unpriced)
  <2>1. PICK g : g = Turns(p)!NewFrame("check", clock)
    OBVIOUS
  <2>2. fr' = [fr EXCEPT !["turn"] = g] /\ stop' = "none"
    BY <1>1, <1>3, <2>1 DEF Turns!Submit
  <2>3. g \in Turns(p)!Frame
    BY <2>1, Frames, NewFrameType DEF Turns!Points, Turns!BudgetInv
  <2>4. g.pc = "check" /\ g.used = Turns(p)!Zero /\ g.calls = 0 /\ g.steps = 0
    BY <2>1 DEF Turns!NewFrame
  <2>5. fr \in [{"turn", "sub"} -> Turns(p)!Frame] /\ p.calls \in Nat
    BY Frames DEF Turns!BudgetInv
  <2>6. Turns(p)!WithinOneResponse(g.used) /\ p.budget.steps \in Nat \cup {-1}
    BY <1>1, <2>4 DEF Turns!BudgetInv, Turns!CountWithinBudget, Turns!BudgetAssumption, Turns!Limit, Turns!Unlimited
  <2>7. Turns(p)!Requested'
    <3>1. PICK r \in p.responses : r \in Turns(p)!Usage
      BY DEF Turns!SizesAssumption
    <3>2. Turns(p)!TotalTokens(r) \in Nat
      BY <3>1 DEF Turns!TotalTokens, Turns!Usage
    <3>3. p.budget.steps # Unlimited => (Turns(p)!Counted)' = 0
      <4>1. fr'["turn"] = g
        BY <2>2, <2>5
      <4>2. 0 * (1 + p.calls * SubSteps) = 0
        <5>1. 1 + p.calls * SubSteps \in Int
          <6>1. p.calls \in Nat /\ SubSteps \in Nat
            BY Frames DEF Turns!BudgetInv
          <6> QED BY <6>1, Requests
        <5> QED BY <5>1
      <4> QED BY <2>4, <4>1, <4>2 DEF Turns!Counted, Turns!CountedIn, Turns!StepRequests
    <3>4. Turns(p)!TotalTokens(billed') <= 0 * Turns(p)!TotalTokens(r)
      <4>1. Turns(p)!TotalTokens(billed') = 0
        BY <1>1 DEF Turns!TotalTokens, Turns!Zero
      <4> QED BY <3>2, <4>1
    <3>5. p.budget.steps # Unlimited =>
            \E n \in 0 .. (Turns(p)!Counted)', q \in p.responses :
              Turns(p)!TotalTokens(billed') <= n * Turns(p)!TotalTokens(q)
      <4>1. 0 \in 0 .. 0
        OBVIOUS
      <4> QED BY <3>1, <3>3, <3>4, <4>1
    <3> QED BY <3>5 DEF Turns!Requested, Turns!Unlimited, Unlimited, Turns!TotalTokens
  <2>8. Turns(p)!Limited'
    <3>1. fr'["turn"] = g
      BY <2>2, <2>5
    <3> QED BY <2>4, <3>1 DEF Turns!Limited
  <2>9. /\ p.budget.spend # Unlimited => Prices # Unpriced
        /\ g.pc \notin {"idle", "task"} /\ g.pc # "stream" /\ g.calls <= p.calls /\ fr["turn"].pc # "task"
        /\ p.budget.steps # Unlimited => g.steps <= p.budget.steps
        /\ billed' = g.used /\ g.used.fresh <= billed'.fresh /\ g.used.cached <= billed'.cached
    BY <1>1, <1>3, <2>4, <2>5, <2>6 DEF Turns!Unlimited, Unlimited, Turns!Zero
  <2> QED BY <2>2, <2>3, <2>6, <2>7, <2>8, <2>9, TurnGoesOn
<1> QED BY <1>2, <1>3

LEMMA BudgetInvInit ==
  ASSUME NEW p, Turns(p)!BudgetAssumption, Turns(p)!SizesAssumption, Turns(p)!Init
  PROVE  Turns(p)!BudgetInv
<1>1. PICK z : z = Turns(p)!NewFrame("idle", 0)
  OBVIOUS
<1>2. /\ fr["turn"] = z /\ fr["sub"] = z /\ billed = Turns(p)!Zero /\ stop = "none"
  BY <1>1 DEF Turns!Init, Turns!Level
<1>3. z.pc = "idle" /\ z.calls = 0 /\ z.steps = 0 /\ z.used = Turns(p)!Zero
  BY <1>1 DEF Turns!NewFrame
<1>4. Turns(p)!TypeOK /\ z \in Turns(p)!Frame
  BY <1>1, TurnTypesInit, NewFrameType DEF Turns!Points
<1>5. p.calls \in Nat /\ SubSteps \in Nat /\ p.budget.steps \in Nat \cup {-1}
  BY DEF Turns!SizesAssumption, Turns!BudgetAssumption, Turns!Limit, Turns!Unlimited
<1>6. Turns(p)!Underway
  <2>1. \A l \in {"turn", "sub"} :
          /\ fr[l].calls <= p.calls /\ fr[l].pc # "stream"
          /\ Turns(p)!Ceiling(l).steps # Unlimited => fr[l].steps <= Turns(p)!Ceiling(l).steps
    BY <1>2, <1>3, <1>5 DEF Turns!Ceiling, Unlimited
  <2> QED BY <1>2, <1>3, <2>1 DEF Turns!Underway, Turns!Level, Turns!Unlimited, Unlimited
<1>7. PICK r \in p.responses : r \in Turns(p)!Usage
  BY DEF Turns!SizesAssumption
<1>8. /\ Turns(p)!TotalTokens(Turns(p)!Zero) = 0 /\ Turns(p)!TotalTokens(r) \in Nat
  BY <1>7 DEF Turns!TotalTokens, Turns!Zero, Turns!Usage
<1>9. Turns(p)!WithinOneResponse(Turns(p)!Zero)
  <2>1. p.budget.tokens # Unlimited =>
          Turns(p)!TotalTokens(Turns(p)!Zero) < p.budget.tokens + Turns(p)!TotalTokens(r)
    <3>1. p.budget.tokens # Unlimited => p.budget.tokens \in Nat \ {0}
      BY DEF Turns!BudgetAssumption, Turns!Limit, Turns!Unlimited, Unlimited
    <3> QED BY <1>8, <3>1
  <2> QED BY <2>1 DEF Turns!WithinOneResponse, Turns!Unlimited, Unlimited
<1>10. Turns(p)!Requested
  <2>1. p.budget.steps # Unlimited => Turns(p)!Counted \in Nat
    <3>1. p.budget.steps # Unlimited => p.budget.steps * (1 + p.calls * SubSteps) \in Nat
      BY <1>5, Requests DEF Unlimited
    <3> QED BY <1>2, <1>3, <3>1 DEF Turns!Counted, Turns!CountedIn, Turns!StepRequests
  <2>2. Turns(p)!TotalTokens(billed) <= 0 * Turns(p)!TotalTokens(r)
    BY <1>2, <1>8
  <2>3. p.budget.steps # Unlimited => 0 \in 0 .. Turns(p)!Counted
    BY <2>1
  <2> QED BY <1>7, <2>2, <2>3 DEF Turns!Requested, Turns!Unlimited, Unlimited
<1>11. Turns(p)!Told
  <2>1. Turns(p)!Zero.fresh \in Int /\ Turns(p)!Zero.cached \in Int
    BY DEF Turns!Zero
  <2> QED BY <1>2, <1>3, <2>1 DEF Turns!Told
<1>12. Turns(p)!Limited /\ Turns(p)!ExhaustedIsEarned
  BY <1>2, <1>3 DEF Turns!Limited, Turns!ExhaustedIsEarned
<1>13. Turns(p)!CountWithinBudget /\ Turns(p)!BillWithinBudget
  BY <1>2, <1>3, <1>9 DEF Turns!CountWithinBudget, Turns!BillWithinBudget
<1> QED BY <1>4, <1>6, <1>10, <1>11, <1>12, <1>13 DEF Turns!BudgetInv

LEMMA BudgetInvStep ==
  ASSUME NEW p, Turns(p)!BudgetAssumption, Turns(p)!SizesAssumption, Turns(p)!BudgetInv,
         Turns(p)!Next \/ UNCHANGED Turns(p)!vars
  PROVE  Turns(p)!BudgetInv'
<1>0. /\ Turns(p)!TypeOK' /\ Turns(p)!TypeOK /\ Turns(p)!Underway
      /\ fr \in [{"turn", "sub"} -> Turns(p)!Frame]
  BY TurnTypesStep, Frames DEF Turns!BudgetInv
<1>1. CASE Turns(p)!Submit
  BY <1>0, <1>1, SubmitKeeps
<1>2. CASE Turns(p)!Cancel \/ Turns(p)!Done \/ UNCHANGED Turns(p)!vars
  <2>1. fr' = fr /\ billed' = billed /\ stop' = stop /\ clock' = clock
    BY <1>2 DEF Turns!Cancel, Turns!Done, Turns!vars
  <2> QED BY <1>0, <2>1, NothingMoves
<1>3. CASE Turns(p)!Tick
  <2>1. PICK l \in {"turn", "sub"} :
          \/ fr[l].pc \in {"stream", "approval"}
          \/ fr[l].pc = "tool" /\ clock < fr[l].deadline
    BY <1>3 DEF Turns!Tick, Turns!Level
  <2>2. fr["turn"].pc \notin {"idle", "calls"} /\ (fr["turn"].pc = "tool" => clock < fr["turn"].deadline)
    BY <1>0, <2>1 DEF Turns!Underway
  <2>3. fr' = fr /\ billed' = billed /\ stop' = stop /\ clock' = clock + 1
    BY <1>3 DEF Turns!Tick
  <2> QED BY <1>0, <2>2, <2>3, NothingMoves
<1>4. ASSUME NEW l \in {"turn", "sub"}, Turns(p)!Run(l) \/ Turns(p)!Answer(l)
      PROVE  Turns(p)!BudgetInv'
  <2>1. CASE Turns(p)!Preflight(l)
    BY <1>0, <2>1, PreflightKeeps
  <2>2. CASE \/ Turns(p)!StreamThrows(l) \/ Turns(p)!StreamAborts(l)
             \/ Turns(p)!StreamEnds(l) \/ Turns(p)!StreamBreaks(l)
    BY <1>0, <2>2, StreamKeeps
  <2>3. CASE Turns(p)!Dispatch(l)
    BY <1>0, <2>3, DispatchKeeps
  <2>4. CASE Turns(p)!Answer(l) \/ Turns(p)!ToolReturns(l)
    BY <1>0, <2>4, AnswerKeeps
  <2>5. CASE Turns(p)!StepCloses(l)
    BY <1>0, <2>5, CloseKeeps
  <2> QED BY <1>4, <2>1, <2>2, <2>3, <2>4, <2>5 DEF Turns!Run
<1> QED BY <1>1, <1>2, <1>3, <1>4 DEF Turns!Next, Turns!Level

LEMMA BudgetInvMeans ==
  ASSUME NEW p, Turns(p)!BudgetAssumption, Turns(p)!SizesAssumption, Turns(p)!BudgetInv
  PROVE  KeepsCeilings(p)
<1>1. PICK f \in Turns(p)!Frame, s \in Turns(p)!Frame : f = fr["turn"] /\ s = fr["sub"]
  BY Frames DEF Turns!BudgetInv
<1>2. /\ f.toolsAt \in Nat /\ f.limit \in Nat /\ f.startedAt \in Nat /\ f.calls \in Nat /\ f.steps \in Nat
      /\ clock \in Nat /\ p.calls \in Nat /\ SearchTimeout \in Nat /\ billed \in Turns(p)!Usage
      /\ s.steps \in Nat /\ SubSteps \in Nat /\ f.deadline \in Int /\ f.pc \in Turns(p)!Points
  BY FrameFields, Frames DEF Turns!BudgetInv, Turns!Limit, Turns!Unlimited
<1>3. Turns(p)!ToolsEndInTime
  <2>1. SUFFICES ASSUME Turns(p)!AsksNobody, p.budget.wall # Unlimited, f.pc = "tool"
        PROVE  clock <= Turns(p)!MaxOf(f.startedAt + p.budget.wall, f.toolsAt)
                 + (p.calls - 1 - f.calls) * f.limit + (p.calls - 1 - f.calls + 1) * Turns(p)!SearchTime
    BY <1>1 DEF Turns!ToolsEndInTime, Turns!Unlimited, Unlimited
  <2>2. /\ f.calls < p.calls /\ clock <= f.deadline
        /\ f.deadline <= f.toolsAt + (p.calls - f.calls) * (f.limit + Turns(p)!SearchTime)
        /\ f.toolsAt + f.limit <= Turns(p)!MaxOf(f.startedAt + p.budget.wall, f.toolsAt)
    BY <1>1, <2>1 DEF Turns!BudgetInv, Turns!Limited, Turns!Unlimited, Unlimited
  <2>3. PICK t \in Nat : t = Turns(p)!SearchTime
    BY <1>2 DEF Turns!SearchTime
  <2>4. PICK m \in Int : m = Turns(p)!MaxOf(f.startedAt + p.budget.wall, f.toolsAt)
    <3>1. p.budget.wall \in Int
      BY DEF Turns!BudgetAssumption, Turns!Limit, Turns!Unlimited
    <3> QED BY <1>2, <3>1 DEF Turns!MaxOf
  <2>5. PICK b \in Nat : b = p.calls - 1 - f.calls /\ p.calls - f.calls = b + 1
    BY <1>2, <2>2
  <2>6. /\ (b + 1) * (f.limit + t) = b * f.limit + f.limit + (b + 1) * t
        /\ b * f.limit \in Nat /\ (b + 1) * t \in Nat /\ (b + 1) * (f.limit + t) \in Nat
    <3>1. \A x, y, z \in Nat : /\ x * y \in Nat /\ (x + 1) * y = x * y + y
                               /\ x * (y + z) = x * y + x * z
      OBVIOUS
    <3> QED BY <1>2, <3>1
  <2>7. clock <= f.toolsAt + (b * f.limit + f.limit + (b + 1) * t) /\ f.toolsAt + f.limit <= m
    BY <1>2, <2>2, <2>3, <2>4, <2>5, <2>6
  <2>8. clock <= m + b * f.limit + (b + 1) * t
    BY <1>2, <2>6, <2>7
  <2> QED BY <2>3, <2>4, <2>5, <2>8
<1>4. Turns(p)!BillWithinSteps
  <2>1. SUFFICES ASSUME p.budget.steps # Unlimited
        PROVE  \E r \in p.responses :
                 Turns(p)!TotalTokens(billed) <= p.budget.steps * (1 + p.calls * SubSteps) * Turns(p)!TotalTokens(r)
    BY DEF Turns!BillWithinSteps, Turns!StepRequests, Turns!Unlimited, Unlimited
  <2>2. PICK n \in 0 .. Turns(p)!Counted, r \in p.responses :
          Turns(p)!TotalTokens(billed) <= n * Turns(p)!TotalTokens(r)
    BY <2>1 DEF Turns!BudgetInv, Turns!Requested, Turns!Unlimited, Unlimited
  <2>3. r \in Turns(p)!Usage
    BY DEF Turns!SizesAssumption
  <2>4. PICK m \in Nat, t \in Nat :
          m = p.budget.steps * (1 + p.calls * SubSteps) /\ t = Turns(p)!TotalTokens(r)
    <3>1. p.budget.steps \in Nat
      BY <2>1 DEF Turns!BudgetAssumption, Turns!Limit, Turns!Unlimited, Unlimited
    <3> QED BY <1>2, <2>3, <3>1, Requests DEF Turns!TotalTokens, Turns!Usage
  <2>5. Turns(p)!Counted \in Int /\ Turns(p)!Counted <= m
    <3>1. PICK a \in Nat, c \in Nat, d \in Nat :
            /\ a = f.steps * (1 + p.calls * SubSteps)
            /\ c = f.calls * SubSteps /\ d = (f.calls + 1) * SubSteps /\ d = c + SubSteps
      BY <1>2, Requests
    <3>2. a <= m
      <4>1. f.steps <= p.budget.steps /\ p.budget.steps \in Nat
        BY <1>1, <2>1 DEF Turns!BudgetInv, Turns!Underway, Turns!Ceiling, Turns!Level, Turns!BudgetAssumption,
           Turns!Limit, Turns!Unlimited, Unlimited
      <4> QED BY <1>2, <2>4, <3>1, <4>1, Requests
    <3>3. s.steps <= SubSteps
      BY <1>1, <1>2 DEF Turns!BudgetInv, Turns!Underway, Turns!Ceiling, Turns!Level, Turns!Unlimited
    <3>4. /\ f.pc = "idle" => Turns(p)!Counted = m
          /\ f.pc \in {"check", "stream"} => Turns(p)!Counted = a
          /\ f.pc \in {"calls", "approval", "tool"} => Turns(p)!Counted = a - c
          /\ f.pc = "task" => Turns(p)!Counted = a - d + s.steps
      BY <1>1, <2>4, <3>1 DEF Turns!Counted, Turns!CountedIn, Turns!StepRequests
    <3> QED BY <1>2, <3>1, <3>2, <3>3, <3>4 DEF Turns!Points
  <2>6. n * t <= m * t
    <3>1. PICK d \in Nat : m = n + d
      <4>1. n \in Nat /\ n <= m
        BY <2>5
      <4>2. m - n \in Nat /\ m = n + (m - n)
        BY <4>1
      <4> QED BY <4>2
    <3>2. m * t = n * t + d * t /\ d * t \in Nat /\ n * t \in Nat
      BY <2>5, <3>1
    <3> QED BY <3>2
  <2>7. Turns(p)!TotalTokens(billed) <= m * t
    <3>1. Turns(p)!TotalTokens(billed) \in Nat /\ n * t \in Int /\ m * t \in Int
      BY <1>2, <2>3, <2>5, Sums
    <3> QED BY <2>2, <2>4, <2>6, <3>1
  <2> QED BY <2>4, <2>7
<1> QED BY <1>3, <1>4 DEF KeepsCeilings, Turns!BudgetInv

-----------------------------------------------------------------------------
(* Proofs about the bus, for any hooks, handlers and fires.                 *)

LEMMA LeastOf ==
  ASSUME NEW S, S \subseteq Nat, S # {}
  PROVE  Bus!Min(S) \in S /\ \A y \in S : Bus!Min(S) <= y
<1>1. PICK x \in S : \A y \in S : ~(<<y, x>> \in OpToRel(<, Nat))
  BY WFMin, NatLessThanWellFounded
<1>2. ASSUME NEW y \in S PROVE x <= y
  <2>1. ~(<<y, x>> \in {ss \in Nat \X Nat : ss[1] < ss[2]})
    BY <1>1 DEF OpToRel
  <2> QED BY <2>1
<1> QED BY <1>2 DEF Bus!Min

LEMMA RecordFields ==
  ASSUME NEW r \in Bus!FireRecord
  PROVE  /\ r.trail \in Seq(Hooks) /\ r.saw \in Seq(Hooks \cup {Caller})
         /\ r.start \in Seq(Hooks) /\ r.at \in Nat
         /\ r.value \in Hooks \cup {Caller} /\ r.said \subseteq Hooks /\ r.gone \subseteq Hooks
         /\ DOMAIN r.trail = 1 .. Len(r.trail) /\ Len(r.trail) \in Nat
         /\ DOMAIN r.saw = 1 .. Len(r.saw) /\ Len(r.saw) \in Nat
         /\ DOMAIN r.start = 1 .. Len(r.start) /\ Len(r.start) \in Nat
<1>1. r.trail \in Seq(Hooks) /\ r.saw \in Seq(Hooks \cup {Caller}) /\ r.start \in Seq(Hooks)
  BY DEF Bus!FireRecord
<1> QED BY <1>1 DEF Bus!FireRecord

(* The order of registration is one.                                        *)
LEMMA BeforeIsAnOrder ==
  ASSUME Bus!ListIsSorted
  PROVE  /\ \A a : ~Bus!Before(a, a)
         /\ \A a, b : Bus!Before(a, b) => a \in Bus!ToSet(known) /\ b \in Bus!ToSet(known)
<1>1. known \in Seq(Hooks) /\ DOMAIN known = 1 .. Len(known) /\ Len(known) \in Nat
  BY DEF Bus!ListIsSorted
<1> QED BY <1>1 DEF Bus!ListIsSorted, Bus!Before, Bus!ToSet

(* The next hook of a fire, or its end.                                     *)
LEMMA AdvanceWalks ==
  ASSUME Bus!ListIsSorted, NEW r, Bus!Ready(r)
  PROVE  Bus!Walk(Bus!Advance(r))
<1> DEFINE rest == {i \in r.at .. Len(hooks) : hooks[i] \in Handlers}
           i == Bus!Min(rest)
<1>1. /\ r \in Bus!FireRecord /\ r.at \in Nat /\ r.at >= 1
      /\ hooks \in Seq(Hooks) /\ Len(hooks) \in Nat /\ DOMAIN hooks = 1 .. Len(hooks)
  BY RecordFields DEF Bus!Ready, Bus!ListIsSorted
<1>2. CASE rest = {}
  <2> DEFINE n == [r EXCEPT !.status = "passed", !.asked = None]
  <2>1. Bus!Advance(r) = n
    BY <1>2 DEF Bus!Advance
  <2>2. /\ n \in Bus!FireRecord /\ n.trail = r.trail /\ n.saw = r.saw
        /\ n.value = r.value /\ n.start = r.start
        /\ n.gone = r.gone /\ n.said = r.said /\ n.kind = r.kind /\ n.status = "passed"
    BY <1>1 DEF Bus!FireRecord
  <2> HIDE DEF n
  <2>3. Bus!InOrder(n) /\ Bus!Chained(n)
    BY <2>2 DEF Bus!Ready, Bus!InOrder, Bus!Chained
  <2>4. ASSUME NEW p \in DOMAIN r.start, r.start[p] \in Handlers \ (r.gone \cup Bus!ToSet(r.trail))
        PROVE  \E q \in 1 .. p - 1 : r.start[q] \in r.gone
    <3>1. p \in Nat /\ p >= 1
      BY <1>1, RecordFields
    <3>2. ASSUME Bus!Untouched(r, p) PROVE FALSE
      <4>1. p \in DOMAIN hooks /\ hooks[p] = r.start[p] /\ ~(p < r.at)
        BY <2>4, <3>2 DEF Bus!Ready, Bus!StillThere
      <4>2. p \in rest
        BY <1>1, <2>4, <3>1, <4>1
      <4> QED BY <1>2, <4>2
    <3>3. PICK q \in 1 .. p : r.start[q] \in r.gone
      BY <3>2 DEF Bus!Untouched
    <3>4. q # p
      BY <2>4, <3>3
    <3> QED BY <3>1, <3>3, <3>4
  <2>5. n.kind = "toolPre" => Bus!ToSet(n.trail) \subseteq n.said
    BY <2>2 DEF Bus!Ready
  <2>6. Bus!Walk(n)
    BY <2>2, <2>3, <2>4, <2>5 DEF Bus!Walk
  <2> QED BY <2>1, <2>6
<1>3. CASE rest # {}
  <2> DEFINE n == [r EXCEPT !.status = "waiting", !.at = i + 1, !.asked = hooks[i],
                            !.trail = Append(@, hooks[i]), !.saw = Append(@, r.value)]
  <2>1. Bus!Advance(r) = n
    BY <1>3 DEF Bus!Advance
  <2>2. i \in r.at .. Len(hooks) /\ hooks[i] \in Handlers /\ \A j \in rest : i <= j
    <3>1. rest \subseteq Nat
      BY <1>1
    <3>2. i \in rest /\ \A j \in rest : i <= j
      BY <1>3, <3>1, LeastOf
    <3> QED BY <3>2
  <2> HIDE DEF i
  <2>3. i \in Nat /\ i >= 1 /\ i \in DOMAIN hooks /\ hooks[i] \in Hooks /\ i >= r.at
    BY <1>1, <2>2
  <2> DEFINE L == Len(r.trail)
  <2>4. /\ r.trail \in Seq(Hooks) /\ r.saw \in Seq(Hooks \cup {Caller})
        /\ L \in Nat /\ Len(r.saw) = L
        /\ DOMAIN r.trail = 1 .. L /\ DOMAIN r.saw = 1 .. L /\ r.value \in Hooks \cup {Caller}
    <3>1. DOMAIN r.saw = DOMAIN r.trail
      BY DEF Bus!Ready, Bus!Chained
    <3> QED BY <1>1, <3>1, RecordFields
  <2>5. /\ n \in Bus!FireRecord /\ n.value = r.value /\ n.start = r.start
        /\ n.gone = r.gone /\ n.said = r.said
        /\ n.kind = r.kind /\ n.status = "waiting" /\ n.at = i + 1 /\ n.asked = hooks[i]
        /\ n.trail = Append(r.trail, hooks[i]) /\ n.saw = Append(r.saw, r.value)
    <3>1. Append(r.trail, hooks[i]) \in Seq(Hooks) /\ Append(r.saw, r.value) \in Seq(Hooks \cup {Caller})
      BY <2>3, <2>4
    <3>2. PICK t \in Seq(Hooks), w \in Seq(Hooks \cup {Caller}), j \in Nat, h \in Hooks \cup {None} :
            n = [r EXCEPT !.status = "waiting", !.at = j, !.asked = h, !.trail = t, !.saw = w]
              /\ t = Append(r.trail, hooks[i]) /\ w = Append(r.saw, r.value)
              /\ j = i + 1 /\ h = hooks[i]
      <4>1. i + 1 \in Nat /\ hooks[i] \in Hooks \cup {None}
        BY <2>3
      <4>2. n = [r EXCEPT !.status = "waiting", !.at = i + 1, !.asked = hooks[i],
                         !.trail = Append(r.trail, hooks[i]), !.saw = Append(r.saw, r.value)]
        BY Zenon
      <4> HIDE DEF n
      <4> QED BY <3>1, <4>1, <4>2, Zenon
    <3> HIDE DEF n
    <3> QED BY <1>1, <3>2 DEF Bus!FireRecord
  <2> HIDE DEF n
  <2>6. /\ Len(n.trail) = L + 1 /\ DOMAIN n.trail = 1 .. L + 1 /\ DOMAIN n.saw = 1 .. L + 1
        /\ n.trail[L + 1] = hooks[i] /\ n.saw[L + 1] = r.value
        /\ \A k \in 1 .. L : n.trail[k] = r.trail[k] /\ n.saw[k] = r.saw[k]
    BY <2>3, <2>4, <2>5
  <2>7. \A k \in 1 .. L : \A j \in DOMAIN hooks : j >= r.at => Bus!Before(r.trail[k], hooks[j])
    BY <2>4 DEF Bus!Ready, Bus!NothingIsBehind
  <2>8. Bus!InOrder(n)
    <3>1. \A k \in 1 .. L + 1 : n.trail[k] \in Bus!ToSet(known)
      <4>1. hooks[i] \in Bus!ToSet(known)
        BY <2>3 DEF Bus!ListIsSorted
      <4>2. \A k \in 1 .. L : r.trail[k] \in Bus!ToSet(known)
        BY <2>4 DEF Bus!Ready, Bus!InOrder
      <4>3. ASSUME NEW k \in 1 .. L + 1, k # L + 1 PROVE k \in 1 .. L
        BY <2>4, <4>3
      <4> QED BY <2>6, <4>1, <4>2, <4>3
    <3>2. ASSUME NEW k \in 1 .. L + 1, NEW j \in 1 .. L + 1, k < j PROVE Bus!Before(n.trail[k], n.trail[j])
      <4>1. CASE j = L + 1
        BY <2>3, <2>4, <2>6, <2>7, <3>2, <4>1
      <4>2. CASE j # L + 1
        <5>1. k \in 1 .. L /\ j \in 1 .. L
          BY <2>4, <3>2, <4>2
        <5> QED BY <2>4, <2>6, <3>2, <5>1 DEF Bus!Ready, Bus!InOrder
      <4> QED BY <4>1, <4>2
    <3> QED BY <2>6, <3>1, <3>2 DEF Bus!InOrder
  <2>9. Bus!NothingIsBehind(n)
    <3> SUFFICES ASSUME NEW k \in 1 .. L + 1, NEW j \in DOMAIN hooks, j >= i + 1 PROVE Bus!Before(n.trail[k], hooks[j])
      BY <2>5, <2>6 DEF Bus!NothingIsBehind
    <3>1. j > i /\ j >= r.at
      BY <1>1, <2>3
    <3>2. CASE k = L + 1
      BY <2>3, <2>6, <3>1, <3>2 DEF Bus!ListIsSorted
    <3>3. CASE k # L + 1
      <4>1. k \in 1 .. L
        BY <2>4, <3>3
      <4> QED BY <2>6, <2>7, <3>1, <4>1
    <3> QED BY <3>2, <3>3
  <2>10. Bus!ToSet(n.trail) = Bus!ToSet(r.trail) \cup {hooks[i]}
    <3>1. \A k \in DOMAIN n.trail : n.trail[k] \in Bus!ToSet(r.trail) \cup {hooks[i]}
      BY <2>4, <2>6 DEF Bus!ToSet
    <3>2. \A k \in DOMAIN r.trail : r.trail[k] \in Bus!ToSet(n.trail)
      BY <2>4, <2>6 DEF Bus!ToSet
    <3>3. hooks[i] \in Bus!ToSet(n.trail)
      BY <2>4, <2>6 DEF Bus!ToSet
    <3> QED BY <3>1, <3>2, <3>3 DEF Bus!ToSet
  <2>11. Bus!StillThere(n)
    <3> SUFFICES ASSUME NEW p \in DOMAIN r.start, Bus!Untouched(r, p)
                 PROVE  /\ p \in DOMAIN hooks /\ hooks[p] = r.start[p]
                        /\ p < i + 1 /\ r.start[p] \in Handlers => r.start[p] \in Bus!ToSet(n.trail)
      BY <2>5 DEF Bus!StillThere, Bus!Untouched
    <3>1. p \in DOMAIN hooks /\ hooks[p] = r.start[p]
          /\ (p < r.at /\ r.start[p] \in Handlers => r.start[p] \in Bus!ToSet(r.trail))
      BY DEF Bus!Ready, Bus!StillThere
    <3>2. ASSUME p < i + 1, r.start[p] \in Handlers, ~(p < r.at) PROVE p = i
      <4>1. p \in rest
        BY <1>1, <3>1, <3>2
      <4> QED BY <1>1, <2>2, <2>3, <3>1, <3>2, <4>1
    <3> QED BY <2>10, <3>1, <3>2
  <2>12. Bus!Chained(n)
    <3> SUFFICES ASSUME NEW k \in 1 .. L + 1, n.trail[k] = r.value, NEW j \in 1 .. L + 1, j > k
                 PROVE  n.saw[j] = r.value
      BY <2>5, <2>6 DEF Bus!Chained
    <3>1. k \in 1 .. L
      BY <2>4
    <3>2. CASE j = L + 1
      BY <2>6, <3>2
    <3>3. CASE j # L + 1
      <4>1. j \in 1 .. L
        BY <2>4, <3>3
      <4> QED BY <2>4, <2>6, <3>1, <4>1 DEF Bus!Ready, Bus!Chained
    <3> QED BY <3>2, <3>3
  <2>13. n.kind = "toolPre" => Bus!ToSet(n.trail) \subseteq n.said \cup {n.asked}
    BY <2>5, <2>10 DEF Bus!Ready
  <2>14. Bus!Walk(n)
    BY <2>3, <2>4, <2>5, <2>6, <2>8, <2>9, <2>11, <2>12, <2>13 DEF Bus!Walk
  <2> QED BY <2>1, <2>14
<1> QED BY <1>2, <1>3

(* Steps of a fire leave the list alone.                                    *)
LEMMA FireStep ==
  ASSUME Bus!HInv, UNCHANGED <<hooks, known>>, NEW g \in Fires, NEW n, Bus!Walk(n),
         fire' = [fire EXCEPT ![g] = n]
  PROVE  Bus!HInv'
<1>1. Bus!ListIsSorted'
  BY DEF Bus!HInv, Bus!ListIsSorted, Bus!Before, Bus!ToSet
<1>2. fire' \in [Fires -> Bus!FireRecord]
  BY DEF Bus!HInv, Bus!Walk
<1>3. ASSUME NEW f \in Fires PROVE Bus!Walk(fire[f])'
  <2>1. PICK r : r = fire'[f] /\ Bus!Walk(r)
    BY DEF Bus!HInv
  <2>2. Bus!Walk(r)'
    BY <2>1 DEF Bus!Walk, Bus!InOrder, Bus!NothingIsBehind, Bus!StillThere, Bus!Chained,
       Bus!Before, Bus!Untouched
  <2> QED BY <2>1, <2>2 DEF Bus!Walk, Bus!InOrder, Bus!NothingIsBehind, Bus!StillThere,
             Bus!Chained, Bus!Before, Bus!Untouched
<1> QED BY <1>1, <1>2, <1>3 DEF Bus!HInv

LEMMA IdleFire ==
  /\ Bus!Idle \in Bus!FireRecord /\ Bus!Idle.status = "idle"
  /\ Bus!Idle.at = 1 /\ Bus!Idle.gone = {}
  /\ Bus!Idle.trail = <<>> /\ Bus!Idle.saw = <<>>
<1>1. <<>> \in Seq(Hooks) /\ <<>> \in Seq(Hooks \cup {Caller})
  OBVIOUS
<1>2. PICK t \in Seq(Hooks), w \in Seq(Hooks \cup {Caller}) : t = <<>> /\ w = <<>>
  BY <1>1, Zenon
<1>3. Bus!Idle = [kind |-> "toolPre", status |-> "idle", at |-> 1, asked |-> None, value |-> Caller,
              trail |-> t, saw |-> w, start |-> t, gone |-> {}, said |-> {}]
  BY <1>2, Zenon DEF Bus!Idle
<1> QED BY <1>2, <1>3 DEF Bus!FireRecord, Bus!Kinds

LEMMA FireKeeps ==
  ASSUME Bus!HInv, NEW f \in Fires, NEW kind \in Bus!Kinds, Bus!Fire(f, kind)
  PROVE  Bus!HInv'
<1> DEFINE r == [Bus!Idle EXCEPT !.kind = kind, !.start = hooks]
<1>1. hooks \in Seq(Hooks) /\ Len(hooks) \in Nat /\ DOMAIN hooks = 1 .. Len(hooks)
  BY DEF Bus!HInv, Bus!ListIsSorted
<1>2. /\ r \in Bus!FireRecord /\ r.at = 1 /\ r.start = hooks
      /\ r.gone = {} /\ r.trail = <<>> /\ r.saw = <<>>
  <2>1. PICK b : b = Bus!Idle
    OBVIOUS
  <2>2. r = [b EXCEPT !.kind = kind, !.start = hooks]
    BY <2>1, Zenon
  <2> HIDE DEF r
  <2>3. b \in Bus!FireRecord /\ b.at = 1 /\ b.gone = {} /\ b.trail = <<>> /\ b.saw = <<>>
    BY <2>1, IdleFire
  <2> QED BY <1>1, <2>2, <2>3 DEF Bus!FireRecord
<1> HIDE DEF r
<1>3. DOMAIN r.trail = {} /\ DOMAIN r.saw = {} /\ Bus!ToSet(r.trail) = {}
  BY <1>2 DEF Bus!ToSet
<1>4. Bus!InOrder(r) /\ Bus!NothingIsBehind(r) /\ Bus!Chained(r)
  BY <1>3 DEF Bus!InOrder, Bus!NothingIsBehind, Bus!Chained
<1>5. Bus!StillThere(r)
  BY <1>1, <1>2 DEF Bus!StillThere
<1>6. Bus!Ready(r)
  BY <1>2, <1>3, <1>4, <1>5 DEF Bus!Ready
<1>7. Bus!Walk(Bus!Advance(r))
  BY <1>6, AdvanceWalks DEF Bus!HInv
<1>8. fire' = [fire EXCEPT ![f] = Bus!Advance(r)] /\ UNCHANGED <<hooks, known>>
  BY DEF Bus!Fire, r
<1> QED BY <1>7, <1>8, FireStep

(* The hook asked has answered, and rewritten the value or not; or it has   *)
(* failed in a fire that is not a veto.                                     *)
LEMMA AnswersAreReady ==
  ASSUME Bus!ListIsSorted, NEW r, Bus!Walk(r), r.status = "waiting",
         NEW v \in {r.value, r.asked}, NEW s \in {r.said, r.said \cup {r.asked}},
         r.kind = "toolPre" => s = r.said \cup {r.asked}
  PROVE  Bus!Ready([r EXCEPT !.said = s, !.value = v])
<1> DEFINE n == [r EXCEPT !.said = s, !.value = v]
<1>1. /\ r \in Bus!FireRecord /\ r.asked \in Hooks /\ r.at >= 1 /\ r.asked = r.trail[Len(r.trail)]
      /\ Len(r.trail) \in Nat /\ DOMAIN r.trail = 1 .. Len(r.trail) /\ DOMAIN r.trail # {}
  BY RecordFields DEF Bus!Walk
<1>2. s \in SUBSET Hooks /\ v \in Hooks \cup {Caller}
  BY <1>1, RecordFields
<1>3. /\ n \in Bus!FireRecord /\ n.at = r.at /\ n.start = r.start
      /\ n.gone = r.gone /\ n.trail = r.trail /\ n.saw = r.saw
      /\ n.said = s /\ n.value = v /\ n.kind = r.kind
  BY <1>1, <1>2 DEF Bus!FireRecord
<1> HIDE DEF n
<1>4. Bus!InOrder(n) /\ Bus!NothingIsBehind(n) /\ Bus!StillThere(n)
  BY <1>3 DEF Bus!Walk, Bus!InOrder, Bus!NothingIsBehind, Bus!StillThere, Bus!Untouched
<1>5. Bus!Chained(n)
  <2>1. CASE v = r.value
    BY <1>3, <2>1 DEF Bus!Walk, Bus!Chained
  <2>2. CASE v = r.asked
    <3> SUFFICES ASSUME NEW i \in DOMAIN r.trail, r.trail[i] = r.asked, NEW j \in DOMAIN r.trail, j > i PROVE FALSE
      BY <1>3, <2>2 DEF Bus!Walk, Bus!Chained
    <3>1. Len(r.trail) \in DOMAIN r.trail /\ i < Len(r.trail)
      BY <1>1
    <3>2. Bus!Before(r.trail[i], r.trail[Len(r.trail)])
      BY <3>1 DEF Bus!Walk, Bus!InOrder
    <3> QED BY <1>1, <3>2, BeforeIsAnOrder
  <2> QED BY <2>1, <2>2
<1>6. n.kind = "toolPre" => Bus!ToSet(n.trail) \subseteq n.said
  BY <1>3 DEF Bus!Walk
<1>7. Bus!Ready(n)
  BY <1>1, <1>3, <1>4, <1>5, <1>6 DEF Bus!Ready
<1> QED BY <1>7 DEF n

LEMMA AnswersKeep ==
  ASSUME Bus!HInv, NEW f \in Fires, Bus!Continues(f) \/ Bus!Replaces(f) \/ Bus!Denies(f) \/ Bus!Fails(f)
  PROVE  Bus!HInv'
<1> DEFINE r == fire[f]
           end == [r EXCEPT !.status = "denied", !.asked = None]
<1>1. /\ Bus!ListIsSorted /\ Bus!Walk(r) /\ r.status = "waiting" /\ r \in Bus!FireRecord
      /\ UNCHANGED <<hooks, known>>
  BY DEF Bus!HInv, Bus!Walk, Bus!Continues, Bus!Replaces, Bus!Denies, Bus!Fails
<1>2. Bus!Walk(end)
  <2>1. /\ end \in Bus!FireRecord /\ end.trail = r.trail /\ end.saw = r.saw
        /\ end.value = r.value /\ end.status = "denied"
    BY <1>1 DEF Bus!FireRecord
  <2> HIDE DEF end
  <2> QED BY <1>1, <2>1 DEF Bus!Walk, Bus!InOrder, Bus!Chained
<1>3. ASSUME NEW v \in {r.value, r.asked}, NEW s \in {r.said, r.said \cup {r.asked}},
             r.kind = "toolPre" => s = r.said \cup {r.asked}
      PROVE  Bus!Walk(Bus!Advance([r EXCEPT !.said = s, !.value = v]))
  BY <1>1, <1>3, AnswersAreReady, AdvanceWalks
<1>4. CASE Bus!Continues(f)
  <2>1. Bus!Answered(r) = [r EXCEPT !.said = r.said \cup {r.asked}, !.value = r.value]
    BY <1>1 DEF Bus!Answered, Bus!FireRecord
  <2>2. Bus!Walk(Bus!Advance(Bus!Answered(r)))
    BY <1>3, <2>1
  <2>3. fire' = [fire EXCEPT ![f] = Bus!Advance(Bus!Answered(r))]
    BY <1>4 DEF Bus!Continues
  <2> QED BY <1>1, <2>2, <2>3, FireStep
<1>5. CASE Bus!Replaces(f)
  <2> DEFINE a == [Bus!Answered(r) EXCEPT !.value = r.asked]
  <2>1. a = [r EXCEPT !.said = r.said \cup {r.asked}, !.value = r.asked]
    BY <1>1 DEF Bus!Answered, Bus!FireRecord
  <2>2. Bus!Walk(Bus!Advance(a))
    BY <1>3, <2>1
  <2>3. fire' = [fire EXCEPT ![f] = Bus!Advance(a)]
    BY <1>5 DEF Bus!Replaces
  <2> QED BY <1>1, <2>2, <2>3, FireStep
<1>6. CASE Bus!Denies(f)
  <2>1. fire' = [fire EXCEPT ![f] = end]
    BY <1>6 DEF Bus!Denies, Bus!HInv
  <2> QED BY <1>1, <1>2, <2>1, FireStep
<1>7. CASE Bus!Fails(f) /\ r.kind = "toolPre"
  <2>1. fire' = [fire EXCEPT ![f] = end]
    BY <1>7 DEF Bus!Fails
  <2> QED BY <1>1, <1>2, <2>1, FireStep
<1>8. CASE Bus!Fails(f) /\ r.kind # "toolPre"
  <2>1. [r EXCEPT !.said = r.said, !.value = r.value] = r
    BY <1>1 DEF Bus!FireRecord
  <2>2. Bus!Walk(Bus!Advance(r))
    BY <1>3, <1>8, <2>1
  <2>3. fire' = [fire EXCEPT ![f] = Bus!Advance(r)]
    BY <1>8 DEF Bus!Fails
  <2> QED BY <1>1, <2>2, <2>3, FireStep
<1> QED BY <1>4, <1>5, <1>6, <1>7, <1>8

(* A hook registered goes to the end of the list and of every order.        *)
LEMMA RegisterKeeps ==
  ASSUME Bus!HInv, NEW h \in Hooks, Bus!Register(h)
  PROVE  Bus!HInv'
<1> DEFINE L == Len(hooks)
           K == Len(known)
<1>1. /\ hooks \in Seq(Hooks) /\ L \in Nat /\ DOMAIN hooks = 1 .. L
      /\ known \in Seq(Hooks) /\ K \in Nat /\ DOMAIN known = 1 .. K
  BY DEF Bus!HInv, Bus!ListIsSorted
<1>2. /\ hooks' \in Seq(Hooks) /\ DOMAIN hooks' = 1 .. L + 1 /\ hooks'[L + 1] = h
      /\ \A i \in 1 .. L : hooks'[i] = hooks[i]
      /\ known' \in Seq(Hooks) /\ DOMAIN known' = 1 .. K + 1 /\ known'[K + 1] = h
      /\ \A i \in 1 .. K : known'[i] = known[i]
      /\ \A i \in 1 .. K : known[i] # h
      /\ fire' = fire
  BY <1>1 DEF Bus!Register, Bus!ToSet
<1>3. \A a, b : Bus!Before(a, b) => Bus!Before(a, b)'
  BY <1>1, <1>2 DEF Bus!Before
<1>4. ASSUME NEW a \in Bus!ToSet(known) PROVE a \in Bus!ToSet(known)' /\ Bus!Before(a, h)'
  <2>1. PICK p \in 1 .. K : known[p] = a
    BY <1>1 DEF Bus!ToSet
  <2>2. p \in 1 .. K + 1 /\ p < K + 1 /\ K + 1 \in 1 .. K + 1 /\ known'[p] = a
    BY <1>1, <1>2, <2>1
  <2> QED BY <1>2, <2>2 DEF Bus!Before, Bus!ToSet
<1>5. Bus!ListIsSorted'
  <2>1. \A i, j \in 1 .. K + 1 : known'[i] = known'[j] => i = j
    <3>1. \A i, j \in 1 .. K : known[i] = known[j] => i = j
      BY <1>1 DEF Bus!HInv, Bus!ListIsSorted
    <3>2. \A i \in 1 .. K : known'[i] # h /\ known'[i] = known[i]
      BY <1>2
    <3> SUFFICES ASSUME NEW i \in 1 .. K + 1, NEW j \in 1 .. K + 1, known'[i] = known'[j]
                 PROVE  i = j
      OBVIOUS
    <3>3. (i = K + 1 \/ i \in 1 .. K) /\ (j = K + 1 \/ j \in 1 .. K)
      BY <1>1
    <3>4. known'[K + 1] = h
      BY <1>2
    <3> HIDE DEF K
    <3> QED BY <3>1, <3>2, <3>3, <3>4
  <2>2. \A i \in 1 .. L + 1 : hooks'[i] \in Bus!ToSet(known)'
    <3>1. h \in Bus!ToSet(known)'
      BY <1>1, <1>2 DEF Bus!ToSet
    <3>2. \A i \in 1 .. L : hooks'[i] \in Bus!ToSet(known)'
      BY <1>1, <1>2, <1>4 DEF Bus!HInv, Bus!ListIsSorted
    <3>3. ASSUME NEW i \in 1 .. L + 1, i # L + 1 PROVE i \in 1 .. L
      BY <1>1, <3>3
    <3> QED BY <1>2, <3>1, <3>2, <3>3
  <2>3. ASSUME NEW i \in 1 .. L + 1, NEW j \in 1 .. L + 1, i < j PROVE Bus!Before(hooks[i], hooks[j])'
    <3>1. i \in 1 .. L /\ hooks'[i] = hooks[i] /\ hooks[i] \in Bus!ToSet(known)
      <4>1. i \in 1 .. L
        BY <1>1, <2>3
      <4> QED BY <1>1, <1>2, <4>1 DEF Bus!HInv, Bus!ListIsSorted
    <3>2. CASE j = L + 1
      <4>1. Bus!Before(hooks[i], h)'
        BY <1>4, <3>1
      <4> QED BY <1>2, <3>1, <3>2, <4>1 DEF Bus!Before
    <3>3. CASE j # L + 1
      <4>1. j \in 1 .. L /\ hooks'[j] = hooks[j] /\ Bus!Before(hooks[i], hooks[j])
        <5>1. j \in 1 .. L
          BY <1>1, <3>3
        <5> QED BY <1>1, <1>2, <2>3, <3>1, <5>1 DEF Bus!HInv, Bus!ListIsSorted
      <4>2. Bus!Before(hooks[i], hooks[j]) => \E p, q \in DOMAIN known' : p < q /\ known'[p] = hooks[i] /\ known'[q] = hooks[j]
        BY <1>1, <1>2 DEF Bus!Before
      <4> QED BY <3>1, <4>1, <4>2 DEF Bus!Before
    <3> QED BY <3>2, <3>3
  <2> QED BY <1>2, <2>1, <2>2, <2>3 DEF Bus!ListIsSorted
<1>6. ASSUME NEW f \in Fires PROVE Bus!Walk(fire[f])'
  <2>1. PICK r : r = fire[f] /\ r = fire'[f] /\ Bus!Walk(r)
    BY <1>2 DEF Bus!HInv
  <2>2. Bus!InOrder(r)'
    BY <1>3, <1>4, <2>1 DEF Bus!Walk, Bus!InOrder
  <2>3. r.status = "waiting" => Bus!NothingIsBehind(r)'
    <3> SUFFICES ASSUME r.status = "waiting", NEW k \in DOMAIN r.trail, NEW i \in 1 .. L + 1, i >= r.at
                 PROVE  \E p, q \in DOMAIN known' : p < q /\ known'[p] = r.trail[k] /\ known'[q] = hooks'[i]
      BY <1>2 DEF Bus!NothingIsBehind, Bus!Before
    <3>1. r.trail[k] \in Bus!ToSet(known)
      BY <2>1 DEF Bus!Walk, Bus!InOrder
    <3>2. CASE i = L + 1
      <4>1. Bus!Before(r.trail[k], h)'
        BY <1>4, <3>1
      <4>2. hooks'[i] = h
        BY <1>2, <3>2
      <4>3. \E p, q \in DOMAIN known' : p < q /\ known'[p] = r.trail[k] /\ known'[q] = h
        BY <4>1 DEF Bus!Before
      <4> QED BY <4>2, <4>3
    <3>3. CASE i # L + 1
      <4>1. i \in 1 .. L /\ hooks'[i] = hooks[i]
        BY <1>1, <1>2, <3>3
      <4>2. Bus!Before(r.trail[k], hooks[i])
        BY <1>1, <2>1, <4>1 DEF Bus!Walk, Bus!NothingIsBehind
      <4>3. \E p, q \in DOMAIN known' : p < q /\ known'[p] = r.trail[k] /\ known'[q] = hooks'[i]
        BY <1>1, <1>2, <4>1, <4>2 DEF Bus!Before
      <4> QED BY <4>3
    <3> QED BY <3>2, <3>3
  <2>4. r.status = "waiting" => Bus!StillThere(r)'
    <3> SUFFICES ASSUME r.status = "waiting", NEW p \in DOMAIN r.start, Bus!Untouched(r, p)
                 PROVE  /\ p \in DOMAIN hooks' /\ hooks'[p] = r.start[p]
                        /\ p < r.at /\ r.start[p] \in Handlers => r.start[p] \in Bus!ToSet(r.trail)
      BY DEF Bus!StillThere, Bus!Untouched
    <3>1. /\ p \in DOMAIN hooks /\ hooks[p] = r.start[p]
          /\ p < r.at /\ r.start[p] \in Handlers => r.start[p] \in Bus!ToSet(r.trail)
      BY <2>1 DEF Bus!Walk, Bus!StillThere
    <3> QED BY <1>1, <1>2, <3>1
  <2>5. Bus!Walk(r)'
    BY <2>1, <2>2, <2>3, <2>4 DEF Bus!Walk, Bus!Chained
  <2> QED BY <2>1, <2>5 DEF Bus!Walk, Bus!InOrder, Bus!NothingIsBehind, Bus!StillThere,
             Bus!Chained, Bus!Before, Bus!Untouched
<1> QED BY <1>2, <1>5, <1>6 DEF Bus!HInv

(* A hook disposed leaves the list, which closes up; what a fire has yet to *)
(* ask is only later in the order than it was.                              *)
LEMMA DisposeKeeps ==
  ASSUME Bus!HInv, NEW h \in Hooks, Bus!Dispose(h)
  PROVE  Bus!HInv'
<1> DEFINE L == Len(hooks)
<1>1. hooks \in Seq(Hooks) /\ L \in Nat /\ DOMAIN hooks = 1 .. L
  BY DEF Bus!HInv, Bus!ListIsSorted
<1>2. PICK d \in 1 .. L : hooks[d] = h /\ hooks' = Bus!RemoveAt(hooks, d)
  BY <1>1 DEF Bus!Dispose
<1>3. /\ hooks' \in Seq(Hooks) /\ DOMAIN hooks' = 1 .. L - 1
      /\ \A i \in 1 .. L - 1 : hooks'[i] = IF i < d THEN hooks[i] ELSE hooks[i + 1]
  <2> DEFINE a == SubSeq(hooks, 1, d - 1)
             c == SubSeq(hooks, d + 1, L)
  <2>1. a \in Seq(Hooks) /\ Len(a) = d - 1 /\ \A i \in 1 .. d - 1 : a[i] = hooks[i]
    <3>1. 1 \in Int /\ d - 1 \in Int /\ \A i \in 1 .. d - 1 : hooks[i] \in Hooks
      BY <1>1
    <3>2. /\ a \in Seq(Hooks) /\ Len(a) = IF 1 <= d - 1 THEN d - 1 - 1 + 1 ELSE 0
          /\ \A i \in 1 .. d - 1 - 1 + 1 : a[i] = hooks[1 + i - 1]
      BY <3>1, SubSeqProperties
    <3>3. \A i \in 1 .. d - 1 : i \in 1 .. d - 1 - 1 + 1 /\ 1 + i - 1 = i
      BY <1>1
    <3>4. (IF 1 <= d - 1 THEN d - 1 - 1 + 1 ELSE 0) = d - 1
      BY <1>1
    <3> HIDE DEF a
    <3> QED BY <3>2, <3>3, <3>4
  <2>2. c \in Seq(Hooks) /\ Len(c) = L - d /\ \A i \in 1 .. L - d : c[i] = hooks[d + i]
    <3>1. d + 1 \in Int /\ L \in Int /\ \A i \in d + 1 .. L : hooks[i] \in Hooks
      BY <1>1
    <3>2. /\ c \in Seq(Hooks) /\ Len(c) = IF d + 1 <= L THEN L - (d + 1) + 1 ELSE 0
          /\ \A i \in 1 .. L - (d + 1) + 1 : c[i] = hooks[d + 1 + i - 1]
      BY <3>1, SubSeqProperties
    <3>3. \A i \in 1 .. L - d : i \in 1 .. L - (d + 1) + 1 /\ d + 1 + i - 1 = d + i
      BY <1>1
    <3> HIDE DEF a, c, L
    <3>4. L \in Nat /\ d \in Nat /\ d <= L
      BY <1>1
    <3>5. (IF d + 1 <= L THEN L - (d + 1) + 1 ELSE 0) = L - d
      BY <3>4
    <3> QED BY <3>2, <3>3, <3>5
  <2>3. hooks' = a \o c
    BY <1>2 DEF Bus!RemoveAt
  <2> HIDE DEF a, c
  <2>4. /\ hooks' \in Seq(Hooks) /\ DOMAIN hooks' = 1 .. L - 1
        /\ \A i \in 1 .. L - 1 : hooks'[i] = IF i < d THEN a[i] ELSE c[i - d + 1]
    <3>1. /\ hooks' \in Seq(Hooks) /\ Len(hooks') = Len(a) + Len(c)
          /\ \A i \in 1 .. Len(a) + Len(c) : hooks'[i] = IF i <= Len(a) THEN a[i] ELSE c[i - Len(a)]
      BY <2>1, <2>2, <2>3, ConcatProperties, Zenon
    <3>2. Len(a) = d - 1 /\ Len(a) + Len(c) = L - 1
      BY <1>1, <2>1, <2>2
    <3>3. ASSUME NEW i \in 1 .. L - 1 PROVE hooks'[i] = IF i < d THEN a[i] ELSE c[i - d + 1]
      <4>1. hooks'[i] = IF i <= d - 1 THEN a[i] ELSE c[i - (d - 1)]
        BY <3>1, <3>2
      <4>2. i - (d - 1) = i - d + 1 /\ (i <= d - 1 <=> i < d)
        BY <1>1
      <4> QED BY <4>1, <4>2
    <3>4. DOMAIN hooks' = 1 .. L - 1
      BY <3>1, <3>2
    <3> QED BY <3>1, <3>3, <3>4
  <2>5. ASSUME NEW i \in 1 .. L - 1, ~(i < d) PROVE c[i - d + 1] = hooks[i + 1]
    <3>1. i - d + 1 \in 1 .. L - d /\ d + (i - d + 1) = i + 1
      BY <1>1, <2>5
    <3> QED BY <2>2, <3>1
  <2>6. ASSUME NEW i \in 1 .. L - 1, i < d PROVE a[i] = hooks[i]
    <3>1. i \in 1 .. d - 1
      BY <1>1, <2>6
    <3> QED BY <2>1, <3>1
  <2>7. ASSUME NEW i \in 1 .. L - 1 PROVE hooks'[i] = IF i < d THEN hooks[i] ELSE hooks[i + 1]
    <3>1. hooks'[i] = IF i < d THEN a[i] ELSE c[i - d + 1]
      BY <2>4
    <3>2. CASE i < d
      BY <2>6, <3>1, <3>2
    <3>3. CASE ~(i < d)
      BY <2>5, <3>1, <3>3
    <3> QED BY <3>2, <3>3
  <2> HIDE DEF L
  <2> QED BY <2>4, <2>7
<1>4. known' = known /\ fire' = [f \in Fires |->
        IF fire[f].status = "waiting" THEN [fire[f] EXCEPT !.gone = fire[f].gone \cup {h}] ELSE fire[f]]
  BY DEF Bus!Dispose
<1>5. Bus!ListIsSorted'
  <2>1. ASSUME NEW i \in 1 .. L - 1
        PROVE  \E j \in 1 .. L : i <= j /\ (j = i <=> i < d) /\ j <= i + 1 /\ hooks'[i] = hooks[j]
    BY <1>1, <1>3
  <2>2. \A i \in 1 .. L - 1 : hooks'[i] \in Bus!ToSet(known)
    BY <1>1, <2>1 DEF Bus!HInv, Bus!ListIsSorted
  <2>3. ASSUME NEW i \in 1 .. L - 1, NEW j \in 1 .. L - 1, i < j PROVE Bus!Before(hooks'[i], hooks'[j])
    <3>1. PICK x \in 1 .. L : x <= i + 1 /\ (x = i <=> i < d) /\ hooks'[i] = hooks[x]
      BY <2>1
    <3>2. PICK y \in 1 .. L : j <= y /\ (y = j <=> j < d) /\ hooks'[j] = hooks[y]
      BY <2>1
    <3>3. x < y
      BY <1>1, <2>3, <3>1, <3>2
    <3> QED BY <1>1, <3>1, <3>2, <3>3 DEF Bus!HInv, Bus!ListIsSorted
  <2> QED BY <1>1, <1>3, <1>4, <2>2, <2>3 DEF Bus!HInv, Bus!ListIsSorted, Bus!Before
<1>6. ASSUME NEW f \in Fires PROVE Bus!Walk(fire[f])'
  <2>1. PICK o : o = fire[f] /\ Bus!Walk(o)
    BY DEF Bus!HInv
  <2>2. PICK r : r = fire'[f] /\ r = IF o.status = "waiting" THEN [o EXCEPT !.gone = o.gone \cup {h}] ELSE o
    BY <1>4, <2>1
  <2>3. CASE o.status # "waiting"
    <3>1. Bus!Walk(r)'
      BY <1>4, <2>1, <2>2, <2>3 DEF Bus!Walk, Bus!InOrder, Bus!Chained, Bus!Before
    <3> QED BY <2>2, <3>1 DEF Bus!Walk, Bus!InOrder, Bus!NothingIsBehind, Bus!StillThere,
               Bus!Chained, Bus!Before, Bus!Untouched
  <2>4. CASE o.status = "waiting"
    <3>1. /\ r \in Bus!FireRecord /\ r.kind = o.kind /\ r.status = o.status
          /\ r.at = o.at /\ r.asked = o.asked
          /\ r.value = o.value /\ r.trail = o.trail /\ r.saw = o.saw /\ r.start = o.start
          /\ r.gone = o.gone \cup {h} /\ r.said = o.said
      <4>1. PICK g \in SUBSET Hooks : g = o.gone \cup {h} /\ r = [o EXCEPT !.gone = g]
        BY <2>1, <2>2, <2>4, RecordFields DEF Bus!Walk
      <4> QED BY <2>1, <4>1 DEF Bus!Walk, Bus!FireRecord
    <3>2. /\ Bus!NothingIsBehind(o) /\ Bus!StillThere(o) /\ Bus!InOrder(o)
          /\ Bus!Chained(o) /\ o.at >= 1 /\ o.at \in Nat
          /\ DOMAIN o.trail = 1 .. Len(o.trail) /\ DOMAIN o.start = 1 .. Len(o.start)
          /\ Len(o.start) \in Nat
      BY <2>1, <2>4, RecordFields DEF Bus!Walk
    <3>3. Bus!InOrder(r)' /\ Bus!Chained(r)'
      BY <1>4, <3>1, <3>2 DEF Bus!InOrder, Bus!Chained, Bus!Before
    <3>4. Bus!NothingIsBehind(r)'
      <4> SUFFICES ASSUME NEW k \in DOMAIN o.trail, NEW i \in 1 .. L - 1, i >= o.at
                   PROVE  Bus!Before(o.trail[k], hooks'[i])
        BY <1>3, <1>4, <3>1 DEF Bus!NothingIsBehind, Bus!Before
      <4>1. PICK j \in 1 .. L : j >= o.at /\ hooks'[i] = hooks[j]
        BY <1>1, <1>3, <3>2
      <4> QED BY <1>1, <3>2, <4>1 DEF Bus!NothingIsBehind
    <3>5. Bus!StillThere(r)'
      <4> SUFFICES ASSUME NEW p \in DOMAIN o.start, \A q \in 1 .. p : o.start[q] \notin o.gone \cup {h}
                   PROVE  /\ p \in DOMAIN hooks' /\ hooks'[p] = o.start[p]
                          /\ p < o.at /\ o.start[p] \in Handlers => o.start[p] \in Bus!ToSet(o.trail)
        BY <3>1 DEF Bus!StillThere, Bus!Untouched
      <4>1. ASSUME NEW q \in 1 .. p PROVE q \in 1 .. L /\ hooks[q] = o.start[q] /\ q # d
        <5>1. q \in DOMAIN o.start /\ \A m \in 1 .. q : o.start[m] \notin o.gone
          BY <3>2
        <5>2. q \in DOMAIN hooks /\ hooks[q] = o.start[q]
          BY <3>2, <5>1 DEF Bus!StillThere, Bus!Untouched
        <5> QED BY <1>1, <1>2, <5>2
      <4>2. p \in Nat /\ p >= 1 /\ p \in 1 .. L /\ hooks[p] = o.start[p]
        BY <3>2, <4>1
      <4>3. p < d
        BY <1>1, <4>1, <4>2
      <4>4. p < o.at /\ o.start[p] \in Handlers => o.start[p] \in Bus!ToSet(o.trail)
        BY <3>2 DEF Bus!StillThere, Bus!Untouched
      <4> QED BY <1>1, <1>3, <4>2, <4>3, <4>4
    <3>6. Bus!Walk(r)'
      BY <1>4, <2>1, <2>4, <3>1, <3>3, <3>4, <3>5 DEF Bus!Walk
    <3> QED BY <2>2, <3>6 DEF Bus!Walk, Bus!InOrder, Bus!NothingIsBehind, Bus!StillThere,
               Bus!Chained, Bus!Before, Bus!Untouched
  <2> QED BY <2>3, <2>4
<1>7. fire' \in [Fires -> Bus!FireRecord]
  <2>1. \A f \in Fires : fire'[f] \in Bus!FireRecord
    BY <1>6 DEF Bus!Walk
  <2> QED BY <1>4, <2>1
<1> QED BY <1>5, <1>6, <1>7 DEF Bus!HInv

LEMMA HInvInit == Bus!Init => Bus!HInv
<1> SUFFICES ASSUME Bus!Init PROVE Bus!HInv
  OBVIOUS
<1>1. <<>> \in Seq(Hooks) /\ <<>> \in Seq(Hooks \cup {Caller})
  OBVIOUS
<1>2. Bus!ListIsSorted
  BY <1>1 DEF Bus!Init, Bus!ListIsSorted
<1>3. ASSUME NEW f \in Fires PROVE Bus!Walk(fire[f])
  <2>1. fire[f] = Bus!Idle
    BY DEF Bus!Init
  <2>2. Bus!Walk(Bus!Idle)
    <3>1. Bus!Idle \in Bus!FireRecord /\ Bus!Idle.status = "idle" /\ Bus!Idle.trail = <<>> /\ Bus!Idle.saw = <<>>
      BY IdleFire
    <3> QED BY <3>1 DEF Bus!Walk, Bus!InOrder, Bus!Chained
  <2> QED BY <2>1, <2>2
<1>4. fire \in [Fires -> Bus!FireRecord]
  BY IdleFire DEF Bus!Init
<1> QED BY <1>2, <1>3, <1>4 DEF Bus!HInv

LEMMA HInvStep == Bus!HInv /\ [Bus!Next]_(Bus!vars) => Bus!HInv'
<1> SUFFICES ASSUME Bus!HInv, [Bus!Next]_(Bus!vars) PROVE Bus!HInv'
  OBVIOUS
<1>1. CASE \E h \in Hooks : Bus!Register(h)
  BY <1>1, RegisterKeeps
<1>2. CASE \E h \in Hooks : Bus!Dispose(h)
  BY <1>2, DisposeKeeps
<1>3. CASE \E f \in Fires, kind \in Bus!Kinds : Bus!Fire(f, kind)
  BY <1>3, FireKeeps
<1>4. CASE \E f \in Fires : Bus!Continues(f) \/ Bus!Replaces(f) \/ Bus!Denies(f) \/ Bus!Fails(f)
  BY <1>4, AnswersKeep
<1>5. CASE UNCHANGED Bus!vars
  BY <1>5 DEF Bus!vars, Bus!HInv, Bus!ListIsSorted, Bus!Walk, Bus!InOrder, Bus!NothingIsBehind,
     Bus!StillThere, Bus!Chained, Bus!Before, Bus!Untouched
<1> QED BY <1>1, <1>2, <1>3, <1>4, <1>5 DEF Bus!Next

LEMMA HInvMeans == Bus!HInv => Bus!TypeOK /\ Bus!AskedInOrder /\ Bus!PassedMeansAsked /\ Bus!RewritesChain
<1> SUFFICES ASSUME Bus!HInv PROVE Bus!TypeOK /\ Bus!AskedInOrder /\ Bus!PassedMeansAsked /\ Bus!RewritesChain
  OBVIOUS
<1>1. \A f \in Fires : fire[f] \in Bus!FireRecord /\ Bus!InOrder(fire[f]) /\ Bus!Chained(fire[f])
  BY DEF Bus!HInv, Bus!Walk
<1>2. Bus!AskedInOrder
  BY <1>1 DEF Bus!AskedInOrder, Bus!InOrder
<1>3. Bus!RewritesChain
  BY <1>1 DEF Bus!RewritesChain, Bus!Chained
<1>4. Bus!PassedMeansAsked
  BY DEF Bus!HInv, Bus!Walk, Bus!PassedMeansAsked
<1>5. Bus!TypeOK
  BY DEF Bus!HInv, Bus!ListIsSorted, Bus!TypeOK
<1> QED BY <1>2, <1>3, <1>4, <1>5

-----------------------------------------------------------------------------
(* The suite: each part keeps the invariant of its component.               *)

PartsInv ==
  /\ part = "ceilings" => Turns(CeilingTurn)!BudgetInv
  /\ part = "lossy" => Turns(LossyTurn)!BudgetInv
  /\ part = "live" => Turns(LiveTurn)!BudgetInv
  /\ part = "bus" => Bus!HInv

LEMMA PartsInit == Init => PartsInv
<1> SUFFICES ASSUME Init PROVE PartsInv
  OBVIOUS
<1>1. /\ part = "ceilings" => Turns(CeilingTurn)!BudgetInv
      /\ part = "lossy" => Turns(LossyTurn)!BudgetInv
      /\ part = "live" => Turns(LiveTurn)!BudgetInv
  BY ConstantsAreLegal, BudgetInvInit DEF Init, ConstantsAreLegal
<1>2. part = "bus" => Bus!HInv
  BY HInvInit DEF Init
<1> QED BY <1>1, <1>2 DEF PartsInv

LEMMA PartsStep ==
  ASSUME PartsInv, [Next]_vars
  PROVE  PartsInv'
<1>1. part' = part
  BY DEF Next, vars
<1>2. ASSUME part = "ceilings" PROVE Turns(CeilingTurn)!BudgetInv'
  <2>1. Turns(CeilingTurn)!Next \/ UNCHANGED Turns(CeilingTurn)!vars
    BY <1>2 DEF Next, vars, onlyBudget, Turns!vars
  <2> QED BY <1>2, <2>1, ConstantsAreLegal, BudgetInvStep DEF PartsInv, ConstantsAreLegal
<1>3. ASSUME part = "lossy" PROVE Turns(LossyTurn)!BudgetInv'
  <2>1. Turns(LossyTurn)!Next \/ UNCHANGED Turns(LossyTurn)!vars
    BY <1>3 DEF Next, vars, onlyBudget, Turns!vars
  <2> QED BY <1>3, <2>1, ConstantsAreLegal, BudgetInvStep DEF PartsInv, ConstantsAreLegal
<1>4. ASSUME part = "live" PROVE Turns(LiveTurn)!BudgetInv'
  <2>1. Turns(LiveTurn)!Next \/ UNCHANGED Turns(LiveTurn)!vars
    BY <1>4 DEF Next, vars, onlyBudget, Turns!vars
  <2> QED BY <1>4, <2>1, ConstantsAreLegal, BudgetInvStep DEF PartsInv, ConstantsAreLegal
<1>5. ASSUME part = "bus" PROVE Bus!HInv'
  <2>1. [Bus!Next]_(Bus!vars)
    <3>1. CASE Next
      BY <1>5, <3>1 DEF Next
    <3>2. CASE UNCHANGED vars
      BY <3>2 DEF vars, hookVars, Bus!vars
    <3> QED BY <3>1, <3>2
  <2> QED BY <1>5, <2>1, HInvStep DEF PartsInv
<1> QED BY <1>1, <1>2, <1>3, <1>4, <1>5 DEF PartsInv

(* The ceilings bind what a turn was told, and what it is billed; a turn     *)
(* they end has reached one, and no tool outlives the wall clock by more than *)
(* the calls before it (budget.ts): for every budget, price sheet, response,  *)
(* timeout and number of calls, with streams that break off, lost usage,     *)
(* cancels and subagents.                                                   *)
THEOREM CeilingsAreKept == Spec => []CeilingsAreTrue
<1>1. PartsInv => CeilingsAreTrue
  <2>1. SUFFICES ASSUME PartsInv PROVE CeilingsAreTrue
    OBVIOUS
  <2>2. /\ part = "ceilings" => Turns(CeilingTurn)!TypeOK /\ KeepsCeilings(CeilingTurn)
        /\ part = "lossy" => Turns(LossyTurn)!TypeOK /\ KeepsCeilings(LossyTurn)
        /\ part = "live" => Turns(LiveTurn)!TypeOK /\ KeepsCeilings(LiveTurn)
    BY <2>1, ConstantsAreLegal, BudgetInvMeans DEF PartsInv, ConstantsAreLegal, Turns!BudgetInv
  <2>3. part = "bus" => Bus!TypeOK
    BY <2>1, HInvMeans DEF PartsInv
  <2> QED BY <2>2, <2>3 DEF CeilingsAreTrue, TypesHold
<1> QED BY <1>1, PartsInit, PartsStep, PTL DEF Spec

(* Every fire asks in order, passes only over what moved and never over      *)
(* silence before a tool, and returns what its last rewriting hook left     *)
(* (hooks.ts), with any hooks and fires.                                    *)
THEOREM FiresStayFaithful == Spec => []FireIsFaithful
<1>1. PartsInv => FireIsFaithful
  BY HInvMeans DEF PartsInv, FireIsFaithful
<1> QED BY <1>1, PartsInit, PartsStep, PTL DEF Spec

=============================================================================
