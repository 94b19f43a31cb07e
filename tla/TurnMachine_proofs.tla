--------------------------- MODULE TurnMachine_proofs ---------------------------
(***************************************************************************)
(* What holds of the agent loop for every budget, every number of turns    *)
(* and calls and every set of callbacks that may throw.  The type is        *)
(* inductive by itself.  It is kept in parts, one per group of variables,  *)
(* so that the step of an action deals with the parts it writes and the    *)
(* rest is UNCHANGED; the lemmas are the operators the actions share.      *)
(* On it rests the safety of the loop: what a cancel stops, what the       *)
(* ceilings stop, where a subagent may run, and what a frame says of its    *)
(* end and of its tool calls.  Last comes the history: it can be replayed   *)
(* in every state a provider or the embedder sees it in, and without        *)
(* callbacks that throw the loop implements Conversation.                   *)
(***************************************************************************)
EXTENDS TurnMachine, FiniteSetTheorems, TLAPS

(* A frame no turn is using has the type of a frame.                       *)
LEMMA IdleFrameType == IdleFrame \in Frame
BY DEF IdleFrame, Frame, Points, Outcomes, StopReasons

(* Ending the loop keeps frames and totals typed.                          *)
LEMMA StopType ==
  ASSUME FramesOK, CountsOK, NEW l \in Level, NEW f \in Frame, NEW reason \in StopReasons, Stop(l, f, reason)
  PROVE FramesOK' /\ usage' \in Nat /\ turns' \in Nat
<1>1. [f EXCEPT !.pc = "turnEnd", !.stop = reason] \in Frame
  BY DEF Frame, Points
<1>2. FramesOK'
  BY <1>1 DEF Stop, FramesOK
<1>3. usage' \in Nat /\ turns' \in Nat
  BY DEF Stop, CountsOK, totals, Frame
<1>. QED BY <1>2, <1>3

(* Beginning an iteration, or stopping instead, keeps frames and totals    *)
(* typed.                                                                  *)
LEMMA BeginStepType ==
  ASSUME FramesOK, CountsOK, NEW l \in Level, NEW f \in Frame, BeginStep(l, f)
  PROVE FramesOK' /\ usage' \in Nat /\ turns' \in Nat
<1>1. CASE Preflight(l, f) = "none"
  <2>1. [f EXCEPT !.pc = "stream"] \in Frame
    BY DEF Frame, Points
  <2>. QED BY <1>1, <2>1 DEF BeginStep, FramesOK, CountsOK, totals
<1>2. CASE Preflight(l, f) # "none"
  <2>1. Preflight(l, f) \in StopReasons
    BY <1>2 DEF Preflight, Exhausted, StopReasons
  <2>2. Stop(l, f, Preflight(l, f))
    BY <1>2 DEF BeginStep
  <2>. QED BY <2>1, <2>2, StopType
<1>. QED BY <1>1, <1>2

(* Starting on a tool call keeps the frames typed.                         *)
LEMMA DispatchType ==
  ASSUME FramesOK, NEW l \in Level, NEW f \in Frame, NEW k \in Nat, Dispatch(l, f, k)
  PROVE FramesOK'
<1>1. PICK known \in BOOLEAN :
    fr' = [fr EXCEPT ![l] =
      [f EXCEPT !.at = k, !.pc = IF known THEN "pre" ELSE "dispatched",
                !.outcome = IF known THEN "none" ELSE "unran"]]
  BY DEF Dispatch
<1>2. [f EXCEPT !.at = k, !.pc = IF known THEN "pre" ELSE "dispatched",
                !.outcome = IF known THEN "none" ELSE "unran"] \in Frame
  BY DEF Frame, Points, Outcomes
<1>. QED BY <1>1, <1>2 DEF FramesOK

(* The messages the loop appends are messages.                             *)
LEMMA MessageTypes ==
  /\ User \in Message
  /\ \A n \in Nat : Asks(n) \in Message /\ Answers(n) \in Seq(Message)
BY DEF User, Asks, Answers, Message

(* Entering a tool body, a subagent's included, keeps frames, histories and*)
(* the count of late runs typed.                                           *)
LEMMA EnterToolType ==
  ASSUME FramesOK, HistoryOK, lateRuns \in Nat, NEW l \in Level, EnterTool(l)
  PROVE FramesOK' /\ HistoryOK' /\ lateRuns' \in Nat
<1>1. lateRuns' \in Nat
  <2>1. (IF aborted THEN 1 ELSE 0) \in Nat
    OBVIOUS
  <2>2. lateRuns' = lateRuns + (IF aborted THEN 1 ELSE 0)
    BY Zenon DEF EnterTool
  <2>. QED BY <2>1, <2>2
<1>2. fr[l] \in Frame /\ fr[l].at \in Nat /\ fr[l].ran \cup {fr[l].at} \in SUBSET Nat
  BY DEF FramesOK, Frame
<1>3. CASE /\ fr' = [fr EXCEPT ![l].pc = "exec", ![l].ran = @ \cup {fr[l].at}]
           /\ UNCHANGED history
  <2>1. [fr[l] EXCEPT !.pc = "exec", !.ran = @ \cup {fr[l].at}] \in Frame
    BY <1>2 DEF Frame, Points
  <2>2. FramesOK'
    BY <1>3, <2>1 DEF FramesOK
  <2>. QED BY <1>1, <1>3, <2>2, Zenon DEF HistoryOK
<1>4. CASE /\ l = "turn"
           /\ fr' = [fr EXCEPT !["turn"].pc = "task", !["turn"].ran = @ \cup {fr[l].at},
                            !["sub"] = [IdleFrame EXCEPT !.pc = "turnStart"]]
           /\ history' = [history EXCEPT !["sub"] = <<>>]
  <2>1. [fr["turn"] EXCEPT !.pc = "task", !.ran = @ \cup {fr["turn"].at}] \in Frame
    BY <1>2, <1>4 DEF Frame, Points
  <2>2. [IdleFrame EXCEPT !.pc = "turnStart"] \in Frame
    BY IdleFrameType DEF Frame, Points
  <2>3. FramesOK'
    BY <1>4, <2>1, <2>2 DEF FramesOK, Level
  <2>4. HistoryOK'
    BY <1>4 DEF HistoryOK, Level
  <2>. QED BY <1>1, <2>3, <2>4
<1>. QED BY <1>3, <1>4 DEF EnterTool

(* A dispatch that returns an outcome keeps the frames typed.              *)
LEMMA DispatchedType ==
  ASSUME FramesOK, NEW l \in Level, NEW outcome \in Outcomes, Dispatched(l, outcome)
  PROVE FramesOK'
<1>1. [fr[l] EXCEPT !.pc = "dispatched", !.outcome = outcome] \in Frame
  BY DEF FramesOK, Frame, Points
<1>. QED BY <1>1 DEF Dispatched, FramesOK

(* Leaving runTurn, normally or by a throw, keeps every part of the type it*)
(* touches.                                                                *)
LEMMA LeaveType ==
  ASSUME FramesOK, HistoryOK, TurnsOK, ResultOK, NEW l \in Level,
         NEW how \in StopReasons \cup {"threw"}, Leave(l, how)
  PROVE FramesOK' /\ HistoryOK' /\ TurnsOK' /\ ResultOK'
<1>. USE DEF Level
<1>1. CASE l = "turn"
  <2>1. FramesOK' /\ HistoryOK' /\ TurnsOK'
    BY <1>1, IdleFrameType, BoundsAssumption DEF Leave, FramesOK, HistoryOK, TurnsOK
  <2>2. ResultOK'
    BY <1>1 DEF Leave, ResultOK
  <2>. QED BY <2>1, <2>2
<1>2. CASE l # "turn"
  <2>1. /\ fr' = [fr EXCEPT !["sub"] = IdleFrame, !["turn"].pc = "dispatched",
                            !["turn"].outcome = "ran"]
        /\ history' = [history EXCEPT !["sub"] = <<>>]
        /\ UNCHANGED session
    BY <1>2 DEF Leave
  <2>2. fr["turn"] \in Frame
    BY DEF FramesOK
  <2>3. [fr["turn"] EXCEPT !.pc = "dispatched", !.outcome = "ran"] \in Frame
    BY <2>2 DEF Frame, Points, Outcomes
  <2>4. FramesOK'
    BY <2>1, <2>3, IdleFrameType DEF FramesOK
  <2>5. HistoryOK'
    BY <2>1 DEF HistoryOK
  <2>6. TurnsOK' /\ ResultOK'
    BY <2>1 DEF session, TurnsOK, ResultOK
  <2>. QED BY <2>4, <2>5, <2>6
<1>. QED BY <1>1, <1>2

(* A frame that drops the locals of runToolCalls is still a frame.         *)
LEMMA AfterToolsType == \A f \in Frame : AfterTools(f) \in Frame
BY DEF AfterTools, Frame, Outcomes

(* The end of a model stream keeps the frames typed.                       *)
LEMMA StreamEndsType ==
  ASSUME FramesOK, NEW l \in Level, StreamEnds(l)
  PROVE FramesOK'
<1>1. PICK n \in 0 .. MaxCalls, tokens \in StepTokens, finish \in {"stop", "error"} :
       fr' = [fr EXCEPT ![l].pc = "answered", ![l].steps = @ + 1,
                        ![l].tokens = @ + tokens, ![l].calls = n,
                        ![l].finish = finish]
  BY DEF StreamEnds
<1>2. [fr[l] EXCEPT !.pc = "answered", !.steps = @ + 1,
                        !.tokens = @ + tokens, !.calls = n,
                        !.finish = finish] \in Frame
  <2>1. /\ n \in Nat /\ tokens \in Nat /\ fr[l] \in Frame
        /\ fr[l].steps + 1 \in Nat /\ fr[l].tokens + tokens \in Nat
    BY BudgetAssumption, BoundsAssumption DEF FramesOK, Frame
  <2>. QED BY <2>1 DEF Frame, Points
<1>. QED BY <1>1, <1>2 DEF FramesOK

(* Reporting an outcome keeps the frames typed.                            *)
LEMMA EmitOutcomeType ==
  ASSUME FramesOK, NEW l \in Level, EmitOutcome(l)
  PROVE FramesOK'
<1>. DEFINE f == fr[l]
<1>1. f \in Frame /\ f.denied \cup {f.at} \in SUBSET Nat /\ f.started \cup {f.at} \in SUBSET Nat
  BY DEF FramesOK, Frame
<1>2. (f.outcome = "abort") \in BOOLEAN
  OBVIOUS
<1>3. [f EXCEPT !.pc = "emitted", !.denied = @ \cup {f.at}, !.abort = f.outcome = "abort"] \in Frame
  BY <1>1, <1>2 DEF Frame, Points
<1>4. [f EXCEPT !.pc = "emitted", !.started = @ \cup {f.at}] \in Frame
  BY <1>1 DEF Frame, Points
<1>. QED BY <1>3, <1>4 DEF EmitOutcome, FramesOK

(* Appending messages to one level keeps the histories typed.              *)
LEMMA AppendsType ==
  ASSUME HistoryOK, NEW l \in Level, NEW s \in Seq(Message),
         history' = [history EXCEPT ![l] = @ \o s]
  PROVE HistoryOK'
BY DEF HistoryOK

(* Every step keeps the types: one step of the proof per action.            *)
LEMMA TypeStep ==
  ASSUME TypeOK, [Next]_vars
  PROVE TypeOK'
<1>. USE DEF TypeOK
<1>1. CASE TurnSubmit
  <2>1. [IdleFrame EXCEPT !.pc = "turnStart"] \in Frame
    BY IdleFrameType DEF Frame, Points
  <2>2. FramesOK'
    BY <1>1, <2>1 DEF TurnSubmit, FramesOK
  <2>3. TurnsOK'
    BY <1>1, BoundsAssumption DEF TurnSubmit, TurnsOK
  <2>4. FlagsOK'
    BY <1>1, Zenon DEF TurnSubmit, FlagsOK
  <2>5. HistoryOK' /\ CountsOK' /\ ResultOK'
    BY <1>1 DEF TurnSubmit, totals, HistoryOK, CountsOK, ResultOK
  <2>. QED BY <2>2, <2>3, <2>4, <2>5
<1>2. ASSUME NEW t \in TurnIds, TurnCancel(t) PROVE TypeOK'
  <2>1. FlagsOK'
    BY <1>2, Zenon DEF TurnCancel, FlagsOK, session, observed
  <2>2. FramesOK' /\ HistoryOK' /\ TurnsOK' /\ CountsOK' /\ ResultOK'
    BY <1>2 DEF TurnCancel, session, totals, observed, FramesOK, HistoryOK, TurnsOK, CountsOK, ResultOK
  <2>. QED BY <2>1, <2>2
<1>3. CASE SessionClose
  <2>1. (aborted \/ active # 0) \in BOOLEAN
    OBVIOUS
  <2>2. FlagsOK'
    BY <1>3, <2>1, Zenon DEF SessionClose, FlagsOK, observed
  <2>3. FramesOK' /\ HistoryOK' /\ TurnsOK' /\ CountsOK' /\ ResultOK'
    BY <1>3 DEF SessionClose, totals, observed, FramesOK, HistoryOK, TurnsOK, CountsOK, ResultOK
  <2>. QED BY <2>2, <2>3
<1>4. ASSUME NEW l \in Level, Engine(l) \/ ApprovalAnswered(l) \/ Fault(l)
      PROVE TypeOK'
  <2>. fr[l] \in Frame /\ fr[l].at \in Nat /\ fr[l].calls \in Nat
    BY DEF FramesOK, Frame
  <2>a. ASSUME UNCHANGED <<session, aborted, observed>>
        PROVE TurnsOK' /\ ResultOK' /\ FlagsOK' /\ lateRuns' = lateRuns
    <3>1. TurnsOK' /\ ResultOK' /\ lateRuns' = lateRuns
      BY <2>a DEF session, observed, TurnsOK, ResultOK
    <3>2. FlagsOK'
      BY <2>a, Zenon DEF session, observed, FlagsOK
    <3>. QED BY <3>1, <3>2
  <2>b. lateRuns \in Nat
    BY DEF CountsOK
  <2>1. CASE TurnStartHooks(l)
    <3>1. PICK injected \in {<<>>, <<User>>} :
            history' = [history EXCEPT ![l] = @ \o injected \o <<User>>]
      BY <2>1 DEF TurnStartHooks
    <3>2. HistoryOK'
      <4>1. history[l] \in Seq(Message) /\ injected \in Seq(Message) /\ <<User>> \in Seq(Message)
        <5>1. history[l] \in Seq(Message)
          BY DEF HistoryOK
        <5>2. <<User>> \in Seq(Message)
          BY MessageTypes
        <5>3. CASE injected = <<>>
          BY <5>1, <5>2, <5>3
        <5>4. CASE injected = <<User>>
          BY <5>1, <5>2, <5>4
        <5>. QED BY <3>1, <5>3, <5>4
      <4>2. history[l] \o injected \o <<User>> \in Seq(Message)
        BY <4>1
      <4>. QED BY <3>1, <4>2 DEF HistoryOK
    <3>3. FramesOK' /\ usage' \in Nat /\ turns' \in Nat
      BY <2>1, BeginStepType DEF TurnStartHooks
    <3>. QED BY <2>1, <2>a, <2>b, <3>2, <3>3 DEF TurnStartHooks, CountsOK
  <2>2. CASE StreamThrows(l)
    <3>1. FramesOK' /\ usage' \in Nat /\ turns' \in Nat
      BY <2>2, StopType DEF StreamThrows, StopReasons
    <3>. QED BY <2>2, <2>a, <2>b, <3>1 DEF StreamThrows, CountsOK, HistoryOK
  <2>3. CASE StreamEnds(l)
    BY <2>3, <2>a, StreamEndsType DEF StreamEnds, CountsOK, HistoryOK, totals
  <2>4. CASE AfterResponse(l)
    <3>1. CASE aborted
      <4>1. Stop(l, fr[l], "cancelled") /\ UNCHANGED history
        BY <2>4, <3>1, Zenon DEF AfterResponse
      <4>2. FramesOK' /\ usage' \in Nat /\ turns' \in Nat
        BY <4>1, StopType DEF StopReasons
      <4>. QED BY <2>4, <2>a, <2>b, <4>1, <4>2 DEF AfterResponse, CountsOK, HistoryOK
    <3>2. CASE ~aborted
      <4>1. history' = [history EXCEPT ![l] = Append(@, Asks(fr[l].calls))]
        BY <2>4, <3>2, Zenon DEF AfterResponse
      <4>2. HistoryOK'
        <5>1. history[l] \in Seq(Message) /\ Asks(fr[l].calls) \in Message
          BY MessageTypes DEF HistoryOK
        <5>2. Append(history[l], Asks(fr[l].calls)) \in Seq(Message)
          BY <5>1
        <5>. QED BY <4>1, <5>2 DEF HistoryOK
      <4>3. FramesOK' /\ usage' \in Nat /\ turns' \in Nat
        <5>1. CASE fr[l].calls = 0
          <6>1. Stop(l, fr[l], IF fr[l].finish = "error" THEN "error" ELSE "end-turn")
            BY <2>4, <3>2, <5>1, Zenon DEF AfterResponse
          <6>. QED BY <6>1, StopType DEF StopReasons
        <5>2. CASE fr[l].calls # 0
          <6>1. Dispatch(l, fr[l], 1) /\ UNCHANGED totals
            BY <2>4, <3>2, <5>2, Zenon DEF AfterResponse
          <6>. QED BY <6>1, DispatchType DEF totals, CountsOK
        <5>. QED BY <5>1, <5>2
      <4>. QED BY <2>4, <2>a, <2>b, <4>2, <4>3 DEF AfterResponse, CountsOK
    <3>. QED BY <3>1, <3>2
  <2>5. CASE PreHooks(l)
    <3>1. TurnsOK' /\ ResultOK' /\ FlagsOK' /\ usage' \in Nat /\ turns' \in Nat
      <4>1. TurnsOK' /\ ResultOK' /\ usage' \in Nat /\ turns' \in Nat
        BY <2>5 DEF PreHooks, session, totals, TurnsOK, ResultOK, CountsOK
      <4>2. FlagsOK'
        BY <2>5, Zenon DEF PreHooks, session, FlagsOK
      <4>. QED BY <4>1, <4>2
    <3>2. CASE /\ \E outcome \in {"denied", "unran"} : Dispatched(l, outcome)
               /\ UNCHANGED <<history, lateRuns>>
      BY <3>1, <3>2, DispatchedType DEF Outcomes, CountsOK, HistoryOK
    <3>3. CASE fr' = [fr EXCEPT ![l].pc = "approval"] /\ UNCHANGED <<history, lateRuns>>
      <4>1. [fr[l] EXCEPT !.pc = "approval"] \in Frame
        BY DEF Frame, Points
      <4>. QED BY <3>1, <3>3, <4>1 DEF FramesOK, CountsOK, HistoryOK
    <3>4. CASE EnterTool(l)
      BY <2>b, <3>1, <3>4, EnterToolType DEF CountsOK
    <3>. QED BY <2>5, <3>2, <3>3, <3>4 DEF PreHooks
  <2>6. CASE ToolReturns(l)
    BY <2>6, <2>a, DispatchedType DEF ToolReturns, Outcomes, CountsOK, HistoryOK, totals
  <2>7. CASE EmitOutcome(l)
    BY <2>7, <2>a, EmitOutcomeType DEF EmitOutcome, CountsOK, HistoryOK, totals
  <2>8. CASE NextCall(l)
    BY <2>8, <2>a, DispatchType DEF NextCall, CountsOK, HistoryOK, totals
  <2>9. CASE CloseStep(l)
    <3>1. HistoryOK'
      BY <2>9, MessageTypes, AppendsType DEF CloseStep
    <3>2. AfterTools(fr[l]) \in Frame
      BY AfterToolsType
    <3>3. FramesOK' /\ usage' \in Nat /\ turns' \in Nat
      <4>1. CASE fr[l].abort
        <5>1. Stop(l, AfterTools(fr[l]), "refused")
          BY <2>9, <4>1, Zenon DEF CloseStep
        <5>. QED BY <3>2, <5>1, StopType DEF StopReasons
      <4>2. CASE ~fr[l].abort
        <5>1. BeginStep(l, AfterTools(fr[l]))
          BY <2>9, <4>2, Zenon DEF CloseStep
        <5>. QED BY <3>2, <5>1, BeginStepType
      <4>. QED BY <4>1, <4>2
    <3>. QED BY <2>9, <2>a, <2>b, <3>1, <3>3 DEF CloseStep, CountsOK
  <2>10. CASE TurnEndHooks(l)
    <3>1. [fr[l] EXCEPT !.pc = "completed"] \in Frame
      BY DEF Frame, Points
    <3>2. FramesOK'
      BY <2>10, <3>1 DEF TurnEndHooks, FramesOK
    <3>. QED BY <2>10, <2>a, <3>2 DEF TurnEndHooks, CountsOK, HistoryOK, totals
  <2>11. ASSUME NEW k \in Level, NEW how \in StopReasons \cup {"threw"},
                Leave(k, how), UNCHANGED <<aborted, totals, observed>>
         PROVE TypeOK'
    <3>1. FramesOK' /\ HistoryOK' /\ TurnsOK' /\ ResultOK'
      BY <2>11, LeaveType
    <3>2. UNCHANGED open
      BY <2>11 DEF Leave, session
    <3>3. FlagsOK'
      BY <2>11, <3>2, Zenon DEF FlagsOK, observed
    <3>. QED BY <2>11, <3>1, <3>3 DEF totals, observed, CountsOK
  <2>12. CASE RunTurnReturns(l)
    <3>1. fr[l].stop \in StopReasons
      BY DEF Frame
    <3>. QED BY <2>11, <2>12, <3>1 DEF RunTurnReturns
  <2>13. CASE SinkThrows(l) \/ ApprovalRejects(l) \/ (l = "turn" /\ BudgetRefused)
    BY <2>11, <2>13 DEF SinkThrows, ApprovalRejects, BudgetRefused
  <2>14. CASE ApprovalAnswered(l)
    <3>1. TurnsOK' /\ ResultOK' /\ usage' \in Nat /\ turns' \in Nat
      BY <2>14 DEF ApprovalAnswered, session, totals, TurnsOK, ResultOK, CountsOK
    <3>2. CASE EnterTool(l) /\ UNCHANGED saidAbort
      <4>1. FlagsOK'
        BY <2>14, <3>2, Zenon DEF ApprovalAnswered, session, FlagsOK
      <4>. QED BY <2>b, <3>1, <3>2, <4>1, EnterToolType DEF CountsOK
    <3>3. CASE /\ \E outcome \in {"denied", "abort"} :
                    /\ Dispatched(l, outcome)
                    /\ saidAbort' = (saidAbort \/ outcome = "abort")
               /\ UNCHANGED <<history, lateRuns>>
      <4>1. PICK outcome \in {"denied", "abort"} :
               Dispatched(l, outcome) /\ saidAbort' = (saidAbort \/ outcome = "abort")
        BY <3>3
      <4>2. (saidAbort \/ outcome = "abort") \in BOOLEAN
        OBVIOUS
      <4>3. FlagsOK'
        BY <2>14, <4>1, <4>2, Zenon DEF ApprovalAnswered, session, FlagsOK
      <4>4. FramesOK'
        BY <4>1, DispatchedType DEF Outcomes
      <4>. QED BY <3>1, <3>3, <4>3, <4>4 DEF CountsOK, HistoryOK
    <3>. QED BY <2>14, <3>2, <3>3 DEF ApprovalAnswered
  <2>. QED BY <1>4, <2>1, <2>2, <2>3, <2>4, <2>5, <2>6, <2>7, <2>8, <2>9, <2>10, <2>12,
              <2>13, <2>14 DEF Engine, Fault
<1>5. CASE UNCHANGED vars
  <2>1. FlagsOK'
    BY <1>5, Zenon DEF vars, FlagsOK
  <2>2. FramesOK' /\ HistoryOK' /\ TurnsOK' /\ CountsOK' /\ ResultOK'
    BY <1>5 DEF vars, FramesOK, HistoryOK, TurnsOK, CountsOK, ResultOK
  <2>. QED BY <2>1, <2>2
<1>. QED BY <1>1, <1>2, <1>3, <1>4, <1>5 DEF Next, Embedder

(* The initial state is typed.                                             *)
LEMMA TypeInit ==
  ASSUME Init
  PROVE TypeOK
<1>1. FramesOK
  BY IdleFrameType DEF Init, FramesOK
<1>2. FlagsOK
  BY Zenon DEF Init, FlagsOK
<1>3. HistoryOK /\ TurnsOK /\ CountsOK /\ ResultOK
  BY BoundsAssumption DEF Init, HistoryOK, TurnsOK, CountsOK, ResultOK
<1>. QED BY <1>1, <1>2, <1>3 DEF TypeOK

(* Every state of the loop is typed, for every bound, budget and set of    *)
(* throwing callbacks.                                                     *)
THEOREM TypeCorrect == Spec => []TypeOK
BY TypeInit, TypeStep, PTL DEF Spec

-----------------------------------------------------------------------------
(* A new model request is made by BeginStep and by nothing else.            *)
LEMMA BeginStepAsks ==
  ASSUME FramesOK, NEW l \in Level, NEW f \in Frame, BeginStep(l, f)
  PROVE \/ /\ fr' = [fr EXCEPT ![l] = [f EXCEPT !.pc = "stream"]]
           /\ ~aborted /\ f.steps < StepBudget[l] /\ (l = "turn" => f.tokens < TokenBudget)
        \/ \E reason \in StopReasons :
             fr' = [fr EXCEPT ![l] = [f EXCEPT !.pc = "turnEnd", !.stop = reason]]
<1>1. CASE Preflight(l, f) = "none"
  <2>1. fr' = [fr EXCEPT ![l] = [f EXCEPT !.pc = "stream"]]
    BY <1>1 DEF BeginStep
  <2>2. ~aborted /\ ~(f.steps >= StepBudget[l]) /\ ~(l = "turn" /\ f.tokens >= TokenBudget)
    BY <1>1 DEF Preflight, Exhausted
  <2>3. f.steps \in Nat /\ f.tokens \in Nat /\ StepBudget[l] \in Nat /\ TokenBudget \in Nat
    BY BudgetAssumption DEF Frame
  <2>4. f.steps < StepBudget[l] /\ (l = "turn" => f.tokens < TokenBudget)
    BY <2>2, <2>3
  <2>. QED BY <2>1, <2>2, <2>4
<1>2. CASE Preflight(l, f) # "none"
  <2>1. Preflight(l, f) \in StopReasons
    BY <1>2 DEF Preflight, Exhausted, StopReasons
  <2>2. Stop(l, f, Preflight(l, f))
    BY <1>2 DEF BeginStep
  <2>. QED BY <2>1, <2>2 DEF Stop
<1>. QED BY <1>1, <1>2

(* What a step of the engine, of the person or of a fault does to the       *)
(* frames: it asks the model, starts on a tool call, enters a tool body,    *)
(* moves on, or leaves runTurn.                                            *)
Stays(l)  == \A k \in Level \ {l} : fr'[k] = fr[k]
Asking(l) ==
  /\ fr[l].pc \in {"turnStart", "emitted"} /\ fr'[l].pc = "stream" /\ Stays(l)
  /\ ~aborted /\ fr'[l].steps < StepBudget[l]
  /\ l = "turn" => fr'[l].tokens < TokenBudget
Calling(l) ==
  /\ fr[l].pc \in {"answered", "emitted"} /\ fr'[l].pc \in {"pre", "dispatched"}
  /\ ~aborted /\ Stays(l)
Entering(l) ==
  /\ fr[l].pc \in {"pre", "approval"}
  /\ \/ fr'[l].pc = "exec" /\ Stays(l)
     \/ l = "turn" /\ fr'["turn"].pc = "task" /\ fr'["sub"].pc = "turnStart"
Moving(l) ==
  /\ fr[l].pc \notin {"idle", "task"} /\ Stays(l)
  /\ \/ fr[l].pc = "pre" /\ fr'[l].pc = "approval"
     \/ fr'[l].pc \in {"answered", "dispatched", "emitted", "turnEnd", "completed"}
Leaving(l) ==
  /\ fr[l].pc \notin {"idle", "task"}
  /\ fr'[l].pc = "idle"
  /\ l = "turn" => fr'["sub"] = fr["sub"]
  /\ l = "sub" => fr'["turn"].pc = "dispatched"

Quiet   == lateRuns' = lateRuns /\ active' = active
Counted == lateRuns' = lateRuns + (IF aborted THEN 1 ELSE 0) /\ active' = active
Shape(l) ==
  /\ aborted' = aborted
  /\ \/ (Asking(l) \/ Calling(l) \/ Moving(l)) /\ Quiet
     \/ Entering(l) /\ Counted
     \/ Leaving(l) /\ lateRuns' = lateRuns /\ active' = (IF l = "turn" THEN 0 ELSE active)

(* Beginning an iteration asks the model or moves on to the end of the turn. *)
LEMMA BeginStepShape ==
  ASSUME FramesOK, NEW l \in Level, NEW f \in Frame, BeginStep(l, f),
         fr[l].pc \in {"turnStart", "emitted"}
  PROVE Asking(l) \/ Moving(l)
<1>1. ASSUME fr' = [fr EXCEPT ![l] = [f EXCEPT !.pc = "stream"]],
             ~aborted, f.steps < StepBudget[l], l = "turn" => f.tokens < TokenBudget
      PROVE Asking(l)
  BY <1>1 DEF Asking, Stays, FramesOK, Frame
<1>2. ASSUME NEW reason \in StopReasons,
             fr' = [fr EXCEPT ![l] = [f EXCEPT !.pc = "turnEnd", !.stop = reason]]
      PROVE Moving(l)
  BY <1>2 DEF Moving, Stays, FramesOK, Frame
<1>3. \/ /\ fr' = [fr EXCEPT ![l] = [f EXCEPT !.pc = "stream"]]
         /\ ~aborted /\ f.steps < StepBudget[l] /\ (l = "turn" => f.tokens < TokenBudget)
      \/ \E reason \in StopReasons :
           fr' = [fr EXCEPT ![l] = [f EXCEPT !.pc = "turnEnd", !.stop = reason]]
  BY BeginStepAsks, Zenon
<1>. QED BY <1>1, <1>2, <1>3, Zenon

(* Stopping moves on to the end of the turn.                                *)
LEMMA StopShape ==
  ASSUME FramesOK, NEW l \in Level, NEW f \in Frame, NEW reason, Stop(l, f, reason),
         fr[l].pc \notin {"idle", "task"}
  PROVE Moving(l)
BY DEF Stop, Moving, Stays, FramesOK, Frame

(* Starting on a call is seen as such.                                      *)
LEMMA DispatchShape ==
  ASSUME FramesOK, NEW l \in Level, NEW f \in Frame, NEW k, Dispatch(l, f, k),
         fr[l].pc \in {"answered", "emitted"}, ~aborted
  PROVE Calling(l)
BY DEF Dispatch, Calling, Stays, FramesOK, Frame

(* Entering a tool body is seen as such.                                    *)
LEMMA EnterToolShape ==
  ASSUME FramesOK, NEW l \in Level, EnterTool(l), fr[l].pc \in {"pre", "approval"}
  PROVE Entering(l) /\ lateRuns' = lateRuns + (IF aborted THEN 1 ELSE 0)
<1>1. lateRuns' = lateRuns + (IF aborted THEN 1 ELSE 0)
  BY Zenon DEF EnterTool
<1>2. CASE fr' = [fr EXCEPT ![l].pc = "exec", ![l].ran = @ \cup {fr[l].at}]
  BY <1>1, <1>2 DEF Entering, Stays, FramesOK, Frame
<1>3. CASE /\ l = "turn"
           /\ fr' = [fr EXCEPT !["turn"].pc = "task", !["turn"].ran = @ \cup {fr[l].at},
                               !["sub"] = [IdleFrame EXCEPT !.pc = "turnStart"]]
  BY <1>1, <1>3 DEF Entering, FramesOK, Frame, Level, IdleFrame
<1>. QED BY <1>2, <1>3 DEF EnterTool

(* A dispatch that returns moves on.                                        *)
LEMMA DispatchedShape ==
  ASSUME FramesOK, NEW l \in Level, NEW outcome, Dispatched(l, outcome),
         fr[l].pc \notin {"idle", "task"}
  PROVE Moving(l)
BY DEF Dispatched, Moving, Stays, FramesOK, Frame

(* Every step of the loop has one of the shapes.                            *)
LEMMA StepShape ==
  ASSUME TypeOK, SubagentInsideTurn, NEW l \in Level,
         Engine(l) \/ ApprovalAnswered(l) \/ Fault(l)
  PROVE Shape(l)
<1>. FramesOK /\ fr[l] \in Frame
  BY DEF TypeOK, FramesOK
<1>. USE DEF session, observed
<1>1. CASE TurnStartHooks(l)
  <2>1. BeginStep(l, fr[l]) /\ fr[l].pc = "turnStart"
    BY <1>1 DEF TurnStartHooks
  <2>2. Asking(l) \/ Moving(l)
    BY <2>1, BeginStepShape
  <2>3. Quiet /\ aborted' = aborted
    BY <1>1 DEF TurnStartHooks, Quiet
  <2>. QED BY <2>2, <2>3 DEF Shape
<1>2. CASE StreamThrows(l)
  <2>1. Moving(l)
    BY <1>2, StopShape DEF StreamThrows
  <2>. QED BY <1>2, <2>1 DEF StreamThrows, Shape, Quiet
<1>3. CASE StreamEnds(l)
  <2>1. Moving(l)
    BY <1>3 DEF StreamEnds, Moving, Stays, FramesOK, Frame
  <2>. QED BY <1>3, <2>1 DEF StreamEnds, Shape, Quiet
<1>4. CASE AfterResponse(l)
  <2>1. fr[l].pc = "answered" /\ Quiet /\ aborted' = aborted
    BY <1>4 DEF AfterResponse, Quiet
  <2>2. CASE aborted \/ fr[l].calls = 0
    <3>1. \E reason : Stop(l, fr[l], reason)
      BY <1>4, <2>2, Zenon DEF AfterResponse
    <3>. QED BY <2>1, <3>1, StopShape DEF Shape
  <2>3. CASE ~(aborted \/ fr[l].calls = 0)
    <3>1. Dispatch(l, fr[l], 1)
      BY <1>4, <2>3, Zenon DEF AfterResponse
    <3>2. Calling(l)
      BY <2>1, <2>3, <3>1, DispatchShape
    <3>. QED BY <2>1, <3>2 DEF Shape
  <2>. QED BY <2>2, <2>3
<1>5. CASE PreHooks(l)
  <2>1. fr[l].pc = "pre" /\ aborted' = aborted /\ active' = active
    BY <1>5 DEF PreHooks
  <2>2. CASE (\E outcome \in {"denied", "unran"} : Dispatched(l, outcome)) /\ UNCHANGED lateRuns
    BY <2>1, <2>2, DispatchedShape DEF Shape, Quiet
  <2>3. CASE fr' = [fr EXCEPT ![l].pc = "approval"] /\ UNCHANGED lateRuns
    BY <2>1, <2>3 DEF Shape, Quiet, Moving, Stays, FramesOK, Frame
  <2>4. CASE EnterTool(l)
    BY <2>1, <2>4, EnterToolShape DEF Shape, Counted
  <2>. QED BY <1>5, <2>2, <2>3, <2>4 DEF PreHooks
<1>6. CASE ApprovalAnswered(l)
  <2>1. fr[l].pc = "approval" /\ aborted' = aborted /\ active' = active
    BY <1>6 DEF ApprovalAnswered
  <2>2. CASE (\E outcome \in {"denied", "abort"} : Dispatched(l, outcome)) /\ UNCHANGED lateRuns
    BY <2>1, <2>2, DispatchedShape DEF Shape, Quiet
  <2>3. CASE EnterTool(l)
    BY <2>1, <2>3, EnterToolShape DEF Shape, Counted
  <2>. QED BY <1>6, <2>2, <2>3 DEF ApprovalAnswered
<1>7. CASE ToolReturns(l)
  <2>1. Moving(l)
    BY <1>7, DispatchedShape DEF ToolReturns
  <2>. QED BY <1>7, <2>1 DEF ToolReturns, Shape, Quiet
<1>8. CASE EmitOutcome(l)
  <2>1. Moving(l)
    BY <1>8 DEF EmitOutcome, Moving, Stays, FramesOK, Frame
  <2>. QED BY <1>8, <2>1 DEF EmitOutcome, Shape, Quiet
<1>9. CASE NextCall(l)
  <2>1. fr[l].pc = "emitted" /\ ~aborted /\ Dispatch(l, fr[l], fr[l].at + 1)
    BY <1>9 DEF NextCall, Skipping
  <2>2. Calling(l)
    BY <2>1, DispatchShape
  <2>. QED BY <1>9, <2>2 DEF NextCall, Shape, Quiet
<1>10. CASE CloseStep(l)
  <2>1. fr[l].pc = "emitted" /\ Quiet /\ aborted' = aborted /\ AfterTools(fr[l]) \in Frame
    BY <1>10, AfterToolsType DEF CloseStep, Quiet
  <2>2. CASE fr[l].abort
    <3>1. Stop(l, AfterTools(fr[l]), "refused")
      BY <1>10, <2>2, Zenon DEF CloseStep
    <3>. QED BY <2>1, <3>1, StopShape DEF Shape
  <2>3. CASE ~fr[l].abort
    <3>1. BeginStep(l, AfterTools(fr[l]))
      BY <1>10, <2>3, Zenon DEF CloseStep
    <3>. QED BY <2>1, <3>1, BeginStepShape DEF Shape
  <2>. QED BY <2>2, <2>3
<1>11. CASE TurnEndHooks(l)
  <2>1. Moving(l)
    BY <1>11 DEF TurnEndHooks, Moving, Stays, FramesOK, Frame
  <2>. QED BY <1>11, <2>1 DEF TurnEndHooks, Shape, Quiet
<1>12. ASSUME NEW k \in Level, NEW how, k = l, Leave(k, how), UNCHANGED <<aborted, observed>>,
              fr[k].pc \notin {"idle", "task"}
       PROVE Shape(l)
  <2>1. CASE l = "turn"
    BY <1>12, <2>1 DEF Leave, Shape, Leaving, FramesOK, Frame, Level, IdleFrame
  <2>2. CASE l = "sub"
    BY <1>12, <2>2 DEF Leave, Shape, Leaving, FramesOK, Frame, Level, IdleFrame
  <2>. QED BY <2>1, <2>2 DEF Level
<1>13. CASE RunTurnReturns(l) \/ SinkThrows(l) \/ ApprovalRejects(l) \/ (l = "turn" /\ BudgetRefused)
  BY <1>12, <1>13 DEF RunTurnReturns, SinkThrows, ApprovalRejects, BudgetRefused
<1>. QED BY <1>1, <1>2, <1>3, <1>4, <1>5, <1>6, <1>7, <1>8, <1>9, <1>10, <1>11, <1>13
         DEF Engine, Fault

-----------------------------------------------------------------------------
(* A tool body entered after the abort was the last call to be waiting: no  *)
(* call waits for its hooks or for a person while the signal is aborted and *)
(* one has been let in.                                                    *)
NobodyWaitsBehind ==
  /\ lateRuns <= 1
  /\ lateRuns # 0 => aborted /\ \A l \in Level : fr[l].pc \notin {"pre", "approval"}

Safe == SubagentInsideTurn /\ RequestWithinBudget /\ NobodyWaitsBehind

(* The initial state is safe.                                               *)
LEMMA SafeInit == Init => Safe
BY DEF Init, Safe, SubagentInsideTurn, RequestWithinBudget, NobodyWaitsBehind, IdleFrame, Level

(* A step of the loop keeps the subagent inside the turn, its requests      *)
(* within the budget, and lets no second call in after the abort.           *)
LEMMA SafeEngine ==
  ASSUME TypeOK, Safe, NEW l \in Level, Shape(l)
  PROVE Safe'
<1>. USE DEF Safe
<1>1. SubagentInsideTurn'
  BY DEF SubagentInsideTurn, Shape, Asking, Calling, Moving, Entering, Leaving, Stays,
         Quiet, Counted, Level
<1>2. RequestWithinBudget'
  BY DEF RequestWithinBudget, SubagentInsideTurn, Shape, Asking, Calling, Moving, Entering,
         Leaving, Stays, Level
<1>3. NobodyWaitsBehind'
  BY DEF NobodyWaitsBehind, SubagentInsideTurn, Shape, Asking, Calling, Moving, Entering,
         Leaving, Stays, Quiet, Counted, Level, TypeOK, CountsOK
<1>. QED BY <1>1, <1>2, <1>3

(* Every step keeps the loop safe.                                          *)
LEMMA SafeStep ==
  ASSUME TypeOK, Safe, [Next]_vars
  PROVE Safe'
<1>. USE DEF Safe
<1>1. CASE TurnSubmit
  <2>1. /\ fr["turn"].pc = "idle" /\ fr["sub"].pc = "idle"
        /\ active' # 0 /\ lateRuns' = 0
        /\ fr' = [fr EXCEPT !["turn"] = [IdleFrame EXCEPT !.pc = "turnStart"]]
    BY <1>1 DEF TurnSubmit, SubagentInsideTurn, TypeOK, TurnsOK
  <2>2. fr'["turn"].pc = "turnStart" /\ fr'["sub"] = fr["sub"]
    BY <2>1 DEF TypeOK, FramesOK, Level, IdleFrame
  <2>. QED BY <2>1, <2>2 DEF SubagentInsideTurn, RequestWithinBudget, NobodyWaitsBehind, Level
<1>2. ASSUME NEW t \in TurnIds, TurnCancel(t) PROVE Safe'
  BY <1>2 DEF TurnCancel, session, observed, SubagentInsideTurn, RequestWithinBudget, NobodyWaitsBehind
<1>3. CASE SessionClose
  BY <1>3 DEF SessionClose, observed, SubagentInsideTurn, RequestWithinBudget, NobodyWaitsBehind
<1>4. ASSUME NEW l \in Level, Engine(l) \/ ApprovalAnswered(l) \/ Fault(l)
      PROVE Safe'
  BY <1>4, StepShape, SafeEngine
<1>5. CASE UNCHANGED vars
  BY <1>5 DEF vars, SubagentInsideTurn, RequestWithinBudget, NobodyWaitsBehind
<1>. QED BY <1>1, <1>2, <1>3, <1>4, <1>5 DEF Next, Embedder

(* The loop is safe in every reachable state.                               *)
LEMMA AlwaysSafe == Spec => [](TypeOK /\ Safe)
BY SafeInit, SafeStep, TypeInit, TypeStep, PTL DEF Spec

(* A subagent runs inside the task call of the active turn, and a turn that *)
(* runs is the session's active one.                                       *)
THEOREM SubagentsAreInside == Spec => []SubagentInsideTurn
<1>1. Safe => SubagentInsideTurn
  BY DEF Safe
<1>. QED BY <1>1, AlwaysSafe, PTL

(* No request is made at or past a ceiling, at either level.                *)
THEOREM CeilingsHold == Spec => []RequestWithinBudget
<1>1. Safe => RequestWithinBudget
  BY DEF Safe
<1>. QED BY <1>1, AlwaysSafe, PTL

(* A cancel lets at most the one call that was waiting through.             *)
THEOREM CancelLetsOneThrough == Spec => []OneLateRunAtMost
<1>1. Safe => OneLateRunAtMost
  BY DEF Safe, NobodyWaitsBehind, OneLateRunAtMost
<1>. QED BY <1>1, AlwaysSafe, PTL

(* After a cancel the model is not asked again, by the turn or a subagent.  *)
THEOREM CancelStopsRequests == Spec => NoRequestAfterCancel
<1>. DEFINE Asked == \A l \in Level : fr'[l].pc = "stream" /\ fr[l].pc # "stream" => ~aborted
<1>1. ASSUME TypeOK, Safe, [Next]_vars PROVE [Asked]_vars
  <2>1. ASSUME NEW l \in Level, Engine(l) \/ ApprovalAnswered(l) \/ Fault(l) PROVE Asked
    <3>1. Shape(l)
      BY <1>1, <2>1, StepShape DEF Safe
    <3>2. SubagentInsideTurn
      BY <1>1 DEF Safe
    <3>. QED BY <3>1, <3>2 DEF Shape, Asking, Calling, Moving, Entering, Leaving, Stays, Level
  <2>2. CASE TurnSubmit
    BY <1>1, <2>2 DEF TurnSubmit, TypeOK, FramesOK, Level, IdleFrame
  <2>3. ASSUME NEW t \in TurnIds, TurnCancel(t) PROVE Asked
    BY <2>3 DEF TurnCancel
  <2>4. CASE SessionClose
    BY <2>4 DEF SessionClose
  <2>. QED BY <1>1, <2>1, <2>2, <2>3, <2>4 DEF Next, Embedder
<1>2. TypeOK /\ Safe /\ [Next]_vars => [Asked]_vars
  BY <1>1
<1>. QED BY <1>2, AlwaysSafe, PTL DEF Spec, NoRequestAfterCancel

-----------------------------------------------------------------------------
(* Why a frame stopped.  The reason is settled when the loop stops and is    *)
(* read two sink calls later: until then nothing may touch what it is about, *)
(* so the counters, the abort and the signal are tied to it all the way.     *)
Fits(l, f, reason, cancelled) ==
  /\ reason = "cancelled" => cancelled
  /\ reason = "refused" <=> f.abort
  /\ reason = "max-steps" => f.steps = StepBudget[l]
  /\ reason = "budget-exhausted" => l = "turn" /\ f.tokens >= TokenBudget
  /\ reason = "end-turn" => f.calls = 0 /\ f.finish = "stop"

TrueReason(l, f, cancelled) ==
  /\ f.steps <= StepBudget[l]
  /\ f.abort => f.pc \in {"emitted", "turnEnd", "completed"}
  /\ f.pc \in {"turnEnd", "completed"} => Fits(l, f, f.stop, cancelled)

(* What a frame holds of its tool calls: outside runToolCalls nothing, and   *)
(* inside it no call beyond the current one, which is neither started nor     *)
(* denied before its events are emitted, nor run while it may be denied.     *)
Empty(f) == f.ran = {} /\ f.started = {} /\ f.denied = {}
Unsettled(f) == f.pc \in {"pre", "approval"} \/ (f.pc = "dispatched" /\ f.outcome \in {"denied", "abort"})
ToldApart(f) ==
  /\ f.pc \notin ToolPoints => Empty(f)
  /\ f.denied \cap (f.ran \cup f.started) = {}
  /\ \A k \in f.ran \cup f.started \cup f.denied : k <= f.at
  /\ f.pc \in ToolPoints \ {"emitted"} => f.at \notin f.started \cup f.denied
  /\ Unsettled(f) => f.at \notin f.ran

HonestFrame(l, f, cancelled) == TrueReason(l, f, cancelled) /\ ToldApart(f)

(* Stopping for a reason that fits leaves an honest frame.                  *)
LEMMA StopHonest ==
  ASSUME FramesOK, NEW l \in Level, NEW f \in Frame, NEW reason, Stop(l, f, reason),
         f.steps <= StepBudget[l], Empty(f), Fits(l, f, reason, aborted)
  PROVE HonestFrame(l, fr'[l], aborted)
<1>1. fr'[l] = [f EXCEPT !.pc = "turnEnd", !.stop = reason]
  BY DEF Stop, FramesOK
<1>2. fr'[l].pc = "turnEnd" /\ fr'[l].stop = reason /\ Empty(fr'[l])
  BY <1>1 DEF Frame, Empty
<1>3. /\ fr'[l].steps = f.steps /\ fr'[l].tokens = f.tokens /\ fr'[l].abort = f.abort
      /\ fr'[l].calls = f.calls /\ fr'[l].finish = f.finish
  BY <1>1 DEF Frame
<1>4. TrueReason(l, fr'[l], aborted)
  BY <1>2, <1>3 DEF TrueReason, Fits
<1>5. ToldApart(fr'[l])
  BY <1>2 DEF ToldApart, Empty, ToolPoints, Unsettled
<1>. QED BY <1>4, <1>5 DEF HonestFrame

(* So does beginning an iteration: preflight names a ceiling that is reached. *)
LEMMA BeginStepHonest ==
  ASSUME FramesOK, NEW l \in Level, NEW f \in Frame, BeginStep(l, f),
         f.steps <= StepBudget[l], Empty(f), ~f.abort
  PROVE HonestFrame(l, fr'[l], aborted)
<1>1. CASE Preflight(l, f) = "none"
  <2>1. fr'[l] = [f EXCEPT !.pc = "stream"]
    BY <1>1 DEF BeginStep, FramesOK
  <2>2. /\ fr'[l].pc = "stream" /\ fr'[l].steps = f.steps /\ ~fr'[l].abort /\ Empty(fr'[l])
    BY <2>1 DEF Frame, Empty
  <2>. QED BY <2>2 DEF HonestFrame, TrueReason, ToldApart, Empty, ToolPoints, Unsettled
<1>2. CASE Preflight(l, f) # "none"
  <2>1. f.steps \in Nat /\ f.tokens \in Nat /\ StepBudget[l] \in Nat /\ TokenBudget \in Nat
    BY BudgetAssumption DEF Frame
  <2>2. Fits(l, f, Preflight(l, f), aborted)
    BY <1>2, <2>1 DEF Fits, Preflight, Exhausted
  <2>. QED BY <1>2, <2>2, StopHonest DEF BeginStep
<1>. QED BY <1>1, <1>2

(* And starting on the next call of those the frame has told apart.         *)
LEMMA DispatchHonest ==
  ASSUME FramesOK, NEW l \in Level, NEW f \in Frame, NEW k \in Nat, Dispatch(l, f, k),
         f.steps <= StepBudget[l], ~f.abort, f.denied \cap (f.ran \cup f.started) = {},
         \A j \in f.ran \cup f.started \cup f.denied : j < k
  PROVE HonestFrame(l, fr'[l], aborted)
<1>1. PICK known \in BOOLEAN :
    fr' = [fr EXCEPT ![l] =
      [f EXCEPT !.at = k, !.pc = IF known THEN "pre" ELSE "dispatched",
                !.outcome = IF known THEN "none" ELSE "unran"]]
  BY DEF Dispatch
<1>2. /\ fr'[l].pc \in {"pre", "dispatched"} /\ fr'[l].outcome \in {"none", "unran"}
      /\ fr'[l].at = k /\ fr'[l].steps = f.steps /\ ~fr'[l].abort
      /\ fr'[l].ran = f.ran /\ fr'[l].started = f.started /\ fr'[l].denied = f.denied
  BY <1>1 DEF FramesOK, Frame
<1>3. \A j \in f.ran \cup f.started \cup f.denied : j \in Nat /\ j <= k /\ j # k
  BY DEF Frame
<1>4. ToldApart(fr'[l])
  BY <1>2, <1>3 DEF ToldApart, Empty, ToolPoints, Unsettled
<1>5. TrueReason(l, fr'[l], aborted)
  BY <1>2 DEF TrueReason
<1>. QED BY <1>4, <1>5 DEF HonestFrame

(* Entering a tool body: the call had neither run nor been denied.          *)
LEMMA EnterToolHonest ==
  ASSUME FramesOK, NEW l \in Level, EnterTool(l), fr[l].pc \in {"pre", "approval"},
         HonestFrame(l, fr[l], aborted)
  PROVE /\ HonestFrame(l, fr'[l], aborted)
        /\ \A k \in Level \ {l} : fr'[k] = fr[k] \/ fr'[k] = [IdleFrame EXCEPT !.pc = "turnStart"]
<1>1. PICK to \in {"exec", "task"} :
        fr'[l] = [fr[l] EXCEPT !.pc = to, !.ran = @ \cup {fr[l].at}]
  BY DEF EnterTool, FramesOK, Level
<1>2. \A k \in Level \ {l} : fr'[k] = fr[k] \/ fr'[k] = [IdleFrame EXCEPT !.pc = "turnStart"]
  BY DEF EnterTool, FramesOK, Level
<1>3. /\ fr'[l].pc = to /\ fr'[l].ran = fr[l].ran \cup {fr[l].at} /\ fr'[l].at = fr[l].at
      /\ fr'[l].started = fr[l].started /\ fr'[l].denied = fr[l].denied
      /\ fr'[l].steps = fr[l].steps /\ fr'[l].abort = fr[l].abort /\ fr[l].at \in Nat
  BY <1>1 DEF FramesOK, Frame
<1>4. ToldApart(fr'[l])
  BY <1>3 DEF HonestFrame, ToldApart, ToolPoints, Unsettled, Empty
<1>5. TrueReason(l, fr'[l], aborted)
  BY <1>3 DEF HonestFrame, TrueReason
<1>. QED BY <1>2, <1>4, <1>5 DEF HonestFrame

(* A dispatch that returns: it denies only what has not run.                *)
LEMMA DispatchedHonest ==
  ASSUME FramesOK, NEW l \in Level, NEW outcome, Dispatched(l, outcome),
         fr[l].pc \in {"pre", "approval", "exec"}, HonestFrame(l, fr[l], aborted),
         outcome \in {"denied", "abort"} => fr[l].pc # "exec"
  PROVE HonestFrame(l, fr'[l], aborted)
<1>1. fr'[l] = [fr[l] EXCEPT !.pc = "dispatched", !.outcome = outcome]
  BY DEF Dispatched, FramesOK
<1>2. /\ fr'[l].pc = "dispatched" /\ fr'[l].outcome = outcome /\ fr'[l].at = fr[l].at
      /\ fr'[l].ran = fr[l].ran /\ fr'[l].started = fr[l].started /\ fr'[l].denied = fr[l].denied
      /\ fr'[l].steps = fr[l].steps /\ fr'[l].abort = fr[l].abort
  BY <1>1 DEF FramesOK, Frame
<1>. QED BY <1>2 DEF HonestFrame, TrueReason, ToldApart, ToolPoints, Unsettled, Empty

(* A frame no turn uses, and one that has just started, have nothing to say. *)
LEMMA IdleHonest ==
  \A l \in Level : /\ HonestFrame(l, IdleFrame, aborted)
                    /\ HonestFrame(l, [IdleFrame EXCEPT !.pc = "turnStart"], aborted)
BY BudgetAssumption DEF IdleFrame, HonestFrame, TrueReason, ToldApart, Empty, ToolPoints, Unsettled

Honest == \A l \in Level : HonestFrame(l, fr[l], aborted)

(* A step of the loop keeps the frame it moves honest, and leaves the other  *)
(* one as it was, as a fresh one, or as a dispatched task.                  *)
LEMMA HonestEngine ==
  ASSUME TypeOK, Safe, Honest, NEW l \in Level, Engine(l) \/ ApprovalAnswered(l) \/ Fault(l)
  PROVE Honest'
<1>. FramesOK /\ fr[l] \in Frame /\ HonestFrame(l, fr[l], aborted) /\ aborted' = aborted
  <2>1. aborted' = aborted
    BY StepShape DEF Safe, Shape
  <2>. QED BY <2>1 DEF TypeOK, FramesOK, Honest
<1>. /\ fr[l].steps <= StepBudget[l]
     /\ fr[l].abort => fr[l].pc \in {"emitted", "turnEnd", "completed"}
     /\ fr[l].pc \notin ToolPoints => Empty(fr[l])
  BY DEF HonestFrame, TrueReason, ToldApart
<1>. /\ fr[l].at \in Nat /\ fr[l].steps \in Nat /\ StepBudget[l] \in Nat
     /\ fr[l].ran \subseteq Nat /\ fr[l].started \subseteq Nat /\ fr[l].denied \subseteq Nat
  BY BudgetAssumption DEF Frame
<1>a. ASSUME Stays(l), HonestFrame(l, fr'[l], aborted) PROVE Honest'
  BY <1>a DEF Honest, Stays
<1>1. CASE TurnStartHooks(l)
  <2>1. fr[l].pc = "turnStart" /\ BeginStep(l, fr[l])
    BY <1>1 DEF TurnStartHooks
  <2>2. Stays(l)
    BY <2>1, BeginStepShape DEF Asking, Moving
  <2>3. Empty(fr[l]) /\ ~fr[l].abort
    BY <2>1 DEF ToolPoints
  <2>. QED BY <2>1, <2>2, <2>3, <1>a, BeginStepHonest
<1>2. CASE StreamThrows(l)
  <2>1. fr[l].pc = "stream" /\ Stop(l, fr[l], "error")
    BY <1>2 DEF StreamThrows
  <2>2. Stays(l)
    BY <2>1, StopShape DEF Moving
  <2>3. Empty(fr[l]) /\ Fits(l, fr[l], "error", aborted)
    BY <2>1 DEF ToolPoints, Fits
  <2>. QED BY <2>1, <2>2, <2>3, <1>a, StopHonest
<1>3. CASE StreamEnds(l)
  <2>1. Stays(l) /\ fr[l].pc = "stream" /\ fr'[l].pc = "answered" /\ fr'[l].steps = fr[l].steps + 1
        /\ fr'[l].abort = fr[l].abort /\ fr'[l].ran = fr[l].ran /\ fr'[l].started = fr[l].started
        /\ fr'[l].denied = fr[l].denied
    BY <1>3 DEF StreamEnds, Stays, FramesOK, Frame
  <2>2. fr[l].steps < StepBudget[l] /\ Empty(fr[l]) /\ ~fr[l].abort
    BY <2>1 DEF Safe, RequestWithinBudget, ToolPoints
  <2>3. TrueReason(l, fr'[l], aborted)
    BY <2>1, <2>2 DEF TrueReason
  <2>4. ToldApart(fr'[l])
    BY <2>1, <2>2 DEF ToldApart, Empty, ToolPoints, Unsettled
  <2>. QED BY <2>1, <2>3, <2>4, <1>a DEF HonestFrame
<1>4. CASE AfterResponse(l)
  <2>1. fr[l].pc = "answered" /\ Empty(fr[l]) /\ ~fr[l].abort
    BY <1>4 DEF AfterResponse, ToolPoints
  <2>2. ASSUME NEW reason, Stop(l, fr[l], reason), Fits(l, fr[l], reason, aborted) PROVE Honest'
    <3>1. Stays(l)
      BY <2>1, <2>2, StopShape DEF Moving
    <3>. QED BY <2>1, <2>2, <3>1, <1>a, StopHonest
  <2>3. CASE aborted
    <3>1. Stop(l, fr[l], "cancelled")
      BY <1>4, <2>3, Zenon DEF AfterResponse
    <3>. QED BY <2>1, <2>2, <2>3, <3>1 DEF Fits
  <2>4. CASE ~aborted /\ fr[l].calls = 0
    <3>1. Stop(l, fr[l], IF fr[l].finish = "error" THEN "error" ELSE "end-turn")
      BY <1>4, <2>4, Zenon DEF AfterResponse
    <3>2. fr[l].finish \in {"stop", "error"}
      BY DEF Frame
    <3>3. Fits(l, fr[l], IF fr[l].finish = "error" THEN "error" ELSE "end-turn", aborted)
      BY <2>1, <2>4, <3>2 DEF Fits
    <3>. QED BY <2>2, <3>1, <3>3
  <2>5. CASE ~aborted /\ fr[l].calls # 0
    <3>1. Dispatch(l, fr[l], 1)
      BY <1>4, <2>5, Zenon DEF AfterResponse
    <3>2. Stays(l)
      BY <2>1, <2>5, <3>1, DispatchShape DEF Calling
    <3>3. HonestFrame(l, fr'[l], aborted)
      BY <2>1, <3>1, DispatchHonest DEF Empty
    <3>. QED BY <3>2, <3>3, <1>a
  <2>. QED BY <2>3, <2>4, <2>5
<1>b. ASSUME NEW outcome, Dispatched(l, outcome), fr[l].pc \in {"pre", "approval", "exec"},
             outcome \in {"denied", "abort"} => fr[l].pc # "exec"
      PROVE Honest'
  <2>1. Stays(l)
    BY <1>b, DispatchedShape DEF Moving
  <2>. QED BY <1>b, <2>1, <1>a, DispatchedHonest
<1>c. ASSUME EnterTool(l), fr[l].pc \in {"pre", "approval"} PROVE Honest'
  BY <1>c, EnterToolHonest, IdleHonest DEF Honest
<1>5. CASE PreHooks(l)
  <2>1. CASE fr[l].pc = "pre" /\ fr' = [fr EXCEPT ![l].pc = "approval"]
    <3>1. /\ Stays(l) /\ fr'[l].pc = "approval" /\ fr'[l].steps = fr[l].steps /\ fr'[l].abort = fr[l].abort
          /\ fr'[l].ran = fr[l].ran /\ fr'[l].started = fr[l].started /\ fr'[l].denied = fr[l].denied
          /\ fr'[l].at = fr[l].at
      BY <2>1 DEF Stays, FramesOK, Frame
    <3>2. HonestFrame(l, fr'[l], aborted)
      BY <2>1, <3>1 DEF HonestFrame, TrueReason, ToldApart, ToolPoints, Unsettled
    <3>. QED BY <3>1, <3>2, <1>a
  <2>. QED BY <1>5, <2>1, <1>b, <1>c DEF PreHooks
<1>6. CASE ApprovalAnswered(l)
  BY <1>6, <1>b, <1>c DEF ApprovalAnswered
<1>7. CASE ToolReturns(l)
  BY <1>7, <1>b DEF ToolReturns
<1>8. CASE EmitOutcome(l)
  <2>1. /\ fr[l].pc = "dispatched" /\ fr'[l].pc = "emitted" /\ Stays(l) /\ fr'[l].steps = fr[l].steps
        /\ fr'[l].ran = fr[l].ran /\ fr'[l].at = fr[l].at
        /\ \/ /\ fr[l].outcome \in {"denied", "abort"} /\ fr'[l].started = fr[l].started
              /\ fr'[l].denied = fr[l].denied \cup {fr[l].at}
           \/ /\ fr'[l].denied = fr[l].denied /\ fr'[l].started = fr[l].started \cup {fr[l].at}
    BY <1>8 DEF EmitOutcome, Stays, FramesOK, Frame
  <2>2. TrueReason(l, fr'[l], aborted)
    BY <2>1 DEF TrueReason
  <2>3. ToldApart(fr'[l])
    BY <2>1 DEF HonestFrame, ToldApart, ToolPoints, Unsettled
  <2>. QED BY <2>1, <2>2, <2>3, <1>a DEF HonestFrame
<1>9. CASE NextCall(l)
  <2>1. fr[l].pc = "emitted" /\ ~fr[l].abort /\ ~aborted /\ Dispatch(l, fr[l], fr[l].at + 1)
    BY <1>9 DEF NextCall, Skipping
  <2>2. Stays(l)
    BY <2>1, DispatchShape DEF Calling
  <2>3. /\ fr[l].denied \cap (fr[l].ran \cup fr[l].started) = {}
        /\ \A j \in fr[l].ran \cup fr[l].started \cup fr[l].denied : j \in Nat /\ j <= fr[l].at
    BY DEF HonestFrame, ToldApart
  <2>4. \A j \in fr[l].ran \cup fr[l].started \cup fr[l].denied : j < fr[l].at + 1
    BY <2>3
  <2>5. HonestFrame(l, fr'[l], aborted)
    BY <2>1, <2>3, <2>4, DispatchHonest
  <2>. QED BY <2>2, <2>5, <1>a
<1>10. CASE CloseStep(l)
  <2>. DEFINE g == AfterTools(fr[l])
  <2>1. fr[l].pc = "emitted" /\ g \in Frame
    BY <1>10, AfterToolsType DEF CloseStep
  <2>2. /\ Empty(g) /\ g.steps = fr[l].steps /\ g.abort = fr[l].abort
    BY DEF AfterTools, Empty, Frame
  <2>3. CASE fr[l].abort
    <3>1. Stop(l, g, "refused")
      BY <1>10, <2>3, Zenon DEF CloseStep
    <3>2. Stays(l)
      BY <2>1, <3>1, StopShape DEF Moving
    <3>3. Fits(l, g, "refused", aborted)
      BY <2>2, <2>3 DEF Fits
    <3>4. HonestFrame(l, fr'[l], aborted)
      BY <2>1, <2>2, <3>1, <3>3, StopHonest
    <3>. QED BY <3>2, <3>4, <1>a
  <2>4. CASE ~fr[l].abort
    <3>1. BeginStep(l, g)
      BY <1>10, <2>4, Zenon DEF CloseStep
    <3>2. Stays(l)
      BY <2>1, <3>1, BeginStepShape DEF Asking, Moving
    <3>3. HonestFrame(l, fr'[l], aborted)
      BY <2>1, <2>2, <2>4, <3>1, BeginStepHonest
    <3>. QED BY <3>2, <3>3, <1>a
  <2>. QED BY <2>3, <2>4
<1>11. CASE TurnEndHooks(l)
  <2>1. fr[l].pc = "turnEnd" /\ Stays(l) /\ fr'[l] = [fr[l] EXCEPT !.pc = "completed"]
    BY <1>11 DEF TurnEndHooks, Stays, FramesOK
  <2>2. HonestFrame(l, fr'[l], aborted)
    BY <2>1 DEF HonestFrame, TrueReason, Fits, ToldApart, Empty, ToolPoints, Unsettled, Frame
  <2>. QED BY <2>1, <2>2, <1>a
<1>12. ASSUME NEW how, Leave(l, how), fr[l].pc \notin {"idle", "task"} PROVE Honest'
  <2>1. CASE l = "turn"
    <3>1. fr' = [fr EXCEPT !["turn"] = IdleFrame]
      BY <1>12, <2>1 DEF Leave
    <3>. QED BY <2>1, <3>1, IdleHonest DEF Honest, FramesOK, Level
  <2>2. CASE l = "sub"
    <3>1. /\ fr["turn"].pc = "task" /\ fr["turn"] \in Frame
          /\ HonestFrame("turn", fr["turn"], aborted)
      BY <1>12, <2>2 DEF Safe, SubagentInsideTurn, Honest, Level, FramesOK
    <3>2. /\ fr'["sub"] = IdleFrame
          /\ fr'["turn"] = [fr["turn"] EXCEPT !.pc = "dispatched", !.outcome = "ran"]
      BY <1>12, <2>2 DEF Leave, FramesOK, Level
    <3>3. /\ fr'["turn"].pc = "dispatched" /\ fr'["turn"].outcome = "ran" /\ fr'["turn"].at = fr["turn"].at
          /\ fr'["turn"].ran = fr["turn"].ran /\ fr'["turn"].started = fr["turn"].started
          /\ fr'["turn"].denied = fr["turn"].denied /\ fr'["turn"].steps = fr["turn"].steps
          /\ fr'["turn"].abort = fr["turn"].abort
      BY <3>1, <3>2 DEF Frame
    <3>4. HonestFrame("turn", fr'["turn"], aborted)
      BY <3>1, <3>3 DEF HonestFrame, TrueReason, ToldApart, Empty, ToolPoints, Unsettled
    <3>5. HonestFrame("sub", fr'["sub"], aborted)
      BY <3>2, IdleHonest DEF Level
    <3>. QED BY <3>4, <3>5 DEF Honest, Level
  <2>. QED BY <2>1, <2>2 DEF Level
<1>13. CASE RunTurnReturns(l) \/ SinkThrows(l) \/ ApprovalRejects(l) \/ (l = "turn" /\ BudgetRefused)
  BY <1>12, <1>13 DEF RunTurnReturns, SinkThrows, ApprovalRejects, BudgetRefused
<1>. QED BY <1>1, <1>2, <1>3, <1>4, <1>5, <1>6, <1>7, <1>8, <1>9, <1>10, <1>11, <1>13
         DEF Engine, Fault

(* Every step keeps both frames honest: a new turn clears the signal, but    *)
(* then no frame is left whose reason it was.                               *)
LEMMA HonestStep ==
  ASSUME TypeOK, Safe, Honest, [Next]_vars
  PROVE Honest'
<1>1. CASE TurnSubmit
  <2>1. /\ fr["turn"].pc = "idle" /\ fr["sub"].pc = "idle" /\ HonestFrame("sub", fr["sub"], aborted)
        /\ fr' = [fr EXCEPT !["turn"] = [IdleFrame EXCEPT !.pc = "turnStart"]]
    BY <1>1 DEF TurnSubmit, Safe, SubagentInsideTurn, Honest, Level
  <2>2. fr'["turn"] = [IdleFrame EXCEPT !.pc = "turnStart"] /\ fr'["sub"] = fr["sub"]
    BY <2>1 DEF TypeOK, FramesOK, Level
  <2>3. HonestFrame("sub", fr'["sub"], aborted')
    BY <2>1, <2>2 DEF HonestFrame, TrueReason
  <2>4. HonestFrame("turn", fr'["turn"], aborted')
    BY <2>2, BudgetAssumption DEF Level, IdleFrame, HonestFrame, TrueReason, ToldApart, Empty,
       ToolPoints, Unsettled
  <2>. QED BY <2>3, <2>4 DEF Honest, Level
<1>2. ASSUME UNCHANGED fr, aborted => aborted' PROVE Honest'
  BY <1>2 DEF Honest, HonestFrame, TrueReason, Fits
<1>3. ASSUME NEW t \in TurnIds, TurnCancel(t) PROVE Honest'
  BY <1>2, <1>3 DEF TurnCancel
<1>4. CASE SessionClose
  BY <1>2, <1>4 DEF SessionClose
<1>5. ASSUME NEW l \in Level, Engine(l) \/ ApprovalAnswered(l) \/ Fault(l) PROVE Honest'
  BY <1>5, HonestEngine
<1>6. CASE UNCHANGED vars
  BY <1>2, <1>6 DEF vars
<1>. QED BY <1>1, <1>3, <1>4, <1>5, <1>6 DEF Next, Embedder

(* Both frames are honest in every reachable state.                         *)
LEMMA AlwaysHonest == Spec => []Honest
<1>1. Init => Honest
  BY IdleHonest DEF Init, Honest
<1>. QED BY <1>1, HonestStep, AlwaysSafe, PTL DEF Spec

(* The stop reason a turn or a subagent reports is the true one.            *)
THEOREM StopReasonsAreTrue == Spec => []StopReasonIsTrue
<1>1. Honest => StopReasonIsTrue
  BY DEF Honest, HonestFrame, TrueReason, Fits, StopReasonIsTrue
<1>. QED BY <1>1, AlwaysHonest, PTL

(* No call is denied that ran or was reported as started.                   *)
THEOREM DeniedCallsNeverRan == Spec => []DeniedNeverRan
<1>1. Honest => DeniedNeverRan
  BY DEF Honest, HonestFrame, ToldApart, DeniedNeverRan
<1>. QED BY <1>1, AlwaysHonest, PTL

-----------------------------------------------------------------------------
(* The history of a session.  Between the assistant message and its answers *)
(* the history itself is not linear; the invariant is about the history     *)
(* with the answers filled in.                                              *)

(* No step is answered in part: what follows an unanswered message is no     *)
(* answer.  Such a history mends or stays as it is while whole exchanges and  *)
(* prompts are appended: no step of it becomes unanswered.                  *)
NeverHalf(h) == \A p \in Unanswered(h) : p = Len(h) \/ h[p + 1].role # "tool"
Mends(g, h) == NeverHalf(h) => NeverHalf(g) /\ Unanswered(g) \subseteq Unanswered(h)

(* A longer history whose next message is no answer, and whose own messages  *)
(* are answered, mends.                                                     *)
LEMMA LongerMends ==
  ASSUME NEW h \in Seq(Message), NEW g \in Seq(Message), Len(g) > Len(h),
         \A p \in 1 .. Len(h) : g[p] = h[p],
         g[Len(h) + 1].role # "tool",
         \A p \in Unanswered(g) : p <= Len(h)
  PROVE Mends(g, h)
<1>. DEFINE m == Len(h)
<1>1. m \in Nat /\ Len(g) \in Nat /\ DOMAIN h = 1 .. m /\ DOMAIN g = 1 .. Len(g)
  OBVIOUS
<1>2. \A i \in 1 .. m : h[i].n \in Nat
  <2>1. \A i \in 1 .. m : h[i] \in Message
    BY <1>1
  <2>. QED BY <2>1 DEF Message
<1>3. ASSUME NEW p \in Unanswered(g) PROVE p \in Unanswered(h)
  <2>1. /\ p \in 1 .. m /\ g[p] = h[p] /\ h[p].role = "assistant"
    BY <1>1, <1>3 DEF Unanswered
  <2>2. PICK k \in 1 .. g[p].n : ~(p + k \in DOMAIN g /\ g[p + k] = [role |-> "tool", n |-> k])
    BY <1>3 DEF Unanswered
  <2>3. k \in 1 .. h[p].n /\ k \in Nat
    BY <2>1, <2>2, <1>2
  <2>4. CASE p + k <= m
    <3>1. p + k \in 1 .. m /\ g[p + k] = h[p + k] /\ p + k \in DOMAIN g
      BY <1>1, <2>1, <2>3, <2>4
    <3>. QED BY <1>1, <2>1, <2>2, <2>3, <3>1 DEF Unanswered
  <2>5. CASE p + k > m
    <3>1. p + k \notin DOMAIN h
      BY <1>1, <2>1, <2>3, <2>5
    <3>. QED BY <1>1, <2>1, <2>3, <3>1 DEF Unanswered
  <2>. QED BY <1>1, <2>1, <2>3, <2>4, <2>5
<1>4. ASSUME NeverHalf(h), NEW p \in Unanswered(g) PROVE g[p + 1].role # "tool"
  <2>1. p \in 1 .. m /\ (p = m \/ h[p + 1].role # "tool")
    BY <1>1, <1>3, <1>4 DEF NeverHalf, Unanswered
  <2>2. CASE p = m
    BY <2>2
  <2>3. CASE p # m
    <3>1. m \in Nat /\ p \in 1 .. m
      BY <1>1, <2>1
    <3>2. p + 1 \in 1 .. m
      BY <2>3, <3>1
    <3>3. g[p + 1] = h[p + 1]
      BY <3>2
    <3>. QED BY <2>1, <2>3, <3>3
  <2>. QED BY <2>2, <2>3
<1>. QED BY <1>3, <1>4 DEF Mends, NeverHalf

(* A message that asks for nothing mends.                                   *)
LEMMA UserMends ==
  ASSUME NEW h \in Seq(Message)
  PROVE h \o <<User>> \in Seq(Message) /\ Mends(h \o <<User>>, h)
<1>. DEFINE g == h \o <<User>>
<1>1. /\ g \in Seq(Message) /\ Len(g) = Len(h) + 1 /\ Len(h) \in Nat /\ DOMAIN g = 1 .. Len(h) + 1
      /\ g[Len(h) + 1] = User
      /\ \A p \in 1 .. Len(h) : g[p] = h[p]
  BY MessageTypes
<1>2. ASSUME NEW p \in Unanswered(g) PROVE p <= Len(h)
  <2>1. p \in 1 .. Len(h) + 1 /\ g[p].role = "assistant"
    BY <1>1, <1>2 DEF Unanswered
  <2>2. p # Len(h) + 1
    BY <1>1, <2>1 DEF User
  <2>. QED BY <1>1, <2>1, <2>2
<1>3. g[Len(h) + 1].role # "tool"
  BY <1>1 DEF User
<1>. HIDE DEF g
<1>4. Len(g) > Len(h)
  BY <1>1
<1>5. Mends(g, h)
  BY <1>1, <1>2, <1>3, <1>4, LongerMends
<1>. QED BY <1>1, <1>5 DEF g

(* So does an assistant message with an answer to each of its calls.         *)
LEMMA ExchangeMends ==
  ASSUME NEW h \in Seq(Message), NEW n \in Nat
  PROVE Mends(Append(h, Asks(n)) \o Answers(n), h)
<1>. DEFINE m == Len(h)
            g == Append(h, Asks(n)) \o Answers(n)
<1>1. m \in Nat /\ DOMAIN h = 1 .. m
  OBVIOUS
<1>2. Append(h, Asks(n)) \in Seq(Message) /\ Len(Append(h, Asks(n))) = m + 1
  BY MessageTypes
<1>3. Answers(n) \in Seq(Message) /\ Len(Answers(n)) = n
  BY MessageTypes DEF Answers
<1>4. /\ Len(g) = m + 1 + n /\ DOMAIN g = 1 .. m + 1 + n
      /\ \A p \in 1 .. m : g[p] = h[p]
      /\ g[m + 1] = Asks(n)
      /\ \A k \in 1 .. n : g[m + 1 + k] = [role |-> "tool", n |-> k]
  <2>1. Len(g) = m + 1 + n /\ DOMAIN g = 1 .. m + 1 + n
    BY <1>2, <1>3
  <2>2. \A p \in 1 .. m + 1 : g[p] = Append(h, Asks(n))[p]
    BY <1>2, <1>3
  <2>3. \A k \in 1 .. n : g[m + 1 + k] = Answers(n)[k]
    BY <1>1, <1>2, <1>3
  <2>4. \A k \in 1 .. n : Answers(n)[k] = [role |-> "tool", n |-> k]
    BY DEF Answers
  <2>5. \A p \in 1 .. m : Append(h, Asks(n))[p] = h[p]
    BY <1>1
  <2>6. Append(h, Asks(n))[m + 1] = Asks(n)
    BY <1>1
  <2>. QED BY <1>1, <2>1, <2>2, <2>3, <2>4, <2>5, <2>6
<1>5. ASSUME NEW p \in Unanswered(g) PROVE p <= m
  <2>1. p \in 1 .. m + 1 + n /\ g[p].role = "assistant"
    BY <1>4, <1>5 DEF Unanswered
  <2>2. CASE p = m + 1
    <3>1. PICK k \in 1 .. g[p].n : ~(p + k \in DOMAIN g /\ g[p + k] = [role |-> "tool", n |-> k])
      BY <1>5 DEF Unanswered
    <3>2. k \in 1 .. n
      BY <1>4, <2>2, <3>1 DEF Asks
    <3>. QED BY <1>1, <1>4, <2>2, <3>1, <3>2
  <2>3. CASE p \in m + 2 .. m + 1 + n
    <3>1. p - (m + 1) \in 1 .. n /\ p = m + 1 + (p - (m + 1))
      BY <1>1, <2>3
    <3>2. g[m + 1 + (p - (m + 1))] = [role |-> "tool", n |-> p - (m + 1)]
      BY <1>4, <3>1
    <3>3. g[p] = [role |-> "tool", n |-> p - (m + 1)]
      BY <3>1, <3>2
    <3>. QED BY <2>1, <3>3
  <2>. QED BY <1>1, <2>1, <2>2, <2>3
<1>6. g \in Seq(Message) /\ g[m + 1].role # "tool"
  BY <1>2, <1>3, <1>4 DEF Asks
<1>. HIDE DEF g
<1>7. Len(g) > m
  BY <1>1, <1>4
<1>8. Mends(g, h)
  BY <1>4, <1>5, <1>6, <1>7, LongerMends
<1>. QED BY <1>8 DEF g

(* A throw in the tool phase takes the answers back that were bound to come:  *)
(* one more step is unanswered, the last one.                               *)
LEMMA LastLeftOpen ==
  ASSUME NEW h \in Seq(Message), h # <<>>, NEW n \in Nat, h[Len(h)] = Asks(n),
         NeverHalf(h \o Answers(n))
  PROVE NeverHalf(h) /\ Unanswered(h) \subseteq Unanswered(h \o Answers(n)) \cup {Len(h)}
<1>. DEFINE m == Len(h)
            g == h \o Answers(n)
<1>1. m \in Nat /\ DOMAIN h = 1 .. m /\ \A i \in 1 .. m : h[i].n \in Nat
  <2>1. m \in Nat /\ DOMAIN h = 1 .. m /\ \A i \in 1 .. m : h[i] \in Message
    OBVIOUS
  <2>. QED BY <2>1 DEF Message
<1>2. Answers(n) \in Seq(Message) /\ Len(Answers(n)) = n
  BY MessageTypes DEF Answers
<1>3. g \in Seq(Message) /\ Len(g) = m + n /\ DOMAIN g = 1 .. m + n /\ \A p \in 1 .. m : g[p] = h[p]
  BY <1>1, <1>2
<1>4. h[m].role # "tool"
  BY DEF Asks
<1>5. ASSUME NEW p \in Unanswered(h), p # m PROVE p \in Unanswered(g) /\ p + 1 \in 1 .. m
  <2>1. p \in 1 .. m /\ g[p] = h[p] /\ h[p].role = "assistant" /\ p + 1 \in 1 .. m /\ m \in 1 .. m
    BY <1>1, <1>3, <1>5 DEF Unanswered
  <2>2. PICK k \in 1 .. h[p].n : ~(p + k \in DOMAIN h /\ h[p + k] = [role |-> "tool", n |-> k])
    BY <1>5 DEF Unanswered
  <2>3. k \in Nat /\ h[p].n \in Nat
    BY <1>1, <2>1, <2>2
  <2>4. CASE p + k \in 1 .. m
    <3>1. g[p + k] = h[p + k]
      BY <1>3, <2>4
    <3>. QED BY <1>1, <1>3, <2>1, <2>2, <2>4, <3>1 DEF Unanswered
  <2>5. CASE p + k \notin 1 .. m
    <3>1. m - p \in 1 .. h[p].n /\ p + (m - p) = m
      <4>1. m \in Nat /\ p \in 1 .. m /\ p # m /\ k \in 1 .. h[p].n /\ k \in Nat /\ h[p].n \in Nat
        BY <1>1, <1>5, <2>1, <2>2, <2>3
      <4>2. p + k > m
        BY <2>5, <4>1
      <4>3. \A x, y, z, w \in Nat : y >= 1 /\ y <= x /\ y # x /\ z <= w /\ y + z > x => x - y \in 1 .. w /\ y + (x - y) = x
        OBVIOUS
      <4>. HIDE DEF m
      <4>. QED BY <4>1, <4>2, <4>3
    <3>2. g[p + (m - p)] # [role |-> "tool", n |-> m - p]
      BY <1>3, <1>4, <2>1, <3>1
    <3>3. p \in DOMAIN g /\ g[p].role = "assistant" /\ m - p \in 1 .. g[p].n
      BY <1>1, <1>3, <2>1, <3>1
    <3>. QED BY <2>1, <3>2, <3>3 DEF Unanswered
  <2>. QED BY <2>1, <2>4, <2>5
<1>6. ASSUME NEW p \in Unanswered(h), p # m PROVE h[p + 1].role # "tool"
  <2>1. p \in Unanswered(g) /\ p + 1 \in 1 .. m /\ g[p + 1] = h[p + 1]
    BY <1>3, <1>5, <1>6
  <2>2. p = Len(g) \/ g[p + 1].role # "tool"
    BY <2>1 DEF NeverHalf
  <2>3. p \in 1 .. m /\ p # Len(g)
    BY <1>1, <1>3, <1>6, <2>1 DEF Unanswered
  <2>. QED BY <2>1, <2>2, <2>3
<1>. QED BY <1>5, <1>6 DEF NeverHalf

(* What an empty message asks for is nothing.                               *)
LEMMA NoAnswers == \A h \in Seq(Message) : h \o Answers(0) = h
<1>1. Answers(0) = <<>>
  BY DEF Answers
<1>. QED BY <1>1

-----------------------------------------------------------------------------
(* A level's history with the answers of its tool phase filled in: Answered  *)
(* of the module, at both levels.                                          *)
Fill(f, h) == IF f.pc \in ToolPoints THEN h \o Answers(f.calls) ELSE h

(* What a step of the loop does to that history: it prompts, it appends one  *)
(* whole exchange, or it leaves it alone.  The other level is not touched,    *)
(* but for a subagent that starts with an empty one.                        *)
Prompts(l) ==
  /\ fr[l].pc = "turnStart"
  /\ \E injected \in {<<>>, <<User>>} :
       Fill(fr'[l], history'[l]) = Fill(fr[l], history[l]) \o injected \o <<User>>
Exchanges(l) ==
  /\ fr[l].pc = "answered" /\ ~aborted
  /\ Fill(fr'[l], history'[l]) = Append(Fill(fr[l], history[l]), Asks(fr[l].calls)) \o Answers(fr[l].calls)
LeavesAlone(l) ==
  /\ fr[l].pc # "turnStart"
  /\ Fill(fr'[l], history'[l]) = Fill(fr[l], history[l])

Elsewhere(l) ==
  \A k \in Level \ {l} :
    \/ fr'[k] = fr[k] /\ history'[k] = history[k]
    \/ l = "turn" /\ fr'[k] = [IdleFrame EXCEPT !.pc = "turnStart"] /\ history'[k] = <<>>

(* In the tool phase the history ends with the message that asked for it.     *)
StaysAsked(l) ==
  fr'[l].pc \in ToolPoints =>
    \/ fr[l].pc \in ToolPoints /\ fr'[l].calls = fr[l].calls /\ history'[l] = history[l]
    \/ history'[l] = Append(history[l], Asks(fr'[l].calls))

Logs(l) ==
  /\ UNCHANGED <<session, aborted>>
  /\ StaysAsked(l)
  /\ fr[l].pc # "idle" /\ fr'[l].pc \notin {"idle", "turnStart"}
  /\ fr'[l].calls \in {fr[l].calls} \cup 0 .. MaxCalls
  /\ Elsewhere(l)
  /\ Prompts(l) \/ Exchanges(l) \/ LeavesAlone(l)

(* Or it leaves runTurn: at its end, or by a throw.                         *)
Returns(l) ==
  /\ fr[l].pc \notin {"idle", "task"} /\ UNCHANGED aborted
  /\ \/ fr[l].pc = "completed" /\ Leave(l, fr[l].stop)
     \/ /\ Leave(l, "threw")
        /\ {"sink", "approval"} \cap Faults # {} \/ (l = "turn" /\ fr[l].pc = "turnStart")

(* A frame that moves within the tool phase, or outside it, with its history *)
(* as it was, leaves the filled one alone.                                  *)
LEMMA Alone ==
  ASSUME NEW l \in Level, history'[l] = history[l], fr[l].pc # "turnStart",
         \/ {fr[l].pc, fr'[l].pc} \cap ToolPoints = {}
         \/ {fr[l].pc, fr'[l].pc} \subseteq ToolPoints /\ fr'[l].calls = fr[l].calls
  PROVE LeavesAlone(l)
BY DEF LeavesAlone, Fill

(* Stopping, and beginning an iteration, end outside the tool phase.         *)
LEMMA StopLogs ==
  ASSUME FramesOK, NEW l \in Level, NEW f \in Frame, NEW reason, Stop(l, f, reason)
  PROVE fr'[l].pc = "turnEnd" /\ fr'[l].calls = f.calls /\ Stays(l)
BY DEF Stop, FramesOK, Frame, Stays

LEMMA BeginStepLogs ==
  ASSUME FramesOK, NEW l \in Level, NEW f \in Frame, BeginStep(l, f)
  PROVE fr'[l].pc \in {"stream", "turnEnd"} /\ fr'[l].calls = f.calls /\ Stays(l)
<1>1. CASE Preflight(l, f) = "none"
  BY <1>1 DEF BeginStep, FramesOK, Frame, Stays
<1>2. CASE Preflight(l, f) # "none"
  BY <1>2, StopLogs DEF BeginStep
<1>. QED BY <1>1, <1>2

(* Starting on a call enters the tool phase or stays in it.                  *)
LEMMA DispatchLogs ==
  ASSUME FramesOK, NEW l \in Level, NEW f \in Frame, NEW k, Dispatch(l, f, k)
  PROVE fr'[l].pc \in {"pre", "dispatched"} /\ fr'[l].calls = f.calls /\ Stays(l)
BY DEF Dispatch, FramesOK, Frame, Stays

(* Every step of the loop is one of these.                                  *)
LEMMA StepLogs ==
  ASSUME TypeOK, Safe, NEW l \in Level, Engine(l) \/ ApprovalAnswered(l) \/ Fault(l)
  PROVE Logs(l) \/ Returns(l)
<1>. FramesOK /\ fr[l] \in Frame /\ history \in [Level -> Seq(Message)] /\ history[l] \in Seq(Message)
     /\ fr[l].calls \in Nat
  BY DEF TypeOK, FramesOK, HistoryOK, Frame
<1>a. ASSUME Stays(l), UNCHANGED history PROVE Elsewhere(l)
  BY <1>a DEF Stays, Elsewhere
<1>b. ASSUME Stays(l), NEW h, history' = [history EXCEPT ![l] = h] PROVE Elsewhere(l) /\ history'[l] = h
  BY <1>b DEF Stays, Elsewhere
<1>1. CASE TurnStartHooks(l)
  <2>1. fr[l].pc = "turnStart" /\ BeginStep(l, fr[l]) /\ UNCHANGED <<session, aborted>>
    BY <1>1 DEF TurnStartHooks
  <2>2. PICK injected \in {<<>>, <<User>>} :
          history' = [history EXCEPT ![l] = @ \o injected \o <<User>>]
    BY <1>1 DEF TurnStartHooks
  <2>3. fr'[l].pc \in {"stream", "turnEnd"} /\ fr'[l].calls = fr[l].calls /\ Stays(l)
    BY <2>1, BeginStepLogs
  <2>4. Elsewhere(l) /\ history'[l] = history[l] \o injected \o <<User>>
    BY <2>2, <2>3, <1>b
  <2>5. Prompts(l)
    BY <2>1, <2>3, <2>4 DEF Prompts, Fill, ToolPoints
  <2>. QED BY <2>1, <2>3, <2>4, <2>5 DEF Logs, StaysAsked, ToolPoints
<1>2. CASE StreamThrows(l)
  <2>1. fr[l].pc = "stream" /\ Stop(l, fr[l], "error") /\ UNCHANGED <<session, aborted, history>>
    BY <1>2 DEF StreamThrows
  <2>2. fr'[l].pc = "turnEnd" /\ fr'[l].calls = fr[l].calls /\ Stays(l)
    BY <2>1, StopLogs
  <2>3. LeavesAlone(l)
    BY <2>1, <2>2, Alone DEF ToolPoints
  <2>. QED BY <2>1, <2>2, <2>3, <1>a DEF Logs, StaysAsked, ToolPoints
<1>3. CASE StreamEnds(l)
  <2>1. fr[l].pc = "stream" /\ UNCHANGED <<session, aborted, history>>
    BY <1>3 DEF StreamEnds
  <2>2. fr'[l].pc = "answered" /\ fr'[l].calls \in 0 .. MaxCalls /\ Stays(l)
    BY <1>3 DEF StreamEnds, FramesOK, Frame, Stays
  <2>3. LeavesAlone(l)
    BY <2>1, <2>2, Alone DEF ToolPoints
  <2>. QED BY <2>1, <2>2, <2>3, <1>a DEF Logs, StaysAsked, ToolPoints
<1>4. CASE AfterResponse(l)
  <2>1. fr[l].pc = "answered" /\ UNCHANGED <<session, aborted>>
    BY <1>4 DEF AfterResponse
  <2>2. CASE aborted
    <3>1. Stop(l, fr[l], "cancelled") /\ UNCHANGED history
      BY <1>4, <2>2, Zenon DEF AfterResponse
    <3>2. fr'[l].pc = "turnEnd" /\ fr'[l].calls = fr[l].calls /\ Stays(l)
      BY <3>1, StopLogs
    <3>3. LeavesAlone(l)
      BY <2>1, <3>1, <3>2, Alone DEF ToolPoints
    <3>. QED BY <2>1, <3>1, <3>2, <3>3, <1>a DEF Logs, StaysAsked, ToolPoints
  <2>3. CASE ~aborted
    <3>1. history' = [history EXCEPT ![l] = Append(@, Asks(fr[l].calls))]
      BY <1>4, <2>3, Zenon DEF AfterResponse
    <3>2. CASE fr[l].calls = 0
      <4>1. \E reason : Stop(l, fr[l], reason)
        BY <1>4, <2>3, <3>2, Zenon DEF AfterResponse
      <4>2. fr'[l].pc = "turnEnd" /\ fr'[l].calls = fr[l].calls /\ Stays(l)
        BY <4>1, StopLogs
      <4>3. Elsewhere(l) /\ history'[l] = Append(history[l], Asks(fr[l].calls))
        BY <3>1, <4>2, <1>b
      <4>4. Append(history[l], Asks(fr[l].calls)) \o Answers(fr[l].calls) = Append(history[l], Asks(fr[l].calls))
        <5>1. Append(history[l], Asks(fr[l].calls)) \in Seq(Message)
          BY MessageTypes
        <5>. QED BY <3>2, <5>1, NoAnswers
      <4>5. Exchanges(l)
        BY <2>1, <2>3, <4>2, <4>3, <4>4 DEF Exchanges, Fill, ToolPoints
      <4>. QED BY <2>1, <4>2, <4>3, <4>5 DEF Logs, StaysAsked, ToolPoints
    <3>3. CASE fr[l].calls # 0
      <4>1. Dispatch(l, fr[l], 1)
        BY <1>4, <2>3, <3>3, Zenon DEF AfterResponse
      <4>2. fr'[l].pc \in {"pre", "dispatched"} /\ fr'[l].calls = fr[l].calls /\ Stays(l)
        BY <4>1, DispatchLogs
      <4>3. Elsewhere(l) /\ history'[l] = Append(history[l], Asks(fr[l].calls))
        BY <3>1, <4>2, <1>b
      <4>4. Exchanges(l)
        BY <2>1, <2>3, <4>2, <4>3 DEF Exchanges, Fill, ToolPoints
      <4>. QED BY <2>1, <4>2, <4>3, <4>4 DEF Logs, StaysAsked, ToolPoints
    <3>. QED BY <3>2, <3>3
  <2>. QED BY <2>2, <2>3
<1>c. ASSUME fr[l].pc \in ToolPoints, fr'[l].pc \in ToolPoints, fr'[l].calls = fr[l].calls,
             history'[l] = history[l], Elsewhere(l), UNCHANGED <<session, aborted>>
      PROVE Logs(l)
  <2>1. LeavesAlone(l)
    BY <1>c, Alone DEF ToolPoints
  <2>. QED BY <1>c, <2>1 DEF Logs, StaysAsked, ToolPoints
<1>d. ASSUME NEW outcome, Dispatched(l, outcome), fr[l].pc \in ToolPoints, UNCHANGED history,
             UNCHANGED <<session, aborted>>
      PROVE Logs(l)
  <2>1. fr'[l].pc = "dispatched" /\ fr'[l].calls = fr[l].calls /\ Stays(l)
    BY <1>d DEF Dispatched, Stays, FramesOK, Frame
  <2>. QED BY <1>d, <2>1, <1>a, <1>c DEF ToolPoints
<1>e. ASSUME EnterTool(l), fr[l].pc \in ToolPoints, UNCHANGED <<session, aborted>>
      PROVE Logs(l)
  <2>1. CASE fr' = [fr EXCEPT ![l].pc = "exec", ![l].ran = @ \cup {fr[l].at}] /\ UNCHANGED history
    <3>1. fr'[l].pc = "exec" /\ fr'[l].calls = fr[l].calls /\ Stays(l)
      BY <2>1 DEF Stays, FramesOK, Frame
    <3>. QED BY <1>e, <2>1, <3>1, <1>a, <1>c DEF ToolPoints
  <2>2. CASE /\ l = "turn"
             /\ fr' = [fr EXCEPT !["turn"].pc = "task", !["turn"].ran = @ \cup {fr[l].at},
                                 !["sub"] = [IdleFrame EXCEPT !.pc = "turnStart"]]
             /\ history' = [history EXCEPT !["sub"] = <<>>]
    <3>1. fr'[l].pc = "task" /\ fr'[l].calls = fr[l].calls /\ history'[l] = history[l] /\ Elsewhere(l)
      BY <2>2 DEF Elsewhere, FramesOK, Frame, Level
    <3>. QED BY <1>e, <3>1, <1>c DEF ToolPoints
  <2>. QED BY <1>e, <2>1, <2>2 DEF EnterTool
<1>5. CASE PreHooks(l)
  <2>1. fr[l].pc \in ToolPoints /\ UNCHANGED <<session, aborted>>
    BY <1>5 DEF PreHooks, ToolPoints
  <2>2. CASE fr' = [fr EXCEPT ![l].pc = "approval"] /\ UNCHANGED history
    <3>1. fr'[l].pc = "approval" /\ fr'[l].calls = fr[l].calls /\ Stays(l)
      BY <2>2 DEF Stays, FramesOK, Frame
    <3>. QED BY <2>1, <2>2, <3>1, <1>a, <1>c DEF ToolPoints
  <2>. QED BY <1>5, <2>1, <2>2, <1>d, <1>e DEF PreHooks
<1>6. CASE ApprovalAnswered(l)
  <2>1. fr[l].pc \in ToolPoints /\ UNCHANGED <<session, aborted>>
    BY <1>6 DEF ApprovalAnswered, ToolPoints
  <2>. QED BY <1>6, <2>1, <1>d, <1>e DEF ApprovalAnswered
<1>7. CASE ToolReturns(l)
  BY <1>7, <1>d DEF ToolReturns, ToolPoints
<1>8. CASE EmitOutcome(l)
  <2>1. /\ fr[l].pc = "dispatched" /\ fr'[l].pc = "emitted" /\ fr'[l].calls = fr[l].calls /\ Stays(l)
        /\ UNCHANGED <<session, aborted, history>>
    BY <1>8 DEF EmitOutcome, Stays, FramesOK, Frame
  <2>. QED BY <2>1, <1>a, <1>c DEF ToolPoints
<1>9. CASE NextCall(l)
  <2>1. fr[l].pc = "emitted" /\ Dispatch(l, fr[l], fr[l].at + 1) /\ UNCHANGED <<session, aborted, history>>
    BY <1>9 DEF NextCall
  <2>2. fr'[l].pc \in {"pre", "dispatched"} /\ fr'[l].calls = fr[l].calls /\ Stays(l)
    BY <2>1, DispatchLogs
  <2>. QED BY <2>1, <2>2, <1>a, <1>c DEF ToolPoints
<1>10. CASE CloseStep(l)
  <2>1. /\ fr[l].pc = "emitted" /\ AfterTools(fr[l]) \in Frame /\ AfterTools(fr[l]).calls = fr[l].calls
        /\ history' = [history EXCEPT ![l] = @ \o Answers(fr[l].calls)] /\ UNCHANGED <<session, aborted>>
    BY <1>10, AfterToolsType DEF CloseStep, AfterTools, Frame
  <2>2. fr'[l].pc \in {"stream", "turnEnd"} /\ fr'[l].calls = fr[l].calls /\ Stays(l)
    <3>1. Stop(l, AfterTools(fr[l]), "refused") \/ BeginStep(l, AfterTools(fr[l]))
      BY <1>10, Zenon DEF CloseStep
    <3>. QED BY <2>1, <3>1, StopLogs, BeginStepLogs
  <2>3. Elsewhere(l) /\ history'[l] = history[l] \o Answers(fr[l].calls)
    BY <2>1, <2>2, <1>b
  <2>4. LeavesAlone(l)
    BY <2>1, <2>2, <2>3 DEF LeavesAlone, Fill, ToolPoints
  <2>. QED BY <2>1, <2>2, <2>3, <2>4 DEF Logs, StaysAsked, ToolPoints
<1>11. CASE TurnEndHooks(l)
  <2>1. /\ fr[l].pc = "turnEnd" /\ fr'[l].pc = "completed" /\ fr'[l].calls = fr[l].calls /\ Stays(l)
        /\ UNCHANGED <<session, aborted, history>>
    BY <1>11 DEF TurnEndHooks, Stays, FramesOK, Frame
  <2>2. LeavesAlone(l)
    BY <2>1, Alone DEF ToolPoints
  <2>. QED BY <2>1, <2>2, <1>a DEF Logs, StaysAsked, ToolPoints
<1>12. CASE RunTurnReturns(l)
  BY <1>12 DEF RunTurnReturns, Returns
<1>13. CASE Fault(l)
  BY <1>13 DEF Fault, SinkThrows, ApprovalRejects, BudgetRefused, Returns
<1>. QED BY <1>1, <1>2, <1>3, <1>4, <1>5, <1>6, <1>7, <1>8, <1>9, <1>10, <1>11, <1>12, <1>13
         DEF Engine

-----------------------------------------------------------------------------
(* The turns are submitted in the order of their ids and settle once each.   *)
Settled ==
  /\ active \in {0, submitted}
  /\ \A t \in TurnIds : result[t] # "none" <=> t <= submitted /\ t # active

Filled(l) == Fill(fr[l], history[l])

(* In its tool phase a level's history ends with the message that asked.      *)
AskedLast(l) ==
  fr[l].pc \in ToolPoints => history[l] # <<>> /\ history[l][Len(history[l])] = Asks(fr[l].calls)

Replays ==
  /\ Settled
  /\ \A l \in Level : fr[l].calls <= MaxCalls /\ AskedLast(l) /\ NeverHalf(Filled(l))
  /\ Unanswered(Filled("sub")) = {}
  /\ Cardinality(Unanswered(Filled("turn"))) <= Cardinality(Thrown)

LEMMA FilledType == TypeOK => \A l \in Level : Filled(l) \in Seq(Message) /\ history[l] \in Seq(Message)
<1>. SUFFICES ASSUME TypeOK, NEW l \in Level PROVE Filled(l) \in Seq(Message) /\ history[l] \in Seq(Message)
  OBVIOUS
<1>1. history[l] \in Seq(Message) /\ fr[l].calls \in Nat
  BY DEF TypeOK, HistoryOK, FramesOK, Frame
<1>2. history[l] \o Answers(fr[l].calls) \in Seq(Message)
  BY <1>1, MessageTypes
<1>. QED BY <1>1, <1>2 DEF Filled, Fill

(* The steps left unanswered, and the turns that threw, can be counted.       *)
LEMMA FewerUnanswered ==
  ASSUME NEW h \in Seq(Message), NEW A \in SUBSET Unanswered(h)
  PROVE IsFiniteSet(A) /\ Cardinality(A) \in Nat /\ Cardinality(A) <= Cardinality(Unanswered(h))
        /\ IsFiniteSet(Unanswered(h)) /\ Cardinality(Unanswered(h)) \in Nat
<1>1. Unanswered(h) \subseteq 1 .. Len(h) /\ IsFiniteSet(1 .. Len(h))
  BY FS_Interval DEF Unanswered
<1>2. IsFiniteSet(Unanswered(h))
  BY <1>1, FS_Subset
<1>3. IsFiniteSet(A) /\ Cardinality(A) <= Cardinality(Unanswered(h))
  BY <1>2, FS_Subset
<1>. QED BY <1>2, <1>3, FS_CardinalityType

LEMMA ThrownCounts == IsFiniteSet(Thrown) /\ Cardinality(Thrown) \in Nat
<1>1. Thrown \subseteq TurnIds /\ IsFiniteSet(TurnIds)
  BY BoundsAssumption, FS_Interval DEF Thrown, TurnIds
<1>. QED BY <1>1, FS_Subset, FS_CardinalityType

(* What a level logs mends its history.                                     *)
LEMMA LogsMend ==
  ASSUME TypeOK, NEW l \in Level, Logs(l)
  PROVE Mends(Fill(fr'[l], history'[l]), Filled(l))
<1>1. Filled(l) \in Seq(Message) /\ fr[l].calls \in Nat
  BY FilledType DEF TypeOK, FramesOK, Frame
<1>2. CASE Prompts(l)
  <2>1. PICK injected \in {<<>>, <<User>>} :
       Fill(fr'[l], history'[l]) = Filled(l) \o injected \o <<User>>
    BY <1>2 DEF Prompts, Filled
  <2>2. CASE injected = <<>>
    <3>1. Fill(fr'[l], history'[l]) = Filled(l) \o <<User>>
      BY <1>1, <2>1, <2>2
    <3>. QED BY <1>1, <3>1, UserMends
  <2>3. CASE injected = <<User>>
    <3>1. Filled(l) \o <<User>> \in Seq(Message) /\ Mends(Filled(l) \o <<User>>, Filled(l))
      BY <1>1, UserMends
    <3>2. Mends((Filled(l) \o <<User>>) \o <<User>>, Filled(l) \o <<User>>)
      BY <3>1, UserMends
    <3>. QED BY <2>1, <2>3, <3>1, <3>2 DEF Mends
  <2>. QED BY <2>1, <2>2, <2>3
<1>3. CASE Exchanges(l)
  BY <1>1, <1>3, ExchangeMends DEF Exchanges, Filled
<1>4. CASE LeavesAlone(l)
  BY <1>4 DEF LeavesAlone, Filled, Mends
<1>. QED BY <1>2, <1>3, <1>4 DEF Logs

(* And its tool phase begins with the message that asked for it.             *)
LEMMA LogsAsk ==
  ASSUME TypeOK, NEW l \in Level, Logs(l), AskedLast(l)
  PROVE fr'[l].pc \in ToolPoints =>
          history'[l] # <<>> /\ history'[l][Len(history'[l])] = Asks(fr'[l].calls)
<1>1. history[l] \in Seq(Message)
  BY FilledType
<1>2. CASE history'[l] = Append(history[l], Asks(fr'[l].calls))
  <2>1. Append(history[l], Asks(fr'[l].calls)) # <<>>
    BY <1>1
  <2>2. LET h == Append(history[l], Asks(fr'[l].calls)) IN h[Len(h)] = Asks(fr'[l].calls)
    BY <1>1
  <2>. QED BY <1>2, <2>1, <2>2
<1>3. CASE fr[l].pc \in ToolPoints /\ fr'[l].calls = fr[l].calls /\ history'[l] = history[l]
  BY <1>3 DEF AskedLast
<1>. QED BY <1>2, <1>3 DEF Logs, StaysAsked

(* The empty history is answered, and a frame that starts makes no call.      *)
LEMMA EmptyFine ==
  /\ Unanswered(<<>>) = {}
  /\ IdleFrame.calls = 0 /\ [IdleFrame EXCEPT !.pc = "turnStart"].calls = 0
  /\ IdleFrame.pc \notin ToolPoints /\ [IdleFrame EXCEPT !.pc = "turnStart"].pc \notin ToolPoints
  /\ \A h : Fill(IdleFrame, h) = h /\ Fill([IdleFrame EXCEPT !.pc = "turnStart"], h) = h
BY DEF Unanswered, IdleFrame, Fill, ToolPoints

LEMMA EmptyNeverHalf == \A h : Unanswered(h) = {} => NeverHalf(h)
BY DEF NeverHalf

(* Leaving runTurn settles the turn once, and only a throw may leave a step   *)
(* of its history unanswered, its last one.                                 *)
LEMMA ReturnsReplays ==
  ASSUME TypeOK, Safe, Replays, NEW l \in Level, Returns(l)
  PROVE Replays'
<1>. USE BoundsAssumption DEF Replays
<1>1. PICK how \in StopReasons \cup {"threw"} :
        Leave(l, how) /\ (how = "threw" \/ fr[l].pc = "completed")
  BY DEF Returns, TypeOK, FramesOK, Frame
<1>2. how # "none"
  BY DEF StopReasons
<1>3. CASE l = "turn"
  <2>1. active \in TurnIds /\ result[active] = "none" /\ active = submitted
    BY <1>3 DEF Returns, Safe, SubagentInsideTurn, Settled, TypeOK, TurnsOK, TurnIds
  <2>2. /\ fr' = [fr EXCEPT !["turn"] = IdleFrame] /\ active' = 0
        /\ result' = [result EXCEPT ![active] = how] /\ UNCHANGED <<submitted, history>>
    BY <1>1, <1>3 DEF Leave
  <2>3. result'[active] = how /\ \A t \in TurnIds \ {active} : result'[t] = result[t]
    BY <2>1, <2>2 DEF TypeOK, ResultOK
  <2>4. Settled'
    <3>1. submitted \in Nat /\ \A t \in TurnIds : t \in Nat /\ t # 0
      BY DEF TypeOK, TurnsOK, TurnIds
    <3>2. ASSUME NEW t \in TurnIds PROVE result'[t] # "none" <=> t <= submitted /\ t # 0
      <4>1. CASE t = active
        BY <1>2, <2>1, <2>3, <3>1, <4>1
      <4>2. CASE t # active
        BY <2>3, <3>1, <4>2 DEF Settled
      <4>. QED BY <4>1, <4>2
    <3>. QED BY <2>2, <3>2 DEF Settled
  <2>5. fr'["turn"] = IdleFrame /\ fr'["sub"] = fr["sub"] /\ history' = history
    BY <2>2 DEF TypeOK, FramesOK, Level
  <2>6. Filled("sub")' = Filled("sub") /\ Filled("turn")' = history["turn"]
    BY <2>5, EmptyFine DEF Filled
  <2>7. /\ history["turn"] \in Seq(Message) /\ Filled("turn") \in Seq(Message)
        /\ fr["turn"].calls \in Nat
    BY FilledType DEF Level, TypeOK, FramesOK, Frame
  <2>8. NeverHalf(history["turn"]) /\ Cardinality(Unanswered(history["turn"])) <= Cardinality(Thrown')
    <3>1. NeverHalf(Filled("turn")) /\ Cardinality(Unanswered(Filled("turn"))) <= Cardinality(Thrown)
      BY DEF Level
    <3>2. /\ IsFiniteSet(Unanswered(Filled("turn"))) /\ Cardinality(Unanswered(Filled("turn"))) \in Nat
          /\ Cardinality(Thrown) \in Nat /\ IsFiniteSet(Thrown)
      BY <2>7, FewerUnanswered, ThrownCounts
    <3>3. CASE how # "threw"
      <4>1. Filled("turn") = history["turn"]
        BY <1>1, <1>3, <3>3 DEF Filled, Fill, ToolPoints
      <4>2. Thrown' = Thrown
        BY <2>1, <2>3, <3>3 DEF Thrown
      <4>. QED BY <3>1, <4>1, <4>2
    <3>4. CASE how = "threw"
      <4>1. Thrown' = Thrown \cup {active} /\ active \notin Thrown
        BY <2>1, <2>3, <3>4 DEF Thrown
      <4>2. Cardinality(Thrown') = Cardinality(Thrown) + 1
        BY <3>2, <4>1, FS_AddElement
      <4>3. CASE fr["turn"].pc \notin ToolPoints
        <5>1. Filled("turn") = history["turn"]
          BY <4>3 DEF Filled, Fill
        <5>. QED BY <3>1, <3>2, <4>2, <5>1
      <4>4. CASE fr["turn"].pc \in ToolPoints
        <5>1. /\ Filled("turn") = history["turn"] \o Answers(fr["turn"].calls)
              /\ history["turn"] # <<>>
              /\ history["turn"][Len(history["turn"])] = Asks(fr["turn"].calls)
          BY <4>4 DEF Filled, Fill, AskedLast, Level
        <5>2. /\ NeverHalf(history["turn"])
              /\ Unanswered(history["turn"]) \subseteq Unanswered(Filled("turn")) \cup {Len(history["turn"])}
          <6>1. NeverHalf(history["turn"] \o Answers(fr["turn"].calls))
            BY <3>1, <5>1
          <6>2. /\ NeverHalf(history["turn"])
                /\ Unanswered(history["turn"])
                     \subseteq Unanswered(history["turn"] \o Answers(fr["turn"].calls)) \cup {Len(history["turn"])}
            BY <2>7, <5>1, <6>1, LastLeftOpen
          <6>. QED BY <5>1, <6>2
        <5>. DEFINE U == Unanswered(Filled("turn"))
                    W == U \cup {Len(history["turn"])}
        <5>. HIDE DEF U
        <5>3. IsFiniteSet(W) /\ Cardinality(W) <= Cardinality(U) + 1 /\ Cardinality(W) \in Nat
          <6>1. IsFiniteSet(U) /\ Cardinality(U) \in Nat
            BY <3>2 DEF U
          <6>2. /\ IsFiniteSet(W)
                /\ \/ Cardinality(W) = Cardinality(U)
                   \/ Cardinality(W) = Cardinality(U) + 1
            BY <6>1, FS_AddElement
          <6>. QED BY <6>1, <6>2
        <5>4. /\ Cardinality(Unanswered(history["turn"])) <= Cardinality(W)
              /\ Cardinality(Unanswered(history["turn"])) \in Nat
          <6>1. Unanswered(history["turn"]) \subseteq W
            BY <5>2 DEF U
          <6>. QED BY <5>3, <6>1, FS_Subset, FS_CardinalityType
        <5>5. Cardinality(U) <= Cardinality(Thrown) /\ Cardinality(U) \in Nat
          BY <3>1, <3>2 DEF U
        <5>. HIDE DEF W
        <5>6. Cardinality(Unanswered(history["turn"])) <= Cardinality(Thrown) + 1
          BY <3>2, <5>3, <5>4, <5>5
        <5>. QED BY <4>2, <5>2, <5>6
      <4>. QED BY <4>3, <4>4
    <3>. QED BY <3>3, <3>4
  <2>9. \A k \in Level : (fr'[k].calls <= MaxCalls /\ AskedLast(k)' /\ NeverHalf(Filled(k)'))
    <3>1. fr'["turn"].calls <= MaxCalls /\ AskedLast("turn")'
      BY <2>5, EmptyFine DEF AskedLast
    <3>2. fr'["sub"].calls <= MaxCalls /\ AskedLast("sub")'
      BY <2>5 DEF AskedLast, Level
    <3>3. NeverHalf(Filled("sub")') /\ NeverHalf(Filled("turn")')
      BY <2>6, <2>8 DEF Level
    <3>. QED BY <3>1, <3>2, <3>3 DEF Level
  <2>10. Unanswered(Filled("sub")') = {} /\ Cardinality(Unanswered(Filled("turn")')) <= Cardinality(Thrown')
    BY <2>6, <2>8
  <2>. QED BY <2>4, <2>9, <2>10
<1>4. CASE l = "sub"
  <2>1. /\ fr["turn"].pc = "task" /\ fr["turn"] \in Frame
    BY <1>4 DEF Returns, Safe, SubagentInsideTurn, TypeOK, FramesOK, Level
  <2>2. /\ fr'["sub"] = IdleFrame
        /\ fr'["turn"] = [fr["turn"] EXCEPT !.pc = "dispatched", !.outcome = "ran"]
        /\ history'["sub"] = <<>> /\ history'["turn"] = history["turn"] /\ UNCHANGED session
    BY <1>1, <1>4 DEF Leave, TypeOK, FramesOK, HistoryOK, Level
  <2>3. fr'["turn"].pc = "dispatched" /\ fr'["turn"].calls = fr["turn"].calls
    BY <2>1, <2>2 DEF Frame
  <2>4. Filled("turn")' = Filled("turn") /\ Filled("sub")' = <<>>
    BY <2>1, <2>2, <2>3, EmptyFine DEF Filled, Fill, ToolPoints
  <2>5. \A k \in Level : (fr'[k].calls <= MaxCalls /\ AskedLast(k)' /\ NeverHalf(Filled(k)'))
    <3>1. fr'["sub"].calls <= MaxCalls /\ AskedLast("sub")'
      BY <2>2, EmptyFine DEF AskedLast
    <3>2. fr["turn"].calls <= MaxCalls /\ AskedLast("turn") /\ NeverHalf(Filled("turn"))
      BY DEF Level
    <3>3. fr'["turn"].calls <= MaxCalls
      BY <2>3, <3>2
    <3>4. AskedLast("turn")'
      BY <2>1, <2>2, <2>3, <3>2 DEF AskedLast, ToolPoints
    <3>5. NeverHalf(Filled("sub")') /\ NeverHalf(Filled("turn")')
      BY <2>4, <3>2, EmptyFine, EmptyNeverHalf
    <3>. QED BY <3>1, <3>3, <3>4, <3>5 DEF Level
  <2>6. Settled' /\ Thrown' = Thrown
    BY <2>2 DEF session, Settled, Thrown
  <2>7. Unanswered(Filled("sub")') = {} /\ Cardinality(Unanswered(Filled("turn")')) <= Cardinality(Thrown')
    BY <2>4, <2>6, EmptyFine
  <2>. QED BY <2>5, <2>6, <2>7
<1>. QED BY <1>3, <1>4 DEF Level

(* A step that moves no frame and no history.                               *)
LEMMA SameReplays ==
  ASSUME Replays, UNCHANGED <<fr, history, active, submitted, result>>
  PROVE Replays'
BY DEF Replays, Settled, AskedLast, Filled, Thrown

(* A step of one level mends its own history and leaves the other's alone,    *)
(* or empties it for a subagent that starts.                                *)
LEMMA LogsReplays ==
  ASSUME TypeOK, Replays, NEW l \in Level, Logs(l)
  PROVE Replays'
<1>. USE BoundsAssumption DEF Replays
<1>1. UNCHANGED session
  BY DEF Logs
<1>2. Settled' /\ Thrown' = Thrown
  BY <1>1 DEF session, Settled, Thrown
<1>3. ASSUME NEW k \in Level
      PROVE /\ fr'[k].calls <= MaxCalls /\ AskedLast(k)' /\ Mends(Filled(k)', Filled(k))
            /\ NeverHalf(Filled(k)')
  <2>1. fr[k].calls <= MaxCalls /\ AskedLast(k) /\ NeverHalf(Filled(k))
    OBVIOUS
  <2>2. CASE k = l
    <3>1. Mends(Filled(k)', Filled(k)) /\ AskedLast(k)'
      BY <2>1, <2>2, LogsMend, LogsAsk DEF Filled, AskedLast
    <3>2. fr'[k].calls <= MaxCalls
      BY <2>1, <2>2 DEF Logs
    <3>. QED BY <2>1, <3>1, <3>2 DEF Mends
  <2>3. CASE k # l
    <3>1. CASE fr'[k] = fr[k] /\ history'[k] = history[k]
      BY <2>1, <3>1 DEF Filled, AskedLast, Mends
    <3>2. CASE fr'[k] = [IdleFrame EXCEPT !.pc = "turnStart"] /\ history'[k] = <<>>
      <4>1. Filled(k)' = <<>> /\ AskedLast(k)' /\ fr'[k].calls = 0
        BY <3>2, EmptyFine DEF Filled, AskedLast
      <4>2. Unanswered(Filled(k)') = {} /\ NeverHalf(Filled(k)')
        BY <4>1, EmptyFine, EmptyNeverHalf
      <4>. QED BY <4>1, <4>2 DEF Mends
    <3>. QED BY <2>3, <3>1, <3>2 DEF Logs, Elsewhere
  <2>. QED BY <2>2, <2>3
<1>4. Unanswered(Filled("sub")') = {}
  BY <1>3 DEF Mends, Level
<1>5. Cardinality(Unanswered(Filled("turn")')) <= Cardinality(Thrown)
  <2>1. Unanswered(Filled("turn")') \subseteq Unanswered(Filled("turn"))
    BY <1>3 DEF Mends, Level
  <2>2. Filled("turn") \in Seq(Message)
    BY FilledType DEF Level
  <2>3. /\ Cardinality(Unanswered(Filled("turn")')) \in Nat /\ Cardinality(Unanswered(Filled("turn"))) \in Nat
        /\ Cardinality(Unanswered(Filled("turn")')) <= Cardinality(Unanswered(Filled("turn")))
    BY <2>1, <2>2, FewerUnanswered
  <2>4. Cardinality(Thrown) \in Nat /\ Cardinality(Unanswered(Filled("turn"))) <= Cardinality(Thrown)
    BY ThrownCounts
  <2>. QED BY <2>3, <2>4
<1>. QED BY <1>2, <1>3, <1>4, <1>5

(* Every step leaves at most as many steps unanswered as turns threw.         *)
LEMMA ReplaysStep ==
  ASSUME TypeOK, Safe, Replays, [Next]_vars
  PROVE Replays'
<1>1. CASE TurnSubmit
  <2>1. /\ fr["turn"].pc = "idle" /\ submitted \in Nat /\ active = 0
        /\ active' = submitted + 1 /\ submitted' = submitted + 1 /\ UNCHANGED <<history, result>>
        /\ fr' = [fr EXCEPT !["turn"] = [IdleFrame EXCEPT !.pc = "turnStart"]]
    BY <1>1 DEF TurnSubmit, Safe, SubagentInsideTurn, TypeOK, TurnsOK
  <2>2. /\ fr'["turn"] = [IdleFrame EXCEPT !.pc = "turnStart"] /\ fr'["sub"] = fr["sub"]
        /\ history' = history
    BY <2>1 DEF TypeOK, FramesOK, Level
  <2>3. Settled' /\ Thrown' = Thrown
    BY <2>1 DEF Replays, Settled, TurnIds, Thrown
  <2>4. Filled("turn") = history["turn"]
    BY <2>1 DEF Filled, Fill, ToolPoints
  <2>5. Filled("turn")' = Filled("turn") /\ Filled("sub")' = Filled("sub")
    BY <2>2, <2>4, EmptyFine DEF Filled
  <2>6. \A k \in Level : (fr'[k].calls <= MaxCalls /\ AskedLast(k)' /\ NeverHalf(Filled(k)'))
    <3>1. fr'["turn"].calls <= MaxCalls /\ AskedLast("turn")'
      BY <2>2, EmptyFine, BoundsAssumption DEF AskedLast
    <3>2. fr'["sub"].calls <= MaxCalls /\ AskedLast("sub")'
      BY <2>2 DEF Replays, AskedLast, Level
    <3>3. NeverHalf(Filled("sub")') /\ NeverHalf(Filled("turn")')
      BY <2>5 DEF Replays, Level
    <3>. QED BY <3>1, <3>2, <3>3 DEF Level
  <2>. QED BY <2>3, <2>5, <2>6 DEF Replays
<1>2. ASSUME NEW t \in TurnIds, TurnCancel(t) PROVE Replays'
  BY <1>2, SameReplays DEF TurnCancel, session
<1>3. CASE SessionClose
  BY <1>3, SameReplays DEF SessionClose
<1>4. ASSUME NEW l \in Level, Engine(l) \/ ApprovalAnswered(l) \/ Fault(l) PROVE Replays'
  BY <1>4, StepLogs, LogsReplays, ReturnsReplays
<1>5. CASE UNCHANGED vars
  BY <1>5, SameReplays DEF vars
<1>. QED BY <1>1, <1>2, <1>3, <1>4, <1>5 DEF Next, Embedder

(* The first state has nothing to replay.                                   *)
LEMMA ReplaysInit == Init => Replays
<1>. SUFFICES ASSUME Init PROVE Replays
  OBVIOUS
<1>1. \A l \in Level : fr[l] = IdleFrame /\ history[l] = <<>>
  BY DEF Init
<1>2. \A l \in Level : Filled(l) = <<>> /\ AskedLast(l) /\ fr[l].calls = 0
  BY <1>1, EmptyFine DEF Filled, AskedLast
<1>3. \A l \in Level : Unanswered(Filled(l)) = {} /\ NeverHalf(Filled(l))
  BY <1>2, EmptyFine, EmptyNeverHalf
<1>4. Settled
  BY BoundsAssumption DEF Init, Settled, TurnIds
<1>5. Cardinality(Unanswered(Filled("turn"))) = 0 /\ Cardinality(Thrown) \in Nat
  BY <1>3, FS_EmptySet, ThrownCounts DEF Level
<1>6. Cardinality(Unanswered(Filled("turn"))) <= Cardinality(Thrown)
  BY <1>5
<1>. QED BY <1>2, <1>3, <1>4, <1>6, BoundsAssumption DEF Replays, Level

LEMMA AlwaysReplays == Spec => [](TypeOK /\ Safe /\ Replays)
<1>1. TypeOK /\ Safe /\ Replays /\ [Next]_vars => Replays'
  BY ReplaysStep
<1>. QED BY <1>1, ReplaysInit, AlwaysSafe, PTL DEF Spec

(* Outside a tool phase what is filled in is nothing.                        *)
LEMMA ReplaysSeen ==
  ASSUME TypeOK, Replays
  PROVE ReplayableHistory /\ (Thrown = {} => NextTurnIsValid)
<1>1. \A l \in Level : fr[l].pc \in {"idle", "stream"} => Filled(l) = history[l]
  BY DEF Filled, Fill, ToolPoints
<1>2. fr["sub"].pc = "stream" => HistoryIsLinear(history["sub"])
  <2>1. \A h : Unanswered(h) = {} => HistoryIsLinear(h)
    BY DEF Unanswered, HistoryIsLinear
  <2>2. fr["sub"].pc = "stream" => Filled("sub") = history["sub"]
    BY <1>1 DEF Level
  <2>. QED BY <2>1, <2>2 DEF Replays
<1>3. ASSUME fr["turn"].pc \in {"idle", "stream"}
      PROVE /\ Cardinality(Unanswered(history["turn"])) <= Cardinality(Thrown)
            /\ NeverHalf(history["turn"])
  BY <1>1, <1>3 DEF Replays, Level
<1>4. ASSUME fr["turn"].pc \in {"idle", "stream"}, Thrown = {} PROVE HistoryIsLinear(history["turn"])
  <2>1. history["turn"] \in Seq(Message)
    BY FilledType DEF Level
  <2>2. IsFiniteSet(Unanswered(history["turn"])) /\ Cardinality(Unanswered(history["turn"])) \in Nat
    BY <2>1, FewerUnanswered
  <2>3. Cardinality(Unanswered(history["turn"])) = 0
    BY <1>3, <1>4, <2>2, FS_EmptySet
  <2>4. Unanswered(history["turn"]) = {}
    BY <2>2, <2>3, FS_EmptySet
  <2>. QED BY <2>4 DEF Unanswered, HistoryIsLinear
<1>. QED BY <1>2, <1>3, <1>4 DEF ReplayableHistory, NeverHalf, NextTurnIsValid

(* Whatever may throw: every request a provider sees and every history a turn *)
(* leaves behind answers each tool call in order, but for at most one step   *)
(* per turn that threw, which has no answer at all.                         *)
THEOREM HistoriesReplay == Spec => []ReplayableHistory
<1>1. TypeOK /\ Replays => ReplayableHistory
  BY ReplaysSeen
<1>. QED BY <1>1, AlwaysReplays, PTL

(* And until a turn throws the next turn is always valid, as the SDK promises *)
(* of every turn: with that exception, which turn_ragged shows, it is so for  *)
(* every order of cancels, closes, denials, aborts and subagents.            *)
THEOREM NextTurnsAreValid == Spec => [](Thrown = {} => NextTurnIsValid)
<1>1. TypeOK /\ Replays => (Thrown = {} => NextTurnIsValid)
  BY ReplaysSeen
<1>. QED BY <1>1, AlwaysReplays, PTL

-----------------------------------------------------------------------------
(* The refinement.  An exchange happens when the assistant message is        *)
(* appended; what the tool phase does after it, a subagent included, the     *)
(* abstract specification does not see.                                     *)
Seen == Promise!promise

LEMMA AnsweredIsFill == Answered = Fill(fr["turn"], history["turn"]) /\ Answered' = Fill(fr'["turn"], history'["turn"])
BY DEF Answered, Fill

(* A step that moves neither the turn's frame out of its phase nor what its  *)
(* history comes to is not seen.                                            *)
LEMMA Unseen ==
  ASSUME Fill(fr'["turn"], history'["turn"]) = Fill(fr["turn"], history["turn"]),
         \/ fr'["turn"].pc = fr["turn"].pc
         \/ {fr["turn"].pc, fr'["turn"].pc} \cap {"idle", "turnStart"} = {},
         UNCHANGED <<active, aborted, result>>
  PROVE UNCHANGED Seen
<1>1. Phase' = Phase
  BY DEF Phase
<1>. QED BY <1>1, AnsweredIsFill DEF Seen, Promise!promise

(* What the turn's own level logs is a prompt, an exchange, or unseen.       *)
LEMMA TurnLogsPromise ==
  ASSUME TypeOK, Safe, Replays, Logs("turn")
  PROVE [Promise!Next]_Seen
<1>. DEFINE f == fr["turn"]
<1>1. /\ f.pc # "idle" /\ fr'["turn"].pc \notin {"idle", "turnStart"}
      /\ UNCHANGED <<active, aborted, result>>
      /\ Phase' = "prompted"
  BY DEF Logs, session, Phase
<1>2. CASE Prompts("turn")
  <2>1. Phase = "begun"
    BY <1>2 DEF Prompts, Phase
  <2>2. Promise!Prompt
    BY <1>1, <1>2, <2>1, AnsweredIsFill DEF Promise!Prompt, Prompts, Promise!User, User
  <2>. QED BY <2>2 DEF Promise!Next
<1>3. CASE Exchanges("turn")
  <2>1. Phase = "prompted" /\ ~aborted
    BY <1>3 DEF Exchanges, Phase
  <2>2. f.calls \in 0 .. MaxCalls
    BY BoundsAssumption DEF Replays, Level, TypeOK, FramesOK, Frame
  <2>3. Promise!Exchange(f.calls)
    BY <1>1, <1>3, <2>1, AnsweredIsFill DEF Promise!Exchange, Exchanges, Promise!Asks, Asks,
       Promise!Answers, Answers
  <2>. QED BY <2>2, <2>3 DEF Promise!Next
<1>4. CASE LeavesAlone("turn")
  BY <1>1, <1>4, Unseen DEF LeavesAlone
<1>. QED BY <1>2, <1>3, <1>4 DEF Logs

(* What a subagent logs is unseen.                                          *)
LEMMA SubLogsPromise ==
  ASSUME Logs("sub")
  PROVE UNCHANGED Seen
<1>1. fr'["turn"] = fr["turn"] /\ history'["turn"] = history["turn"] /\ UNCHANGED <<active, aborted, result>>
  BY DEF Logs, Elsewhere, Level, session
<1>. QED BY <1>1, Unseen

(* Leaving runTurn settles or refuses the turn; a subagent that leaves it is  *)
(* unseen.                                                                  *)
LEMMA ReturnsPromise ==
  ASSUME Faults \subseteq {"budget"}, TypeOK, Safe, Replays, Honest, NEW l \in Level, Returns(l)
  PROVE [Promise!Next]_Seen
<1>1. CASE l = "turn"
  <2>1. PICK how \in StopReasons \cup {"threw"} :
          /\ Leave("turn", how) /\ UNCHANGED aborted
          /\ \/ fr["turn"].pc = "completed" /\ how = fr["turn"].stop /\ how \in StopReasons
             \/ fr["turn"].pc = "turnStart" /\ how = "threw"
    BY <1>1 DEF Returns, TypeOK, FramesOK, Frame
  <2>2. /\ fr'["turn"] = IdleFrame /\ active' = 0 /\ result' = [result EXCEPT ![active] = how]
        /\ UNCHANGED history
    BY <2>1 DEF Leave, TypeOK, FramesOK, Level
  <2>3. Phase' = "idle"
    BY <2>2 DEF Phase, IdleFrame
  <2>4. Answered' = Answered
    BY <2>1, <2>2, EmptyFine, AnsweredIsFill DEF Fill, ToolPoints
  <2>5. CASE fr["turn"].pc = "completed"
    <3>1. how \in StopReasons /\ (how = "cancelled" => aborted)
      BY <2>1, <2>5 DEF Honest, HonestFrame, TrueReason, Fits, Level
    <3>2. Phase = "prompted"
      BY <2>5 DEF Phase
    <3>3. Promise!Settle(how)
      BY <2>1, <2>2, <2>3, <2>4, <3>1, <3>2 DEF Promise!Settle
    <3>. QED BY <3>1, <3>3 DEF Promise!Next
  <2>6. CASE fr["turn"].pc = "turnStart"
    <3>1. Phase = "begun" /\ how = "threw"
      BY <2>1, <2>6 DEF Phase
    <3>2. Promise!Refuse
      BY <2>1, <2>2, <2>3, <2>4, <3>1 DEF Promise!Refuse
    <3>. QED BY <3>2 DEF Promise!Next
  <2>. QED BY <2>1, <2>5, <2>6
<1>2. CASE l = "sub"
  <2>1. fr["turn"].pc = "task" /\ fr["turn"] \in Frame
    BY <1>2 DEF Returns, Safe, SubagentInsideTurn, TypeOK, FramesOK, Level
  <2>2. /\ fr'["turn"] = [fr["turn"] EXCEPT !.pc = "dispatched", !.outcome = "ran"]
        /\ history'["turn"] = history["turn"] /\ UNCHANGED <<active, aborted, result>>
    BY <1>2 DEF Returns, Leave, session, TypeOK, FramesOK, HistoryOK, Level
  <2>3. fr'["turn"].pc = "dispatched" /\ fr'["turn"].calls = fr["turn"].calls
    BY <2>1, <2>2 DEF Frame
  <2>4. Fill(fr'["turn"], history'["turn"]) = Fill(fr["turn"], history["turn"])
    BY <2>1, <2>2, <2>3 DEF Fill, ToolPoints
  <2>. QED BY <2>1, <2>2, <2>3, <2>4, Unseen
<1>. QED BY <1>1, <1>2 DEF Level

(* A turn that is submitted begins, in the order of the ids.                *)
LEMMA SubmitPromise ==
  ASSUME TypeOK, Safe, Replays, TurnSubmit
  PROVE Promise!Next
<1>. DEFINE t == submitted + 1
<1>1. /\ active = 0 /\ submitted \in Nat /\ t \in 1 .. MaxTurns /\ active' = t /\ aborted' = FALSE
      /\ UNCHANGED <<history, result>> /\ fr["turn"].pc = "idle"
      /\ fr'["turn"] = [IdleFrame EXCEPT !.pc = "turnStart"]
  BY BoundsAssumption DEF TurnSubmit, Safe, SubagentInsideTurn, TypeOK, TurnsOK, FramesOK, Level
<1>2. \A s \in 1 .. MaxTurns : s < t <=> result[s] # "none"
  BY <1>1 DEF Replays, Settled, TurnIds
<1>3. Phase' = "begun"
  BY <1>1 DEF Phase, IdleFrame
<1>4. Answered' = Answered
  BY <1>1, EmptyFine, AnsweredIsFill DEF Fill, ToolPoints
<1>5. Promise!Begin(t)
  BY <1>1, <1>2, <1>3, <1>4 DEF Promise!Begin
<1>. QED BY <1>1, <1>5 DEF Promise!Next

(* Every step of the loop is a step of the promise, or is not seen.          *)
LEMMA StepPromise ==
  ASSUME Faults \subseteq {"budget"}, TypeOK, Safe, Replays, Honest, [Next]_vars
  PROVE [Promise!Next]_Seen
<1>a. ASSUME UNCHANGED <<fr, history, active, result>>, active # 0, aborted' = TRUE PROVE Promise!Next
  <2>1. UNCHANGED <<Answered, Phase>>
    BY <1>a DEF Answered, Phase
  <2>2. Promise!Cancel
    BY <1>a, <2>1 DEF Promise!Cancel
  <2>. QED BY <2>2 DEF Promise!Next
<1>1. ASSUME NEW t \in TurnIds, TurnCancel(t) PROVE Promise!Next
  <2>1. active # 0
    BY <1>1 DEF TurnCancel, TurnIds
  <2>. QED BY <1>1, <1>a, <2>1 DEF TurnCancel, session
<1>2. CASE SessionClose
  <2>1. UNCHANGED <<fr, history, active, result>> /\ aborted' = (aborted \/ active # 0)
    BY <1>2 DEF SessionClose
  <2>2. CASE active # 0
    BY <1>a, <2>1, <2>2
  <2>3. CASE active = 0
    <3>1. aborted \in BOOLEAN
      BY Zenon DEF TypeOK, FlagsOK
    <3>2. aborted' = aborted
      BY <2>1, <2>3, <3>1
    <3>. QED BY <2>1, <3>2, Unseen
  <2>. QED BY <2>2, <2>3
<1>3. ASSUME NEW l \in Level, Engine(l) \/ ApprovalAnswered(l) \/ Fault(l) PROVE [Promise!Next]_Seen
  <2>1. Logs(l) \/ Returns(l)
    BY <1>3, StepLogs
  <2>. QED BY <2>1, ReturnsPromise, TurnLogsPromise, SubLogsPromise DEF Level
<1>4. CASE UNCHANGED vars
  BY <1>4, Unseen DEF vars
<1>. QED BY <1>1, <1>2, <1>3, <1>4, SubmitPromise DEF Next, Embedder

(* While no callback throws, the loop implements Conversation, for every      *)
(* budget and every number of turns and of calls.                           *)
THEOREM PromiseIsKept ==
  ASSUME Faults \subseteq {"budget"}
  PROVE Spec => KeepsPromise
<1>1. Init => Promise!Init
  BY EmptyFine, AnsweredIsFill DEF Init, Promise!Init, Phase, IdleFrame, TurnIds, Level
<1>2. TypeOK /\ Safe /\ Replays /\ Honest /\ [Next]_vars => [Promise!Next]_Seen
  BY StepPromise
<1>. QED BY <1>1, <1>2, AlwaysReplays, AlwaysHonest, PTL DEF Spec, KeepsPromise, Promise!Spec, Seen

=============================================================================
