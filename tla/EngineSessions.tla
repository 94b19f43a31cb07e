---------------------------- MODULE EngineSessions ----------------------------
(***************************************************************************)
(* The Engine of @adze/core (engine.ts): sessions that come and go, the    *)
(* turns submitted to them, cancelled, awaited or abandoned, and the       *)
(* subagents a turn delegates to; with the policy of a session (the gate   *)
(* and its memory), the frozen prefix that tells the model about it        *)
(* (context.ts) and the tools (registry.ts).                               *)
(*                                                                         *)
(* TurnMachine and PermissionGate look inside one turn and one gate.  Here *)
(* a turn is a few requests to the model and a few questions to the gate,  *)
(* and what matters is which session, gate and signal each of them uses.   *)
(***************************************************************************)
EXTENDS Naturals, Sequences

CONSTANTS
  Sessions,             (* The ids that nextId may make.                    *)
  Opening, Overriding,  (* Policies, [mode, approvals], that sessions are   *)
                        (* created with and turns override them by.         *)
  Enforced,             (* The modes the broker enforces.                   *)
  Tools,                (* The base tools; "task" is one.                   *)
  TaskLists,            (* Tool lists a subagent may be asked to have.      *)
  MaxTurns, MaxSteps, MaxWaits,   (* Bounds.                                *)
  None

Policies == Opening \cup Overriding

EngineAssumption ==
  /\ MaxTurns \in Nat /\ MaxSteps \in Nat /\ MaxWaits \in Nat
  /\ \A p \in Policies : p.approvals \in {"on-request", "never"}
  /\ "task" \in Tools
  /\ \A l \in TaskLists : l \in Seq(STRING)

VARIABLES
  created, live,  (* Ids ever given; runtimes and store.                    *)
  policy,         (* session.sandbox.mode and session.approvals.            *)
  gates,          (* Every gate built: [policy, remembers].                 *)
  gateOf,         (* The gate in the session's runtime.                     *)
  prefix,         (* What the epoch of the session's assembler tells.       *)
  active,         (* session.activeTurn.                                    *)
  turns,          (* [session, gate, state, aborted, steps, helped, child]. *)
  completions, waiting  (* Turns whose promise the engine keeps; awaits.    *)

runtimes == <<created, live, policy, gates, gateOf, prefix>>
awaits   == <<completions, waiting>>
vars     == <<runtimes, active, turns, awaits>>

Init ==
  /\ created = {} /\ live = {}
  /\ policy = [s \in Sessions |-> None] /\ gates = <<>>
  /\ gateOf = [s \in Sessions |-> 0] /\ prefix = [s \in Sessions |-> None]
  /\ active = [s \in Sessions |-> 0] /\ turns = <<>>
  /\ completions = {} /\ waiting = [t \in 1..MaxTurns |-> 0]

Baseline(p) == [policy |-> p, enforced |-> p.mode \in Enforced]

-----------------------------------------------------------------------------
(* Sessions.                                                               *)

Built(p) == [policy |-> p, remembers |-> FALSE]

(* nextId("sess")                                                           *)
FreshId == CHOOSE s \in Sessions \ created : TRUE

SessionCreate(p) ==
  /\ created # Sessions
  /\ LET s == FreshId
     IN  /\ created' = created \cup {s} /\ live' = live \cup {s}
         /\ policy' = [policy EXCEPT ![s] = p]
         /\ gates' = Append(gates, Built(p))
         /\ gateOf' = [gateOf EXCEPT ![s] = Len(gates')]
         /\ prefix' = [prefix EXCEPT ![s] = Baseline(p)]
  /\ UNCHANGED <<active, turns, awaits>>

(* Any session that is known, and has no turn in flight.                    *)
CanSubmit(s) == s \in live /\ active[s] = 0

KeepsItsGate(s, p) == UNCHANGED <<gates, gateOf>>

(* An override replaces the gate, and with it what the user has allowed for *)
(* the session.                                                             *)
Overrides(s, p) ==
  IF p = None THEN UNCHANGED <<gates, gateOf>>
  ELSE /\ gates' = Append(gates, Built(policy'[s]))
       /\ gateOf' = [gateOf EXCEPT ![s] = Len(gates')]

(* The mode, the approval policy or both; what is absent stays.             *)
TurnSubmit(s, p) ==
  /\ CanSubmit(s) /\ Len(turns) < MaxTurns
  /\ policy' = IF p = None THEN policy ELSE [policy EXCEPT ![s] = p]
  /\ Overrides(s, p)
  /\ LET t == Len(turns) + 1
     IN  /\ turns' = Append(turns,
              [session |-> s, gate |-> gateOf'[s], state |-> "starting",
               aborted |-> FALSE, steps |-> 0, helped |-> FALSE, child |-> None])
         /\ active' = [active EXCEPT ![s] = t]
         /\ completions' = completions \cup {t}
  /\ UNCHANGED <<created, live, prefix, waiting>>

(* A cancel that comes too late, or names another turn, does nothing.       *)
Names(s, t) == active[s] = t

TurnCancel(s, t) ==
  /\ s \in live /\ active[s] # 0 /\ Names(s, t)
  /\ turns' = [turns EXCEPT ![active[s]].aborted = TRUE]
  /\ UNCHANGED <<runtimes, active, awaits>>

AbortActive(s) ==
  IF active[s] = 0 THEN UNCHANGED turns
  ELSE turns' = [turns EXCEPT ![active[s]].aborted = TRUE]

(* The session goes at once; its turn is told, and goes on by itself.       *)
SessionClose(s) ==
  /\ s \in live
  /\ live' = live \ {s}
  /\ AbortActive(s)
  /\ UNCHANGED <<created, policy, gates, gateOf, prefix, active, awaits>>

-----------------------------------------------------------------------------
(* A turn.                                                                 *)

(* ContextAssembler.reconcile: a new epoch when the policy differs from the *)
(* one the prefix tells about.                                              *)
reconcile(s, g) ==
  prefix' = [prefix EXCEPT ![s] =
    [policy |-> policy[s], enforced |-> gates[g].policy.mode \in Enforced]]

(* runTurn: the first thing it does is to refuse a spend budget that has no *)
(* prices; by then the overrides are in force.                              *)
TurnStarts(t) ==
  /\ turns[t].state = "starting"
  /\ \/ /\ reconcile(turns[t].session, turns[t].gate)
        /\ turns' = [turns EXCEPT ![t].state = "running"]
     \/ /\ turns' = [turns EXCEPT ![t].state = "completed"]
        /\ UNCHANGED prefix
  /\ UNCHANGED <<created, live, policy, gates, gateOf, active, awaits>>

ModelRequest(t) ==
  /\ turns[t].state = "running" /\ ~turns[t].aborted /\ turns[t].steps < MaxSteps
  /\ reconcile(turns[t].session, turns[t].gate)
  /\ turns' = [turns EXCEPT ![t].steps = @ + 1]
  /\ UNCHANGED <<created, live, policy, gates, gateOf, active, awaits>>

(* A call of the turn or of its subagent that the user allows "for this     *)
(* session"; the other answers change nothing here.                         *)
Authorize(t) ==
  /\ turns[t].state \in {"running", "child"} /\ turns[t].steps > 0
  /\ LET g == IF turns[t].state = "child" THEN turns[t].child.gate ELSE turns[t].gate
     IN  /\ gates[g].policy.approvals = "on-request" /\ ~gates[g].remembers
         /\ gates' = [gates EXCEPT ![g].remembers = TRUE]
  /\ UNCHANGED <<created, live, policy, gateOf, prefix, active, turns, awaits>>

(* The places of a list that are asked for: a subagent is never given the   *)
(* tool that makes subagents.                                               *)
requested(list) == {i \in DOMAIN list : list[i] # "task"}

(* ToolRegistry.narrow: an unknown name is an error, and a name given twice *)
(* is registered twice, which throws.                                       *)
Narrowed(list) ==
  LET names == {list[i] : i \in requested(list)}
      twice == \E i, j \in requested(list) : i # j /\ list[i] = list[j]
  IN  IF names \subseteq Tools /\ ~twice THEN names ELSE None

(* The task tool's runner, by the id of the parent session: a fresh session *)
(* under the parent's policy, the parent's gate and the narrowed tools.  A  *)
(* session that was closed has no runner: the task fails, and the turn goes *)
(* on.  The subagent's prefix is made of the policy it got.  (Bound: one    *)
(* subagent a turn.)                                                        *)
Delegate(t, list) ==
  LET s == turns[t].session  tools == Narrowed(list)
  IN  /\ turns[t].state = "running" /\ turns[t].steps > 0 /\ ~turns[t].helped
      /\ s \in live /\ tools # None
      /\ turns' = [turns EXCEPT ![t].state = "child", ![t].helped = TRUE,
                     ![t].child = [gate |-> gateOf[s], policy |-> policy[s],
                                   tools |-> tools]]
      /\ UNCHANGED <<runtimes, active, awaits>>

ChildEnds(t) ==
  /\ turns[t].state = "child"
  /\ turns' = [turns EXCEPT ![t].state = "running", ![t].child = None]
  /\ UNCHANGED <<runtimes, active, awaits>>

(* turn.completed is emitted while the turn is still the active one.        *)
TurnEnds(t) ==
  /\ turns[t].state = "running"
  /\ turns' = [turns EXCEPT ![t].state = "completed"]
  /\ UNCHANGED <<runtimes, active, awaits>>

(* The finally of the completion; nothing is left of the turn but its       *)
(* outcome.                                                                 *)
Settle(t) ==
  /\ turns[t].state = "completed"
  /\ turns' = [turns EXCEPT ![t].state = "settled", ![t].aborted = FALSE,
                           ![t].steps = 0, ![t].helped = FALSE]
  /\ active' = [active EXCEPT ![turns[t].session] = 0]
  /\ UNCHANGED <<runtimes, awaits>>

-----------------------------------------------------------------------------
(* Waiting for a turn, as often as anyone likes until the first wait is     *)
(* over; a turn nobody waits for keeps its completion.                      *)
AwaitTurn(t) ==
  /\ t \in completions /\ waiting[t] < MaxWaits
  /\ waiting' = [waiting EXCEPT ![t] = @ + 1]
  /\ UNCHANGED <<runtimes, active, turns, completions>>

Forget(t) == completions' = completions \ {t}

AwaitReturns(t) ==
  /\ waiting[t] > 0 /\ turns[t].state = "settled"
  /\ waiting' = [waiting EXCEPT ![t] = @ - 1]
  /\ Forget(t)
  /\ UNCHANGED <<runtimes, active, turns>>

TurnRuns(t) ==
  TurnStarts(t) \/ ModelRequest(t) \/ ChildEnds(t) \/ TurnEnds(t)
    \/ Settle(t)

Next ==
  \/ \E p \in Opening : SessionCreate(p)
  \/ \E s \in Sessions :
       \/ \E p \in Overriding \cup {None} : TurnSubmit(s, p)
       \/ \E t \in DOMAIN turns : TurnCancel(s, t)
       \/ SessionClose(s)
  \/ \E t \in DOMAIN turns :
       \/ TurnRuns(t) \/ Authorize(t)
       \/ \E list \in TaskLists : Delegate(t, list)
       \/ AwaitTurn(t) \/ AwaitReturns(t)

(* A turn comes to its end once it has no steps left (TurnMachine), and a   *)
(* promise that is settled wakes who awaits it.                             *)
Ends(t) ==
  /\ t \in DOMAIN turns
  /\ \/ TurnStarts(t) \/ Settle(t)
     \/ TurnEnds(t) \/ ChildEnds(t)
Returns(t) == t \in DOMAIN turns /\ AwaitReturns(t)

Fairness == \A t \in 1..MaxTurns : SF_vars(Ends(t)) /\ WF_vars(Returns(t))

Spec == Init /\ [][Next]_vars /\ Fairness

-----------------------------------------------------------------------------
TurnStates == {"starting", "running", "child", "completed", "settled"}

TypeOK ==
  /\ live \subseteq created /\ created \subseteq Sessions
  /\ \A s \in created : policy[s] \in Policies /\ gateOf[s] \in 1..Len(gates)
  /\ \A g \in DOMAIN gates : gates[g].policy \in Policies
  /\ \A s \in Sessions : active[s] \in 0..Len(turns)
  /\ \A t \in DOMAIN turns :
       turns[t].state \in TurnStates /\ turns[t].gate \in 1..Len(gates)
  /\ completions \subseteq DOMAIN turns

(* One history, one turn: two turns of a session never run at once, not     *)
(* even across a close (engine.ts:302-311).                                 *)
OneTurnAtATime ==
  \A t, u \in DOMAIN turns :
    t # u /\ turns[t].session = turns[u].session =>
      "settled" \in {turns[t].state, turns[u].state}

(* A turn runs under the policy of its session, with a gate of its own      *)
(* policy: what the user allowed "for this session" is never used under a   *)
(* policy put in force later (engine.ts:313-325).                           *)
GateIsThePolicy ==
  /\ \A t \in DOMAIN turns : turns[t].state # "settled" =>
       gates[turns[t].gate].policy = policy[turns[t].session]
  /\ \A g \in DOMAIN gates :
       gates[g].remembers => gates[g].policy.approvals = "on-request"

(* What a request tells the model about mode, approvals and containment is  *)
(* what the gate that judges the answer enforces, whatever was overridden   *)
(* (turn.ts:277).                                                           *)
PrefixIsTheGates ==
  \A t \in DOMAIN turns :
    turns'[t].steps > turns[t].steps =>
      prefix'[turns[t].session] = Baseline(gates[turns[t].gate].policy)

PrefixTellsThePolicy == [][PrefixIsTheGates]_vars

(* A subagent has no tool its parent lacks and never the task tool, and the *)
(* gate that judges it, and the policy its prefix tells of, are its         *)
(* parent's (engine.ts:408-450).                                            *)
SubagentsNeverWiden ==
  \A t \in DOMAIN turns :
    turns[t].child # None =>
      /\ turns[t].child.tools \subseteq Tools \ {"task"}
      /\ turns[t].child.gate = turns[t].gate
      /\ turns[t].child.policy = gates[turns[t].gate].policy

(* Who awaited a turn can submit the next one: the turn is over for the     *)
(* session by then, and the engine has let go of its outcome.               *)
OverOnReturn ==
  \A t \in DOMAIN turns :
    waiting'[t] < waiting[t] =>
      t \notin completions' /\ \A s \in Sessions : active[s] # t

AwaitedMeansOver == [][OverOnReturn]_vars

(* A signal is aborted by a cancel of that very turn, while it runs, or by  *)
(* the close of its session: the one step never touches two turns, nor one  *)
(* that is over.                                                            *)
AbortsTheNamed ==
  \A t \in DOMAIN turns :
    ~turns[t].aborted /\ turns'[t].aborted =>
      /\ turns[t].state # "settled" /\ active[turns[t].session] = t
      /\ live' # live \/ TurnCancel(turns[t].session, t)

CancelIsAimed == [][AbortsTheNamed]_vars

(* Awaiting ends, and closing a session ends what runs in it.               *)
EveryWaitEnds ==
  \A t \in 1..MaxTurns : waiting[t] > 0 ~> waiting[t] = 0
=============================================================================
