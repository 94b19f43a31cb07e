------------------------- MODULE EngineSessions_proofs -------------------------
(***************************************************************************)
(* Proofs about EngineSessions, for any number of sessions, policies, tools *)
(* and turns.                                                              *)
(***************************************************************************)
EXTENDS EngineSessions, TLAPS

-----------------------------------------------------------------------------
(* The inductive invariant.                                                 *)

Gate == [policy: Policies, remembers: BOOLEAN]
Baselines == [policy: Policies, enforced: BOOLEAN]

(* A subagent, or none.                                                     *)
Child == [gate: Nat, policy: Policies, tools: SUBSET Tools]

Turn == [session: Sessions, gate: Nat, state: TurnStates, aborted: BOOLEAN, steps: Nat,
         helped: BOOLEAN, child: Child \cup {None}]

SessionsOK ==
  /\ live \subseteq created /\ created \subseteq Sessions
  /\ policy \in [Sessions -> Policies \cup {None}]
  /\ \A s \in created : policy[s] \in Policies
  /\ prefix \in [Sessions -> Baselines \cup {None}]
GatesOK ==
  /\ gates \in Seq(Gate)
  /\ gateOf \in [Sessions -> Nat] /\ \A s \in created : gateOf[s] \in 1 .. Len(gates)
TurnsOK ==
  /\ turns \in Seq(Turn) /\ DOMAIN turns \subseteq 1 .. MaxTurns
  /\ \A t \in DOMAIN turns : turns[t].session \in created /\ turns[t].gate \in 1 .. Len(gates)
  /\ active \in [Sessions -> 0 .. Len(turns)]
  /\ completions \subseteq DOMAIN turns
  /\ waiting \in [1 .. MaxTurns -> Nat]

(* The active turn of a session is its one turn that is not over.           *)
ActiveIsOpen ==
  /\ \A t \in DOMAIN turns : turns[t].state # "settled" => active[turns[t].session] = t
  /\ \A s \in Sessions : active[s] # 0 => turns[active[s]].session = s /\ turns[active[s]].state # "settled"

(* The gate of a session is of its policy, and the active turn has it.      *)
GatesAgree ==
  /\ \A s \in created : gates[gateOf[s]].policy = policy[s]
  /\ \A t \in DOMAIN turns : turns[t].state # "settled" => turns[t].gate = gateOf[turns[t].session]
  /\ \A g \in DOMAIN gates : gates[g].remembers => gates[g].policy.approvals = "on-request"

(* A subagent works only while its turn waits for it, and by its gate.      *)
ChildIsInside ==
  \A t \in DOMAIN turns :
    /\ turns[t].child # None => turns[t].state = "child"
    /\ turns[t].state = "child" => turns[t].child.gate = turns[t].gate

EInv ==
  /\ SessionsOK /\ GatesOK /\ TurnsOK /\ ActiveIsOpen /\ GatesAgree /\ ChildIsInside
  /\ SubagentsNeverWiden

-----------------------------------------------------------------------------
(* What a step does to one turn.                                            *)

(* A step of turn t leaves every other turn alone, and of t the session and *)
(* the gate.                                                                *)
Touches(t) ==
  /\ turns' \in Seq(Turn) /\ Len(turns') = Len(turns) /\ DOMAIN turns' = DOMAIN turns
  /\ \A u \in DOMAIN turns \ {t} : turns'[u] = turns[u]
  /\ turns'[t].session = turns[t].session /\ turns'[t].gate = turns[t].gate

LEMMA TurnsAreRecords ==
  ASSUME TurnsOK, NEW t \in DOMAIN turns
  PROVE  /\ turns[t] \in Turn /\ t \in 1 .. Len(turns) /\ t \in 1 .. MaxTurns
         /\ turns[t].session \in Sessions /\ turns[t].session \in created /\ turns[t].gate \in 1 .. Len(gates)
         /\ turns[t].state \in TurnStates /\ turns[t].steps \in Nat /\ turns[t].aborted \in BOOLEAN
         /\ Len(turns) \in Nat /\ DOMAIN turns = 1 .. Len(turns)
<1>1. turns \in Seq(Turn) /\ DOMAIN turns = 1 .. Len(turns) /\ Len(turns) \in Nat
  BY DEF TurnsOK
<1>2. turns[t] \in Turn
  BY <1>1
<1> QED BY <1>1, <1>2 DEF TurnsOK, Turn

LEMMA Replaced ==
  ASSUME TurnsOK, NEW t \in DOMAIN turns, NEW new \in Turn, turns' = [turns EXCEPT ![t] = new],
         new.session = turns[t].session, new.gate = turns[t].gate
  PROVE  Touches(t) /\ turns'[t] = new
<1>1. turns \in Seq(Turn)
  BY DEF TurnsOK
<1>2. turns' \in Seq(Turn) /\ Len(turns') = Len(turns) /\ DOMAIN turns' = DOMAIN turns
  BY <1>1
<1>3. turns'[t] = new /\ \A u \in DOMAIN turns \ {t} : turns'[u] = turns[u]
  BY <1>1
<1> QED BY <1>2, <1>3 DEF Touches

LEMMA AbortTouches ==
  ASSUME TurnsOK, NEW t \in DOMAIN turns, turns' = [turns EXCEPT ![t].aborted = TRUE]
  PROVE  Touches(t) /\ turns'[t] = [turns[t] EXCEPT !.aborted = TRUE]
<1>1. [turns[t] EXCEPT !.aborted = TRUE] \in Turn
  BY TurnsAreRecords DEF Turn
<1> QED BY <1>1, Replaced, TurnsAreRecords DEF Turn

LEMMA StateTouches ==
  ASSUME TurnsOK, NEW t \in DOMAIN turns, NEW state \in TurnStates, turns' = [turns EXCEPT ![t].state = state]
  PROVE  Touches(t) /\ turns'[t] = [turns[t] EXCEPT !.state = state]
<1>1. [turns[t] EXCEPT !.state = state] \in Turn
  BY TurnsAreRecords DEF Turn
<1> QED BY <1>1, Replaced, TurnsAreRecords DEF Turn

LEMMA StepTouches ==
  ASSUME TurnsOK, NEW t \in DOMAIN turns, turns' = [turns EXCEPT ![t].steps = @ + 1]
  PROVE  Touches(t) /\ turns'[t] = [turns[t] EXCEPT !.steps = @ + 1]
<1>1. turns[t] \in Turn /\ turns[t].steps + 1 \in Nat
  BY TurnsAreRecords
<1>2. [turns[t] EXCEPT !.steps = turns[t].steps + 1] \in Turn
  BY <1>1 DEF Turn
<1>3. turns' = [turns EXCEPT ![t] = [turns[t] EXCEPT !.steps = turns[t].steps + 1]]
  OBVIOUS
<1> QED BY <1>2, <1>3, <1>1, Replaced DEF Turn

LEMMA SettleTouches ==
  ASSUME TurnsOK, NEW t \in DOMAIN turns, Settle(t)
  PROVE  /\ Touches(t) /\ turns'[t].state = "settled" /\ turns'[t].child = turns[t].child
         /\ turns'[t].steps = 0 /\ ~turns'[t].aborted
<1> DEFINE new == [turns[t] EXCEPT !.state = "settled", !.aborted = FALSE, !.steps = 0, !.helped = FALSE]
<1>1. turns[t] \in Turn /\ new \in Turn /\ turns' = [turns EXCEPT ![t] = new]
  BY TurnsAreRecords DEF Turn, TurnStates, Settle
<1>2. new.session = turns[t].session /\ new.gate = turns[t].gate /\ new.state = "settled"
      /\ new.child = turns[t].child /\ new.steps = 0 /\ ~new.aborted
  BY <1>1 DEF Turn
<1> QED BY <1>1, <1>2, Replaced

LEMMA ChildEndsTouches ==
  ASSUME TurnsOK, NEW t \in DOMAIN turns, ChildEnds(t)
  PROVE  /\ Touches(t) /\ turns'[t].state = "running" /\ turns'[t].child = None
         /\ turns'[t].steps = turns[t].steps /\ turns'[t].aborted = turns[t].aborted
<1> DEFINE new == [turns[t] EXCEPT !.state = "running", !.child = None]
<1>1. turns[t] \in Turn /\ new \in Turn /\ turns' = [turns EXCEPT ![t] = new]
  BY TurnsAreRecords DEF Turn, TurnStates, ChildEnds
<1>2. new.session = turns[t].session /\ new.gate = turns[t].gate /\ new.state = "running"
      /\ new.child = None /\ new.steps = turns[t].steps /\ new.aborted = turns[t].aborted
  BY <1>1 DEF Turn
<1> QED BY <1>1, <1>2, Replaced

(* What a subagent is given: tools of its parent, and not the one that      *)
(* makes subagents.                                                         *)
LEMMA NarrowedIsNarrower ==
  ASSUME NEW list, Narrowed(list) # None
  PROVE  Narrowed(list) \subseteq Tools \ {"task"}
BY DEF Narrowed, requested

LEMMA DelegateTouches ==
  ASSUME SessionsOK, GatesOK, TurnsOK, NEW t \in DOMAIN turns, NEW list, Delegate(t, list)
  PROVE  /\ Touches(t) /\ turns'[t].state = "child" /\ turns[t].state = "running"
         /\ turns'[t].steps = turns[t].steps /\ turns'[t].aborted = turns[t].aborted
         /\ turns'[t].child.tools \subseteq Tools \ {"task"}
         /\ turns'[t].child.gate = gateOf[turns[t].session]
         /\ turns'[t].child.policy = policy[turns[t].session]
<1> DEFINE s == turns[t].session
           child == [gate |-> gateOf[s], policy |-> policy[s], tools |-> Narrowed(list)]
           new == [turns[t] EXCEPT !.state = "child", !.helped = TRUE, !.child = child]
<1>1. Narrowed(list) \subseteq Tools \ {"task"}
  BY NarrowedIsNarrower DEF Delegate
<1>2. s \in created /\ s \in Sessions
  BY TurnsAreRecords
<1>3. child \in Child
  BY <1>1, <1>2 DEF Child, SessionsOK, GatesOK
<1>4. turns[t] \in Turn /\ new \in Turn /\ turns' = [turns EXCEPT ![t] = new]
  BY <1>3, TurnsAreRecords DEF Turn, TurnStates, Delegate
<1>5. new.session = turns[t].session /\ new.gate = turns[t].gate /\ new.state = "child"
      /\ new.child = child /\ new.steps = turns[t].steps /\ new.aborted = turns[t].aborted
  BY <1>4 DEF Turn
<1>6. turns[t].state = "running"
  BY DEF Delegate
<1>7. child.tools = Narrowed(list) /\ child.gate = gateOf[s] /\ child.policy = policy[s]
  OBVIOUS
<1>8. Touches(t) /\ turns'[t] = new
  BY <1>4, <1>5, Replaced
<1> HIDE DEF new, child
<1> QED BY <1>1, <1>5, <1>6, <1>7, <1>8

-----------------------------------------------------------------------------
(* Every step keeps the invariant.                                          *)

(* A subagent of turn t, if there is one, is as its parent allows.          *)
ChildFits(t) ==
  /\ turns[t].state = "child" => turns[t].child.gate = turns[t].gate
  /\ turns[t].child # None =>
       /\ turns[t].state = "child" /\ turns[t].child.tools \subseteq Tools \ {"task"}
       /\ turns[t].child.gate = turns[t].gate
       /\ turns[t].child.policy = gates[turns[t].gate].policy

LEMMA ChildrenFit == ChildIsInside /\ SubagentsNeverWiden <=> \A t \in DOMAIN turns : ChildFits(t)
BY DEF ChildIsInside, SubagentsNeverWiden, ChildFits

(* A step of an open turn that leaves it open.                              *)
LEMMA OpenStep ==
  ASSUME EInv, NEW t \in DOMAIN turns, Touches(t), turns[t].state # "settled", turns'[t].state # "settled",
         UNCHANGED <<created, policy, gates, gateOf, active, completions, waiting>>,
         live' \subseteq live, prefix' \in [Sessions -> Baselines \cup {None}], ChildFits(t)'
  PROVE  EInv'
<1> USE DEF EInv
<1>1. SessionsOK' /\ GatesOK'
  BY DEF SessionsOK, GatesOK
<1>2. \A u \in DOMAIN turns : turns'[u].session = turns[u].session /\ turns'[u].gate = turns[u].gate
                             /\ (turns'[u].state = "settled" <=> turns[u].state = "settled")
  BY DEF Touches
<1>3. TurnsOK'
  BY <1>2 DEF TurnsOK, Touches
<1>4. \A s \in Sessions : active[s] # 0 => active[s] \in DOMAIN turns
  BY DEF TurnsOK
<1>5. ActiveIsOpen' /\ GatesAgree'
  BY <1>2, <1>4 DEF ActiveIsOpen, GatesAgree, Touches
<1>6. ASSUME NEW u \in DOMAIN turns'
      PROVE  ChildFits(u)'
  <2>1. u \in DOMAIN turns /\ (u # t => turns'[u] = turns[u])
    BY DEF Touches
  <2>2. ChildFits(u)
    BY <2>1, ChildrenFit
  <2> QED BY <2>1, <2>2 DEF ChildFits
<1>7. ChildIsInside' /\ SubagentsNeverWiden'
  BY <1>6 DEF ChildFits, ChildIsInside, SubagentsNeverWiden
<1> QED BY <1>1, <1>3, <1>5, <1>7

(* What a prefix tells is of a policy and of what enforces it.              *)
LEMMA Reconciled ==
  ASSUME EInv, NEW t \in DOMAIN turns, turns[t].state # "settled",
         reconcile(turns[t].session, turns[t].gate)
  PROVE  /\ prefix' \in [Sessions -> Baselines \cup {None}]
         /\ prefix'[turns[t].session] = Baseline(gates[turns[t].gate].policy)
<1> USE DEF EInv
<1> DEFINE s == turns[t].session  g == turns[t].gate
<1>1. s \in created /\ s \in Sessions /\ g \in 1 .. Len(gates) /\ g = gateOf[s] /\ policy[s] \in Policies
  BY TurnsAreRecords DEF GatesAgree, SessionsOK
<1>2. gates[g].policy = policy[s]
  BY <1>1 DEF GatesAgree
<1>3. prefix' = [prefix EXCEPT ![s] = Baseline(policy[s])]
  BY <1>2 DEF reconcile, Baseline
<1>4. Baseline(policy[s]) \in Baselines
  BY <1>1 DEF Baseline, Baselines
<1> QED BY <1>1, <1>2, <1>3, <1>4 DEF SessionsOK

LEMMA TurnStartsKeeps ==
  ASSUME EInv, NEW t \in DOMAIN turns, TurnStarts(t) PROVE EInv' /\ turns'[t].steps = turns[t].steps
<1>1. ChildFits(t) /\ turns[t].state = "starting" /\ turns[t].child = None
  BY ChildrenFit DEF EInv, TurnStarts, ChildFits
<1>2. PICK state \in {"running", "completed"} : turns' = [turns EXCEPT ![t].state = state]
  BY DEF TurnStarts
<1>3. state \in TurnStates /\ state # "settled" /\ state # "child"
  BY DEF TurnStates
<1>4. Touches(t) /\ turns'[t] = [turns[t] EXCEPT !.state = state]
  BY <1>2, <1>3, StateTouches DEF EInv
<1>5. turns'[t].state = state /\ turns'[t].child = None /\ turns'[t].steps = turns[t].steps
  BY <1>1, <1>4, TurnsAreRecords DEF EInv, Turn
<1>6. prefix' \in [Sessions -> Baselines \cup {None}]
  BY <1>1, Reconciled DEF TurnStarts, EInv, SessionsOK
<1>7. UNCHANGED <<created, live, policy, gates, gateOf, active, completions, waiting>>
  BY DEF TurnStarts, awaits
<1>8. ChildFits(t)'
  BY <1>3, <1>5 DEF ChildFits
<1> QED BY <1>1, <1>3, <1>4, <1>5, <1>6, <1>7, <1>8, OpenStep

LEMMA ModelRequestKeeps ==
  ASSUME EInv, NEW t \in DOMAIN turns, ModelRequest(t)
  PROVE  EInv' /\ prefix'[turns[t].session] = Baseline(gates[turns[t].gate].policy)
<1>1. ChildFits(t) /\ turns[t].state = "running" /\ turns[t].child = None
  BY ChildrenFit DEF EInv, ModelRequest, ChildFits
<1>2. Touches(t) /\ turns'[t] = [turns[t] EXCEPT !.steps = @ + 1]
  BY StepTouches DEF EInv, ModelRequest
<1>3. turns'[t].state = "running" /\ turns'[t].child = None
  BY <1>1, <1>2, TurnsAreRecords DEF EInv, Turn
<1>4. /\ prefix' \in [Sessions -> Baselines \cup {None}]
      /\ prefix'[turns[t].session] = Baseline(gates[turns[t].gate].policy)
  BY <1>1, Reconciled DEF ModelRequest
<1>5. UNCHANGED <<created, live, policy, gates, gateOf, active, completions, waiting>>
  BY DEF ModelRequest, awaits
<1>6. ChildFits(t)'
  BY <1>3 DEF ChildFits
<1> QED BY <1>1, <1>2, <1>3, <1>4, <1>5, <1>6, OpenStep

LEMMA TurnEndsKeeps ==
  ASSUME EInv, NEW t \in DOMAIN turns, TurnEnds(t) PROVE EInv' /\ turns'[t].steps = turns[t].steps
<1>1. ChildFits(t) /\ turns[t].state = "running" /\ turns[t].child = None
  BY ChildrenFit DEF EInv, TurnEnds, ChildFits
<1>2. Touches(t) /\ turns'[t] = [turns[t] EXCEPT !.state = "completed"]
  BY StateTouches DEF EInv, TurnEnds, TurnStates
<1>3. turns'[t].state = "completed" /\ turns'[t].child = None /\ turns'[t].steps = turns[t].steps
  BY <1>1, <1>2, TurnsAreRecords DEF EInv, Turn
<1>4. prefix' \in [Sessions -> Baselines \cup {None}]
  BY DEF TurnEnds, runtimes, EInv, SessionsOK
<1>5. UNCHANGED <<created, live, policy, gates, gateOf, active, completions, waiting>>
  BY DEF TurnEnds, awaits, runtimes
<1>6. ChildFits(t)'
  BY <1>3 DEF ChildFits
<1> QED BY <1>1, <1>2, <1>3, <1>4, <1>5, <1>6, OpenStep

LEMMA ChildEndsKeeps ==
  ASSUME EInv, NEW t \in DOMAIN turns, ChildEnds(t) PROVE EInv' /\ turns'[t].steps = turns[t].steps
<1>1. turns[t].state = "child"
  BY DEF ChildEnds
<1>2. /\ Touches(t) /\ turns'[t].state = "running" /\ turns'[t].child = None
      /\ turns'[t].steps = turns[t].steps
  BY ChildEndsTouches DEF EInv
<1>3. prefix' \in [Sessions -> Baselines \cup {None}]
  BY DEF ChildEnds, runtimes, EInv, SessionsOK
<1>4. UNCHANGED <<created, live, policy, gates, gateOf, active, completions, waiting>>
  BY DEF ChildEnds, awaits, runtimes
<1>5. ChildFits(t)'
  BY <1>2 DEF ChildFits
<1> QED BY <1>1, <1>2, <1>3, <1>4, <1>5, OpenStep

LEMMA DelegateKeeps ==
  ASSUME EInv, NEW t \in DOMAIN turns, NEW list, Delegate(t, list) PROVE EInv' /\ turns'[t].steps = turns[t].steps
<1>1. /\ Touches(t) /\ turns'[t].state = "child" /\ turns[t].state = "running"
      /\ turns'[t].steps = turns[t].steps
      /\ turns'[t].child.tools \subseteq Tools \ {"task"}
      /\ turns'[t].child.gate = gateOf[turns[t].session]
      /\ turns'[t].child.policy = policy[turns[t].session]
  BY DelegateTouches DEF EInv
<1>2. turns[t].gate = gateOf[turns[t].session] /\ gates[turns[t].gate].policy = policy[turns[t].session]
  BY <1>1, TurnsAreRecords DEF EInv, GatesAgree
<1>3. prefix' \in [Sessions -> Baselines \cup {None}]
  BY DEF Delegate, runtimes, EInv, SessionsOK
<1>4. UNCHANGED <<created, live, policy, gates, gateOf, active, completions, waiting>>
  BY DEF Delegate, awaits, runtimes
<1>5. ChildFits(t)'
  BY <1>1, <1>2, <1>4 DEF ChildFits, Touches
<1> QED BY <1>1, <1>3, <1>4, <1>5, OpenStep

(* A signal that is aborted is that of an open turn.                        *)
LEMMA AbortKeeps ==
  ASSUME EInv, NEW t \in DOMAIN turns, turns[t].state # "settled", turns' = [turns EXCEPT ![t].aborted = TRUE],
         UNCHANGED <<created, policy, gates, gateOf, prefix, active, completions, waiting>>, live' \subseteq live
  PROVE  EInv' /\ Touches(t) /\ turns'[t].steps = turns[t].steps
<1>1. Touches(t) /\ turns'[t] = [turns[t] EXCEPT !.aborted = TRUE]
  BY AbortTouches DEF EInv
<1>2. turns'[t].state = turns[t].state /\ turns'[t].child = turns[t].child /\ turns'[t].steps = turns[t].steps
  BY <1>1, TurnsAreRecords DEF EInv, Turn
<1>3. prefix' \in [Sessions -> Baselines \cup {None}]
  BY DEF EInv, SessionsOK
<1>4. ChildFits(t)
  BY ChildrenFit DEF EInv
<1>5. ChildFits(t)'
  BY <1>1, <1>2, <1>4 DEF ChildFits, Touches
<1> QED BY <1>1, <1>2, <1>3, <1>5, OpenStep

LEMMA TurnCancelKeeps ==
  ASSUME EInv, NEW s \in Sessions, NEW t \in DOMAIN turns, TurnCancel(s, t)
  PROVE  EInv' /\ Touches(t) /\ turns'[t].steps = turns[t].steps
         /\ active[s] = t /\ turns[t].session = s /\ turns[t].state # "settled"
<1>1. active[s] = t /\ turns[t].session = s /\ turns[t].state # "settled"
  BY DEF TurnCancel, Names, EInv, ActiveIsOpen
<1>2. turns' = [turns EXCEPT ![t].aborted = TRUE]
  BY <1>1 DEF TurnCancel
<1>3. UNCHANGED <<created, policy, gates, gateOf, prefix, active, completions, waiting>> /\ live' \subseteq live
  BY DEF TurnCancel, runtimes, awaits
<1> QED BY <1>1, <1>2, <1>3, AbortKeeps

LEMMA SessionCloseKeeps ==
  ASSUME EInv, NEW s \in Sessions, SessionClose(s)
  PROVE  /\ EInv'
         /\ \/ turns' = turns
            \/ \E t \in DOMAIN turns : /\ Touches(t) /\ turns'[t].steps = turns[t].steps
                                      /\ active[turns[t].session] = t /\ turns[t].state # "settled"
<1> DEFINE t == active[s]
<1>1. UNCHANGED <<created, policy, gates, gateOf, prefix, active, completions, waiting>> /\ live' \subseteq live
  BY DEF SessionClose, awaits
<1>2. CASE t = 0
  <2>1. turns' = turns
    BY <1>2 DEF SessionClose, AbortActive
  <2>2. SessionsOK' /\ GatesOK' /\ TurnsOK'
    BY <1>1, <2>1 DEF EInv, SessionsOK, GatesOK, TurnsOK
  <2>3. ActiveIsOpen' /\ GatesAgree' /\ ChildIsInside' /\ SubagentsNeverWiden'
    BY <1>1, <2>1 DEF EInv, ActiveIsOpen, GatesAgree, ChildIsInside, SubagentsNeverWiden
  <2> QED BY <2>1, <2>2, <2>3 DEF EInv
<1>3. CASE t # 0
  <2>1. t \in DOMAIN turns /\ turns[t].session = s /\ turns[t].state # "settled"
    BY <1>3 DEF EInv, ActiveIsOpen, TurnsOK
  <2>2. turns' = [turns EXCEPT ![t].aborted = TRUE]
    BY <1>3 DEF SessionClose, AbortActive
  <2>3. EInv' /\ Touches(t) /\ turns'[t].steps = turns[t].steps
    BY <1>1, <2>1, <2>2, AbortKeeps
  <2> QED BY <2>1, <2>3
<1> QED BY <1>2, <1>3

(* A gate that is added at the end leaves the others where they are.        *)
LEMMA GateAdded ==
  ASSUME GatesOK, NEW p \in Policies, gates' = Append(gates, Built(p))
  PROVE  /\ gates' \in Seq(Gate) /\ Len(gates') = Len(gates) + 1 /\ Len(gates) \in Nat
         /\ \A g \in 1 .. Len(gates) : gates'[g] = gates[g]
         /\ gates'[Len(gates')].policy = p /\ ~gates'[Len(gates')].remembers
         /\ DOMAIN gates = 1 .. Len(gates) /\ DOMAIN gates' = 1 .. Len(gates')
<1>1. Built(p) \in Gate /\ Built(p).policy = p /\ ~Built(p).remembers
  BY DEF Built, Gate
<1>2. gates \in Seq(Gate)
  BY DEF GatesOK
<1> HIDE DEF Built
<1> QED BY <1>1, <1>2

LEMMA SessionCreateKeeps ==
  ASSUME EInv, NEW p \in Opening, SessionCreate(p) PROVE EInv'
<1> USE DEF EInv
<1> DEFINE s == FreshId
<1>1. s \in Sessions /\ s \notin created
  BY DEF SessionCreate, FreshId, SessionsOK
<1>2. p \in Policies /\ Baseline(p) \in Baselines
  BY DEF Policies, Baseline, Baselines
<1>3. /\ created' = created \cup {s} /\ live' = live \cup {s} /\ policy' = [policy EXCEPT ![s] = p]
      /\ gates' = Append(gates, Built(p)) /\ gateOf' = [gateOf EXCEPT ![s] = Len(gates')]
      /\ prefix' = [prefix EXCEPT ![s] = Baseline(p)]
      /\ active' = active /\ turns' = turns /\ completions' = completions /\ waiting' = waiting
  BY DEF SessionCreate, awaits
<1> HIDE DEF s
<1>4. SessionsOK'
  BY <1>1, <1>2, <1>3 DEF SessionsOK
<1>5. /\ gates' \in Seq(Gate) /\ Len(gates') = Len(gates) + 1 /\ Len(gates) \in Nat
      /\ \A g \in 1 .. Len(gates) : gates'[g] = gates[g]
      /\ gates'[Len(gates')].policy = p /\ ~gates'[Len(gates')].remembers
      /\ DOMAIN gates = 1 .. Len(gates) /\ DOMAIN gates' = 1 .. Len(gates')
  BY <1>2, <1>3, GateAdded
<1>6. GatesOK'
  BY <1>1, <1>3, <1>5 DEF GatesOK
<1>7. TurnsOK'
  BY <1>3, <1>5 DEF TurnsOK
<1>8. ActiveIsOpen' /\ ChildIsInside'
  BY <1>3 DEF ActiveIsOpen, ChildIsInside
<1>9. \A t \in DOMAIN turns : turns[t].session # s /\ turns[t].session \in Sessions /\ turns[t].gate \in 1 .. Len(gates)
  BY <1>1, TurnsAreRecords
<1>10. GatesAgree'
  <2>1. \A r \in created' : gates'[gateOf'[r]].policy = policy'[r]
    BY <1>1, <1>3, <1>5 DEF GatesAgree, GatesOK, SessionsOK
  <2>2. \A t \in DOMAIN turns : turns[t].state # "settled" => turns[t].gate = gateOf'[turns[t].session]
    BY <1>1, <1>3, <1>9 DEF GatesAgree, GatesOK
  <2>3. \A g \in DOMAIN gates' : gates'[g].remembers => gates'[g].policy.approvals = "on-request"
    BY <1>5 DEF GatesAgree
  <2> QED BY <1>3, <2>1, <2>2, <2>3 DEF GatesAgree
<1>11. SubagentsNeverWiden'
  BY <1>3, <1>5, <1>9 DEF SubagentsNeverWiden
<1> QED BY <1>4, <1>6, <1>7, <1>8, <1>10, <1>11

LEMMA TurnSubmitKeeps ==
  ASSUME EngineAssumption, EInv, NEW s \in Sessions, NEW p \in Overriding \cup {None}, TurnSubmit(s, p)
  PROVE  EInv' /\ \A t \in DOMAIN turns : turns'[t] = turns[t]
<1> USE DEF EInv
<1> DEFINE n == Len(turns) + 1
           new == [session |-> s, gate |-> gateOf'[s], state |-> "starting",
                   aborted |-> FALSE, steps |-> 0, helped |-> FALSE, child |-> None]
<1>1. s \in created /\ active[s] = 0 /\ Len(turns) < MaxTurns /\ Len(turns) \in Nat /\ MaxTurns \in Nat
  BY DEF TurnSubmit, CanSubmit, SessionsOK, TurnsOK, EngineAssumption
<1>2. /\ turns' = Append(turns, new) /\ active' = [active EXCEPT ![s] = n] /\ completions' = completions \cup {n}
      /\ created' = created /\ live' = live /\ prefix' = prefix /\ waiting' = waiting
      /\ policy' = IF p = None THEN policy ELSE [policy EXCEPT ![s] = p]
  BY DEF TurnSubmit
<1>3. \A t \in DOMAIN turns : turns[t].session = s => turns[t].state = "settled"
  BY <1>1, TurnsAreRecords DEF ActiveIsOpen
<1>4. SessionsOK'
  BY <1>1, <1>2 DEF SessionsOK, Policies
<1>5. /\ GatesOK' /\ gateOf'[s] \in 1 .. Len(gates') /\ gates'[gateOf'[s]].policy = policy'[s]
      /\ \A r \in Sessions \ {s} : gateOf'[r] = gateOf[r]
      /\ Len(gates) \in Nat /\ Len(gates') \in Nat /\ Len(gates) <= Len(gates')
      /\ \A g \in 1 .. Len(gates) : gates'[g] = gates[g]
      /\ \A g \in DOMAIN gates' : gates'[g].remembers => gates'[g].policy.approvals = "on-request"
  <2>1. CASE p = None
    <3>1. gates' = gates /\ gateOf' = gateOf /\ policy' = policy
      BY <2>1, <1>2 DEF TurnSubmit, Overrides
    <3> QED BY <1>1, <1>2, <3>1 DEF GatesOK, GatesAgree
  <2>2. CASE p # None
    <3>1. policy'[s] = p /\ p \in Policies
      BY <2>2, <1>2 DEF SessionsOK, Policies
    <3>2. gates' = Append(gates, Built(p)) /\ gateOf' = [gateOf EXCEPT ![s] = Len(gates')]
      BY <2>2, <3>1 DEF TurnSubmit, Overrides
    <3>3. /\ gates' \in Seq(Gate) /\ Len(gates') = Len(gates) + 1 /\ Len(gates) \in Nat
          /\ \A g \in 1 .. Len(gates) : gates'[g] = gates[g]
          /\ gates'[Len(gates')].policy = p /\ ~gates'[Len(gates')].remembers
          /\ DOMAIN gates = 1 .. Len(gates) /\ DOMAIN gates' = 1 .. Len(gates')
      BY <3>1, <3>2, GateAdded
    <3>4. GatesOK'
      BY <1>1, <1>2, <3>2, <3>3 DEF GatesOK
    <3>5. \A g \in DOMAIN gates' : gates'[g].remembers => gates'[g].policy.approvals = "on-request"
      BY <3>3 DEF GatesAgree
    <3>6. gateOf'[s] = Len(gates') /\ \A r \in Sessions \ {s} : gateOf'[r] = gateOf[r]
      BY <3>2 DEF GatesOK
    <3> QED BY <3>1, <3>3, <3>4, <3>5, <3>6
  <2> QED BY <2>1, <2>2
<1>6. new \in Turn /\ new.session = s /\ new.gate = gateOf'[s] /\ new.state = "starting" /\ new.child = None
  BY <1>5 DEF Turn, TurnStates
<1> HIDE DEF new
<1>7. /\ turns' \in Seq(Turn) /\ Len(turns') = n /\ turns'[n] = new
      /\ DOMAIN turns' = 1 .. n /\ DOMAIN turns = 1 .. Len(turns)
      /\ \A t \in DOMAIN turns : turns'[t] = turns[t]
  <2>1. turns \in Seq(Turn)
    BY DEF TurnsOK
  <2> QED BY <1>2, <1>6, <2>1
<1>8. TurnsOK'
  <2>1. DOMAIN turns' \subseteq 1 .. MaxTurns
    BY <1>1, <1>7
  <2>2. \A t \in DOMAIN turns' : turns'[t].session \in created' /\ turns'[t].gate \in 1 .. Len(gates')
    BY <1>1, <1>2, <1>5, <1>6, <1>7, TurnsAreRecords
  <2>3. active' \in [Sessions -> 0 .. Len(turns')]
    BY <1>1, <1>2, <1>7 DEF TurnsOK
  <2>4. completions' \subseteq DOMAIN turns'
    BY <1>1, <1>2, <1>7 DEF TurnsOK
  <2> QED BY <1>2, <1>7, <2>1, <2>2, <2>3, <2>4 DEF TurnsOK
<1>9. ActiveIsOpen'
  <2>1. \A t \in DOMAIN turns' : turns'[t].state # "settled" => active'[turns'[t].session] = t
    <3>1. \A t \in DOMAIN turns : turns'[t].state # "settled" => active'[turns'[t].session] = t
      BY <1>2, <1>3, <1>7, TurnsAreRecords DEF ActiveIsOpen, TurnsOK
    <3>2. active'[turns'[n].session] = n
      BY <1>2, <1>6, <1>7 DEF TurnsOK
    <3> QED BY <1>1, <1>7, <3>1, <3>2
  <2>2. ASSUME NEW r \in Sessions, active'[r] # 0
        PROVE  turns'[active'[r]].session = r /\ turns'[active'[r]].state # "settled"
    <3>1. CASE r = s
      BY <3>1, <1>2, <1>6, <1>7 DEF TurnsOK
    <3>2. CASE r # s
      <4>1. active'[r] = active[r] /\ active[r] \in DOMAIN turns
        BY <3>2, <2>2, <1>1, <1>2, <1>7 DEF TurnsOK
      <4> QED BY <4>1, <2>2, <1>7 DEF ActiveIsOpen
    <3> QED BY <3>1, <3>2
  <2> QED BY <2>1, <2>2 DEF ActiveIsOpen
<1>10. GatesAgree'
  <2>1. \A r \in created' : gates'[gateOf'[r]].policy = policy'[r]
    <3>1. \A r \in created \ {s} : policy'[r] = policy[r] /\ gateOf'[r] = gateOf[r] /\ gateOf[r] \in 1 .. Len(gates)
      BY <1>2, <1>5 DEF SessionsOK, GatesOK
    <3> QED BY <1>2, <1>5, <3>1 DEF GatesAgree
  <2>2. \A t \in DOMAIN turns' : turns'[t].state # "settled" => turns'[t].gate = gateOf'[turns'[t].session]
    <3>1. \A t \in DOMAIN turns : turns'[t].state # "settled" => turns'[t].gate = gateOf'[turns'[t].session]
      BY <1>3, <1>5, <1>7, TurnsAreRecords DEF GatesAgree
    <3>2. turns'[n].gate = gateOf'[turns'[n].session]
      BY <1>6, <1>7
    <3> QED BY <1>1, <1>7, <3>1, <3>2
  <2> QED BY <1>5, <2>1, <2>2 DEF GatesAgree
<1>11. \A t \in DOMAIN turns' : ChildFits(t)'
  <2>1. \A t \in DOMAIN turns : ChildFits(t) /\ turns[t].gate \in 1 .. Len(gates)
    BY ChildrenFit, TurnsAreRecords
  <2>2. \A t \in DOMAIN turns : ChildFits(t)'
    BY <2>1, <1>5, <1>7 DEF ChildFits
  <2>3. \A t \in DOMAIN turns' : t \notin DOMAIN turns => ChildFits(t)'
    <3> SUFFICES ASSUME NEW t \in DOMAIN turns', t \notin DOMAIN turns PROVE ChildFits(t)'
      OBVIOUS
    <3>1. turns'[t].child = None /\ turns'[t].state = "starting"
      BY <1>1, <1>6, <1>7
    <3> QED BY <3>1 DEF ChildFits
  <2> QED BY <2>2, <2>3
<1>12. ChildIsInside' /\ SubagentsNeverWiden'
  BY <1>11 DEF ChildFits, ChildIsInside, SubagentsNeverWiden
<1> QED BY <1>4, <1>5, <1>7, <1>8, <1>9, <1>10, <1>12

LEMMA SettleKeeps ==
  ASSUME EInv, NEW t \in DOMAIN turns, Settle(t)
  PROVE  EInv' /\ Touches(t) /\ turns'[t].steps = 0 /\ ~turns'[t].aborted
<1> USE DEF EInv
<1> DEFINE s == turns[t].session
<1>1. /\ Touches(t) /\ turns'[t].state = "settled" /\ turns'[t].child = turns[t].child
      /\ turns'[t].steps = 0 /\ ~turns'[t].aborted
  BY SettleTouches
<1>2. turns[t].state = "completed" /\ turns[t].child = None /\ s \in Sessions /\ active[s] = t
  BY TurnsAreRecords DEF Settle, ChildIsInside, ActiveIsOpen
<1>3. /\ active' = [active EXCEPT ![s] = 0]
      /\ UNCHANGED <<created, live, policy, gates, gateOf, prefix, completions, waiting>>
  BY DEF Settle, runtimes, awaits
<1>4. \A u \in DOMAIN turns : turns'[u].session = turns[u].session /\ turns'[u].gate = turns[u].gate
                             /\ turns[u].session \in Sessions
                             /\ (turns'[u].state # "settled" => turns[u].state # "settled" /\ u # t)
  BY <1>1, TurnsAreRecords DEF Touches
<1>5. SessionsOK' /\ GatesOK'
  BY <1>3 DEF SessionsOK, GatesOK
<1>6. TurnsOK'
  <2>1. active' \in [Sessions -> 0 .. Len(turns')]
    BY <1>1, <1>2, <1>3 DEF TurnsOK, Touches
  <2>2. \A u \in DOMAIN turns' : turns'[u].session \in created' /\ turns'[u].gate \in 1 .. Len(gates')
    BY <1>1, <1>3, <1>4, TurnsAreRecords DEF Touches
  <2> QED BY <1>1, <1>3, <2>1, <2>2 DEF TurnsOK, Touches
<1>7. ActiveIsOpen'
  <2>1. ASSUME NEW u \in DOMAIN turns, turns'[u].state # "settled"
        PROVE  active'[turns'[u].session] = u
    BY <2>1, <1>2, <1>3, <1>4 DEF ActiveIsOpen, TurnsOK
  <2>2. ASSUME NEW r \in Sessions, active'[r] # 0
        PROVE  turns'[active'[r]].session = r /\ turns'[active'[r]].state # "settled"
    <3>1. r # s /\ active'[r] = active[r] /\ active[r] \in DOMAIN turns
      BY <2>2, <1>2, <1>3 DEF TurnsOK
    <3>2. active[r] # t
      BY <3>1, <2>2 DEF ActiveIsOpen
    <3> QED BY <3>1, <3>2, <2>2, <1>1 DEF ActiveIsOpen, Touches
  <2> QED BY <2>1, <2>2, <1>1 DEF ActiveIsOpen, Touches
<1>8. GatesAgree'
  BY <1>1, <1>3, <1>4 DEF GatesAgree, Touches
<1>9. ChildIsInside' /\ SubagentsNeverWiden'
  BY <1>1, <1>2, <1>3, <1>4 DEF ChildIsInside, SubagentsNeverWiden, Touches
<1> QED BY <1>1, <1>5, <1>6, <1>7, <1>8, <1>9

LEMMA AuthorizeKeeps ==
  ASSUME EInv, NEW t \in DOMAIN turns, Authorize(t) PROVE EInv'
<1> USE DEF EInv
<1>1. UNCHANGED <<created, live, policy, gateOf, prefix, active, turns, completions, waiting>>
  BY DEF Authorize, awaits
<1>2. PICK g \in DOMAIN gates : gates[g].policy.approvals = "on-request" /\ gates' = [gates EXCEPT ![g].remembers = TRUE]
  <2> DEFINE g == IF turns[t].state = "child" THEN turns[t].child.gate ELSE turns[t].gate
  <2>1. g = turns[t].gate
    BY DEF ChildIsInside
  <2>2. g \in DOMAIN gates
    BY <2>1, TurnsAreRecords DEF GatesOK
  <2>3. gates[g].policy.approvals = "on-request" /\ gates' = [gates EXCEPT ![g].remembers = TRUE]
    BY DEF Authorize
  <2> HIDE DEF g
  <2> QED BY <2>2, <2>3
<1>3. gates \in Seq(Gate) /\ gates[g] \in Gate
  BY DEF GatesOK
<1>4. [gates[g] EXCEPT !.remembers = TRUE] \in Gate /\ [gates[g] EXCEPT !.remembers = TRUE].policy = gates[g].policy
  BY <1>3 DEF Gate
<1>5. /\ gates' \in Seq(Gate) /\ Len(gates') = Len(gates) /\ DOMAIN gates' = DOMAIN gates
      /\ \A h \in DOMAIN gates : gates'[h].policy = gates[h].policy
      /\ \A h \in DOMAIN gates \ {g} : gates'[h] = gates[h]
  BY <1>2, <1>3, <1>4
<1>6. DOMAIN gates = 1 .. Len(gates)
  BY <1>3
<1>7. SessionsOK' /\ GatesOK' /\ TurnsOK'
  BY <1>1, <1>5 DEF SessionsOK, GatesOK, TurnsOK
<1>8. ActiveIsOpen' /\ ChildIsInside'
  BY <1>1 DEF ActiveIsOpen, ChildIsInside
<1>9. GatesAgree'
  BY <1>1, <1>2, <1>5, <1>6 DEF GatesAgree, GatesOK
<1>10. SubagentsNeverWiden'
  BY <1>1, <1>5, <1>6, TurnsAreRecords DEF SubagentsNeverWiden
<1> QED BY <1>7, <1>8, <1>9, <1>10

LEMMA AwaitKeeps ==
  ASSUME EInv, NEW t \in DOMAIN turns, AwaitTurn(t) \/ AwaitReturns(t)
  PROVE  EInv' /\ turns' = turns
<1> USE DEF EInv
<1>1. UNCHANGED <<created, live, policy, gates, gateOf, prefix, active, turns>> /\ completions' \subseteq completions
  BY DEF AwaitTurn, AwaitReturns, Forget, runtimes
<1>2. waiting' \in [1 .. MaxTurns -> Nat]
  BY TurnsAreRecords DEF AwaitTurn, AwaitReturns, TurnsOK
<1>3. SessionsOK' /\ GatesOK' /\ TurnsOK'
  BY <1>1, <1>2 DEF SessionsOK, GatesOK, TurnsOK
<1>4. ActiveIsOpen' /\ GatesAgree' /\ ChildIsInside' /\ SubagentsNeverWiden'
  BY <1>1 DEF ActiveIsOpen, GatesAgree, ChildIsInside, SubagentsNeverWiden
<1> QED BY <1>1, <1>3, <1>4

(* A step of one turn, or of what waits for it.                             *)
Works(t) ==
  \/ TurnRuns(t) \/ Authorize(t)
  \/ \E list \in TaskLists : Delegate(t, list)
  \/ AwaitTurn(t) \/ AwaitReturns(t)

LEMMA WorksKeeps == ASSUME EInv, NEW t \in DOMAIN turns, Works(t) PROVE EInv'
BY TurnStartsKeeps, ModelRequestKeeps, ChildEndsKeeps, TurnEndsKeeps, SettleKeeps, AuthorizeKeeps,
   DelegateKeeps, AwaitKeeps DEF Works, TurnRuns

LEMMA EInvStep == ASSUME EngineAssumption, EInv, [Next]_vars PROVE EInv'
<1>1. CASE UNCHANGED vars
  BY <1>1 DEF vars, runtimes, awaits, EInv, SessionsOK, GatesOK, TurnsOK, ActiveIsOpen, GatesAgree,
     ChildIsInside, SubagentsNeverWiden
<1> QED
  BY <1>1, SessionCreateKeeps, TurnSubmitKeeps, TurnCancelKeeps, SessionCloseKeeps, WorksKeeps DEF Next, Works

LEMMA AlwaysEInv == ASSUME EngineAssumption PROVE Spec => []EInv
<1>1. Init => EInv
  <2> SUFFICES ASSUME Init PROVE EInv
    OBVIOUS
  <2>1. SessionsOK /\ GatesOK /\ TurnsOK
    BY DEF Init, SessionsOK, GatesOK, TurnsOK
  <2>2. ActiveIsOpen /\ GatesAgree /\ ChildIsInside /\ SubagentsNeverWiden
    BY DEF Init, ActiveIsOpen, GatesAgree, ChildIsInside, SubagentsNeverWiden
  <2> QED BY <2>1, <2>2 DEF EInv
<1> QED BY <1>1, EInvStep, PTL DEF Spec

-----------------------------------------------------------------------------
(* The theorems.                                                            *)

(* Two turns of one session never run at once, not even across a close, a   *)
(* turn runs under the policy of its session with a gate of that policy,    *)
(* and a subagent has no tool, gate or policy its parent lacks (engine.ts   *)
(* turnSubmit, subagentRunner).                                             *)
THEOREM SessionsAreKept ==
  ASSUME EngineAssumption
  PROVE  Spec => [](TypeOK /\ OneTurnAtATime /\ GateIsThePolicy /\ SubagentsNeverWiden)
<1>1. ASSUME EInv PROVE TypeOK
  <2> USE DEF EInv
  <2>1. /\ live \subseteq created /\ created \subseteq Sessions
        /\ \A s \in created : policy[s] \in Policies /\ gateOf[s] \in 1 .. Len(gates)
    BY <1>1 DEF SessionsOK, GatesOK
  <2>2. ASSUME NEW g \in DOMAIN gates PROVE gates[g].policy \in Policies
    <3>1. gates \in Seq(Gate) /\ gates[g] \in Gate
      BY <1>1 DEF GatesOK
    <3> QED BY <3>1 DEF Gate
  <2>3. \A s \in Sessions : active[s] \in 0 .. Len(turns)
    BY <1>1 DEF TurnsOK
  <2>4. \A t \in DOMAIN turns : turns[t].state \in TurnStates /\ turns[t].gate \in 1 .. Len(gates)
    BY <1>1, TurnsAreRecords
  <2>5. completions \subseteq DOMAIN turns
    BY <1>1 DEF TurnsOK
  <2> QED BY <2>1, <2>2, <2>3, <2>4, <2>5 DEF TypeOK
<1>2. EInv => OneTurnAtATime
  BY DEF EInv, ActiveIsOpen, OneTurnAtATime
<1>3. EInv => GateIsThePolicy
  BY TurnsAreRecords DEF EInv, GatesAgree, GateIsThePolicy
<1>4. EInv => SubagentsNeverWiden
  BY DEF EInv
<1> QED BY <1>1, <1>2, <1>3, <1>4, AlwaysEInv, PTL

(* Every request tells the model of the mode, the approvals and the         *)
(* containment that the gate of its turn enforces, whatever was overridden  *)
(* before (turn.ts runStep, context.ts reconcile).                          *)
THEOREM PrefixesTell == ASSUME EngineAssumption PROVE Spec => PrefixTellsThePolicy
<1>1. ASSUME EInv, [Next]_vars PROVE PrefixIsTheGates
  <2> SUFFICES ASSUME NEW t \in DOMAIN turns, turns'[t].steps > turns[t].steps
               PROVE  prefix'[turns[t].session] = Baseline(gates[turns[t].gate].policy)
    BY DEF PrefixIsTheGates
  <2>1. ASSUME turns'[t].steps = turns[t].steps \/ turns'[t].steps = 0 PROVE FALSE
    BY <1>1, <2>1, TurnsAreRecords DEF EInv
  <2>2. turns' # turns
    BY <2>1
  <2>3. ASSUME NEW u \in DOMAIN turns, Touches(u), u # t PROVE FALSE
    BY <2>1, <2>3 DEF Touches
  <2>4. ASSUME NEW s \in Sessions, NEW p \in Overriding \cup {None}, TurnSubmit(s, p) PROVE FALSE
    BY <1>1, <2>1, <2>4, TurnSubmitKeeps
  <2>5. ASSUME NEW s \in Sessions, NEW u \in DOMAIN turns, TurnCancel(s, u) PROVE FALSE
    BY <1>1, <2>1, <2>3, <2>5, TurnCancelKeeps
  <2>6. ASSUME NEW s \in Sessions, SessionClose(s) PROVE FALSE
    BY <1>1, <2>1, <2>2, <2>3, <2>6, SessionCloseKeeps
  <2>7. ASSUME NEW u \in DOMAIN turns, Works(u), ~ModelRequest(u) PROVE FALSE
    <3>1. Touches(u) \/ turns' = turns
      BY <1>1, <2>7, SettleTouches, ChildEndsTouches, DelegateTouches, StateTouches, AwaitKeeps
         DEF Works, TurnRuns, TurnStarts, TurnEnds, TurnStates, Authorize, EInv
    <3>2. u = t
      BY <2>2, <2>3, <3>1
    <3> QED BY <1>1, <2>1, <2>2, <2>7, <3>2, TurnStartsKeeps, ChildEndsKeeps, TurnEndsKeeps, SettleKeeps,
               DelegateKeeps, AwaitKeeps DEF Works, TurnRuns, Authorize
  <2>8. ASSUME NEW u \in DOMAIN turns, ModelRequest(u)
        PROVE  prefix'[turns[t].session] = Baseline(gates[turns[t].gate].policy)
    <3>1. Touches(u)
      BY <1>1, <2>8, StepTouches DEF ModelRequest, EInv
    <3>2. u = t
      BY <2>3, <3>1
    <3> QED BY <1>1, <2>8, <3>2, ModelRequestKeeps
  <2>9. ASSUME NEW p \in Opening, SessionCreate(p) PROVE FALSE
    BY <2>2, <2>9 DEF SessionCreate
  <2>10. ~(UNCHANGED vars)
    BY <2>2 DEF vars
  <2> QED BY <1>1, <2>4, <2>5, <2>6, <2>7, <2>8, <2>9, <2>10 DEF Next, Works
<1> QED BY <1>1, AlwaysEInv, PTL DEF Spec, PrefixTellsThePolicy

(* What a turn does by itself aborts no signal.                             *)
LEMMA WorkAbortsNone ==
  ASSUME EInv, NEW u \in DOMAIN turns, Works(u), NEW t \in DOMAIN turns, turns'[t].aborted
  PROVE  turns[t].aborted
<1> USE DEF EInv
<1>1. CASE turns' = turns
  BY <1>1
<1>2. ASSUME NEW state \in TurnStates, turns' = [turns EXCEPT ![u].state = state] PROVE turns[t].aborted
  <2>1. Touches(u) /\ turns'[u] = [turns[u] EXCEPT !.state = state] /\ turns[u] \in Turn
    BY <1>2, StateTouches, TurnsAreRecords
  <2>2. turns'[u].aborted = turns[u].aborted
    BY <2>1 DEF Turn
  <2> QED BY <2>1, <2>2 DEF Touches
<1>3. CASE ModelRequest(u)
  <2>1. Touches(u) /\ turns'[u] = [turns[u] EXCEPT !.steps = @ + 1] /\ turns[u] \in Turn
    BY <1>3, StepTouches, TurnsAreRecords DEF ModelRequest
  <2>2. turns'[u].aborted = turns[u].aborted
    BY <2>1 DEF Turn
  <2> QED BY <2>1, <2>2 DEF Touches
<1>4. CASE Settle(u)
  BY <1>4, SettleTouches DEF Touches
<1>5. CASE ChildEnds(u) \/ \E list \in TaskLists : Delegate(u, list)
  BY <1>5, ChildEndsTouches, DelegateTouches DEF Touches
<1>6. CASE TurnStarts(u) \/ TurnEnds(u)
  BY <1>2, <1>6 DEF TurnStarts, TurnEnds, TurnStates
<1>7. CASE Authorize(u) \/ AwaitTurn(u) \/ AwaitReturns(u)
  BY <1>1, <1>7, AwaitKeeps DEF Authorize
<1> QED BY <1>3, <1>4, <1>5, <1>6, <1>7 DEF Works, TurnRuns

(* A signal is aborted by a cancel of that very turn while it is the active *)
(* one of its session, or by the close of that session, and by nothing else *)
(* (engine.ts turnCancel, sessionClose).                                    *)
THEOREM CancelsAreAimed == ASSUME EngineAssumption PROVE Spec => CancelIsAimed
<1>1. ASSUME EInv, [Next]_vars PROVE AbortsTheNamed
  <2> SUFFICES ASSUME NEW t \in DOMAIN turns, ~turns[t].aborted, turns'[t].aborted
               PROVE  /\ turns[t].state # "settled" /\ active[turns[t].session] = t
                      /\ live' # live \/ TurnCancel(turns[t].session, t)
    BY DEF AbortsTheNamed
  <2>1. turns' # turns
    OBVIOUS
  <2>2. ASSUME NEW u \in DOMAIN turns, Touches(u) PROVE u = t
    BY <2>2 DEF Touches
  <2>3. ASSUME NEW s \in Sessions, NEW u \in DOMAIN turns, TurnCancel(s, u)
        PROVE  /\ turns[t].state # "settled" /\ active[turns[t].session] = t
               /\ TurnCancel(turns[t].session, t)
    BY <1>1, <2>2, <2>3, TurnCancelKeeps
  <2>4. ASSUME NEW s \in Sessions, SessionClose(s)
        PROVE  turns[t].state # "settled" /\ active[turns[t].session] = t /\ live' # live
    BY <1>1, <2>1, <2>2, <2>4, SessionCloseKeeps DEF SessionClose
  <2>5. ~(\E u \in DOMAIN turns : Works(u))
    BY <1>1, WorkAbortsNone
  <2>6. ~(\E s \in Sessions : \E p \in Overriding \cup {None} : TurnSubmit(s, p))
    BY <1>1, TurnSubmitKeeps
  <2>7. ~(\E p \in Opening : SessionCreate(p)) /\ ~(UNCHANGED vars)
    BY <2>1 DEF SessionCreate, vars
  <2> QED BY <1>1, <2>3, <2>4, <2>5, <2>6, <2>7 DEF Next, Works
<1> QED BY <1>1, AlwaysEInv, PTL DEF Spec, CancelIsAimed

(* Whoever awaited a turn finds it over: its session is free, or has        *)
(* another turn, and the engine keeps the promise no longer (engine.ts      *)
(* awaitTurn).                                                              *)
THEOREM AwaitsTellTheEnd == ASSUME EngineAssumption PROVE Spec => AwaitedMeansOver
<1>1. ASSUME EInv, [Next]_vars PROVE OverOnReturn
  <2> SUFFICES ASSUME NEW t \in DOMAIN turns, waiting'[t] < waiting[t]
               PROVE  t \notin completions' /\ \A s \in Sessions : active[s] # t
    BY DEF OverOnReturn
  <2>1. t \in 1 .. MaxTurns /\ waiting \in [1 .. MaxTurns -> Nat] /\ waiting[t] \in Nat
    BY <1>1, TurnsAreRecords DEF EInv, TurnsOK
  <2>2. waiting' # waiting
    <3>1. ~(waiting[t] < waiting[t])
      BY <2>1
    <3> QED BY <3>1
  <2>3. ASSUME NEW u \in DOMAIN turns, AwaitTurn(u) PROVE FALSE
    <3>1. waiting' = [waiting EXCEPT ![u] = @ + 1] /\ u \in 1 .. MaxTurns
      BY <1>1, <2>3, TurnsAreRecords DEF AwaitTurn, EInv
    <3> QED BY <2>1, <3>1
  <2>4. ASSUME NEW u \in DOMAIN turns, AwaitReturns(u)
        PROVE  t \notin completions' /\ \A s \in Sessions : active[s] # t
    <3>1. waiting' = [waiting EXCEPT ![u] = @ - 1] /\ turns[u].state = "settled" /\ completions' = completions \ {u}
      BY <2>4 DEF AwaitReturns, Forget
    <3>2. u = t
      BY <2>1, <3>1
    <3>3. \A s \in Sessions : active[s] # 0 => turns[active[s]].state # "settled"
      BY <1>1 DEF EInv, ActiveIsOpen
    <3>4. t # 0
      BY <2>1
    <3> QED BY <3>1, <3>2, <3>3, <3>4
  <2>5. ASSUME NEW u \in DOMAIN turns, Works(u) PROVE AwaitTurn(u) \/ AwaitReturns(u)
    BY <2>2, <2>5 DEF Works, TurnRuns, TurnStarts, ModelRequest, ChildEnds, TurnEnds, Settle, Authorize,
       Delegate, awaits
  <2>6. ~(UNCHANGED vars) /\ ~(\E p \in Opening : SessionCreate(p))
    BY <2>2 DEF vars, awaits, SessionCreate
  <2>7. ASSUME NEW s \in Sessions
        PROVE  /\ ~(\E p \in Overriding \cup {None} : TurnSubmit(s, p)) /\ ~SessionClose(s)
               /\ ~(\E u \in DOMAIN turns : TurnCancel(s, u))
    BY <2>2 DEF TurnSubmit, SessionClose, TurnCancel, awaits
  <2> QED BY <1>1, <2>3, <2>4, <2>5, <2>6, <2>7 DEF Next, Works
<1> QED BY <1>1, AlwaysEInv, PTL DEF Spec, AwaitedMeansOver

=============================================================================
