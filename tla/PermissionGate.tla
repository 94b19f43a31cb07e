----------------------------- MODULE PermissionGate -----------------------------
(***************************************************************************)
(* The permission gate of one session: every tool call declares its        *)
(* effects, authorize judges them against the policy in force, asks the    *)
(* surface when it must, and mints the one grant through which the tool    *)
(* acts.  A turn may change the policy; the gate is then rebuilt            *)
(* (packages/core/src/permissions.ts, engine.ts).                          *)
(***************************************************************************)
EXTENDS CommandPolicy

CONSTANTS
  Paths, Spelled, Lies, (* Paths; the root each is spelled and lies under. *)
  Roots, Workspace, Outside, (* Directories; Outside is under none of them. *)
  Hosts,
  Effects,   (* The effects tools declare and attempt.                    *)
  Calls,     (* The sets of effects a call may declare.                   *)
  Sandboxes, (* The sandbox configurations a surface may choose.          *)
  Channel,   (* The surface can be asked.                                 *)
  Contained, (* Commands run through a broker of @adze/sandbox.           *)
  None

Sandbox == [mode: Modes, roots: SUBSET Roots, hosts: SUBSET Hosts, rules: Seq(Rule)]
Command == [kind: {"command"}, target: Seq(Words), requested: Seq(Words) \cup {None}]
Access == [kind: {"file-read", "file-write"}, target: Paths]
Network == [kind: {"network"}, target: Hosts]

ASSUME GateAssumption ==
  /\ Workspace \in Roots /\ Outside \notin Roots
  /\ {Spelled, Lies} \subseteq [Paths -> Roots \cup {Outside}]
  /\ Effects \subseteq Command \cup Access \cup Network
  /\ Calls \subseteq SUBSET Effects
  /\ Sandboxes \subseteq Sandbox
  /\ {OsLevel, Channel, Contained} \subseteq BOOLEAN

VARIABLES
  sandbox, approvals, (* The policy in force, kept by the session.        *)
  broker,    (* The approval policy and the rules the broker was built with. *)
  allowed,   (* The gate's sessionAllowed.                                *)
  turn,      (* "idle", or whether the running turn came with an override. *)
  call,      (* The call being authorized or carried out.                 *)
  consents   (* What was allowed for the session since the policy changed. *)

vars == <<sandbox, approvals, broker, allowed, turn, call, consents>>

(* "allow-session" allows the same effect again: same argv, path or host.   *)
Signature(e) == <<e.kind, e.target>>
Signatures(es) == {Signature(e) : e \in es}

(* agreed is what the user allowed for this very call; ran and refused are  *)
(* what the tool did with its grant and what the broker would not run.      *)
CallRecord ==
  [status: {"none", "asking", "granted", "denied", "aborted"}, effects: SUBSET Effects,
   outstanding: SUBSET Effects, agreed: SUBSET Signatures(Effects),
   ran: SUBSET Signatures(Effects), refused: SUBSET Signatures(Effects)]

NoCall ==
  [status |-> "none", effects |-> {}, outstanding |-> {}, agreed |-> {}, ran |-> {},
   refused |-> {}]

-----------------------------------------------------------------------------
(* The judgement of one effect.                                            *)

WriteRoots == IF sandbox.roots = {} THEN {Workspace} ELSE sandbox.roots

ReadRoots == {Workspace} \cup sandbox.roots

(* resolveWithinRoots: once as spelled and once with every link followed.   *)
Within(p, roots) == Spelled[p] \in roots /\ Lies[p] \in roots

Text(e) == IF e.requested = None THEN e.target ELSE e.requested

Verdict(e) ==
  IF e.kind = "command" THEN classifyCommand(sandbox.mode, sandbox.rules, Text(e))
  ELSE IF \/ sandbox.mode = "full-access"
          \/ e.kind = "file-read" /\ Within(e.target, ReadRoots)
          \/ /\ e.kind = "file-write" /\ sandbox.mode # "read-only"
             /\ Within(e.target, WriteRoots)
          \/ e.kind = "network" /\ e.target \in sandbox.hosts
       THEN "allow" ELSE "prompt"

PromptRequired(es) == {e \in es : approvals = "untrusted" \/ Verdict(e) = "prompt"}

Outstanding(es) == {e \in PromptRequired(es) : Signature(e) \notin allowed}

-----------------------------------------------------------------------------
Init ==
  /\ sandbox \in Sandboxes /\ approvals \in ApprovalPolicies
  /\ broker = [approvals |-> approvals, rules |-> sandbox.rules]
  /\ allowed = {} /\ turn = "idle" /\ call = NoCall
  /\ consents = {}

(* Slip of Submit: what the turn does not override is written all the same. *)
SubmitUnset(s, a) ==
  /\ turn = "idle"
  /\ sandbox' = IF s = None THEN sandbox ELSE s
  /\ approvals' = a
  /\ allowed' = IF <<s, a>> = <<None, None>> THEN allowed ELSE {}
  /\ turn' = IF <<s, a>> = <<None, None>> THEN "plain" ELSE "override"
  /\ UNCHANGED <<broker, call, consents>>

(* turnSubmit: an override goes into the session and the gate is rebuilt.   *)
Submit(s, a) ==
  /\ turn = "idle"
  /\ sandbox' = IF s = None THEN sandbox ELSE s
  /\ approvals' = IF a = None THEN approvals ELSE a
  /\ allowed' = IF <<s, a>> = <<None, None>> THEN allowed ELSE {}
  /\ turn' = IF <<s, a>> = <<None, None>> THEN "plain" ELSE "override"
  /\ consents' = IF <<sandbox', approvals'>> = <<sandbox, approvals>> THEN consents ELSE {}
  /\ UNCHANGED <<broker, call>>

EndTurn ==
  /\ turn # "idle" /\ call.status = "none"
  /\ turn' = "idle"
  /\ UNCHANGED <<sandbox, approvals, broker, allowed, call, consents>>

(* authorize, up to the point where it returns or waits for the surface.    *)
Authorize(es) ==
  LET To(status) == call' = [NoCall EXCEPT !.status = status, !.effects = es,
                               !.outstanding = Outstanding(es)]
      forbidden == \E e \in es : Verdict(e) = "forbid"
  IN /\ turn # "idle" /\ call.status = "none"
     /\ \/ forbidden /\ To("denied")
        \/ ~forbidden /\ Outstanding(es) = {} /\ To("granted")
        \/ ~forbidden /\ Outstanding(es) # {} /\ (approvals = "never" \/ ~Channel) /\ To("denied")
        \/ ~forbidden /\ Outstanding(es) # {} /\ approvals # "never" /\ Channel /\ To("asking")
     /\ UNCHANGED <<sandbox, approvals, broker, allowed, turn, consents>>

(* Slip of AllowSession: the whole kind of effect is remembered. *)
AllowKind ==
  LET yes == Signatures(call.outstanding) IN
  /\ call.status = "asking"
  /\ allowed' = allowed \cup
       Signatures({e \in Effects : \E o \in call.outstanding : o.kind = e.kind})
  /\ consents' = consents \cup yes
  /\ call' = [call EXCEPT !.status = "granted", !.agreed = yes]
  /\ UNCHANGED <<sandbox, approvals, broker, turn>>

AllowSession ==
  LET yes == Signatures(call.outstanding) IN
  /\ call.status = "asking"
  /\ allowed' = allowed \cup yes
  /\ consents' = consents \cup yes
  /\ call' = [call EXCEPT !.status = "granted", !.agreed = yes]
  /\ UNCHANGED <<sandbox, approvals, broker, turn>>

AllowOnce ==
  /\ call.status = "asking"
  /\ call' = [call EXCEPT !.status = "granted", !.agreed = Signatures(call.outstanding)]
  /\ UNCHANGED <<sandbox, approvals, broker, allowed, turn, consents>>

(* deny, abort, and a channel that fails: the call does not go ahead.       *)
Deny(status) ==
  /\ call.status = "asking"
  /\ call' = [call EXCEPT !.status = status]
  /\ UNCHANGED <<sandbox, approvals, broker, allowed, turn, consents>>

-----------------------------------------------------------------------------
(* What a tool does through its grant.                                      *)

Declared(e) == Signature(e) \in Signatures(call.effects)

Runs(e) ==
  (e.kind = "command" /\ Contained) =>
    BrokerRuns(sandbox.mode, broker.approvals, broker.rules, e.target)

(* A tool attempts an effect it declared; any other attempt is an error     *)
(* that changes nothing.  A grant has no capability for the network.        *)
Use(e) ==
  /\ call.status = "granted" /\ e.kind # "network" /\ Declared(e)
  /\ call' = IF Runs(e) THEN [call EXCEPT !.ran = @ \cup {Signature(e)}]
                        ELSE [call EXCEPT !.refused = @ \cup {Signature(e)}]
  /\ UNCHANGED <<sandbox, approvals, broker, allowed, turn, consents>>

(* The call is over; after an abort so is the turn.                         *)
EndCall ==
  /\ call.status \in {"granted", "denied", "aborted"}
  /\ call' = NoCall
  /\ turn' = IF call.status = "aborted" THEN "idle" ELSE turn
  /\ UNCHANGED <<sandbox, approvals, broker, allowed, consents>>

Next ==
  \/ \E s \in Sandboxes \cup {None}, a \in ApprovalPolicies \cup {None} : Submit(s, a)
  \/ EndTurn \/ EndCall
  \/ \E es \in Calls : Authorize(es)
  \/ AllowSession \/ AllowOnce \/ Deny("denied") \/ Deny("aborted")
  \/ \E e \in Effects : Use(e)

Spec == Init /\ [][Next]_vars

-----------------------------------------------------------------------------
(* Properties.                                                             *)

(* The types of the session's policy, the gate and the call.               *)
TypeOK ==
  /\ sandbox \in Sandboxes /\ approvals \in ApprovalPolicies
  /\ broker \in [approvals: ApprovalPolicies, rules: Seq(Rule)]
  /\ allowed \subseteq Signatures(Effects)
  /\ turn \in {"idle", "plain", "override"} /\ call \in CallRecord
  /\ consents \subseteq Signatures(Effects)

(* A grant is always justified under the policy in force: no rule forbids  *)
(* any of its effects, each one the policy asks about was allowed for this *)
(* call, or for the session under this very policy, and the tool acted on  *)
(* nothing else.                                                           *)
GrantIsJustified ==
  call.status = "granted" =>
    /\ \A e \in call.effects : Verdict(e) # "forbid"
    /\ Signatures(PromptRequired(call.effects)) \subseteq call.agreed \cup consents
    /\ call.ran \cup call.refused \subseteq Signatures(call.effects)

(* What may be written may be read ("Reads are permitted anywhere the      *)
(* agent may also write"), so an edit never asks for the read alone.       *)
WritableIsReadable ==
  \A w, r \in Effects :
    /\ w.kind = "file-write" /\ r.kind = "file-read" /\ w.target = r.target
    /\ Verdict(w) = "allow"
    => Verdict(r) = "allow"

(* No command runs, in any mode and whoever was asked, that a rule forbids  *)
(* unless a rule at least as specific says otherwise, wherever the rules   *)
(* stand on the list.                                                      *)
ForbiddenNeverRuns ==
  \A e \in Effects : e.kind = "command" /\ Signature(e) \in call.ran =>
    \A i \in DOMAIN sandbox.rules :
      sandbox.rules[i].action = "forbid" /\ IsPrefix(sandbox.rules[i].prefix, Text(e)) =>
        \E j \in DOMAIN sandbox.rules :
          /\ IsPrefix(sandbox.rules[j].prefix, Text(e)) /\ sandbox.rules[j].action # "forbid"
          /\ Len(sandbox.rules[j].prefix) >= Len(sandbox.rules[i].prefix)

-----------------------------------------------------------------------------
(* Promises of the documentation the code does not keep; see README.md.    *)

(* messages.ts: "Per-turn override": a turn without one runs under the     *)
(* policy the session was created with.                                    *)
OverrideLastsOneTurn ==
  turn = "plain" => broker = [approvals |-> approvals, rules |-> sandbox.rules]

(* configuration.md: "permit this exact effect for the rest of the session", *)
(* here only for as long as the policy stays what it was.                  *)
AllowSessionLasts ==
  call.status = "asking" => Signatures(call.outstanding) \cap consents = {}

(* broker-base.ts: under `never` "the gate would already have refused": the *)
(* broker refuses nothing a gate of the same policy granted.               *)
BrokerAgrees ==
  broker = [approvals |-> approvals, rules |-> sandbox.rules] => call.refused = {}

(* primitives.ts: a rule is "Matched against the start of the argv-joined  *)
(* command string".                                                        *)
RulesMatchArgv ==
  \A e \in Effects : e.kind = "command" /\ Signature(e) \in call.ran =>
    matchCommandRule(sandbox.rules, e.target) # "forbid"

=============================================================================
