------------------------- MODULE PermissionGate_proofs -------------------------
(***************************************************************************)
(* What holds of the gate for every policy, every set of effects and every *)
(* sequence of turns.  The invariant that makes GrantIsJustified inductive  *)
(* says that the gate remembers nothing the user did not allow under the   *)
(* policy in force, that no call outlives its turn, so the policy never     *)
(* changes under one, and that what is put to the user is exactly what the *)
(* policy asks about and the gate does not remember.                       *)
(***************************************************************************)
EXTENDS PermissionGate, WellFoundedInduction, TLAPS

MemoryIsConsent == allowed \subseteq consents

AskedIsPending ==
  call.status = "asking" =>
    /\ \A e \in call.effects : Verdict(e) # "forbid"
    /\ call.outstanding = Outstanding(call.effects)
    /\ call.ran = {} /\ call.refused = {}

CallsAreInTurns == turn = "idle" => call.status = "none"

IInv == MemoryIsConsent /\ CallsAreInTurns /\ AskedIsPending /\ GrantIsJustified

-----------------------------------------------------------------------------
(* The record that stands for no call has the type of a call.               *)
LEMMA NoCallIsTyped == NoCall \in CallRecord
BY DEF NoCall, CallRecord

(* A set of effects has signatures among those of all the effects.          *)
LEMMA SignaturesMonotone ==
  ASSUME NEW A, NEW B, A \subseteq B
  PROVE  Signatures(A) \subseteq Signatures(B)
BY DEF Signatures

(* What is asked about is part of what was declared.                        *)
LEMMA OutstandingIsPart ==
  ASSUME NEW es
  PROVE  Outstanding(es) \subseteq PromptRequired(es) /\ PromptRequired(es) \subseteq es
BY DEF Outstanding, PromptRequired

(* The types hold in every reachable state.                                 *)
THEOREM TypeCorrect == Spec => []TypeOK
<1>1. Init => TypeOK
  <2>1. ASSUME NEW s \in Sandboxes PROVE s.rules \in Seq(Rule)
    BY <2>1, GateAssumption DEF Sandbox
  <2> QED BY <2>1, NoCallIsTyped DEF Init, TypeOK
<1>2. TypeOK /\ [Next]_vars => TypeOK'
  <2> SUFFICES ASSUME TypeOK, [Next]_vars PROVE TypeOK'
    OBVIOUS
  <2>1. ASSUME NEW s \in Sandboxes \cup {None}, NEW a \in ApprovalPolicies \cup {None}, Submit(s, a)
        PROVE  TypeOK'
    BY <2>1 DEF Submit, TypeOK
  <2>2. CASE EndTurn
    BY <2>2 DEF EndTurn, TypeOK
  <2>3. CASE EndCall
    BY <2>3, NoCallIsTyped DEF EndCall, TypeOK
  <2>4. ASSUME NEW es \in Calls, Authorize(es) PROVE TypeOK'
    <3>1. es \subseteq Effects /\ Outstanding(es) \subseteq Effects
      BY <2>4, GateAssumption, OutstandingIsPart
    <3>2. \A st \in {"granted", "denied", "asking"} :
            [NoCall EXCEPT !.status = st, !.effects = es, !.outstanding = Outstanding(es)]
              \in CallRecord
      BY <3>1 DEF NoCall, CallRecord
    <3>3. call' \in CallRecord
      BY <2>4, <3>2 DEF Authorize
    <3> QED BY <2>4, <3>3 DEF Authorize, TypeOK
  <2>5. CASE AllowSession
    <3>1. Signatures(call.outstanding) \subseteq Signatures(Effects)
      BY SignaturesMonotone DEF TypeOK, CallRecord
    <3>2. [call EXCEPT !.status = "granted", !.agreed = Signatures(call.outstanding)] \in CallRecord
      BY <3>1 DEF TypeOK, CallRecord
    <3> QED BY <2>5, <3>1, <3>2 DEF AllowSession, TypeOK
  <2>6. CASE AllowOnce
    <3>1. Signatures(call.outstanding) \subseteq Signatures(Effects)
      BY SignaturesMonotone DEF TypeOK, CallRecord
    <3>2. [call EXCEPT !.status = "granted", !.agreed = Signatures(call.outstanding)] \in CallRecord
      BY <3>1 DEF TypeOK, CallRecord
    <3> QED BY <2>6, <3>2 DEF AllowOnce, TypeOK
  <2>7. ASSUME NEW st \in {"denied", "aborted"}, Deny(st) PROVE TypeOK'
    <3>1. [call EXCEPT !.status = st] \in CallRecord
      BY DEF TypeOK, CallRecord
    <3> QED BY <2>7, <3>1 DEF Deny, TypeOK
  <2>8. ASSUME NEW e \in Effects, Use(e) PROVE TypeOK'
    <3>1. Signature(e) \in Signatures(Effects)
      BY DEF Signatures
    <3>2. [call EXCEPT !.ran = @ \cup {Signature(e)}] \in CallRecord
      BY <3>1 DEF TypeOK, CallRecord
    <3>3. [call EXCEPT !.refused = @ \cup {Signature(e)}] \in CallRecord
      BY <3>1 DEF TypeOK, CallRecord
    <3> QED BY <2>8, <3>2, <3>3 DEF Use, TypeOK
  <2>9. CASE UNCHANGED vars
    BY <2>9 DEF vars, TypeOK
  <2> QED BY <2>1, <2>2, <2>3, <2>4, <2>5, <2>6, <2>7, <2>8, <2>9 DEF Next
<1> QED BY <1>1, <1>2, PTL DEF Spec

-----------------------------------------------------------------------------
(* A step that leaves the policy alone leaves every judgement alone.        *)
LEMMA SameJudgement ==
  ASSUME sandbox' = sandbox, approvals' = approvals
  PROVE  /\ \A e : Verdict(e)' = Verdict(e)
         /\ \A es : PromptRequired(es)' = PromptRequired(es)
<1>1. \A e : Verdict(e)' = Verdict(e)
  BY DEF Verdict, classifyCommand, Within, ReadRoots, WriteRoots
<1>2. \A es : PromptRequired(es)' = PromptRequired(es)
  BY <1>1 DEF PromptRequired
<1> QED BY <1>1, <1>2

(* What the gate does not have to ask about was allowed before.             *)
LEMMA RestIsRemembered ==
  ASSUME NEW es, MemoryIsConsent
  PROVE  Signatures(PromptRequired(es)) \subseteq Signatures(Outstanding(es)) \cup consents
BY DEF Signatures, Outstanding, MemoryIsConsent

(* The invariant holds in every reachable state.                            *)
LEMMA AlwaysIInv == Spec => [](TypeOK /\ IInv)
<1>1. Init => IInv
  BY DEF Init, IInv, MemoryIsConsent, CallsAreInTurns, AskedIsPending, GrantIsJustified, NoCall
<1>2. TypeOK /\ IInv /\ [Next]_vars => IInv'
  <2> SUFFICES ASSUME TypeOK, IInv, [Next]_vars PROVE IInv'
    OBVIOUS
  <2> USE DEF IInv
  <2>1. ASSUME NEW s \in Sandboxes \cup {None}, NEW a \in ApprovalPolicies \cup {None}, Submit(s, a)
        PROVE  IInv'
    <3>1. MemoryIsConsent'
      BY <2>1 DEF Submit, MemoryIsConsent
    <3>2. call'.status = "none"
      BY <2>1 DEF Submit, CallsAreInTurns
    <3> QED BY <3>1, <3>2 DEF CallsAreInTurns, AskedIsPending, GrantIsJustified
  <2>2. CASE EndTurn
    <3>1. call'.status = "none" /\ MemoryIsConsent'
      BY <2>2 DEF EndTurn, MemoryIsConsent
    <3> QED BY <3>1 DEF CallsAreInTurns, AskedIsPending, GrantIsJustified
  <2>3. CASE EndCall
    <3>1. call'.status = "none" /\ MemoryIsConsent'
      BY <2>3 DEF EndCall, NoCall, MemoryIsConsent
    <3> QED BY <3>1 DEF CallsAreInTurns, AskedIsPending, GrantIsJustified
  <2>4. ASSUME NEW es \in Calls, Authorize(es) PROVE IInv'
    <3>1. sandbox' = sandbox /\ approvals' = approvals /\ allowed' = allowed /\ consents' = consents
          /\ turn' = turn /\ turn # "idle"
      BY <2>4 DEF Authorize
    <3>2. MemoryIsConsent' /\ CallsAreInTurns'
      BY <3>1 DEF MemoryIsConsent, CallsAreInTurns
    <3>3. /\ call'.effects = es /\ call'.outstanding = Outstanding(es) /\ call'.agreed = {}
          /\ call'.ran = {} /\ call'.refused = {}
          /\ call'.status # "denied" => \A e \in es : Verdict(e) # "forbid"
          /\ call'.status = "granted" => Outstanding(es) = {}
      BY <2>4 DEF Authorize, NoCall
    <3>4. Outstanding(es)' = Outstanding(es)
      BY <3>1, SameJudgement DEF Outstanding
    <3>5. AskedIsPending'
      <4> SUFFICES ASSUME call'.status = "asking" PROVE AskedIsPending'
        BY DEF AskedIsPending
      <4>1. \A e \in call'.effects : Verdict(e)' # "forbid"
        BY <3>1, <3>3, SameJudgement
      <4> QED BY <4>1, <3>3, <3>4 DEF AskedIsPending
    <3>6. GrantIsJustified'
      <4> SUFFICES ASSUME call'.status = "granted" PROVE GrantIsJustified'
        BY DEF GrantIsJustified
      <4>1. \A e \in call'.effects : Verdict(e)' # "forbid"
        BY <3>1, <3>3, SameJudgement
      <4>2. Signatures(PromptRequired(es)) \subseteq consents
        BY <3>3, RestIsRemembered DEF Signatures
      <4>3. PromptRequired(es)' = PromptRequired(es)
        BY <3>1, SameJudgement
      <4> QED BY <4>1, <4>2, <4>3, <3>1, <3>3 DEF GrantIsJustified, Signatures
    <3> QED BY <3>2, <3>5, <3>6
  <2>5. CASE AllowSession \/ AllowOnce
    <3>1. /\ call.status = "asking" /\ call'.status = "granted"
          /\ call'.effects = call.effects /\ call'.ran = call.ran /\ call'.refused = call.refused
          /\ call'.agreed = Signatures(call.outstanding)
          /\ sandbox' = sandbox /\ approvals' = approvals /\ turn' = turn
          /\ consents \subseteq consents'
      BY <2>5 DEF AllowSession, AllowOnce, TypeOK, CallRecord
    <3>2. MemoryIsConsent'
      BY <2>5 DEF AllowSession, AllowOnce, MemoryIsConsent
    <3>3. CallsAreInTurns' /\ AskedIsPending'
      BY <3>1 DEF CallsAreInTurns, AskedIsPending
    <3>4. \A e \in call'.effects : Verdict(e)' # "forbid"
      BY <3>1, SameJudgement DEF AskedIsPending
    <3>5. Signatures(PromptRequired(call.effects)) \subseteq call'.agreed \cup consents'
      BY <3>1, RestIsRemembered DEF AskedIsPending
    <3>6. call'.ran \cup call'.refused \subseteq Signatures(call'.effects)
      BY <3>1 DEF AskedIsPending
    <3>7. GrantIsJustified'
      <4>1. \A es : PromptRequired(es)' = PromptRequired(es)
        BY <3>1, SameJudgement
      <4> QED BY <4>1, <3>1, <3>4, <3>5, <3>6 DEF GrantIsJustified, Signatures
    <3> QED BY <3>2, <3>3, <3>7
  <2>6. ASSUME NEW st \in {"denied", "aborted"}, Deny(st) PROVE IInv'
    <3>1. call.status = "asking" /\ call'.status = st /\ turn' = turn
      BY <2>6 DEF Deny, TypeOK, CallRecord
    <3>2. MemoryIsConsent'
      BY <2>6 DEF Deny, MemoryIsConsent
    <3> QED BY <3>1, <3>2 DEF CallsAreInTurns, AskedIsPending, GrantIsJustified
  <2>7. ASSUME NEW e \in Effects, Use(e) PROVE IInv'
    <3>1. /\ call.status = "granted" /\ call'.status = "granted"
          /\ call'.effects = call.effects /\ call'.agreed = call.agreed
          /\ call'.ran \cup call'.refused = call.ran \cup call.refused \cup {Signature(e)}
          /\ Signature(e) \in Signatures(call.effects)
      BY <2>7 DEF Use, Declared, TypeOK, CallRecord
    <3>2. sandbox' = sandbox /\ approvals' = approvals /\ turn' = turn /\ allowed' = allowed
          /\ consents' = consents
      BY <2>7 DEF Use
    <3>3. MemoryIsConsent' /\ CallsAreInTurns' /\ AskedIsPending'
      BY <3>1, <3>2 DEF MemoryIsConsent, CallsAreInTurns, AskedIsPending
    <3>4. \A f : Verdict(f)' = Verdict(f)
      BY <3>2, SameJudgement
    <3>5. \A es : PromptRequired(es)' = PromptRequired(es)
      BY <3>2, SameJudgement
    <3>6. GrantIsJustified'
      BY <3>1, <3>2, <3>4, <3>5 DEF GrantIsJustified, Signatures
    <3> QED BY <3>3, <3>6
  <2>8. CASE UNCHANGED vars
    <3>1. sandbox' = sandbox /\ approvals' = approvals /\ turn' = turn /\ allowed' = allowed
          /\ consents' = consents /\ call' = call
      BY <2>8 DEF vars
    <3>2. (\A f : Verdict(f)' = Verdict(f)) /\ (\A es : PromptRequired(es)' = PromptRequired(es))
      BY <3>1, SameJudgement
    <3> QED BY <3>1, <3>2 DEF MemoryIsConsent, CallsAreInTurns, AskedIsPending, GrantIsJustified,
                              Outstanding, Signatures
  <2> QED BY <2>1, <2>2, <2>3, <2>4, <2>5, <2>6, <2>7, <2>8 DEF Next
<1> QED BY <1>1, <1>2, TypeCorrect, PTL DEF Spec

(* A grant is justified under the policy in force: no rule forbids any of  *)
(* its effects, the user allowed all that the policy asks about, and the    *)
(* tool acted on nothing else.                                             *)
THEOREM Justified == Spec => []GrantIsJustified
<1>1. IInv => GrantIsJustified
  BY DEF IInv
<1> QED BY <1>1, AlwaysIInv, PTL

(* Whatever the sandbox's roots are, and whether or not it is the workspace *)
(* that the writable ones leave out: where the gate lets a tool write it    *)
(* lets it read (permissions.ts, readRoots and writeRoots).                 *)
THEOREM WritesAreReadable == Spec => []WritableIsReadable
<1>1. WriteRoots \subseteq ReadRoots
  BY DEF WriteRoots, ReadRoots
<1>2. \A p : Within(p, WriteRoots) => Within(p, ReadRoots)
  BY <1>1 DEF Within
<1>3. WritableIsReadable
  BY <1>2 DEF WritableIsReadable, Verdict
<1> QED BY <1>3, PTL

-----------------------------------------------------------------------------
(* A set of numbers that is not empty has a least one.                      *)
LEMMA LeastExists ==
  ASSUME NEW T, T \subseteq Nat, T # {}
  PROVE  \E x \in T : \A y \in T : x <= y
<1>1. PICK x \in T : \A y \in T : ~(<<y, x>> \in OpToRel(<, Nat))
  BY WFMin, NatLessThanWellFounded
<1>2. ASSUME NEW y \in T PROVE x <= y
  <2>1. ~(<<y, x>> \in {ss \in Nat \X Nat : ss[1] < ss[2]})
    BY <1>1 DEF OpToRel
  <2> QED BY <2>1
<1> QED BY <1>2

(* Where a rule matches, the one that decides matches too, and no rule that  *)
(* matches is longer, whatever the order of the list: the rules are ordered  *)
(* by how much of the text a prefix leaves over, so there is a first.        *)
LEMMA MatchIsLongest ==
  ASSUME NEW rules \in Seq(Rule), NEW text \in Seq(Words),
         NEW k \in DOMAIN rules, IsPrefix(rules[k].prefix, text)
  PROVE  \E i \in DOMAIN rules :
           /\ IsPrefix(rules[i].prefix, text) /\ rules[i].action = matchCommandRule(rules, text)
           /\ \A j \in DOMAIN rules : IsPrefix(rules[j].prefix, text) =>
                Len(rules[j].prefix) <= Len(rules[i].prefix)
<1> DEFINE hits == {i \in DOMAIN rules : IsPrefix(rules[i].prefix, text)}
           L(i) == Len(rules[i].prefix)
           Beats(i, j) == L(i) > L(j) \/ (L(i) = L(j) /\ i <= j)
<1>1. /\ DOMAIN rules \subseteq Nat
      /\ \A i \in DOMAIN rules : L(i) \in Nat /\ Len(text) \in Nat
      /\ \A i \in hits : L(i) <= Len(text)
  BY DEF Rule, IsPrefix
<1>2. hits # {} /\ matchCommandRule(rules, text) = rules[CHOOSE i \in hits : \A j \in hits : Beats(i, j)].action
  <2>1. hits # {}
    BY DEF matchCommandRule
  <2> QED BY <2>1, Zenon DEF matchCommandRule
<1>3. \E i \in hits : \A j \in hits : Beats(i, j)
  <2>1. PICK least \in {Len(text) - L(i) : i \in hits} : \A y \in {Len(text) - L(i) : i \in hits} : least <= y
    <3> HIDE DEF hits, L
    <3>1. {Len(text) - L(i) : i \in hits} \subseteq Nat
      BY <1>1 DEF hits
    <3>2. {Len(text) - L(i) : i \in hits} # {}
      BY <1>2
    <3> QED BY <3>1, <3>2, LeastExists
  <2>2. PICK longest \in hits : least = Len(text) - L(longest)
    BY <2>1
  <2>3. PICK first \in {i \in hits : L(i) = L(longest)} : \A y \in {i \in hits : L(i) = L(longest)} : first <= y
    <3> HIDE DEF hits, L
    <3>1. {i \in hits : L(i) = L(longest)} \subseteq Nat
      BY <1>1 DEF hits
    <3>2. {i \in hits : L(i) = L(longest)} # {}
      BY <2>2
    <3> QED BY <3>1, <3>2, LeastExists
  <2>4. ASSUME NEW j \in hits PROVE Beats(first, j)
    <3> HIDE DEF L
    <3>1. least <= Len(text) - L(j)
      BY <2>1
    <3>2. L(j) \in Nat /\ L(longest) \in Nat /\ Len(text) \in Nat /\ first \in Nat /\ j \in Nat
      BY <1>1
    <3>3. L(j) <= L(longest) /\ L(first) = L(longest)
      BY <2>2, <2>3, <3>1, <3>2
    <3>4. CASE L(j) = L(longest)
      BY <2>3, <3>2, <3>3, <3>4
    <3>5. CASE L(j) # L(longest)
      BY <3>2, <3>3, <3>5
    <3> QED BY <3>4, <3>5
  <2> QED BY <2>3, <2>4
<1>4. PICK i \in hits : /\ \A j \in hits : Beats(i, j)
                        /\ rules[i].action = matchCommandRule(rules, text)
  <2> DEFINE i == CHOOSE i \in hits : \A j \in hits : Beats(i, j)
  <2>1. i \in hits /\ \A j \in hits : Beats(i, j)
    <3> HIDE DEF hits, Beats
    <3> QED BY <1>3
  <2> QED BY <2>1, <1>2
<1> QED BY <1>1, <1>4

(* Only a granted call has run anything.                                    *)
OnlyGrantsRun == call.status # "granted" => call.ran = {}

LEMMA GrantsRun == Spec => [](TypeOK /\ IInv /\ OnlyGrantsRun)
<1>1. Init => OnlyGrantsRun
  BY DEF Init, OnlyGrantsRun, NoCall
<1>2. TypeOK /\ IInv /\ OnlyGrantsRun /\ [Next]_vars => OnlyGrantsRun'
  <2> SUFFICES ASSUME TypeOK, IInv, OnlyGrantsRun, [Next]_vars PROVE OnlyGrantsRun'
    OBVIOUS
  <2> call \in CallRecord
    BY DEF TypeOK
  <2>1. ASSUME NEW es \in Calls, Authorize(es) PROVE OnlyGrantsRun'
    BY <2>1 DEF Authorize, NoCall, OnlyGrantsRun
  <2>2. CASE AllowSession \/ AllowOnce
    BY <2>2 DEF AllowSession, AllowOnce, CallRecord, OnlyGrantsRun
  <2>3. ASSUME NEW st \in {"denied", "aborted"}, Deny(st) PROVE OnlyGrantsRun'
    BY <2>3 DEF Deny, CallRecord, OnlyGrantsRun
  <2>4. ASSUME NEW e \in Effects, Use(e) PROVE OnlyGrantsRun'
    BY <2>4 DEF Use, CallRecord, OnlyGrantsRun
  <2>5. CASE EndCall
    BY <2>5 DEF EndCall, NoCall, OnlyGrantsRun
  <2>6. ASSUME UNCHANGED call PROVE OnlyGrantsRun'
    BY <2>6 DEF OnlyGrantsRun
  <2> QED BY <2>1, <2>2, <2>3, <2>4, <2>5, <2>6 DEF Next, Submit, EndTurn, vars
<1> QED BY <1>1, <1>2, AlwaysIInv, PTL DEF Spec

(* One argv is one text: only the shell tool declares a text of its own, and *)
(* it puts the whole of it into the argv it declares (tools/shell.ts).       *)
OneText ==
  \A e, f \in Effects : e.kind = "command" /\ Signature(e) = Signature(f) => Text(e) = Text(f)

(* What a command's verdict is about: where a rule forbids it and the verdict *)
(* does not, another rule, at least as specific, says otherwise.             *)
LEMMA VerdictIsSpecific ==
  ASSUME TypeOK, NEW e \in Effects, e.kind = "command", Verdict(e) # "forbid",
         NEW i \in DOMAIN sandbox.rules, IsPrefix(sandbox.rules[i].prefix, Text(e))
  PROVE  \E j \in DOMAIN sandbox.rules :
           /\ IsPrefix(sandbox.rules[j].prefix, Text(e)) /\ sandbox.rules[j].action # "forbid"
           /\ Len(sandbox.rules[j].prefix) >= Len(sandbox.rules[i].prefix)
<1>1. sandbox.rules \in Seq(Rule) /\ Text(e) \in Seq(Words)
  <2>1. sandbox \in Sandbox /\ e \in Command \cup Access \cup Network
    BY GateAssumption DEF TypeOK
  <2>2. e \in Command
    BY <2>1 DEF Command, Access, Network
  <2> QED BY <2>1, <2>2 DEF Sandbox, Command, Text
<1>2. PICK j \in DOMAIN sandbox.rules :
        /\ IsPrefix(sandbox.rules[j].prefix, Text(e))
        /\ sandbox.rules[j].action = matchCommandRule(sandbox.rules, Text(e))
        /\ Len(sandbox.rules[i].prefix) <= Len(sandbox.rules[j].prefix)
  BY <1>1, MatchIsLongest
<1>3. sandbox.rules[j].action # "none"
  <2>1. sandbox.rules[j] \in Rule
    BY <1>1
  <2> QED BY <2>1 DEF Rule
<1>4. sandbox.rules[j].action # "forbid"
  BY <1>2, <1>3 DEF Verdict, classifyCommand
<1> QED BY <1>1, <1>2, <1>4 DEF Rule

(* No command runs that a rule forbids, unless a rule at least as specific   *)
(* says otherwise, for every list of rules in every order and every policy.  *)
THEOREM ForbiddenCommandsNeverRun ==
  ASSUME OneText
  PROVE  Spec => []ForbiddenNeverRuns
<1>1. TypeOK /\ IInv /\ OnlyGrantsRun => ForbiddenNeverRuns
  <2> SUFFICES ASSUME TypeOK, IInv, OnlyGrantsRun,
                      NEW e \in Effects, e.kind = "command", Signature(e) \in call.ran,
                      NEW i \in DOMAIN sandbox.rules, sandbox.rules[i].action = "forbid",
                      IsPrefix(sandbox.rules[i].prefix, Text(e))
               PROVE  \E j \in DOMAIN sandbox.rules :
                        /\ IsPrefix(sandbox.rules[j].prefix, Text(e)) /\ sandbox.rules[j].action # "forbid"
                        /\ Len(sandbox.rules[j].prefix) >= Len(sandbox.rules[i].prefix)
    BY DEF ForbiddenNeverRuns
  <2>1. call.status = "granted" /\ call.effects \subseteq Effects
    BY DEF OnlyGrantsRun, TypeOK, CallRecord
  <2>2. PICK f \in call.effects : Signature(f) = Signature(e) /\ Verdict(f) # "forbid"
    BY <2>1 DEF IInv, GrantIsJustified, Signatures
  <2>3. f \in Effects /\ f.kind = "command" /\ Text(f) = Text(e)
    BY <2>1, <2>2 DEF OneText, Signature
  <2> QED BY <2>2, <2>3, VerdictIsSpecific
<1> QED BY <1>1, GrantsRun, PTL

=============================================================================
