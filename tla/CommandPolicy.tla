------------------------------ MODULE CommandPolicy ------------------------------
(***************************************************************************)
(* The two places that judge a command: the permission gate of @adze/core  *)
(* (packages/core/src/permissions.ts) and, for a second time, the broker of *)
(* @adze/sandbox (packages/sandbox/src/policy.ts).  A command is a sequence *)
(* of words; the gate looks at the text the model asked to run, the broker  *)
(* at the argv that runs.                                                  *)
(***************************************************************************)
EXTENDS Naturals, SequencesExt

CONSTANTS
  Words,     (* What commands and rule prefixes are made of.              *)
  OsLevel    (* The platform and the mechanism confine commands.          *)

Modes == {"read-only", "workspace-write", "full-access"}
ApprovalPolicies == {"untrusted", "on-request", "never"}

Rule == [prefix: Seq(Words), action: {"allow", "prompt", "forbid"}]

(* Slip of matchCommandRule: the first match in declaration order.          *)
FirstRuleMatches(rules, text) ==
  LET hits == {i \in DOMAIN rules : IsPrefix(rules[i].prefix, text)} IN
  IF hits = {} THEN "none" ELSE rules[CHOOSE i \in hits : \A j \in hits : i <= j].action

(* The action of the longest prefix that matches, the first of equals.      *)
matchCommandRule(rules, text) ==
  LET hits == {i \in DOMAIN rules : IsPrefix(rules[i].prefix, text)}
      Beats(i, j) == \/ Len(rules[i].prefix) > Len(rules[j].prefix)
                     \/ Len(rules[i].prefix) = Len(rules[j].prefix) /\ i <= j
  IN IF hits = {} THEN "none" ELSE rules[CHOOSE i \in hits : \A j \in hits : Beats(i, j)].action

(* A command nothing would confine once it runs.                            *)
Unconfined(mode) == mode # "full-access" /\ ~OsLevel

classifyCommand(mode, rules, text) ==
  LET action == matchCommandRule(rules, text) IN
  IF action # "none" THEN action ELSE IF Unconfined(mode) THEN "prompt" ELSE "allow"

-----------------------------------------------------------------------------
(* The broker refuses what its rules forbid, and under 'never' whatever     *)
(* needs an approval; for the rest it takes the gate's word.                *)

NeedsApproval(mode, approvals, action) ==
  \/ action = "prompt"
  \/ approvals = "untrusted"
  \/ action # "allow" /\ Unconfined(mode)

BrokerRuns(mode, approvals, rules, argv) ==
  LET action == matchCommandRule(rules, argv) IN
  /\ action # "forbid"
  /\ NeedsApproval(mode, approvals, action) => approvals # "never"

=============================================================================
