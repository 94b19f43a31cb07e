------------------------------ MODULE PluginHooks ------------------------------
(***************************************************************************)
(* The hooks of plugins around one tool call: HookHost, which asks them one *)
(* after the other and decides, and the adapter that stands for all of them *)
(* on the hook bus of @adze/core (packages/plugin-sdk/src/hooks.ts,         *)
(* bridge.ts, wasm.ts).                                                     *)
(*                                                                         *)
(* A turn here is one call of one tool.  Each of the adapter's four methods *)
(* is under one timer of the bus, and each guest under its own.  Guests     *)
(* give way while they work, so that a timer fires when it is due.          *)
(***************************************************************************)
EXTENDS Naturals, FiniteSetsExt, SequencesExt

CONSTANTS
  HookLists,    (* Hooks of the loaded plugins, in load order.             *)
  LateHooks,    (* Hooks registered after the adapter was built.           *)
  Calls,        (* The calls the model may make: a tool and its arguments.  *)
  EditTools,    (* Tools with a reader of edits.                           *)
  Arguments,    (* Arguments: the path and the content they carry.         *)
  NoPath,       (* The path of arguments without one.                      *)
  OnFailure,    (* options.onFailure of the host.                          *)
  Margin        (* options.marginMs.                                       *)

Decisions     == {"tool.pre", "edit.pre"}
Injections    == {"session.turnStart"}
Notifications == {"edit.post", "session.turnEnd"}
Events        == Decisions \cup Injections \cup Notifications \cup {"tool.post"}

Hook == [plugin: STRING, event: Events, timeout: Nat \ {0}, tools: SUBSET STRING, paths: SUBSET STRING]

HookAssumption ==
  /\ HookLists \subseteq Seq(Hook) /\ LateHooks \subseteq Hook
  /\ OnFailure \subseteq {"allow", "deny"} /\ Margin \in Nat
  /\ \A c \in Calls : c.args \in Arguments

VARIABLES
  hooks,      (* HookHost.hooks.                                           *)
  onFailure,  (* HookHost.onFailure.                                       *)
  budget,     (* The timeout the adapter is registered with.               *)
  call,       (* The call of the model.                                    *)
  fire,       (* Locals of the fire in progress.                           *)
  clock,      (* Time since the bus called the adapter.                    *)
  args,       (* The arguments as they stand.                              *)
  verdict,    (* What the bus and dispatch made of the call.               *)
  text,       (* Who wrote the text of the result, "tool" for the tool.    *)
  records,    (* HookHost.records.                                         *)
  trail       (* Every guest entered: what it was shown and what it said.  *)

vars == <<hooks, onFailure, budget, call, fire, clock, args, verdict, text, records, trail>>

ForEvent(list, event) == SelectSeq(list, LAMBDA h : h.event = event)

BudgetFor(list, event) == FoldLeft(LAMBDA total, h : total + h.timeout, 0, ForEvent(list, event))

Budget(list) ==
  Max({BudgetFor(list, "session.turnStart"),
       BudgetFor(list, "tool.pre") + BudgetFor(list, "edit.pre"),
       BudgetFor(list, "tool.post") + BudgetFor(list, "edit.post"),
       BudgetFor(list, "session.turnEnd")}) + Margin

(* A fire: the hooks it has yet to ask, what its filters match against, the *)
(* payload it was begun with and who has rewritten the arguments in it.     *)
Fire(list, event, path, payload) ==
  [event |-> event, queue |-> ForEvent(list, event), path |-> path, payload |-> payload,
   by |-> <<>>, late |-> FALSE]

Init ==
  /\ hooks \in HookLists /\ onFailure \in OnFailure /\ call \in Calls
  /\ budget = Budget(hooks)
  /\ fire = Fire(hooks, "session.turnStart", NoPath, call.args)
  /\ clock = 0 /\ args = call.args /\ verdict = "pending" /\ text = "tool"
  /\ records = {} /\ trail = <<>>

Record(kind, h, treatedAs) == [kind |-> kind, plugin |-> h.plugin, event |-> h.event, treatedAs |-> treatedAs]

-----------------------------------------------------------------------------
(* One guest.                                                               *)

Asking == fire.event \in Events /\ fire.queue # <<>>
Asked  == Head(fire.queue)

Admits(h) ==
  /\ h.tools # {} => fire.event \notin {"session.turnStart", "session.turnEnd"} /\ call.tool \in h.tools
  /\ h.paths # {} => fire.path # NoPath /\ fire.path \in h.paths

Skip ==
  /\ Asking /\ ~Admits(Asked)
  /\ records' = records \cup {Record("skipped", Asked, "none")}
  /\ fire' = [fire EXCEPT !.queue = Tail(@)]
  /\ UNCHANGED <<hooks, onFailure, budget, call, clock, args, verdict, text, trail>>

TreatedAs(event) == IF event \in Decisions THEN onFailure ELSE "allow"

(* What is kept of an answer: nothing usable is a failure.                  *)
Failures == {"timeout", "error", "malformed"}
Answer   == [kind: Failures \cup {"allow", "deny", "inject", "replace"}, args: {call.args}]
            \cup [kind: {"modify"}, args: Arguments]

(* The answers the event does not take, which are only recorded.            *)
OutOfPlace(event) ==
  CASE event \in Decisions  -> {"inject", "replace"}
    [] event \in Injections -> {"deny", "modify", "replace"}
    [] event = "tool.post"  -> {"deny", "modify", "inject"}
    [] OTHER                -> {}

Denies(answer) ==
  /\ fire.event \in Decisions
  /\ \/ answer.kind = "deny"
     \/ answer.kind \in Failures /\ onFailure = "deny"

Rewrites(answer) == fire.event \in Decisions /\ answer.kind = "modify"

Recorded(answer) ==
  IF answer.kind \in Failures THEN {Record(answer.kind, Asked, TreatedAs(fire.event))}
  ELSE IF answer.kind \in OutOfPlace(fire.event) THEN {Record("malformed", Asked, TreatedAs(fire.event))}
  ELSE IF Rewrites(answer) THEN {Record("modified", Asked, "none")}
  ELSE IF fire.event \in Decisions /\ answer.kind = "deny"
    THEN {Record("denied", Asked, "none")}
         \cup {[kind |-> "modification-discarded", plugin |-> p, event |-> fire.event, treatedAs |-> "none"] :
                 p \in ToSet(fire.by)}
  ELSE {}

(* Slip of Decide: a denial is noted and the next hook asked. *)
DecideLast(answer) ==
  /\ verdict' = IF Denies(answer) THEN "deny" ELSE verdict
  /\ fire' = [fire EXCEPT !.queue = Tail(@), !.by = IF Rewrites(answer) THEN Append(@, Asked.plugin) ELSE @]

(* The first denial ends the fire; a rewrite is what the next hook is shown. *)
Decide(answer) ==
  /\ verdict' = IF Denies(answer) /\ verdict = "pending" THEN "deny" ELSE verdict
  /\ fire' = [fire EXCEPT !.queue = IF Denies(answer) THEN <<>> ELSE Tail(@),
                          !.by = IF Rewrites(answer) THEN Append(@, Asked.plugin) ELSE @]

(* A guest answers, or its time is up.  A bus whose own timer fires while it *)
(* waits answers for the adapter, and what the adapter still does is unheard *)
(* and left out.  Only the guests that do not answer take time.              *)
Answers ==
  /\ Asking /\ Admits(Asked)
  /\ \E answer \in Answer :
       /\ clock' = clock + IF answer.kind = "timeout" THEN Asked.timeout ELSE 0
       /\ IF clock' > budget
            THEN /\ verdict' = IF verdict = "pending" /\ fire.event \in Decisions THEN "timeout" ELSE verdict
                 /\ fire' = [fire EXCEPT !.queue = <<>>, !.late = TRUE]
                 /\ text' = "tool"
                 /\ UNCHANGED args
            ELSE /\ Decide(answer)
                 /\ args' = IF Rewrites(answer) THEN answer.args ELSE args
                 /\ text' = IF fire.event = "tool.post" /\ answer.kind = "replace" THEN Asked.plugin ELSE text
       /\ records' = records \cup Recorded(answer)
       /\ trail' = Append(trail, [hook |-> Asked, saw |-> args, payload |-> fire.payload,
                                  said |-> answer.kind, wrote |-> answer.args])
  /\ UNCHANGED <<hooks, onFailure, budget, call>>

-----------------------------------------------------------------------------
(* The adapter: which fire follows.                                         *)

Over == fire.event \in Events /\ fire.queue = <<>>

Begins(event, path, payload, at) ==
  /\ fire' = Fire(hooks, event, path, payload)
  /\ clock' = at
  /\ UNCHANGED <<hooks, onFailure, budget, call, args, text, records, trail>>

TurnEnds(from) ==
  /\ from
  /\ Begins("session.turnEnd", NoPath, args, 0)

toolPre ==
  /\ Over /\ fire.event = "session.turnStart"
  /\ Begins("tool.pre", NoPath, args, 0)
  /\ UNCHANGED verdict

(* The edit is read from the arguments as tool.pre left them.               *)
ReadsAsEdit == call.tool \in EditTools /\ args.path # NoPath

editPre ==
  /\ Over /\ fire.event = "tool.pre" /\ verdict = "pending"
  /\ ReadsAsEdit /\ ForEvent(hooks, "edit.pre") # <<>>
  /\ Begins("edit.pre", args.path, args, clock)
  /\ UNCHANGED verdict

(* Dispatch goes on to the schema and the gate, which may refuse the call.   *)
Dispatch ==
  /\ Over /\ verdict = "pending"
  /\ \/ fire.event = "edit.pre"
     \/ fire.event = "tool.pre" /\ ~(ReadsAsEdit /\ ForEvent(hooks, "edit.pre") # <<>>)
  /\ \/ /\ verdict' = "ran"
        /\ Begins("tool.post", NoPath, args, 0)
     \/ /\ verdict' = "refused"
        /\ TurnEnds(TRUE)

Refused ==
  /\ Over /\ fire.event \in Decisions
  /\ TurnEnds(verdict \in {"deny", "timeout"})
  /\ UNCHANGED verdict

(* edit.post learns the path from the text of the tool's own result.        *)
editPost ==
  /\ Over /\ fire.event = "tool.post"
  /\ ReadsAsEdit /\ ForEvent(hooks, "edit.post") # <<>>
  /\ Begins("edit.post", args.path, args, clock)
  /\ UNCHANGED verdict

PostEnds ==
  /\ Over
  /\ TurnEnds(\/ fire.event = "edit.post"
              \/ fire.event = "tool.post" /\ ~(ReadsAsEdit /\ ForEvent(hooks, "edit.post") # <<>>))
  /\ UNCHANGED verdict

Finish ==
  /\ Over /\ fire.event = "session.turnEnd"
  /\ fire' = [fire EXCEPT !.event = "over"]
  /\ UNCHANGED <<hooks, onFailure, budget, call, clock, args, verdict, text, records, trail>>

(* A plugin is loaded while the turn runs: the fire in progress has its list. *)
Register ==
  /\ fire.event # "over"
  /\ \E h \in LateHooks : ~Contains(hooks, h) /\ hooks' = Append(hooks, h)
  /\ UNCHANGED <<onFailure, budget, call, fire, clock, args, verdict, text, records, trail>>

Step == Skip \/ Answers \/ toolPre \/ editPre \/ Dispatch \/ Refused \/ editPost \/ PostEnds \/ Finish
Next == Step \/ Register
Spec == Init /\ [][Next]_vars

-----------------------------------------------------------------------------
(* Properties.                                                              *)

TypeOK ==
  /\ hooks \in Seq(Hook) /\ onFailure \in {"allow", "deny"} /\ budget \in Nat /\ clock \in Nat
  /\ args \in Arguments /\ fire.event \in Events \cup {"over"} /\ fire.queue \in Seq(Hook)
  /\ verdict \in {"pending", "deny", "timeout", "ran", "refused"}

Before == {i \in DOMAIN trail : trail[i].hook.event \in Decisions}
Denied(i) == trail[i].said = "deny" \/ (trail[i].said \in Failures /\ onFailure = "deny")

(* A call runs only if nobody asked about it denied it, and is denied only  *)
(* on the word of the last guest that was asked (hooks.ts fireDecision).    *)
DenialsDecide ==
  /\ verdict \in {"ran", "refused"} => \A i \in Before : ~Denied(i)
  /\ verdict = "deny" => \E i \in Before : Denied(i) /\ \A j \in Before : j <= i

(* A call that ran past a hook of tool.pre was shown to it or was outside   *)
(* its filters, and a guest that did not answer is on record: no policy is  *)
(* passed over in silence (hooks.ts fireDecision, invoke).                   *)
NoSilentPass ==
  verdict = "ran" =>
    \A h \in ToSet(hooks) \ LateHooks : h.event = "tool.pre" =>
      \/ \E i \in Before : trail[i].hook = h
                           /\ (trail[i].said \in Failures => Record(trail[i].said, h, "allow") \in records)
      \/ /\ Record("skipped", h, "none") \in records
         /\ h.paths # {} \/ call.tool \notin h.tools

(* What is shown and what runs is what the last rewrite before it made of   *)
(* the call (hooks.ts fireDecision, bridge.ts toolPre).                     *)
Rewritten(upTo) ==
  LET written == {i \in Before : i < upTo /\ trail[i].said = "modify"}
  IN  IF written = {} THEN call.args ELSE trail[Max(written)].wrote

RewritesChain ==
  /\ \A i \in Before : trail[i].saw = Rewritten(i)
  /\ verdict = "ran" => args = Rewritten(Len(trail) + 1)

(* The timer of the bus, which would turn a slow plugin into a denial, does *)
(* not fire while the hooks are those the adapter was built for (bridge.ts  *)
(* toRegisteredHook).                                                       *)
BusNeverTimesOut == ToSet(hooks) \cap LateHooks = {} => ~fire.late /\ verdict # "timeout"

(* Whatever the guests do, the turn comes to its end: each is under a timer  *)
(* of its own (wasm.ts callGuest).                                           *)
TurnComesToItsEnd == <>(fire.event = "over")

Fairness == WF_vars(Step)

(* Claims of the source that its code does not keep.                        *)

(* hooks.ts:466: on a host that denies on failure, a malformed return       *)
(* denies.  Broken by an answer of another event: recorded as treated as    *)
(* deny, and passed over.                                                   *)
FailureIsDenied ==
  \A r \in records : r.treatedAs = "deny" => verdict \notin {"ran", "refused"}

(* hooks.ts:129: the content an edit.pre guest is shown is what a write     *)
(* would leave on disk.  Broken by the rewrite of a hook before it, which   *)
(* replaces the arguments and leaves the payload as it was.                 *)
ShownIsWritten ==
  \A i \in Before : trail[i].hook.event = "edit.pre" => trail[i].payload = trail[i].saw

(* hooks.ts:571: a discarded rewrite is visible.  Broken when tool.pre      *)
(* rewrites and edit.pre denies.                                            *)
DiscardIsVisible ==
  verdict = "deny" => \A i \in Before : trail[i].said = "modify" =>
    \E r \in records : r.kind = "modification-discarded" /\ r.plugin = trail[i].hook.plugin

=============================================================================
