---------------------------- MODULE SurfaceSettings ----------------------------
(***************************************************************************)
(* What the user's settings permit the VS Code extension: how settings are  *)
(* read (apps/vscode/src/settings.ts), which sessions they hold for and     *)
(* when those are torn down (controller.ts, engine/host.ts), who answers an *)
(* approval (approval.ts), and when ghost text costs a turn                 *)
(* (inline/provider.ts).                                                    *)
(*                                                                         *)
(* A raw value is "unset", one of the values its key allows, or some other   *)
(* word.  Settings change at any moment, also while a turn runs, while a     *)
(* prompt is on screen and while ghost text waits out its pause.            *)
(***************************************************************************)
EXTENDS Naturals, FiniteSets

CONSTANTS
  Configurations, (* The settings the user may have: a record per key.      *)
  Platforms,      (* win32 has no OS-level containment.                     *)
  MaxTurns,       (* Bound: turns submitted.                                *)
  MaxChanges,     (* Bound: changes of the settings.                        *)
  MaxAsks,        (* Bound: approvals asked for.                            *)
  None            (* No session, no prompt.                                 *)

Modes    == {"read-only", "workspace-write", "full-access"}
Policies == {"untrusted", "on-request", "never"}
Surfaces == {"chat", "ghost"}

VARIABLES
  config,   (* The settings in force in the editor.                        *)
  platform,
  session,  (* Per surface: the settings its session was made with, or None. *)
  turns,    (* The turns in flight, those of closed sessions included.     *)
  started,  (* Turns submitted.                                            *)
  changes, asks,
  prompt,   (* The approval on screen, or None.                            *)
  warned,   (* warnedAboutContainment.                                     *)
  pause,    (* Ghost text waits out its debounce.                          *)
  granted   (* History: approvals granted, with the policy they were asked under. *)

vars == <<config, platform, session, turns, started, changes, asks, prompt, warned, pause, granted>>

-----------------------------------------------------------------------------
(* settings.ts.                                                            *)

Read(value, problem) == [value |-> value, problem |-> problem]

readEnum(raw, allowed, whenUnset, whenInvalid) ==
  Read(IF raw \in allowed THEN raw ELSE IF raw = "unset" THEN whenUnset ELSE whenInvalid,
       raw \notin allowed \cup {"unset"})

(* A ceiling that cannot be read is left out, which means there is none.    *)
readCeiling(raw, legal) ==
  Read(IF raw \in legal THEN raw ELSE "unbounded", raw \notin legal \cup {"unset"})
readPositiveInt(raw) == readCeiling(raw, {"5"})
readNonNegative(raw) == readCeiling(raw, {"0", "5"})

readBoolean(raw, fallback) ==
  Read(IF raw \in {"true", "false"} THEN raw ELSE fallback, raw \notin {"true", "false", "unset"})

readBoundedInt(raw, fallback) ==
  Read(IF raw \in {"100", "900"} THEN raw ELSE fallback, raw \notin {"100", "900", "unset"})

Resolved(c) ==
  [mode   |-> readEnum(c.mode, Modes, "workspace-write", "read-only"),
   policy |-> readEnum(c.policy, Policies, "on-request", "never"),
   steps  |-> readPositiveInt(c.steps),
   spend  |-> readNonNegative(c.spend),
   ghost  |-> readBoolean(c.ghost, "false"),
   pause  |-> readBoundedInt(c.pause, "500")]

resolveSettings(c) == [k \in DOMAIN Resolved(c) |-> Resolved(c)[k].value]
blocksRun(c) == \E k \in DOMAIN Resolved(c) : Resolved(c)[k].problem

-----------------------------------------------------------------------------
(* The keys a session is made from.                                         *)

(* Slip of SESSION_SCOPED_KEYS: the policy is asked for at every prompt. *)
KeysButPolicy == {"mode", "model"}

SESSION_SCOPED_KEYS == {"mode", "policy", "model"}

Init ==
  /\ config \in Configurations /\ platform \in Platforms
  /\ session = [s \in Surfaces |-> None] /\ turns = {} /\ started = 0
  /\ changes = 0 /\ asks = 0 /\ prompt = None /\ warned = FALSE /\ pause = FALSE /\ granted = {}

Live(s) == {t \in turns : t.of = s /\ ~t.closed}
running(s) == Live(s) # {}
busy == running("chat") \/ running("ghost")

SessionOf(c) == [mode |-> resolveSettings(c).mode, policy |-> resolveSettings(c).policy, model |-> c.model]

(* start: the session there is, or a new one; the budget is the turn's own.  *)
RunsTurn(s) ==
  /\ started < MaxTurns /\ started' = started + 1
  /\ LET made == IF session[s] = None THEN SessionOf(config) ELSE session[s]
     IN /\ session' = [session EXCEPT ![s] = made]
        /\ turns' = turns \cup
             {[id |-> started + 1, of |-> s, under |-> made, on |-> config,
               steps |-> resolveSettings(config).steps, closed |-> FALSE]}

(* A chat turn: blocked by any problem, refused while one runs.              *)
Submit ==
  /\ ~blocksRun(config) /\ ~running("chat")
  /\ RunsTurn("chat")
  /\ UNCHANGED <<config, platform, changes, asks, prompt, warned, pause, granted>>

(* resetSessions: both sessions are let go, and their turns cancelled; they  *)
(* end when they notice.                                                    *)
ChangesSettings(c) ==
  /\ changes < MaxChanges /\ changes' = changes + 1
  /\ c # config /\ config' = c
  /\ IF \E k \in SESSION_SCOPED_KEYS : c[k] # config[k]
     THEN /\ session' = [s \in Surfaces |-> None]
          /\ turns' = {[t EXCEPT !.closed = TRUE] : t \in turns}
          /\ warned' = FALSE
     ELSE UNCHANGED <<session, turns, warned>>
  /\ UNCHANGED <<platform, started, asks, prompt, pause, granted>>

TurnEnds(t) ==
  /\ prompt # None => prompt.turn # t.id
  /\ turns' = turns \ {t}
  /\ UNCHANGED <<config, platform, session, started, changes, asks, prompt, warned, pause, granted>>

-----------------------------------------------------------------------------
(* Approvals.  The gate asks for a turn whose policy lets it; the surface    *)
(* asks its own settings before it asks the user.                           *)

enforcement == IF session["chat"] = None \/ platform = "win32" THEN "gate-only" ELSE "os-enforced"

policyDecision(policy) == IF policy = "never" THEN "deny" ELSE "ask"

(* The prompt carries the containment note when there is no containment and  *)
(* the note has not been shown.                                             *)
Ask(t) ==
  LET note == enforcement = "gate-only" /\ ~warned
  IN /\ asks < MaxAsks /\ asks' = asks + 1
     /\ t.of = "chat" /\ t.under.policy # "never" /\ prompt = None
     /\ IF policyDecision(resolveSettings(config).policy) = "deny"
        THEN UNCHANGED <<prompt, warned>>
        ELSE /\ prompt' = [turn |-> t.id, under |-> t.under, note |-> note,
                           policy |-> resolveSettings(config).policy]
             /\ warned' = (warned \/ note)
     /\ UNCHANGED <<config, platform, session, turns, started, changes, pause, granted>>

(* A dismissed prompt is a denial.                                          *)
decisionForLabel(label) ==
  IF label = "Allow once" THEN "allow-once"
  ELSE IF label = "Allow for this session" THEN "allow-session"
  ELSE IF label = "Deny and stop" THEN "abort" ELSE "deny"

Answer(label) ==
  /\ prompt # None
  /\ granted' = IF decisionForLabel(label) \in {"allow-once", "allow-session"}
                THEN granted \cup {[policy |-> prompt.policy, label |-> label]} ELSE granted
  /\ prompt' = None
  /\ UNCHANGED <<config, platform, session, turns, started, changes, asks, warned, pause>>

Labels == {"Allow once", "Allow for this session", "Deny", "Deny and stop", "dismissed"}

-----------------------------------------------------------------------------
(* Ghost text.                                                             *)

(* Off by default, and not while a turn is in flight.                       *)
Debounce ==
  /\ resolveSettings(config).ghost = "true" /\ ~busy /\ ~pause
  /\ pause' = TRUE
  /\ UNCHANGED <<config, platform, session, turns, started, changes, asks, prompt, warned, granted>>

GivesUp ==
  /\ pause /\ pause' = FALSE
  /\ UNCHANGED <<config, platform, session, turns, started, changes, asks, prompt, warned, granted>>

(* complete: a session of its own, made from the settings as they are.       *)
Complete ==
  /\ pause /\ pause' = FALSE
  /\ ~running("ghost")
  /\ RunsTurn("ghost")
  /\ UNCHANGED <<config, platform, changes, asks, prompt, warned, granted>>

Next ==
  \/ Submit \/ Debounce \/ GivesUp \/ Complete
  \/ \E c \in Configurations : ChangesSettings(c)
  \/ \E t \in turns : Ask(t) \/ TurnEnds(t)
  \/ \E l \in Labels : Answer(l)

Spec == Init /\ [][Next]_vars

-----------------------------------------------------------------------------
(* Properties.                                                             *)

Models == {c.model : c \in Configurations}
Turn == [id : 1 .. MaxTurns, of : Surfaces, under : [mode : Modes, policy : Policies, model : Models],
         on : Configurations, steps : {"5", "unbounded"}, closed : BOOLEAN]

(* The types of the surface's settings.                                    *)
TypeOK ==
  /\ config \in Configurations /\ platform \in Platforms /\ turns \subseteq Turn
  /\ started \in 0 .. MaxTurns /\ changes \in 0 .. MaxChanges /\ asks \in 0 .. MaxAsks
  /\ {warned, pause} \subseteq BOOLEAN

(* Whatever changed since, a turn that has not been told to stop runs under  *)
(* what the settings say now: the display of what protects the user is true. *)
SessionsFollowSettings ==
  \A t \in turns : ~t.closed =>
    /\ t.under.mode = resolveSettings(config).mode
    /\ t.under.policy = resolveSettings(config).policy

(* No turn, of chat or of ghost text, runs wider than a setting that could   *)
(* be read allows: a word that is no mode and no policy narrows both.        *)
TyposNarrow ==
  \A t \in turns :
    /\ t.on.mode \notin Modes \cup {"unset"} => t.under.mode = "read-only"
    /\ t.on.policy \notin Policies \cup {"unset"} => t.under.policy = "never"

(* What was granted the user allowed in so many words, at a prompt that the  *)
(* policy of that moment permitted.                                         *)
GrantsAreGiven ==
  \A g \in granted : g.policy # "never" /\ g.label \in {"Allow once", "Allow for this session"}

-----------------------------------------------------------------------------
(* The inductive invariant, proved in MCSurfaces.                           *)

(* A session is made from the settings in force, and so is a turn that has   *)
(* not been told to stop; no prompt was opened against the policy.           *)
SInv ==
  /\ TypeOK /\ GrantsAreGiven
  /\ \A s \in Surfaces : session[s] \in {None, SessionOf(config)}
  /\ \A t \in turns : t.under = SessionOf(t.on) /\ (~t.closed => t.under = SessionOf(config))
  /\ prompt # None => prompt.policy # "never"

-----------------------------------------------------------------------------
(* Promises of the documentation the code does not keep; see README.md.    *)

(* settings.ts: "Any invalid setting blocks the run."                       *)
InvalidBlocks == \A t \in turns : ~blocksRun(t.on)

(* settings.ts: 0 "is rejected rather than read as unbounded."               *)
ZeroIsNotUnbounded == \A t \in turns : t.on.steps = "0" => t.steps # "unbounded"

=============================================================================
