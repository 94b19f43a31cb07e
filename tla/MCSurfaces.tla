------------------------------- MODULE MCSurfaces -------------------------------
(***************************************************************************)
(* The two surfaces of the repository, each over its own engine, with the   *)
(* review of edits and the settings of the editor: which one a behaviour is *)
(* about, and under which constants, is chosen at its start.                *)
(***************************************************************************)
EXTENDS Naturals, Sequences, TLAPS

CONSTANTS
  None, s1, s2, MaxTurns,
  CarefulUse, CarelessUse, HastyUse,              (* The embedders of the SDK.  *)
  Typing, Undoing, Delegating,                    (* The editors.               *)
  Configurations, Platforms, MaxChanges, MaxAsks  (* The settings.              *)

VARIABLES
  part,
  client, dues, sess, members, known, gate, turn,
  host, made, turnOf, turns, view, review, settled, reverting, running, ghost,
  refused,
  disk, document, dirty, loaded, entries, plan, notice, writes, typing, origin,
  config, platform, session, inflight, started, changes, asks, prompt, warned, pause, granted

(* An embedder uses the client as its record says.                          *)
Careful  == INSTANCE SdkClient_proofs WITH
              Sessions <- CarefulUse.sessions, Overrides <- CarefulUse.overrides,
              Consumer <- CarefulUse.habits
Careless == INSTANCE SdkClient_proofs WITH
              Sessions <- CarelessUse.sessions, Overrides <- CarelessUse.overrides,
              Consumer <- CarelessUse.habits
Hasty    == INSTANCE SdkClient_proofs WITH
              Sessions <- HastyUse.sessions, Overrides <- HastyUse.overrides,
              Consumer <- HastyUse.habits

(* One that awaits every run and closes nothing twice, one with every habit, *)
(* and one with two sessions that disposes at any time.                     *)
AwaitsAll  == [sessions |-> {s1, s2}, overrides |-> {"never", "asks"}, habits |-> {}]
EveryHabit == [sessions |-> {s1}, overrides |-> {"never", "asks"},
               habits |-> {"late", "inside", "again", "early"}]
DisposesEarly == [sessions |-> {s1, s2}, overrides |-> {"asks"}, habits |-> {"again", "early"}]

(* The editor p describes.                                                  *)
Surface(p) == INSTANCE ChatSurface WITH
                MaxHosts <- p.hosts, MaxCalls <- p.calls,
                Subagents <- p.subagents, Resets <- p.resets, GhostText <- p.ghost,
                Reverts <- p.reverts, Reads <- p.reads

(* One session and completions, the same with reverts, and subagents and    *)
(* changed settings, where every call edits.                                *)
Completing == [hosts |-> 1, calls |-> 2, subagents |-> FALSE, resets |-> FALSE,
               ghost |-> TRUE, reverts |-> FALSE, reads |-> TRUE]
Reverting  == [Completing EXCEPT !.ghost = FALSE, !.reverts = TRUE]
Resetting  == [hosts |-> 2, calls |-> 1, subagents |-> TRUE, resets |-> TRUE,
               ghost |-> FALSE, reverts |-> FALSE, reads |-> FALSE]

(* A file of two or of three words, blocks whose replacements are short,     *)
(* doubled, empty or overlapping, and a word that only the user types.      *)
Block(search, replace) == [search |-> search, replace |-> replace]
Reviewing == INSTANCE EditReview WITH
  Files <- {<<"a", "x">>, <<"b", "sp", "a">>},
  Proposals <- {<<Block(<<"x">>, <<"a", "a">>)>>, <<Block(<<"b">>, <<"c">>)>>,
                <<Block(<<"a">>, <<"b">>), Block(<<"b", "sp">>, <<"c">>)>>,
                <<Block(<<"x">>, <<>>)>>, <<Block(<<"b", "sp", "sp", "a">>, <<"d">>)>>},
  Rewrites <- {<<"e">>}, Typed <- {"u"}, MaxWrites <- 2, MaxTyped <- 1

(* Settings that are wide, narrow, misspelled in each key, or unset.        *)
Base == [mode |-> "unset", policy |-> "unset", model |-> "m", steps |-> "5", spend |-> "0",
         ghost |-> "true", pause |-> "unset"]
SixConfigurations ==
  {Base, [Base EXCEPT !.mode = "full-access"], [Base EXCEPT !.policy = "nevr"],
   [Base EXCEPT !.mode = "reed-only", !.policy = "untrusted"],
   [Base EXCEPT !.policy = "never", !.model = "n"],
   [Base EXCEPT !.ghost = "no", !.pause = "x", !.spend = "-1", !.steps = "0"]}
Setting == INSTANCE SurfaceSettings WITH turns <- inflight

ASSUME ConstantsAreLegal ==
  /\ Careful!ClientAssumption /\ Careless!ClientAssumption /\ Hasty!ClientAssumption
  /\ CarefulUse.habits = {} /\ s1 \in CarelessUse.sessions
  /\ Surface(Typing)!SurfaceAssumption /\ Surface(Undoing)!SurfaceAssumption
  /\ Surface(Delegating)!SurfaceAssumption
  /\ ~Typing.subagents /\ ~Typing.resets /\ ~Typing.reverts
  /\ MaxChanges \in Nat /\ MaxAsks \in Nat

sdkVars     == <<client, dues, sess, members, known, gate, turn>>
editorVars  == <<host, made, turnOf, turns, view, review, settled, reverting, running, ghost>>
reviewVars  == <<disk, document, dirty, loaded, entries, plan, notice, writes, typing, origin>>
settingVars == <<config, platform, session, inflight, started, changes, asks,
                 prompt, warned, pause, granted>>
sdk         == <<sdkVars, refused>>
vars        == <<part, sdkVars, editorVars, refused, reviewVars, settingVars>>

NoSdk ==
  /\ client = None /\ dues = None /\ sess = None /\ members = None
  /\ known = None /\ gate = None /\ turn = None
NoEditor ==
  /\ host = None /\ made = None /\ turnOf = None /\ turns = None /\ view = None
  /\ review = None /\ settled = None /\ reverting = None /\ running = None /\ ghost = None
NoReview ==
  /\ disk = None /\ document = None /\ dirty = None /\ loaded = None /\ entries = None
  /\ plan = None /\ notice = None /\ writes = None /\ typing = None /\ origin = None
NoSettings ==
  /\ config = None /\ platform = None /\ session = None /\ inflight = None /\ started = None
  /\ changes = None /\ asks = None /\ prompt = None /\ warned = None /\ pause = None /\ granted = None

Init ==
  \/ part = "careful" /\ Careful!Init /\ NoEditor /\ NoReview /\ NoSettings
  \/ part = "careless" /\ Careless!Init /\ NoEditor /\ NoReview /\ NoSettings
  \/ part = "hasty" /\ Hasty!Init /\ NoEditor /\ NoReview /\ NoSettings
  \/ part = "plain" /\ Surface(Typing)!Init /\ NoSdk /\ NoReview /\ NoSettings
  \/ part = "undo" /\ Surface(Undoing)!Init /\ NoSdk /\ NoReview /\ NoSettings
  \/ part = "full" /\ Surface(Delegating)!Init /\ NoSdk /\ NoReview /\ NoSettings
  \/ part = "review" /\ Reviewing!Init /\ NoSdk /\ NoEditor /\ refused = None /\ NoSettings
  \/ part = "settings" /\ Setting!Init /\ NoSdk /\ NoEditor /\ refused = None /\ NoReview

Next ==
  \/ part = "careful" /\ Careful!Next /\ UNCHANGED <<part, editorVars, reviewVars, settingVars>>
  \/ part = "careless" /\ Careless!Next /\ UNCHANGED <<part, editorVars, reviewVars, settingVars>>
  \/ part = "hasty" /\ Hasty!Next /\ UNCHANGED <<part, editorVars, reviewVars, settingVars>>
  \/ part = "plain" /\ Surface(Typing)!Next /\ UNCHANGED <<part, sdkVars, reviewVars, settingVars>>
  \/ part = "undo" /\ Surface(Undoing)!Next /\ UNCHANGED <<part, sdkVars, reviewVars, settingVars>>
  \/ part = "full" /\ Surface(Delegating)!Next /\ UNCHANGED <<part, sdkVars, reviewVars, settingVars>>
  \/ part = "review" /\ Reviewing!Next /\ UNCHANGED <<part, sdk, editorVars, settingVars>>
  \/ part = "settings" /\ Setting!Next /\ UNCHANGED <<part, sdk, editorVars, reviewVars>>

InPart(p, A) == part = p /\ A

(* The fairness of SdkClient!FairSpec for the careless embedder.            *)
Spec ==
  /\ Init /\ [][Next]_vars
  /\ WF_sdk(InPart("careless", Careless!SessionStep(s1)))
  /\ \A t \in Careless!Turns :
       /\ WF_sdk(InPart("careless", Careless!SubmitReturns(t)))
       /\ WF_sdk(InPart("careless", Careless!Answered(t)))
       /\ SF_sdk(InPart("careless", Careless!TurnEnds(t)))
       /\ WF_sdk(InPart("careless", Careless!Collect(t)))
  /\ WF_sdk(InPart("careless", Careless!DisposeEnds))

-----------------------------------------------------------------------------
(* The SDK client.                                                         *)

(* Whatever an embedder closes, disposes of or never asks for, a session    *)
(* the engine has forgotten has no turn that runs on uncancelled, its totals *)
(* hold each turn that ended and was collected exactly once, and when        *)
(* dispose has returned to an embedder that awaits every run no turn runs    *)
(* (packages/sdk/src/internal/client.ts), all variables within their types. *)
ClosedAndCounted ==
  /\ part = "careful" =>
       /\ Careful!TypeOK /\ Careful!ClosedMeansCancelled /\ Careful!CountedOnce
       /\ Careful!DisposeWaits
  /\ part = "careless" => Careless!TypeOK /\ Careless!ClosedMeansCancelled /\ Careless!CountedOnce
  /\ part = "hasty" => Hasty!TypeOK /\ Hasty!ClosedMeansCancelled /\ Hasty!CountedOnce

(* While its session and client are open, no request of a turn whose policy *)
(* lets it ask is refused by the approval router in the handler's place.    *)
NoFalseRefusal ==
  [][(part \in {"careful", "careless", "hasty"} /\ client # "disposed") =>
       \A t \in refused' \ refused : sess[turn[t].of].at # "open"]_vars

(* A close returns, however the turn it waits for ends.                     *)
CloseReturns ==
  InPart("careless", sess[s1].at = "closing") ~> InPart("careless", sess[s1].at = "closed")

-----------------------------------------------------------------------------
(* The VS Code surface.                                                    *)

(* Without subagents the view of a live turn shows every call it reported,  *)
(* no event counts as dropped, and the context key says that a turn is in   *)
(* flight exactly while one is; so does the view, but for a turn that       *)
(* rejected, which it shows as running until the next.  The user can cancel *)
(* the turn in flight and is never offered a second one the engine refuses; *)
(* and every edit of the turn on screen waits for review until it was       *)
(* accepted or reverted.  Whatever subagents, settings, reverts, failures   *)
(* and completions did meanwhile, once no turn is in flight nothing else is *)
(* shown as running and no host believes in a turn                          *)
(* (apps/vscode/src/controller.ts, chat, engine/host.ts).                   *)
ViewIsHonest ==
  /\ part = "plain" =>
       /\ Surface(Typing)!TypeOK /\ Surface(Typing)!TranscriptIsHonest
       /\ Surface(Typing)!RunningIsKnown /\ Surface(Typing)!CancelReaches
       /\ Surface(Typing)!EditsAwaitReview /\ Surface(Typing)!RestIsRest
  /\ part = "undo" => Surface(Undoing)!TypeOK /\ Surface(Undoing)!RestIsRest
  /\ part = "full" => Surface(Delegating)!TypeOK /\ Surface(Delegating)!RestIsRest

(* A revert takes away no word the user typed, forgets no edit it was not   *)
(* planned for unless the editor has not seen it, and plans no operation on *)
(* text that stands again further on (apps/vscode/src/edits/review.ts,      *)
(* locate.ts).                                                              *)
RevertIsCareful ==
  /\ [](part = "review" => Reviewing!TypeOK /\ Reviewing!PlansAreUnique)
  /\ [][part = "review" => Reviewing!RevertLeavesWords /\ Reviewing!RevertForgetsThePlanned]_vars

(* Whatever is changed while turns run and prompts are on screen, a turn    *)
(* that has not been told to stop runs under the settings in force, a       *)
(* misspelled mode or policy narrows it, and what was granted the user      *)
(* allowed at a prompt the policy permitted (apps/vscode/src/settings.ts,   *)
(* approval.ts, inline/provider.ts, engine/host.ts).                        *)
SettingsAreObeyed ==
  part = "settings" =>
    /\ Setting!TypeOK /\ Setting!SessionsFollowSettings /\ Setting!TyposNarrow
    /\ Setting!GrantsAreGiven

-----------------------------------------------------------------------------
(* Refuted: locate.ts:19-21 says a module that finds the replacement more    *)
(* than once refuses.                                                       *)
AmbiguityIsRefused == part = "review" => Reviewing!AmbiguityIsRefused

-----------------------------------------------------------------------------
(* The settings: what a configuration resolves to.                          *)

(* What the settings resolve to, key by key.                                *)
LEMMA Resolves ==
  ASSUME NEW c
  PROVE  /\ Setting!resolveSettings(c).mode
              = IF c.mode \in Setting!Modes THEN c.mode
                ELSE IF c.mode = "unset" THEN "workspace-write" ELSE "read-only"
         /\ Setting!resolveSettings(c).policy
              = IF c.policy \in Setting!Policies THEN c.policy
                ELSE IF c.policy = "unset" THEN "on-request" ELSE "never"
         /\ Setting!resolveSettings(c).steps = IF c.steps = "5" THEN c.steps ELSE "unbounded"
<1>1. /\ Setting!Resolved(c).mode.value = IF c.mode \in Setting!Modes THEN c.mode
                ELSE IF c.mode = "unset" THEN "workspace-write" ELSE "read-only"
      /\ Setting!Resolved(c).policy.value = IF c.policy \in Setting!Policies THEN c.policy
                ELSE IF c.policy = "unset" THEN "on-request" ELSE "never"
      /\ Setting!Resolved(c).steps.value = IF c.steps = "5" THEN c.steps ELSE "unbounded"
  BY DEF Setting!Resolved, Setting!readEnum, Setting!readPositiveInt, Setting!readCeiling, Setting!Read
<1>2. {"mode", "policy", "steps"} \subseteq DOMAIN Setting!Resolved(c)
  BY DEF Setting!Resolved
<1>3. /\ Setting!resolveSettings(c).mode = Setting!Resolved(c).mode.value
      /\ Setting!resolveSettings(c).policy = Setting!Resolved(c).policy.value
      /\ Setting!resolveSettings(c).steps = Setting!Resolved(c).steps.value
  BY <1>2 DEF Setting!resolveSettings
<1> QED BY <1>1, <1>3

LEMMA SessionFields ==
  ASSUME NEW c
  PROVE  /\ Setting!SessionOf(c).mode = Setting!resolveSettings(c).mode
         /\ Setting!SessionOf(c).policy = Setting!resolveSettings(c).policy
BY DEF Setting!SessionOf

LEMMA SessionsAreTyped ==
  ASSUME NEW c \in Configurations
  PROVE  /\ Setting!SessionOf(c)
              \in [mode : Setting!Modes, policy : Setting!Policies, model : Setting!Models]
         /\ Setting!resolveSettings(c).steps \in {"5", "unbounded"}
<1>1. c.model \in Setting!Models
  BY DEF Setting!Models
<1>2. /\ Setting!resolveSettings(c).mode \in Setting!Modes
      /\ Setting!resolveSettings(c).policy \in Setting!Policies
      /\ Setting!resolveSettings(c).steps \in {"5", "unbounded"}
  BY Resolves DEF Setting!Modes, Setting!Policies
<1> QED BY <1>1, <1>2 DEF Setting!SessionOf

LEMMA Bounds == MaxTurns \in Nat \ {0} /\ MaxChanges \in Nat /\ MaxAsks \in Nat
BY ConstantsAreLegal DEF Careful!ClientAssumption

LEMMA SInvInit == ASSUME Setting!Init PROVE Setting!SInv
<1>1. Setting!TypeOK
  <2>1. config \in Configurations /\ platform \in Platforms /\ inflight = {}
    BY DEF Setting!Init
  <2>2. started = 0 /\ changes = 0 /\ asks = 0
    BY DEF Setting!Init
  <2>3. started \in 0 .. MaxTurns /\ changes \in 0 .. MaxChanges /\ asks \in 0 .. MaxAsks
    BY <2>2, Bounds
  <2>4. {warned, pause} \subseteq BOOLEAN
    BY DEF Setting!Init
  <2> QED BY <2>1, <2>3, <2>4 DEF Setting!TypeOK
<1>2. prompt = None /\ granted = {} /\ inflight = {} /\ session = [s \in Setting!Surfaces |-> None]
  BY DEF Setting!Init
<1> QED BY <1>1, <1>2 DEF Setting!SInv, Setting!GrantsAreGiven

(* A turn is of the session there is, or of one made for it.                *)
LEMMA RunsTurnKeeps ==
  ASSUME Setting!SInv, NEW s \in Setting!Surfaces, Setting!RunsTurn(s),
         UNCHANGED <<config, platform, changes, asks, prompt, warned, granted>>, pause' \in BOOLEAN
  PROVE  Setting!SInv'
<1> DEFINE its == IF session[s] = None THEN Setting!SessionOf(config) ELSE session[s]
           new == [id |-> started + 1, of |-> s, under |-> its, on |-> config,
                   steps |-> Setting!resolveSettings(config).steps, closed |-> FALSE]
<1>1. /\ started' = started + 1 /\ started < MaxTurns
      /\ session' = [session EXCEPT ![s] = its] /\ inflight' = inflight \cup {new}
  BY DEF Setting!RunsTurn
<1>2. its = Setting!SessionOf(config)
  BY DEF Setting!SInv
<1>3. /\ started \in Nat /\ MaxTurns \in Nat /\ started + 1 \in 1 .. MaxTurns /\ config \in Configurations
  BY <1>1, Bounds DEF Setting!SInv, Setting!TypeOK
<1>4. new \in Setting!Turn
  BY <1>2, <1>3, SessionsAreTyped DEF Setting!Turn
<1>5. new.under = Setting!SessionOf(new.on) /\ new.under = Setting!SessionOf(config)
  BY <1>2
<1> HIDE DEF its, new
<1>6. Setting!TypeOK'
  BY <1>1, <1>3, <1>4 DEF Setting!SInv, Setting!TypeOK
<1>7. \A t \in inflight' :
        t.under = Setting!SessionOf(t.on) /\ (~t.closed => t.under = Setting!SessionOf(config'))
  BY <1>1, <1>5 DEF Setting!SInv
<1>8. \A r \in Setting!Surfaces : session'[r] \in {None, Setting!SessionOf(config')}
  BY <1>1, <1>2 DEF Setting!SInv
<1> QED BY <1>6, <1>7, <1>8 DEF Setting!SInv, Setting!GrantsAreGiven

(* A session is let go with the key it was its from.                       *)
LEMMA ChangesSettingsKeeps ==
  ASSUME Setting!SInv, NEW c \in Configurations, Setting!ChangesSettings(c) PROVE Setting!SInv'
<1>1. /\ config' = c /\ changes' \in 0 .. MaxChanges
      /\ UNCHANGED <<platform, started, asks, prompt, pause, granted>>
  BY Bounds DEF Setting!ChangesSettings, Setting!SInv, Setting!TypeOK
<1>2. CASE \E k \in Setting!SESSION_SCOPED_KEYS : c[k] # config[k]
  <2>1. /\ session' = [s \in Setting!Surfaces |-> None] /\ warned' = FALSE
        /\ inflight' = {[t EXCEPT !.closed = TRUE] : t \in inflight}
    BY <1>2 DEF Setting!ChangesSettings
  <2>2. ASSUME NEW t \in inflight
        PROVE  /\ [t EXCEPT !.closed = TRUE] \in Setting!Turn
               /\ [t EXCEPT !.closed = TRUE].under = Setting!SessionOf([t EXCEPT !.closed = TRUE].on)
               /\ [t EXCEPT !.closed = TRUE].closed
    <3>1. t \in Setting!Turn /\ t.under = Setting!SessionOf(t.on)
      BY DEF Setting!SInv, Setting!TypeOK
    <3> QED BY <3>1 DEF Setting!Turn
  <2>3. \A t \in inflight' : t \in Setting!Turn /\ t.under = Setting!SessionOf(t.on) /\ t.closed
    BY <2>1, <2>2
  <2> QED BY <1>1, <2>1, <2>3 DEF Setting!SInv, Setting!TypeOK, Setting!GrantsAreGiven
<1>3. CASE \A k \in Setting!SESSION_SCOPED_KEYS : c[k] = config[k]
  <2>1. UNCHANGED <<session, inflight, warned>>
    BY <1>3 DEF Setting!ChangesSettings
  <2>2. c.mode = config.mode /\ c.policy = config.policy /\ c.model = config.model
    BY <1>3 DEF Setting!SESSION_SCOPED_KEYS
  <2>3. Setting!SessionOf(c) = Setting!SessionOf(config)
    BY <2>2, Resolves DEF Setting!SessionOf
  <2> QED BY <1>1, <2>1, <2>3 DEF Setting!SInv, Setting!TypeOK, Setting!GrantsAreGiven
<1> QED BY <1>2, <1>3

LEMMA AskKeeps ==
  ASSUME Setting!SInv, NEW t \in inflight, Setting!Ask(t) PROVE Setting!SInv'
<1>1. /\ asks' \in 0 .. MaxAsks
      /\ UNCHANGED <<config, platform, session, inflight, started, changes, pause, granted>>
  BY Bounds DEF Setting!Ask, Setting!SInv, Setting!TypeOK
<1>2. warned \in BOOLEAN /\ (Setting!enforcement = "gate-only") \in BOOLEAN
  BY Zenon DEF Setting!SInv, Setting!TypeOK
<1>3. CASE Setting!policyDecision(Setting!resolveSettings(config).policy) = "deny"
  <2>1. UNCHANGED <<prompt, warned>>
    BY <1>3 DEF Setting!Ask
  <2> QED BY <1>1, <2>1 DEF Setting!SInv, Setting!TypeOK, Setting!GrantsAreGiven
<1>4. CASE Setting!policyDecision(Setting!resolveSettings(config).policy) # "deny"
  <2>1. prompt'.policy = Setting!resolveSettings(config).policy
    BY <1>4 DEF Setting!Ask
  <2>2. warned' \in BOOLEAN
    BY <1>2, <1>4, Zenon DEF Setting!Ask
  <2> QED BY <1>1, <1>4, <2>1, <2>2
         DEF Setting!SInv, Setting!TypeOK, Setting!GrantsAreGiven, Setting!policyDecision
<1> QED BY <1>3, <1>4

LEMMA SInvStep == ASSUME Setting!SInv, [Setting!Next]_(Setting!vars) PROVE Setting!SInv'
<1>1. CASE Setting!Submit
  <2>1. pause' \in BOOLEAN /\ "chat" \in Setting!Surfaces
    BY <1>1 DEF Setting!Submit, Setting!SInv, Setting!TypeOK, Setting!Surfaces
  <2> QED BY <1>1, <2>1, RunsTurnKeeps DEF Setting!Submit
<1>2. CASE Setting!Complete
  <2>1. pause' \in BOOLEAN /\ "ghost" \in Setting!Surfaces
    BY <1>2 DEF Setting!Complete, Setting!Surfaces
  <2> QED BY <1>2, <2>1, RunsTurnKeeps DEF Setting!Complete
<1>3. CASE Setting!Debounce \/ Setting!GivesUp
  BY <1>3 DEF Setting!Debounce, Setting!GivesUp, Setting!SInv, Setting!TypeOK, Setting!GrantsAreGiven
<1>4. ASSUME NEW t \in inflight, Setting!TurnEnds(t) PROVE Setting!SInv'
  BY <1>4 DEF Setting!TurnEnds, Setting!SInv, Setting!TypeOK, Setting!GrantsAreGiven
<1>5. ASSUME NEW l \in Setting!Labels, Setting!Answer(l) PROVE Setting!SInv'
  <2>1. /\ prompt # None /\ prompt' = None
        /\ UNCHANGED <<config, platform, session, inflight, started, changes, asks, warned, pause>>
    BY <1>5 DEF Setting!Answer
  <2>2. \A g \in granted' \ granted :
          g.policy # "never" /\ g.label \in {"Allow once", "Allow for this session"}
    <3>1. prompt.policy # "never"
      BY <2>1 DEF Setting!SInv
    <3>2. granted' # granted => l \in {"Allow once", "Allow for this session"}
      BY <1>5 DEF Setting!Answer, Setting!decisionForLabel
    <3>3. granted' \in {granted, granted \cup {[policy |-> prompt.policy, label |-> l]}}
      BY <1>5 DEF Setting!Answer
    <3> DEFINE given == [policy |-> prompt.policy, label |-> l]
    <3>4. given.policy = prompt.policy /\ given.label = l /\ granted' \ granted \subseteq {given}
      BY <3>3
    <3> HIDE DEF given
    <3> QED BY <3>1, <3>2, <3>4
  <2>3. Setting!GrantsAreGiven'
    BY <2>2 DEF Setting!SInv, Setting!GrantsAreGiven
  <2> QED BY <2>1, <2>3 DEF Setting!SInv, Setting!TypeOK
<1>6. CASE UNCHANGED Setting!vars
  BY <1>6 DEF Setting!vars, Setting!SInv, Setting!TypeOK, Setting!GrantsAreGiven
<1> QED BY <1>1, <1>2, <1>3, <1>4, <1>5, <1>6, ChangesSettingsKeeps, AskKeeps DEF Setting!Next

LEMMA SInvMeans ==
  ASSUME Setting!SInv
  PROVE  /\ Setting!TypeOK /\ Setting!SessionsFollowSettings /\ Setting!TyposNarrow
         /\ Setting!GrantsAreGiven
<1>1. \A t \in inflight :
        t.under = Setting!SessionOf(t.on) /\ (~t.closed => t.under = Setting!SessionOf(config))
  BY DEF Setting!SInv
<1>2. Setting!SessionsFollowSettings
  BY <1>1, SessionFields DEF Setting!SessionsFollowSettings
<1>3. Setting!TyposNarrow
  <2> SUFFICES ASSUME NEW t \in inflight
               PROVE  /\ t.on.mode \notin Setting!Modes \cup {"unset"} => t.under.mode = "read-only"
                      /\ t.on.policy \notin Setting!Policies \cup {"unset"} => t.under.policy = "never"
    BY DEF Setting!TyposNarrow
  <2>1. /\ t.under.mode = Setting!resolveSettings(t.on).mode
        /\ t.under.policy = Setting!resolveSettings(t.on).policy
    BY <1>1, SessionFields
  <2> QED BY <2>1, Resolves
<1> QED BY <1>2, <1>3 DEF Setting!SInv

-----------------------------------------------------------------------------
(* The editor: what its operators return.                                   *)

LEMMA TurnFields ==
  ASSUME NEW p, Surface(p)!TypeOK, NEW t \in Surface(p)!Turns
  PROVE  /\ turns[t] \in Surface(p)!Turn
         /\ turns[t].seq \in [{"main", "sub"} -> Nat]
         /\ turns[t].calls \in [{"main", "sub"} -> 0 .. p.calls + 1]
         /\ turns[t].edits \subseteq Surface(p)!Calls
         /\ turns[t].host \in Surface(p)!Hosts \cup {0}
BY DEF Surface!TypeOK, Surface!Turn

(* One turn of the function changes, to another record of a turn.           *)
LEMMA TurnsChange ==
  ASSUME NEW p, Surface(p)!TypeOK, NEW t \in Surface(p)!Turns, NEW r \in Surface(p)!Turn,
         turns' = [turns EXCEPT ![t] = r]
  PROVE  /\ turns' \in [Surface(p)!Turns -> Surface(p)!Turn] /\ turns'[t] = r
         /\ \A u \in Surface(p)!Turns \ {t} : turns'[u] = turns[u]
BY DEF Surface!TypeOK

LEMMA Tracks ==
  ASSUME NEW p, NEW v \in Surface(p)!View, NEW id, NEW seq \in Nat, NEW n \in Nat, n # 0
  PROVE  LET w == Surface(p)!trackSequence(v, id, seq, n) IN
         /\ w \in Surface(p)!View
         /\ w.turn = v.turn /\ w.status = v.status /\ w.tools = v.tools /\ w.expected = seq + n
         /\ v.dropped = 0 /\ ((seq = 0 /\ n = 1) \/ (v.turn = id /\ v.expected = seq)) => w.dropped = 0
<1>1. /\ v.turn \in Surface(p)!TurnIds \cup {Surface(p)!NoTurn}
      /\ v.status \in {"idle", "running", "finished"}
      /\ v.expected \in Nat /\ v.dropped \in Nat /\ v.tools \in SUBSET Surface(p)!Calls
  BY DEF Surface!View
<1> DEFINE gap == IF seq > v.expected THEN seq - v.expected ELSE 0
           dropped == IF v.turn = id THEN v.dropped + gap ELSE seq + n - 1
<1>2. gap \in Nat /\ seq + n - 1 \in Nat /\ seq + n \in Nat
  BY <1>1
<1>3. dropped \in Nat
  BY <1>1, <1>2
<1>4. v.dropped = 0 /\ ((seq = 0 /\ n = 1) \/ (v.turn = id /\ v.expected = seq)) => dropped = 0
  BY <1>1
<1>5. Surface(p)!trackSequence(v, id, seq, n) = [v EXCEPT !.dropped = dropped, !.expected = seq + n]
  BY DEF Surface!trackSequence
<1> HIDE DEF dropped, gap
<1> QED BY <1>1, <1>2, <1>3, <1>4, <1>5 DEF Surface!View

LEMMA ShowsStart ==
  ASSUME NEW p, NEW v \in Surface(p)!View, NEW id \in Surface(p)!TurnIds
  PROVE  LET w == Surface(p)!onTurnStarted(v, id) IN
         /\ w \in Surface(p)!View
         /\ w.turn = id /\ w.status = "running" /\ w.tools = {} /\ w.expected = 1
         /\ v.dropped = 0 => w.dropped = 0
<1> DEFINE w == Surface(p)!trackSequence(v, id, 0, 1)
<1>0. 0 \in Nat /\ 1 \in Nat /\ 1 # 0 /\ 0 + 1 = 1
  OBVIOUS
<1>1. /\ w \in Surface(p)!View /\ w.expected = 1
      /\ v.dropped = 0 => w.dropped = 0
  BY <1>0, Tracks
<1>2. Surface(p)!onTurnStarted(v, id) = [w EXCEPT !.turn = id, !.status = "running", !.tools = {}]
  BY DEF Surface!onTurnStarted
<1> HIDE DEF w
<1> QED BY <1>1, <1>2 DEF Surface!View

LEMMA ShowsCall ==
  ASSUME NEW p, NEW v \in Surface(p)!View, NEW id, NEW seq \in Nat, NEW n \in Surface(p)!Outcomes,
         NEW tools \in SUBSET Surface(p)!Calls
  PROVE  LET w == Surface(p)!onCall(v, id, seq, n, tools) IN
         /\ w \in Surface(p)!View
         /\ w.turn = v.turn /\ w.status = v.status /\ w.expected = seq + n
         /\ v.dropped = 0 /\ v.turn = id /\ v.expected = seq => w.dropped = 0
<1> DEFINE w == Surface(p)!trackSequence(v, id, seq, n)
<1>1. /\ w \in Surface(p)!View
      /\ w.turn = v.turn /\ w.status = v.status /\ w.tools = v.tools /\ w.expected = seq + n
      /\ v.dropped = 0 /\ v.turn = id /\ v.expected = seq => w.dropped = 0
  <2>1. n \in Nat /\ n # 0
    BY DEF Surface!Outcomes
  <2> QED BY <2>1, Tracks
<1>2. Surface(p)!onCall(v, id, seq, n, tools) = [w EXCEPT !.tools = w.tools \cup tools]
  BY DEF Surface!onCall
<1> HIDE DEF w
<1>3. w.tools \cup tools \in SUBSET Surface(p)!Calls
  BY <1>1 DEF Surface!View
<1> QED BY <1>1, <1>2, <1>3 DEF Surface!View

LEMMA ShowsTools ==
  ASSUME NEW p, NEW v \in Surface(p)!View, NEW id, NEW seq \in Nat, NEW n \in Surface(p)!Outcomes,
         NEW tools \in SUBSET Surface(p)!Calls
  PROVE  Surface(p)!onCall(v, id, seq, n, tools).tools = v.tools \cup tools
<1> DEFINE w == Surface(p)!trackSequence(v, id, seq, n)
<1>1. n \in Nat /\ n # 0
  BY DEF Surface!Outcomes
<1>2. w \in Surface(p)!View /\ w.tools = v.tools
  BY <1>1, Tracks
<1>3. Surface(p)!onCall(v, id, seq, n, tools) = [w EXCEPT !.tools = w.tools \cup tools]
  BY DEF Surface!onCall
<1> HIDE DEF w
<1> QED BY <1>2, <1>3 DEF Surface!View

LEMMA ShowsEnd ==
  ASSUME NEW p, NEW v \in Surface(p)!View, NEW id, NEW seq \in Nat
  PROVE  LET w == Surface(p)!onTurnCompleted(v, id, seq) IN
         /\ w \in Surface(p)!View /\ w.turn = v.turn /\ w.status = "finished"
         /\ v.dropped = 0 /\ v.turn = id /\ v.expected = seq => w.dropped = 0
<1> DEFINE w == Surface(p)!trackSequence(v, id, seq, 1)
<1>1. /\ w \in Surface(p)!View /\ w.turn = v.turn
      /\ v.dropped = 0 /\ v.turn = id /\ v.expected = seq => w.dropped = 0
  BY Tracks
<1>2. Surface(p)!onTurnCompleted(v, id, seq) = [w EXCEPT !.status = "finished"]
  BY DEF Surface!onTurnCompleted
<1> HIDE DEF w
<1> QED BY <1>1, <1>2 DEF Surface!View

-----------------------------------------------------------------------------
(* The editor: what its actions do.                                         *)

LEMMA SubmitEffect ==
  ASSUME NEW p, Surface(p)!TypeOK, Surface(p)!Submit
  PROVE  \E t \in Surface(p)!Turns, h \in Surface(p)!Hosts :
           /\ turns[t].at = "unused" /\ turnOf[h] = 0 /\ Surface(p)!ActiveOn(h) = {}
           /\ host # 0 => h = host
           /\ turns'[t].host = h /\ turns'[t].at = "main" /\ turns'[t].seq["main"] = 1
           /\ turns'[t].calls = turns[t].calls /\ turns'[t].edits = turns[t].edits
           /\ \A u \in Surface(p)!Turns \ {t} : turns'[u] = turns[u]
           /\ turnOf' = [turnOf EXCEPT ![h] = t]
           /\ view'.turn = Surface(p)!TurnId(t, "main") /\ view'.status = "running" /\ view'.expected = 1
           /\ view.dropped = 0 => view'.dropped = 0
           /\ host' = h /\ running' /\ review' = {}
           /\ UNCHANGED <<settled, reverting, refused, ghost>>
           /\ Surface(p)!TypeOK'
<1> DEFINE h == IF host = 0 THEN made + 1 ELSE host
<1>1. /\ h \in Surface(p)!Hosts /\ turnOf[h] = 0 /\ Surface(p)!ActiveOn(h) = {}
      /\ host' = h /\ made' = (IF host = 0 THEN h ELSE made) /\ running' = TRUE /\ review' = {}
      /\ UNCHANGED <<settled, reverting, refused, ghost>>
  BY DEF Surface!Submit
<1>2. PICK t \in Surface(p)!Unused :
        /\ turns' = [turns EXCEPT ![t].host = h, ![t].at = "main", ![t].seq["main"] = 1]
        /\ turnOf' = [turnOf EXCEPT ![h] = t]
        /\ view' = Surface(p)!onTurnStarted(view, Surface(p)!TurnId(t, "main"))
  BY DEF Surface!Submit
<1>3. host # 0 => h = host
  OBVIOUS
<1> HIDE DEF h
<1>4. t \in Surface(p)!Turns /\ turns[t].at = "unused"
  BY DEF Surface!Unused
<1> DEFINE r == [turns[t] EXCEPT !.host = h, !.at = "main", !.seq = [turns[t].seq EXCEPT !["main"] = 1]]
<1>5. [turns[t].seq EXCEPT !["main"] = 1] \in [{"main", "sub"} -> Nat]
  BY <1>4, TurnFields
<1>6. /\ r \in Surface(p)!Turn /\ r.host = h /\ r.at = "main" /\ r.seq["main"] = 1
      /\ r.calls = turns[t].calls /\ r.edits = turns[t].edits
  BY <1>1, <1>4, <1>5, TurnFields DEF Surface!Turn
<1>7. turns' = [turns EXCEPT ![t] = r]
  BY <1>2
<1> HIDE DEF r
<1>8. /\ turns' \in [Surface(p)!Turns -> Surface(p)!Turn] /\ turns'[t] = r
      /\ \A u \in Surface(p)!Turns \ {t} : turns'[u] = turns[u]
  BY <1>4, <1>6, <1>7, TurnsChange
<1>9. /\ view' \in Surface(p)!View
      /\ view'.turn = Surface(p)!TurnId(t, "main") /\ view'.status = "running" /\ view'.expected = 1
      /\ view.dropped = 0 => view'.dropped = 0
  <2>1. view \in Surface(p)!View /\ Surface(p)!TurnId(t, "main") \in Surface(p)!TurnIds
    BY <1>4 DEF Surface!TypeOK, Surface!TurnIds
  <2> QED BY <1>2, <2>1, ShowsStart
<1>10. Surface(p)!TypeOK'
  BY <1>1, <1>2, <1>4, <1>8, <1>9 DEF Surface!TypeOK
<1> QED BY <1>1, <1>2, <1>3, <1>4, <1>6, <1>8, <1>9, <1>10

LEMMA CallToolEffect ==
  ASSUME NEW p, Surface(p)!TypeOK, p.calls \in Nat, NEW t \in Surface(p)!Turns,
         NEW n \in Surface(p)!Outcomes, Surface(p)!CallTool(t, n)
  PROVE  LET l == turns[t].at
             call == Surface(p)!Call(Surface(p)!TurnId(t, l), turns[t].calls[l] + 1) IN
         /\ l \in {"main", "sub"} /\ turns'[t].at = l /\ turns'[t].host = turns[t].host
         /\ turns'[t].seq[l] = turns[t].seq[l] + n
         /\ turns'[t].calls[l] = turns[t].calls[l] + 1 /\ turns[t].calls[l] \in Nat
         /\ \A e \in turns'[t].edits : e \in turns[t].edits \/ e \in review'
         /\ \A e \in review : e \in review'
         /\ \A u \in Surface(p)!Turns \ {t} : turns'[u] = turns[u]
         /\ view'.turn = view.turn /\ view'.status = view.status
         /\ \A c \in view.tools : c \in view'.tools
         /\ call \in view'.tools
         /\ view'.expected = turns[t].seq[l] + n
         /\ view.dropped = 0 /\ view.turn = Surface(p)!TurnId(t, l) /\ view.expected = turns[t].seq[l]
              => view'.dropped = 0
         /\ UNCHANGED <<host, made, turnOf, settled, reverting, running, refused, ghost>>
         /\ Surface(p)!TypeOK'
<1> DEFINE l == turns[t].at
           k == turns[t].calls[l]
           call == Surface(p)!Call(Surface(p)!TurnId(t, l), k + 1)
<1>1. /\ l \in {"main", "sub"} /\ k < p.calls
      /\ turns' = [turns EXCEPT ![t].seq[l] = @ + n, ![t].calls[l] = @ + 1,
                    ![t].edits = IF n = 4 THEN @ \cup {call} ELSE @]
      /\ view' = Surface(p)!onCall(view, Surface(p)!TurnId(t, l), turns[t].seq[l], n, {call})
      /\ review' = (IF n = 4 THEN review \cup {call} ELSE review)
      /\ UNCHANGED <<host, made, turnOf, settled, reverting, running, refused, ghost>>
  BY DEF Surface!CallTool, Surface!Live
<1> HIDE DEF l
<1>2. /\ turns[t].seq[l] \in Nat /\ k \in Nat /\ k + 1 \in 1 .. p.calls + 1 /\ k + 1 \in 0 .. p.calls + 1
      /\ n \in Nat \ {0} /\ turns[t].seq[l] + n \in Nat
  BY <1>1, TurnFields DEF Surface!Outcomes
<1>3. call \in Surface(p)!Calls
  BY <1>1, <1>2 DEF Surface!Calls, Surface!TurnIds
<1> HIDE DEF k, call
<1> DEFINE seq == [turns[t].seq EXCEPT ![l] = turns[t].seq[l] + n]
           calls == [turns[t].calls EXCEPT ![l] = k + 1]
           edits == IF n = 4 THEN turns[t].edits \cup {call} ELSE turns[t].edits
           r == [turns[t] EXCEPT !.seq = seq, !.calls = calls, !.edits = edits]
<1>4. /\ seq \in [{"main", "sub"} -> Nat] /\ calls \in [{"main", "sub"} -> 0 .. p.calls + 1]
      /\ edits \in SUBSET Surface(p)!Calls /\ seq[l] = turns[t].seq[l] + n /\ calls[l] = k + 1
  BY <1>1, <1>2, <1>3, TurnFields
<1>5. turns' = [turns EXCEPT ![t] = r]
  BY <1>1 DEF k
<1>6. \/ edits = turns[t].edits /\ review' = review
      \/ edits = turns[t].edits \cup {call} /\ review' = review \cup {call}
  BY <1>1
<1> HIDE DEF seq, calls, edits
<1>7. /\ r \in Surface(p)!Turn /\ r.at = turns[t].at /\ r.host = turns[t].host
      /\ r.seq = seq /\ r.calls = calls /\ r.edits = edits
  BY <1>4, TurnFields DEF Surface!Turn
<1> HIDE DEF r
<1>8. /\ turns' \in [Surface(p)!Turns -> Surface(p)!Turn] /\ turns'[t] = r
      /\ \A u \in Surface(p)!Turns \ {t} : turns'[u] = turns[u]
  BY <1>5, <1>7, TurnsChange
<1>9. /\ view' \in Surface(p)!View
      /\ view'.turn = view.turn /\ view'.status = view.status /\ view'.tools = view.tools \cup {call}
      /\ view'.expected = turns[t].seq[l] + n
      /\ view.dropped = 0 /\ view.turn = Surface(p)!TurnId(t, l) /\ view.expected = turns[t].seq[l]
           => view'.dropped = 0
  <2> DEFINE id == Surface(p)!TurnId(t, l)
             q == turns[t].seq[l]
             shown == {call}
  <2>1. view \in Surface(p)!View /\ shown \in SUBSET Surface(p)!Calls
    BY <1>3 DEF Surface!TypeOK
  <2>2. q \in Nat
    BY <1>2
  <2>3. view' = Surface(p)!onCall(view, id, q, n, shown)
    BY <1>1
  <2> HIDE DEF id, q, shown
  <2>4. /\ view' \in Surface(p)!View
        /\ view'.turn = view.turn /\ view'.status = view.status /\ view'.tools = view.tools \cup shown
        /\ view'.expected = q + n
        /\ view.dropped = 0 /\ view.turn = id /\ view.expected = q => view'.dropped = 0
    <3>1. /\ view' \in Surface(p)!View /\ view'.turn = view.turn /\ view'.status = view.status
          /\ view'.expected = q + n
          /\ view.dropped = 0 /\ view.turn = id /\ view.expected = q => view'.dropped = 0
      BY <2>1, <2>2, <2>3, ShowsCall
    <3>2. view'.tools = view.tools \cup shown
      BY <2>1, <2>2, <2>3, ShowsTools
    <3> QED BY <3>1, <3>2
  <2> QED BY <2>4 DEF id, q, shown
<1>10. Surface(p)!TypeOK'
  BY <1>1, <1>3, <1>8, <1>9 DEF Surface!TypeOK
<1>11. /\ \A c \in view.tools : c \in view'.tools
       /\ call \in view'.tools
       /\ \A e \in turns'[t].edits : e \in turns[t].edits \/ e \in review'
       /\ \A e \in review : e \in review'
  BY <1>6, <1>7, <1>8, <1>9
<1> QED BY <1>1, <1>2, <1>4, <1>7, <1>8, <1>9, <1>10, <1>11 DEF l, k, call

LEMMA CompletesEffect ==
  ASSUME NEW p, Surface(p)!TypeOK, NEW t \in Surface(p)!Turns, Surface(p)!Completes(t)
  PROVE  /\ turns[t].at = "main" /\ turns'[t].at = "over"
         /\ turns'[t].host = turns[t].host /\ turns'[t].edits = turns[t].edits
         /\ \A u \in Surface(p)!Turns \ {t} : turns'[u] = turns[u]
         /\ view'.turn = view.turn /\ view'.status = "finished"
         /\ view.dropped = 0 /\ view.turn = Surface(p)!TurnId(t, "main") /\ view.expected = turns[t].seq["main"]
              => view'.dropped = 0
         /\ turnOf' = [turnOf EXCEPT ![turns[t].host] = 0] /\ ~running'
         /\ UNCHANGED <<host, made, review, settled, reverting, refused, ghost>>
         /\ Surface(p)!TypeOK'
<1>1. /\ turns[t].at = "main" /\ running' = FALSE
      /\ turns' = [turns EXCEPT ![t].at = "over", ![t].seq["main"] = @ + 1]
      /\ view' = Surface(p)!onTurnCompleted(view, Surface(p)!TurnId(t, "main"), turns[t].seq["main"])
      /\ turnOf' = [turnOf EXCEPT ![turns[t].host] = 0]
      /\ UNCHANGED <<host, made, review, settled, reverting, refused, ghost>>
  BY DEF Surface!Completes
<1>2. /\ turns[t].seq["main"] \in Nat
      /\ [turns[t].seq EXCEPT !["main"] = turns[t].seq["main"] + 1] \in [{"main", "sub"} -> Nat]
  BY TurnFields
<1> DEFINE r == [turns[t] EXCEPT !.at = "over",
                     !.seq = [turns[t].seq EXCEPT !["main"] = turns[t].seq["main"] + 1]]
<1>3. r \in Surface(p)!Turn /\ r.at = "over" /\ r.host = turns[t].host /\ r.edits = turns[t].edits
  BY <1>2, TurnFields DEF Surface!Turn
<1>4. turns' = [turns EXCEPT ![t] = r]
  BY <1>1
<1> HIDE DEF r
<1>5. /\ turns' \in [Surface(p)!Turns -> Surface(p)!Turn] /\ turns'[t] = r
      /\ \A u \in Surface(p)!Turns \ {t} : turns'[u] = turns[u]
  BY <1>3, <1>4, TurnsChange
<1>6. /\ view' \in Surface(p)!View /\ view'.turn = view.turn /\ view'.status = "finished"
      /\ view.dropped = 0 /\ view.turn = Surface(p)!TurnId(t, "main")
           /\ view.expected = turns[t].seq["main"] => view'.dropped = 0
  <2>1. view \in Surface(p)!View
    BY DEF Surface!TypeOK
  <2> QED BY <1>1, <1>2, <2>1, ShowsEnd
<1>7. Surface(p)!TypeOK'
  BY <1>1, <1>5, <1>6 DEF Surface!TypeOK
<1> QED BY <1>1, <1>3, <1>5, <1>6, <1>7

LEMMA SubagentStartsEffect ==
  ASSUME NEW p, Surface(p)!TypeOK, NEW t \in Surface(p)!Turns, Surface(p)!SubagentStarts(t)
  PROVE  /\ turns[t].at = "main" /\ turns'[t].at = "sub" /\ turns'[t].host = turns[t].host
         /\ \A u \in Surface(p)!Turns \ {t} : turns'[u] = turns[u]
         /\ UNCHANGED <<host, made, turnOf, running>>
         /\ view'.turn = Surface(p)!TurnId(t, "sub")
         /\ Surface(p)!TypeOK'
<1>1. /\ turns[t].at = "main" /\ review' = {}
      /\ turns' = [turns EXCEPT ![t].at = "sub", ![t].seq["sub"] = 1]
      /\ view' = Surface(p)!onTurnStarted(view, Surface(p)!TurnId(t, "sub"))
      /\ UNCHANGED <<host, made, turnOf, settled, reverting, running, refused, ghost>>
  BY DEF Surface!SubagentStarts
<1>2. [turns[t].seq EXCEPT !["sub"] = 1] \in [{"main", "sub"} -> Nat]
  BY TurnFields
<1> DEFINE r == [turns[t] EXCEPT !.at = "sub", !.seq = [turns[t].seq EXCEPT !["sub"] = 1]]
<1>3. r \in Surface(p)!Turn /\ r.at = "sub" /\ r.host = turns[t].host
  BY <1>2, TurnFields DEF Surface!Turn
<1>4. turns' = [turns EXCEPT ![t] = r]
  BY <1>1
<1> HIDE DEF r
<1>5. /\ turns' \in [Surface(p)!Turns -> Surface(p)!Turn] /\ turns'[t] = r
      /\ \A u \in Surface(p)!Turns \ {t} : turns'[u] = turns[u]
  BY <1>3, <1>4, TurnsChange
<1>6. view' \in Surface(p)!View /\ view'.turn = Surface(p)!TurnId(t, "sub")
  <2>1. view \in Surface(p)!View /\ Surface(p)!TurnId(t, "sub") \in Surface(p)!TurnIds
    BY DEF Surface!TypeOK, Surface!TurnIds
  <2> QED BY <1>1, <2>1, ShowsStart
<1>7. Surface(p)!TypeOK'
  BY <1>1, <1>5, <1>6 DEF Surface!TypeOK
<1> QED BY <1>1, <1>3, <1>5, <1>6, <1>7

LEMMA SubagentCompletesEffect ==
  ASSUME NEW p, Surface(p)!TypeOK, NEW t \in Surface(p)!Turns, Surface(p)!SubagentCompletes(t)
  PROVE  /\ turns[t].at = "sub" /\ turns'[t].at = "main" /\ turns'[t].host = turns[t].host
         /\ \A u \in Surface(p)!Turns \ {t} : turns'[u] = turns[u]
         /\ turnOf' = [turnOf EXCEPT ![turns[t].host] = 0]
         /\ UNCHANGED <<host, made, running>>
         /\ view'.status = "finished"
         /\ Surface(p)!TypeOK'
<1>1. /\ turns[t].at = "sub" /\ turnOf' = [turnOf EXCEPT ![turns[t].host] = 0]
      /\ turns' = [turns EXCEPT ![t].at = "main", ![t].seq["sub"] = @ + 1]
      /\ view' = Surface(p)!onTurnCompleted(view, Surface(p)!TurnId(t, "sub"), turns[t].seq["sub"])
      /\ UNCHANGED <<host, made, review, settled, reverting, running, refused, ghost>>
  BY DEF Surface!SubagentCompletes
<1>2. /\ turns[t].seq["sub"] \in Nat
      /\ [turns[t].seq EXCEPT !["sub"] = turns[t].seq["sub"] + 1] \in [{"main", "sub"} -> Nat]
  BY TurnFields
<1> DEFINE r == [turns[t] EXCEPT !.at = "main",
                     !.seq = [turns[t].seq EXCEPT !["sub"] = turns[t].seq["sub"] + 1]]
<1>3. r \in Surface(p)!Turn /\ r.at = "main" /\ r.host = turns[t].host
  BY <1>2, TurnFields DEF Surface!Turn
<1>4. turns' = [turns EXCEPT ![t] = r]
  BY <1>1
<1> HIDE DEF r
<1>5. /\ turns' \in [Surface(p)!Turns -> Surface(p)!Turn] /\ turns'[t] = r
      /\ \A u \in Surface(p)!Turns \ {t} : turns'[u] = turns[u]
  BY <1>3, <1>4, TurnsChange
<1>6. view' \in Surface(p)!View /\ view'.status = "finished"
  <2>1. view \in Surface(p)!View
    BY DEF Surface!TypeOK
  <2> QED BY <1>1, <1>2, <2>1, ShowsEnd
<1>7. Surface(p)!TypeOK'
  BY <1>1, <1>5, <1>6 DEF Surface!TypeOK
<1> QED BY <1>1, <1>3, <1>5, <1>6, <1>7

LEMMA RejectsEffect ==
  ASSUME NEW p, Surface(p)!TypeOK, NEW t \in Surface(p)!Turns,
         Surface(p)!Rejects(t) \/ Surface(p)!SubagentRejects(t)
  PROVE  /\ turns[t].at = "main" =>
              /\ turns'[t].at = "rejected" /\ turnOf' = [turnOf EXCEPT ![turns[t].host] = 0]
              /\ ~running'
         /\ turns[t].at = "sub" =>
              turns'[t].at = "main" /\ turnOf' = turnOf /\ running' = running
         /\ turns'[t].host = turns[t].host /\ turns'[t].edits = turns[t].edits
         /\ \A u \in Surface(p)!Turns \ {t} : turns'[u] = turns[u]
         /\ UNCHANGED <<host, made, view, review, settled, reverting, refused, ghost>>
         /\ Surface(p)!TypeOK'
<1> DEFINE r(where) == [turns[t] EXCEPT !.at = where]
<1>1. ASSUME NEW where \in {"rejected", "main"}
      PROVE  /\ r(where) \in Surface(p)!Turn /\ r(where).at = where
             /\ r(where).host = turns[t].host /\ r(where).edits = turns[t].edits
  BY TurnFields DEF Surface!Turn
<1>2. PICK where \in {"rejected", "main"} :
        /\ turns' = [turns EXCEPT ![t] = r(where)]
        /\ \/ /\ turns[t].at = "main" /\ where = "rejected"
              /\ turnOf' = [turnOf EXCEPT ![turns[t].host] = 0] /\ running' = FALSE
           \/ /\ turns[t].at = "sub" /\ where = "main" /\ turnOf' = turnOf /\ running' = running
        /\ UNCHANGED <<host, made, view, review, settled, reverting, refused, ghost>>
  BY DEF Surface!Rejects, Surface!SubagentRejects
<1> HIDE DEF r
<1>3. /\ turns' \in [Surface(p)!Turns -> Surface(p)!Turn] /\ turns'[t] = r(where)
      /\ \A u \in Surface(p)!Turns \ {t} : turns'[u] = turns[u]
  BY <1>1, <1>2, TurnsChange
<1>4. Surface(p)!TypeOK'
  BY <1>2, <1>3 DEF Surface!TypeOK
<1> QED BY <1>1, <1>2, <1>3, <1>4

(* What is done to the review, the context key and the completion.          *)
LEMMA AsideEffect ==
  ASSUME NEW p, Surface(p)!TypeOK,
         \/ Surface(p)!Accept \/ Surface(p)!RevertStarts \/ Surface(p)!RevertEnds
         \/ Surface(p)!RevertDeclined \/ Surface(p)!Debounce \/ Surface(p)!Complete
         \/ Surface(p)!Completed
  PROVE  Surface(p)!TypeOK' /\ UNCHANGED <<host, made, turnOf, turns, view, running, refused>>
<1> USE DEF Surface!TypeOK
<1>1. CASE Surface(p)!Accept
  BY <1>1 DEF Surface!Accept
<1>2. CASE Surface(p)!RevertStarts
  BY <1>2 DEF Surface!RevertStarts
<1>3. CASE Surface(p)!RevertEnds
  BY <1>3 DEF Surface!RevertEnds
<1>4. CASE Surface(p)!RevertDeclined
  BY <1>4 DEF Surface!RevertDeclined
<1>5. CASE Surface(p)!Debounce
  BY <1>5 DEF Surface!Debounce
<1>6. CASE Surface(p)!Complete
  BY <1>6 DEF Surface!Complete
<1>7. CASE Surface(p)!Completed
  BY <1>7 DEF Surface!Completed
<1> QED BY <1>1, <1>2, <1>3, <1>4, <1>5, <1>6, <1>7

LEMMA SubmitFailsEffect ==
  ASSUME NEW p, Surface(p)!TypeOK, Surface(p)!SubmitFails
  PROVE  \E h \in Surface(p)!Hosts :
           /\ (host # 0 => h = host) /\ turnOf[h] = 0
           /\ host' = h /\ ~running'
           /\ (Surface(p)!ActiveOn(h) = {} => refused' = refused)
           /\ UNCHANGED <<turnOf, turns, view, review, settled, reverting, ghost>>
           /\ Surface(p)!TypeOK'
<1> DEFINE h == IF host = 0 THEN made + 1 ELSE host
<1>1. /\ h \in Surface(p)!Hosts /\ turnOf[h] = 0 /\ host' = h /\ running' = FALSE
      /\ made' = (IF host = 0 THEN h ELSE made) /\ refused' = (refused \/ Surface(p)!ActiveOn(h) # {})
      /\ UNCHANGED <<turnOf, turns, view, review, settled, reverting, ghost>>
  BY DEF Surface!SubmitFails
<1>2. host # 0 => h = host
  OBVIOUS
<1> HIDE DEF h
<1>3. refused \in BOOLEAN
  BY DEF Surface!TypeOK
<1>4. refused' \in BOOLEAN /\ (Surface(p)!ActiveOn(h) = {} => refused' = refused)
  BY <1>1, <1>3, Zenon
<1>5. Surface(p)!TypeOK'
  BY <1>1, <1>4 DEF Surface!TypeOK
<1> QED BY <1>1, <1>2, <1>4, <1>5

LEMMA CancelEffect ==
  ASSUME NEW p, Surface(p)!TypeOK, Surface(p)!Cancel \/ Surface(p)!Reset
  PROVE  /\ \A t \in Surface(p)!Turns :
              /\ turns'[t].at = turns[t].at /\ turns'[t].host = turns[t].host
              /\ turns'[t].seq = turns[t].seq /\ turns'[t].calls = turns[t].calls
              /\ turns'[t].edits = turns[t].edits
         /\ \/ Surface(p)!Cancel /\ UNCHANGED <<host, turnOf>>
            \/ Surface(p)!Reset /\ host' = 0 /\ turnOf' = [turnOf EXCEPT ![host] = 0]
         /\ UNCHANGED <<made, view, review, settled, reverting, running, refused>>
         /\ Surface(p)!TypeOK'
<1> DEFINE Stopped(t) == [turns[t] EXCEPT !.cancelled = TRUE]
<1>1. ASSUME NEW t \in Surface(p)!Turns
      PROVE  /\ Stopped(t) \in Surface(p)!Turn /\ Stopped(t).at = turns[t].at
             /\ Stopped(t).host = turns[t].host /\ Stopped(t).seq = turns[t].seq
             /\ Stopped(t).calls = turns[t].calls /\ Stopped(t).edits = turns[t].edits
  BY TurnFields DEF Surface!Turn
<1>2. CASE Surface(p)!Cancel
  <2>1. /\ turnOf[host] \in Surface(p)!Turns
        /\ turns' = [turns EXCEPT ![turnOf[host]] = Stopped(turnOf[host])]
        /\ UNCHANGED <<host, made, turnOf, view, review, settled, reverting, running, refused, ghost>>
    BY <1>2 DEF Surface!Cancel, Surface!TypeOK
  <2> HIDE DEF Stopped
  <2>2. turns' \in [Surface(p)!Turns -> Surface(p)!Turn]
    BY <1>1, <2>1, TurnsChange
  <2>3. \A t \in Surface(p)!Turns : turns'[t] = turns[t] \/ turns'[t] = Stopped(t)
    BY <1>1, <2>1, TurnsChange
  <2> QED BY <1>1, <1>2, <2>1, <2>2, <2>3 DEF Surface!TypeOK
<1>3. CASE Surface(p)!Reset
  <2>1. /\ turns' = [t \in Surface(p)!Turns |->
                       IF t \in Surface(p)!ActiveOn(host) THEN Stopped(t) ELSE turns[t]]
        /\ turnOf' = [turnOf EXCEPT ![host] = 0] /\ host' = 0
        /\ UNCHANGED <<made, view, review, settled, reverting, running, refused, ghost>>
    BY <1>3 DEF Surface!Reset
  <2> HIDE DEF Stopped
  <2>2. \A t \in Surface(p)!Turns : turns'[t] = turns[t] \/ turns'[t] = Stopped(t)
    BY <2>1
  <2>3. turns' \in [Surface(p)!Turns -> Surface(p)!Turn]
    <3>1. \A t \in Surface(p)!Turns : turns[t] \in Surface(p)!Turn
      BY TurnFields
    <3> QED BY <1>1, <2>1, <3>1
  <2> QED BY <1>1, <1>3, <2>1, <2>2, <2>3 DEF Surface!TypeOK
<1> QED BY <1>2, <1>3

-----------------------------------------------------------------------------
(* The editor: once every turn is over it is at rest.                       *)

LEMMA RestInvInit ==
  ASSUME NEW p, Surface(p)!SurfaceAssumption, Surface(p)!Init PROVE Surface(p)!RestInv
<1>1. turnOf = [h \in Surface(p)!Hosts |-> 0] /\ running = FALSE /\ view.status = "idle"
  BY DEF Surface!Init
<1>2. Surface(p)!TypeOK
  <2>1. /\ turns \in [Surface(p)!Turns -> Surface(p)!Turn]
        /\ turnOf \in [Surface(p)!Hosts -> Surface(p)!Turns \cup {0}]
    BY DEF Surface!Init, Surface!Turn, Surface!SurfaceAssumption
  <2>2. view \in Surface(p)!View
    BY DEF Surface!Init, Surface!View
  <2>3. {running, refused} \subseteq BOOLEAN
    BY DEF Surface!Init
  <2> QED BY <2>1, <2>2, <2>3 DEF Surface!Init, Surface!TypeOK
<1> QED
  BY <1>1, <1>2
     DEF Surface!RestInv, Surface!HostsKnowTheirTurns, Surface!KeyIsLive, Surface!ShownAsRunning

LEMMA RestInvStep ==
  ASSUME NEW p, Surface(p)!SurfaceAssumption, Surface(p)!RestInv, [Surface(p)!Next]_(Surface(p)!vars)
  PROVE  Surface(p)!RestInv'
<1> DEFINE Goal == Surface(p)!RestInv'
<1>1. Surface(p)!TypeOK /\ p.calls \in Nat
  BY DEF Surface!RestInv, Surface!SurfaceAssumption
<1>2. \A t \in Surface(p)!Turns : turns[t].host \in Surface(p)!Hosts \cup {0}
  BY <1>1, TurnFields
<1>3. /\ 0 \notin Surface(p)!Turns /\ 0 \notin Surface(p)!Hosts
      /\ \A h \in Surface(p)!Hosts : turnOf[h] \in Surface(p)!Turns \cup {0}
      /\ turnOf \in [Surface(p)!Hosts -> Surface(p)!Turns \cup {0}]
  BY <1>1 DEF Surface!TypeOK, Surface!Turns, Surface!Hosts
<1> USE DEF Surface!RestInv, Surface!HostsKnowTheirTurns, Surface!KeyIsLive,
            Surface!ShownAsRunning, Surface!OnScreen, Surface!Live
<1>4. CASE Surface(p)!Submit
  <2>1. PICK t \in Surface(p)!Turns, h \in Surface(p)!Hosts :
          /\ turns'[t].at = "main" /\ turns'[t].host = h /\ turnOf' = [turnOf EXCEPT ![h] = t]
          /\ \A u \in Surface(p)!Turns \ {t} : turns'[u] = turns[u]
          /\ turns[t].at = "unused" /\ view'.turn = Surface(p)!TurnId(t, "main") /\ Surface(p)!TypeOK'
    BY <1>1, <1>4, SubmitEffect
  <2>3. \A g \in Surface(p)!Hosts : turnOf[g] # 0 => turnOf[g] # t
    BY <2>1
  <2> QED BY <1>3, <2>1, <2>3
<1>5. CASE Surface(p)!SubmitFails
  <2>1. turns' = turns /\ turnOf' = turnOf /\ view' = view /\ ~running' /\ Surface(p)!TypeOK'
    BY <1>1, <1>5, SubmitFailsEffect
  <2> QED BY <2>1
<1>6. CASE Surface(p)!Cancel \/ Surface(p)!Reset
  <2>1. /\ \A t \in Surface(p)!Turns : turns'[t].at = turns[t].at /\ turns'[t].host = turns[t].host
        /\ \A h \in Surface(p)!Hosts : turnOf'[h] \in {turnOf[h], 0}
        /\ UNCHANGED <<view, running>> /\ Surface(p)!TypeOK'
    BY <1>1, <1>3, <1>6, CancelEffect
  <2> QED BY <1>3, <2>1
<1>7. CASE \/ Surface(p)!Accept \/ Surface(p)!RevertStarts \/ Surface(p)!RevertEnds
           \/ Surface(p)!RevertDeclined \/ Surface(p)!Debounce \/ Surface(p)!Complete
           \/ Surface(p)!Completed
  <2>1. Surface(p)!TypeOK' /\ UNCHANGED <<turnOf, turns, view, running>>
    BY <1>1, <1>7, AsideEffect
  <2> QED BY <2>1
<1>8. ASSUME NEW t \in Surface(p)!Turns, NEW n \in Surface(p)!Outcomes, Surface(p)!CallTool(t, n)
      PROVE  Goal
  <2>1. /\ turns'[t].at = turns[t].at /\ turns'[t].host = turns[t].host
        /\ \A u \in Surface(p)!Turns \ {t} : turns'[u] = turns[u]
        /\ turnOf' = turnOf /\ view'.status = view.status /\ view'.turn = view.turn
        /\ running' = running /\ Surface(p)!TypeOK'
    BY <1>1, <1>8, CallToolEffect
  <2> QED BY <1>3, <2>1
<1>9. ASSUME NEW t \in Surface(p)!Turns, Surface(p)!SubagentStarts(t) PROVE Goal
  <2>1. /\ turns'[t].at = "sub" /\ turns'[t].host = turns[t].host
        /\ \A u \in Surface(p)!Turns \ {t} : turns'[u] = turns[u]
        /\ turnOf' = turnOf /\ view'.turn = Surface(p)!TurnId(t, "sub") /\ Surface(p)!TypeOK'
    BY <1>1, <1>9, SubagentStartsEffect
  <2> QED BY <1>3, <2>1
<1>10. ASSUME NEW t \in Surface(p)!Turns, Surface(p)!SubagentCompletes(t) PROVE Goal
  <2>1. /\ turns'[t].at = "main" /\ turns'[t].host = turns[t].host
        /\ \A u \in Surface(p)!Turns \ {t} : turns'[u] = turns[u]
        /\ \A h \in Surface(p)!Hosts : turnOf'[h] \in {turnOf[h], 0}
        /\ view'.status = "finished" /\ Surface(p)!TypeOK'
    BY <1>1, <1>3, <1>10, SubagentCompletesEffect
  <2> QED BY <1>3, <2>1
<1>11. ASSUME NEW t \in Surface(p)!Turns, Surface(p)!Completes(t) PROVE Goal
  <2>1. /\ \A u \in Surface(p)!Turns \ {t} : turns'[u] = turns[u]
        /\ turnOf' = [turnOf EXCEPT ![turns[t].host] = 0] /\ ~running' /\ view'.status = "finished"
        /\ Surface(p)!TypeOK'
    BY <1>1, <1>11, CompletesEffect
  <2>2. ASSUME NEW h \in Surface(p)!Hosts, turnOf'[h] # 0
        PROVE  turnOf[h] = turnOf'[h] /\ turnOf[h] # t
    BY <1>3, <2>1, <2>2
  <2> QED BY <1>3, <2>1, <2>2
<1>12. ASSUME NEW t \in Surface(p)!Turns, Surface(p)!Rejects(t) PROVE Goal
  <2>0. turns[t].at = "main"
    BY <1>12 DEF Surface!Rejects
  <2>1. /\ turns'[t].at = "rejected" /\ \A u \in Surface(p)!Turns \ {t} : turns'[u] = turns[u]
        /\ turnOf' = [turnOf EXCEPT ![turns[t].host] = 0] /\ ~running' /\ view' = view
        /\ Surface(p)!TypeOK'
    BY <1>1, <1>12, <2>0, RejectsEffect
  <2>2. ASSUME NEW h \in Surface(p)!Hosts, turnOf'[h] # 0
        PROVE  turnOf[h] = turnOf'[h] /\ turnOf[h] # t
    BY <1>3, <2>1, <2>2
  <2> QED BY <1>3, <2>1, <2>2
<1>13. ASSUME NEW t \in Surface(p)!Turns, Surface(p)!SubagentRejects(t) PROVE Goal
  <2>0. turns[t].at = "sub"
    BY <1>13 DEF Surface!SubagentRejects
  <2>1. /\ turns'[t].at = "main" /\ turns'[t].host = turns[t].host
        /\ \A u \in Surface(p)!Turns \ {t} : turns'[u] = turns[u]
        /\ turnOf' = turnOf /\ view' = view /\ running' = running /\ Surface(p)!TypeOK'
    BY <1>1, <1>13, <2>0, RejectsEffect
  <2> QED BY <1>3, <2>1
<1>14. CASE UNCHANGED Surface(p)!vars
  <2>1. UNCHANGED <<host, made, turnOf, turns, view, review, settled, reverting, running, refused, ghost>>
    BY <1>14 DEF Surface!vars
  <2>2. Surface(p)!TypeOK'
    BY <1>1, <2>1 DEF Surface!TypeOK
  <2> QED BY <2>1, <2>2
<1> QED
  BY <1>4, <1>5, <1>6, <1>7, <1>8, <1>9, <1>10, <1>11, <1>12, <1>13, <1>14
     DEF Surface!Next, Surface!User, Surface!Engine

LEMMA RestInvMeans == ASSUME NEW p, Surface(p)!RestInv PROVE Surface(p)!TypeOK /\ Surface(p)!RestIsRest
<1>1. \A h \in Surface(p)!Hosts : turnOf[h] \in Surface(p)!Turns \cup {0}
  BY DEF Surface!RestInv, Surface!TypeOK
<1> QED
  BY <1>1
     DEF Surface!RestInv, Surface!HostsKnowTheirTurns, Surface!KeyIsLive, Surface!ShownAsRunning,
         Surface!RestIsRest

-----------------------------------------------------------------------------
(* The editor without subagents, changed settings and reverts: the view is   *)
(* of the one turn in flight.                                               *)

Plain(p) == ~p.subagents /\ ~p.resets /\ ~p.reverts

LEMMA TurnIdsDiffer ==
  ASSUME NEW p, NEW t, NEW l, NEW u, NEW m, Surface(p)!TurnId(t, l) = Surface(p)!TurnId(u, m)
  PROVE  t = u
BY DEF Surface!TurnId

LEMMA OneIsLive ==
  ASSUME NEW p, Surface(p)!TypeOK, Surface(p)!ViewIsCurrent,
         NEW t \in Surface(p)!Turns, Surface(p)!Live(t)
  PROVE  /\ \A u \in Surface(p)!Turns : Surface(p)!Live(u) => u = t
         /\ host \in Surface(p)!Hosts /\ turnOf[host] = t /\ t # 0
BY DEF Surface!ViewIsCurrent, Surface!TypeOK, Surface!Turns

LEMMA PlainInvInit ==
  ASSUME NEW p, Surface(p)!SurfaceAssumption, Surface(p)!Init PROVE Surface(p)!PlainInv
<1>1. Surface(p)!RestInv
  BY RestInvInit
<1>2. /\ turns = [t \in Surface(p)!Turns |->
             [host |-> 0, at |-> "unused", cancelled |-> FALSE, seq |-> [l \in {"main", "sub"} |-> 0],
              calls |-> [l \in {"main", "sub"} |-> 0], edits |-> {}]]
      /\ view.dropped = 0 /\ ~refused /\ reverting = {}
  BY DEF Surface!Init
<1>3. \A t \in Surface(p)!Turns :
        turns[t].at = "unused" /\ turns[t].edits = {} /\ turns[t].calls["main"] = 0
  BY <1>2
<1>4. \A t \in Surface(p)!Turns : ~Surface(p)!Live(t)
  BY <1>3 DEF Surface!Live
<1>5. Surface(p)!ViewIsCurrent /\ Surface(p)!TranscriptIsHonest
  BY <1>4 DEF Surface!ViewIsCurrent, Surface!TranscriptIsHonest
<1>6. Surface(p)!UnusedAreBlank /\ Surface(p)!EditsAwaitReview
  BY <1>3 DEF Surface!UnusedAreBlank, Surface!Unused, Surface!EditsAwaitReview, Surface!OnScreen
<1> QED BY <1>1, <1>2, <1>5, <1>6 DEF Surface!PlainInv

LEMMA PlainInvMeans ==
  ASSUME NEW p, Surface(p)!PlainInv
  PROVE  /\ Surface(p)!TypeOK /\ Surface(p)!TranscriptIsHonest /\ Surface(p)!RunningIsKnown
         /\ Surface(p)!CancelReaches /\ Surface(p)!EditsAwaitReview /\ Surface(p)!RestIsRest
<1>1. /\ Surface(p)!TypeOK /\ Surface(p)!RestIsRest /\ Surface(p)!TranscriptIsHonest
      /\ Surface(p)!EditsAwaitReview /\ Surface(p)!ViewIsCurrent /\ ~refused
      /\ Surface(p)!KeyIsLive /\ Surface(p)!ShownAsRunning
  BY RestInvMeans DEF Surface!PlainInv, Surface!RestInv
<1>2. Surface(p)!RunningIsKnown
  <2> DEFINE inFlight == \E t \in Surface(p)!Turns : Surface(p)!Live(t)
  <2>1. inFlight => running /\ view.status = "running"
    BY <1>1 DEF Surface!ViewIsCurrent
  <2>2. running => inFlight
    BY <1>1 DEF Surface!KeyIsLive
  <2>3. running \in BOOLEAN
    BY <1>1 DEF Surface!TypeOK
  <2> HIDE DEF inFlight
  <2>4. running = inFlight /\ (inFlight => view.status = "running")
    <3>1. inFlight \in BOOLEAN
      BY DEF inFlight
    <3> QED BY <2>1, <2>2, <2>3, <3>1, Zenon
  <2> QED BY <1>1, <2>4 DEF Surface!RunningIsKnown, inFlight
<1>3. Surface(p)!CancelReaches
  BY <1>1, OneIsLive DEF Surface!CancelReaches, Surface!ActiveOn
<1> QED BY <1>1, <1>2, <1>3

LEMMA SubmitKeepsPlain ==
  ASSUME NEW p, Surface(p)!PlainInv, Surface(p)!Submit, Surface(p)!RestInv'
  PROVE  Surface(p)!PlainInv'
<1>1. /\ Surface(p)!TypeOK /\ Surface(p)!ViewIsCurrent /\ Surface(p)!UnusedAreBlank
      /\ ~refused /\ reverting = {} /\ view.dropped = 0
  BY DEF Surface!PlainInv, Surface!RestInv
<1>2. PICK t \in Surface(p)!Turns, h \in Surface(p)!Hosts :
        /\ turns[t].at = "unused" /\ turnOf[h] = 0 /\ (host # 0 => h = host)
        /\ turns'[t].host = h /\ turns'[t].at = "main" /\ turns'[t].seq["main"] = 1
        /\ turns'[t].calls = turns[t].calls /\ turns'[t].edits = turns[t].edits
        /\ \A u \in Surface(p)!Turns \ {t} : turns'[u] = turns[u]
        /\ turnOf' = [turnOf EXCEPT ![h] = t]
        /\ view'.turn = Surface(p)!TurnId(t, "main") /\ view'.status = "running" /\ view'.expected = 1
        /\ view.dropped = 0 => view'.dropped = 0
        /\ host' = h /\ running'
        /\ UNCHANGED <<reverting, refused>>
  BY <1>1, SubmitEffect
<1>3. \A u \in Surface(p)!Turns : ~Surface(p)!Live(u)
  BY <1>1, <1>2, OneIsLive DEF Surface!Hosts
<1>4. \A u \in Surface(p)!Turns : Surface(p)!Live(u)' => u = t
  BY <1>2, <1>3 DEF Surface!Live
<1>5. turns'[t].edits = {} /\ turns'[t].calls["main"] = 0
  BY <1>1, <1>2 DEF Surface!UnusedAreBlank, Surface!Unused
<1>6. turnOf'[h] = t /\ h # 0
  BY <1>1, <1>2 DEF Surface!TypeOK, Surface!Hosts
<1>7. Surface(p)!ViewIsCurrent'
  BY <1>2, <1>4, <1>6 DEF Surface!ViewIsCurrent
<1>8. Surface(p)!UnusedAreBlank'
  BY <1>1, <1>2 DEF Surface!UnusedAreBlank, Surface!Unused
<1>9. Surface(p)!TranscriptIsHonest'
  <2>1. Surface(p)!Reported(t)' = {}
    BY <1>5 DEF Surface!Reported
  <2> QED BY <1>1, <1>2, <1>4, <2>1 DEF Surface!TranscriptIsHonest
<1>10. Surface(p)!EditsAwaitReview'
  BY <1>2, <1>5, TurnIdsDiffer DEF Surface!EditsAwaitReview, Surface!OnScreen
<1> QED BY <1>1, <1>2, <1>7, <1>8, <1>9, <1>10 DEF Surface!PlainInv

LEMMA SubmitFailsKeepsPlain ==
  ASSUME NEW p, Surface(p)!PlainInv, Surface(p)!SubmitFails, Surface(p)!RestInv'
  PROVE  Surface(p)!PlainInv'
<1>1. Surface(p)!TypeOK /\ Surface(p)!ViewIsCurrent
  BY DEF Surface!PlainInv, Surface!RestInv
<1>2. PICK h \in Surface(p)!Hosts :
        /\ (host # 0 => h = host) /\ turnOf[h] = 0
        /\ (Surface(p)!ActiveOn(h) = {} => refused' = refused)
        /\ UNCHANGED <<turns, view, review, settled, reverting>>
  BY <1>1, SubmitFailsEffect
<1>3. \A u \in Surface(p)!Turns : ~Surface(p)!Live(u)
  BY <1>1, <1>2, OneIsLive DEF Surface!Hosts
<1>4. refused' = refused
  BY <1>2, <1>3 DEF Surface!ActiveOn
<1>5. \A u \in Surface(p)!Turns : ~Surface(p)!Live(u)'
  BY <1>2, <1>3 DEF Surface!Live
<1> QED
  BY <1>2, <1>4, <1>5
     DEF Surface!PlainInv, Surface!ViewIsCurrent, Surface!UnusedAreBlank, Surface!Unused,
         Surface!TranscriptIsHonest, Surface!EditsAwaitReview, Surface!OnScreen

(* What touches neither a turn's progress nor the view.                     *)
LEMMA AsideKeepsPlain ==
  ASSUME NEW p, Surface(p)!PlainInv, Surface(p)!RestInv',
         \A t \in Surface(p)!Turns :
            /\ turns'[t].at = turns[t].at /\ turns'[t].host = turns[t].host
            /\ turns'[t].seq = turns[t].seq /\ turns'[t].calls = turns[t].calls
            /\ turns'[t].edits = turns[t].edits,
         host' = host, turnOf' = turnOf, view' = view, reverting' = reverting,
         running' = running, refused' = refused,
         review \cup settled \subseteq review' \cup settled'
  PROVE  Surface(p)!PlainInv'
<1> USE DEF Surface!PlainInv
<1>0. \A t \in Surface(p)!Turns : Surface(p)!Live(t)' = Surface(p)!Live(t)
  BY DEF Surface!Live
<1>1. Surface(p)!ViewIsCurrent'
  BY <1>0 DEF Surface!ViewIsCurrent
<1>2. Surface(p)!UnusedAreBlank'
  BY DEF Surface!UnusedAreBlank, Surface!Unused
<1>3. Surface(p)!TranscriptIsHonest'
  <2>1. \A t \in Surface(p)!Turns : Surface(p)!Reported(t)' = Surface(p)!Reported(t)
    BY DEF Surface!Reported
  <2> QED BY <1>0, <2>1 DEF Surface!TranscriptIsHonest
<1>4. Surface(p)!EditsAwaitReview'
  BY DEF Surface!EditsAwaitReview, Surface!OnScreen
<1> QED BY <1>1, <1>2, <1>3, <1>4

LEMMA CallToolKeepsPlain ==
  ASSUME NEW p, p.calls \in Nat, Surface(p)!PlainInv, NEW t \in Surface(p)!Turns,
         NEW n \in Surface(p)!Outcomes, Surface(p)!CallTool(t, n), Surface(p)!RestInv'
  PROVE  Surface(p)!PlainInv'
<1>1. /\ Surface(p)!TypeOK /\ Surface(p)!ViewIsCurrent /\ Surface(p)!UnusedAreBlank
      /\ Surface(p)!TranscriptIsHonest /\ Surface(p)!EditsAwaitReview
      /\ ~refused /\ reverting = {} /\ view.dropped = 0
  BY DEF Surface!PlainInv, Surface!RestInv
<1>2. Surface(p)!Live(t)
  BY DEF Surface!CallTool
<1>3. /\ turns[t].at = "main" /\ turns[t].host = host /\ host # 0 /\ turnOf[host] = t
      /\ running /\ view.status = "running"
      /\ view.turn = Surface(p)!TurnId(t, "main") /\ view.expected = turns[t].seq["main"]
  BY <1>1, <1>2 DEF Surface!ViewIsCurrent
<1> DEFINE l == turns[t].at
<1>4. /\ l = "main" /\ view.turn = Surface(p)!TurnId(t, l) /\ view.expected = turns[t].seq[l]
      /\ Surface(p)!TypeOK /\ view.dropped = 0
  BY <1>1, <1>3
<1>5. /\ \A e \in turns'[t].edits : e \in turns[t].edits \/ e \in review'
      /\ \A e \in review : e \in review'
      /\ \A u \in Surface(p)!Turns \ {t} : turns'[u] = turns[u]
      /\ \A c \in view.tools : c \in view'.tools
  BY <1>1, CallToolEffect
<1>6. /\ host' = host /\ turnOf' = turnOf /\ settled' = settled /\ reverting' = reverting
      /\ running' = running /\ refused' = refused
  BY <1>1, CallToolEffect
<1>7. /\ turns'[t].at = l /\ turns'[t].host = turns[t].host
      /\ turns'[t].seq[l] = turns[t].seq[l] + n
      /\ turns'[t].calls[l] = turns[t].calls[l] + 1 /\ turns[t].calls[l] \in Nat
      /\ view'.turn = view.turn /\ view'.status = view.status
      /\ Surface(p)!Call(Surface(p)!TurnId(t, l), turns[t].calls[l] + 1) \in view'.tools
      /\ view'.expected = turns[t].seq[l] + n
      /\ view'.dropped = 0
  BY <1>4, CallToolEffect
<1> HIDE DEF l
<1>8. /\ turns'[t].at = "main" /\ turns'[t].host = turns[t].host
      /\ turns'[t].seq["main"] = turns[t].seq["main"] + n
      /\ turns'[t].calls["main"] = turns[t].calls["main"] + 1 /\ turns[t].calls["main"] \in Nat
      /\ view'.turn = view.turn /\ view'.status = view.status
      /\ Surface(p)!Call(Surface(p)!TurnId(t, "main"), turns[t].calls["main"] + 1) \in view'.tools
      /\ view'.expected = turns[t].seq["main"] + n /\ view'.dropped = 0
  BY <1>4, <1>7
<1>9. \A u \in Surface(p)!Turns : Surface(p)!Live(u)' => u = t
  BY <1>1, <1>2, <1>5, OneIsLive DEF Surface!Live
<1>10. Surface(p)!ViewIsCurrent'
  BY <1>3, <1>6, <1>8, <1>9 DEF Surface!ViewIsCurrent
<1>11. Surface(p)!UnusedAreBlank'
  BY <1>1, <1>5, <1>8 DEF Surface!UnusedAreBlank, Surface!Unused
<1>12. Surface(p)!TranscriptIsHonest'
  <2>1. Surface(p)!Reported(t) \subseteq view.tools
    BY <1>1, <1>2 DEF Surface!TranscriptIsHonest
  <2>2. ASSUME NEW k \in 1 .. turns'[t].calls["main"]
        PROVE  Surface(p)!Call(Surface(p)!TurnId(t, "main"), k) \in view'.tools
    <3>1. k \in 1 .. turns[t].calls["main"] \/ k = turns[t].calls["main"] + 1
      BY <1>8
    <3> QED BY <1>5, <1>8, <2>1, <3>1 DEF Surface!Reported
  <2> QED BY <1>8, <1>9, <2>2 DEF Surface!TranscriptIsHonest, Surface!Reported
<1>13. Surface(p)!EditsAwaitReview'
  <2>1. turns[t].edits \subseteq review \cup settled
    BY <1>1, <1>3 DEF Surface!EditsAwaitReview, Surface!OnScreen
  <2> QED BY <1>3, <1>5, <1>6, <1>8, <2>1, TurnIdsDiffer DEF Surface!EditsAwaitReview, Surface!OnScreen
<1> QED BY <1>1, <1>6, <1>8, <1>10, <1>11, <1>12, <1>13 DEF Surface!PlainInv

LEMMA CompletesKeepsPlain ==
  ASSUME NEW p, Surface(p)!PlainInv, NEW t \in Surface(p)!Turns, Surface(p)!Completes(t),
         Surface(p)!RestInv'
  PROVE  Surface(p)!PlainInv'
<1>1. /\ Surface(p)!TypeOK /\ Surface(p)!ViewIsCurrent /\ Surface(p)!UnusedAreBlank
      /\ Surface(p)!EditsAwaitReview /\ ~refused /\ reverting = {} /\ view.dropped = 0
  BY DEF Surface!PlainInv, Surface!RestInv
<1>2. turns[t].at = "main" /\ Surface(p)!Live(t)
  BY DEF Surface!Completes, Surface!Live
<1>3. view.turn = Surface(p)!TurnId(t, "main") /\ view.expected = turns[t].seq["main"]
  BY <1>1, <1>2 DEF Surface!ViewIsCurrent
<1>4. /\ turns'[t].at = "over" /\ turns'[t].edits = turns[t].edits
      /\ \A u \in Surface(p)!Turns \ {t} : turns'[u] = turns[u]
      /\ view'.turn = view.turn /\ view'.dropped = 0
      /\ UNCHANGED <<review, settled, reverting, refused>>
  BY <1>1, <1>3, CompletesEffect
<1>5. \A u \in Surface(p)!Turns : ~Surface(p)!Live(u)'
  BY <1>1, <1>2, <1>4, OneIsLive DEF Surface!Live
<1>6. Surface(p)!UnusedAreBlank'
  BY <1>1, <1>4 DEF Surface!UnusedAreBlank, Surface!Unused
<1>7. Surface(p)!EditsAwaitReview'
  BY <1>1, <1>4 DEF Surface!EditsAwaitReview, Surface!OnScreen
<1> QED
  BY <1>1, <1>4, <1>5, <1>6, <1>7
     DEF Surface!PlainInv, Surface!ViewIsCurrent, Surface!TranscriptIsHonest

LEMMA RejectsKeepsPlain ==
  ASSUME NEW p, Surface(p)!PlainInv, NEW t \in Surface(p)!Turns, Surface(p)!Rejects(t),
         Surface(p)!RestInv'
  PROVE  Surface(p)!PlainInv'
<1>1. /\ Surface(p)!TypeOK /\ Surface(p)!ViewIsCurrent /\ Surface(p)!UnusedAreBlank
      /\ Surface(p)!EditsAwaitReview /\ ~refused /\ reverting = {} /\ view.dropped = 0
  BY DEF Surface!PlainInv, Surface!RestInv
<1>2. turns[t].at = "main" /\ Surface(p)!Live(t)
  BY DEF Surface!Rejects, Surface!Live
<1>3. /\ turns'[t].at = "rejected" /\ turns'[t].edits = turns[t].edits
      /\ \A u \in Surface(p)!Turns \ {t} : turns'[u] = turns[u]
      /\ UNCHANGED <<view, review, settled, reverting, refused>>
  BY <1>1, <1>2, RejectsEffect
<1>4. \A u \in Surface(p)!Turns : ~Surface(p)!Live(u)'
  BY <1>1, <1>2, <1>3, OneIsLive DEF Surface!Live
<1>5. Surface(p)!UnusedAreBlank'
  BY <1>1, <1>3 DEF Surface!UnusedAreBlank, Surface!Unused
<1>6. Surface(p)!EditsAwaitReview'
  BY <1>1, <1>3 DEF Surface!EditsAwaitReview, Surface!OnScreen
<1> QED
  BY <1>1, <1>3, <1>4, <1>5, <1>6
     DEF Surface!PlainInv, Surface!ViewIsCurrent, Surface!TranscriptIsHonest

LEMMA PlainInvStep ==
  ASSUME NEW p, Surface(p)!SurfaceAssumption, Plain(p), Surface(p)!PlainInv,
         [Surface(p)!Next]_(Surface(p)!vars)
  PROVE  Surface(p)!PlainInv'
<1>1. /\ Surface(p)!RestInv /\ Surface(p)!TypeOK /\ Surface(p)!ViewIsCurrent /\ p.calls \in Nat
      /\ reverting = {}
  BY DEF Surface!PlainInv, Surface!RestInv, Surface!SurfaceAssumption
<1>2. Surface(p)!RestInv'
  BY <1>1, RestInvStep
<1>3. CASE Surface(p)!Submit
  BY <1>2, <1>3, SubmitKeepsPlain
<1>4. CASE Surface(p)!SubmitFails
  BY <1>2, <1>4, SubmitFailsKeepsPlain
<1>5. CASE Surface(p)!Cancel \/ Surface(p)!Reset
  <2>1. /\ \A t \in Surface(p)!Turns :
             /\ turns'[t].at = turns[t].at /\ turns'[t].host = turns[t].host
             /\ turns'[t].seq = turns[t].seq /\ turns'[t].calls = turns[t].calls
             /\ turns'[t].edits = turns[t].edits
        /\ UNCHANGED <<view, review, settled, reverting, running, refused>>
    BY <1>1, <1>5, CancelEffect
  <2>2. UNCHANGED <<host, turnOf>>
    BY <1>5 DEF Plain, Surface!Cancel, Surface!Reset
  <2> QED BY <1>2, <2>1, <2>2, AsideKeepsPlain
<1>6. CASE Surface(p)!Accept \/ Surface(p)!Debounce \/ Surface(p)!Complete \/ Surface(p)!Completed
  <2>1. UNCHANGED <<host, turnOf, turns, view, reverting, running, refused>>
    BY <1>6 DEF Surface!Accept, Surface!Debounce, Surface!Complete, Surface!Completed
  <2>2. review \cup settled \subseteq review' \cup settled'
    BY <1>6 DEF Surface!Accept, Surface!Debounce, Surface!Complete, Surface!Completed
  <2> QED BY <1>2, <2>1, <2>2, AsideKeepsPlain
<1>7. ~Surface(p)!RevertStarts /\ ~Surface(p)!RevertEnds /\ ~Surface(p)!RevertDeclined
  BY <1>1 DEF Plain, Surface!RevertStarts, Surface!RevertEnds, Surface!RevertDeclined
<1>8. ASSUME NEW t \in Surface(p)!Turns, NEW n \in Surface(p)!Outcomes, Surface(p)!CallTool(t, n)
      PROVE  Surface(p)!PlainInv'
  BY <1>1, <1>2, <1>8, CallToolKeepsPlain
<1>9. ASSUME NEW t \in Surface(p)!Turns
      PROVE  /\ ~Surface(p)!SubagentStarts(t) /\ ~Surface(p)!SubagentCompletes(t)
             /\ ~Surface(p)!SubagentRejects(t)
  BY <1>1 DEF Plain, Surface!SubagentStarts, Surface!SubagentCompletes, Surface!SubagentRejects,
              Surface!ViewIsCurrent, Surface!Live
<1>10. ASSUME NEW t \in Surface(p)!Turns, Surface(p)!Completes(t) PROVE Surface(p)!PlainInv'
  BY <1>2, <1>10, CompletesKeepsPlain
<1>11. ASSUME NEW t \in Surface(p)!Turns, Surface(p)!Rejects(t) PROVE Surface(p)!PlainInv'
  BY <1>2, <1>11, RejectsKeepsPlain
<1>12. CASE UNCHANGED Surface(p)!vars
  <2>1. UNCHANGED <<host, turnOf, turns, view, review, settled, reverting, running, refused>>
    BY <1>12 DEF Surface!vars
  <2> QED BY <1>2, <2>1, AsideKeepsPlain
<1> QED
  BY <1>3, <1>4, <1>5, <1>6, <1>7, <1>8, <1>9, <1>10, <1>11, <1>12
     DEF Surface!Next, Surface!User, Surface!Engine

-----------------------------------------------------------------------------
(* The parts together: each keeps the inductive invariant of its component.  *)

Parts == {"careful", "careless", "hasty", "plain", "undo", "full", "review", "settings"}

PartsInv ==
  /\ part \in Parts
  /\ part = "careful" => Careful!DInv
  /\ part = "careless" => Careless!CInv
  /\ part = "hasty" => Hasty!CInv
  /\ part = "plain" => Surface(Typing)!PlainInv
  /\ part = "undo" => Surface(Undoing)!RestInv
  /\ part = "full" => Surface(Delegating)!RestInv
  /\ part = "settings" => Setting!SInv

LEMMA PartsInit == Init => PartsInv
<1> SUFFICES ASSUME Init PROVE PartsInv
  OBVIOUS
<1>1. CASE part = "careful" /\ Careful!Init
  BY <1>1, Careful!DInvInit DEF PartsInv, Parts
<1>2. CASE part = "careless" /\ Careless!Init
  BY <1>2, Careless!CInvInit DEF PartsInv, Parts
<1>3. CASE part = "hasty" /\ Hasty!Init
  BY <1>3, Hasty!CInvInit DEF PartsInv, Parts
<1>4. CASE part = "plain" /\ Surface(Typing)!Init
  BY <1>4, ConstantsAreLegal, PlainInvInit DEF PartsInv, Parts
<1>5. CASE part = "undo" /\ Surface(Undoing)!Init
  BY <1>5, ConstantsAreLegal, RestInvInit DEF PartsInv, Parts
<1>6. CASE part = "full" /\ Surface(Delegating)!Init
  BY <1>6, ConstantsAreLegal, RestInvInit DEF PartsInv, Parts
<1>7. CASE part = "review"
  BY <1>7 DEF PartsInv, Parts
<1>8. CASE part = "settings" /\ Setting!Init
  BY <1>8, SInvInit DEF PartsInv, Parts
<1> QED BY <1>1, <1>2, <1>3, <1>4, <1>5, <1>6, <1>7, <1>8 DEF Init

(* A step is one of the part chosen at the start.                           *)
LEMMA StepsOfAPart ==
  ASSUME Next
  PROVE  /\ part' = part
         /\ part = "careful" => Careful!Next
         /\ part = "careless" => Careless!Next
         /\ part = "hasty" => Hasty!Next
         /\ part = "plain" => Surface(Typing)!Next
         /\ part = "undo" => Surface(Undoing)!Next
         /\ part = "full" => Surface(Delegating)!Next
         /\ part = "settings" => Setting!Next
BY Zenon DEF Next

LEMMA StuttersOfAPart ==
  ASSUME UNCHANGED vars
  PROVE  /\ part' = part
         /\ UNCHANGED Careful!vars /\ UNCHANGED Careless!vars /\ UNCHANGED Hasty!vars
         /\ UNCHANGED Surface(Typing)!vars /\ UNCHANGED Surface(Undoing)!vars
         /\ UNCHANGED Surface(Delegating)!vars /\ UNCHANGED Setting!vars
BY DEF vars, sdkVars, editorVars, settingVars, Careful!vars, Careless!vars, Hasty!vars,
       Surface!vars, Setting!vars

LEMMA PartsStep == PartsInv /\ [Next]_vars => PartsInv'
<1> SUFFICES ASSUME PartsInv, [Next]_vars PROVE PartsInv'
  OBVIOUS
<1>1. /\ part' = part
      /\ part = "careful" => [Careful!Next]_(Careful!vars)
      /\ part = "careless" => [Careless!Next]_(Careless!vars)
      /\ part = "hasty" => [Hasty!Next]_(Hasty!vars)
      /\ part = "plain" => [Surface(Typing)!Next]_(Surface(Typing)!vars)
      /\ part = "undo" => [Surface(Undoing)!Next]_(Surface(Undoing)!vars)
      /\ part = "full" => [Surface(Delegating)!Next]_(Surface(Delegating)!vars)
      /\ part = "settings" => [Setting!Next]_(Setting!vars)
  BY StepsOfAPart, StuttersOfAPart
<1>2. part = "careful" => Careful!DInv'
  BY <1>1, ConstantsAreLegal, Careful!DInvStep DEF PartsInv
<1>3. part = "careless" => Careless!CInv'
  BY <1>1, ConstantsAreLegal, Careless!CInvStep DEF PartsInv
<1>4. part = "hasty" => Hasty!CInv'
  BY <1>1, ConstantsAreLegal, Hasty!CInvStep DEF PartsInv
<1>5. part = "plain" => Surface(Typing)!PlainInv'
  BY <1>1, ConstantsAreLegal, PlainInvStep DEF PartsInv, Plain
<1>6. part = "undo" => Surface(Undoing)!RestInv'
  BY <1>1, ConstantsAreLegal, RestInvStep DEF PartsInv
<1>7. part = "full" => Surface(Delegating)!RestInv'
  BY <1>1, ConstantsAreLegal, RestInvStep DEF PartsInv
<1>8. part = "settings" => Setting!SInv'
  BY <1>1, SInvStep DEF PartsInv
<1> QED BY <1>1, <1>2, <1>3, <1>4, <1>5, <1>6, <1>7, <1>8 DEF PartsInv

LEMMA PartsMean == PartsInv => ClosedAndCounted /\ ViewIsHonest /\ SettingsAreObeyed
<1> SUFFICES ASSUME PartsInv PROVE ClosedAndCounted /\ ViewIsHonest /\ SettingsAreObeyed
  OBVIOUS
<1>1. part = "careful" => Careful!CInv /\ Careful!DisposeWaits
  BY Careful!DInvMeans DEF PartsInv, Careful!DInv
<1>2. ClosedAndCounted
  BY <1>1, Careful!CInvMeans, Careless!CInvMeans, Hasty!CInvMeans DEF PartsInv, ClosedAndCounted
<1>3. ViewIsHonest
  BY PlainInvMeans, RestInvMeans DEF PartsInv, ViewIsHonest
<1>4. SettingsAreObeyed
  BY SInvMeans DEF PartsInv, SettingsAreObeyed
<1> QED BY <1>2, <1>3, <1>4

LEMMA AlwaysPartsInv == Spec => []PartsInv
BY PartsInit, PartsStep, PTL DEF Spec

(* Whatever an embedder of the SDK client does, a session the engine has    *)
(* forgotten has no turn that runs on uncancelled and its totals hold each  *)
(* collected turn once; to one that awaits every run dispose returns when   *)
(* no turn runs (packages/sdk/src/internal/client.ts).                      *)
THEOREM SessionsAreClosedAndCounted == Spec => []ClosedAndCounted
BY AlwaysPartsInv, PartsMean, PTL

(* While session and client are open the approval router never refuses in   *)
(* the place of a handler whose policy lets it be asked (client.ts).        *)
THEOREM NobodyIsRefusedFalsely == Spec => NoFalseRefusal
<1>1. ASSUME PartsInv, Next, part \in {"careful", "careless", "hasty"}, client # "disposed",
             NEW t \in refused' \ refused
      PROVE  sess[turn[t].of].at # "open"
  <2>1. CASE part = "careful"
    BY <1>1, <2>1, StepsOfAPart, Careful!RefusalStep DEF PartsInv, Careful!DInv
  <2>2. CASE part = "careless"
    BY <1>1, <2>2, StepsOfAPart, Careless!RefusalStep DEF PartsInv
  <2>3. CASE part = "hasty"
    BY <1>1, <2>3, StepsOfAPart, Hasty!RefusalStep DEF PartsInv
  <2> QED BY <1>1, <2>1, <2>2, <2>3
<1>2. PartsInv /\ [Next]_vars =>
        [(part \in {"careful", "careless", "hasty"} /\ client # "disposed") =>
           \A t \in refused' \ refused : sess[turn[t].of].at # "open"]_vars
  BY <1>1
<1> QED BY <1>2, AlwaysPartsInv, PTL DEF Spec, NoFalseRefusal

(* However many prompts, hosts and tool calls there are, the plain editor    *)
(* shows every call of the turn in flight, says it runs while it does, can   *)
(* cancel it and keeps its edits for review; and every editor is at rest     *)
(* once no turn is in flight, though its view goes on calling a turn that    *)
(* rejected running (apps/vscode/src/controller.ts).                         *)
THEOREM TheViewStaysHonest == Spec => []ViewIsHonest
BY AlwaysPartsInv, PartsMean, PTL

(* Whatever configurations are offered, a turn not told to stop runs under   *)
(* those in force, a misspelled one narrows, and a grant was the user's      *)
(* answer to a prompt the policy permitted (apps/vscode/src/settings.ts).    *)
THEOREM SettingsStayObeyed == Spec => []SettingsAreObeyed
BY AlwaysPartsInv, PartsMean, PTL

=================================================================================
