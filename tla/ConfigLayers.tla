------------------------------ MODULE ConfigLayers ------------------------------
(***************************************************************************)
(* How adze run and adze chat come by their settings: the user's config    *)
(* file, then the workspace's, then the environment                        *)
(* (packages/cli/src/config/loader.ts), then the flags                     *)
(* (packages/cli/src/config/resolve.ts, agent/flags.ts).  A file is broken,*)
(* or holds leaves that may be unset, legal or unreadable (Bad); a section *)
(* that is no object loses its leaves.                                     *)
(*                                                                         *)
(* A command and a rule's prefix are sequences of letters.                 *)
(***************************************************************************)
EXTENDS Naturals, SequencesExt

CONSTANTS
  Files,         (* What a config file may hold; Missing and Broken among them. *)
  Missing, Broken,
  Environments,  (* What the environment may say, leaf by leaf.             *)
  FlagSets,      (* What the flags may say, leaf by leaf.                   *)
  Commands,      (* The commands a property asks about.                     *)
  Workspace,     (* The workspace root.                                     *)
  Letters,
  Unset, Bad

Policy == INSTANCE CommandPolicy WITH Words <- Letters, OsLevel <- FALSE

SectionOf ==
  [mode |-> "sandbox", roots |-> "sandbox", policy |-> "approvals", js |-> "plugins",
   hooks |-> "plugins", model |-> "engine", tokens |-> "engine", gallery |-> "gallery",
   allow |-> "commandRules", forbid |-> "commandRules", prompt |-> "commandRules",
   alias |-> "top"]

Leaves == DOMAIN SectionOf

VARIABLES
  inputs,    (* The files, the environment and the flags of this invocation. *)
  layers,    (* The layers read so far: [source, leaves], nearest last.      *)
  loaded,    (* LoadedConfig: leaf -> [value, source], and the rules.        *)
  warned,    (* The <<source, leaf>> pairs a warning named.                  *)
  settings,  (* The invocation, once resolved.                               *)
  pc

vars == <<inputs, layers, loaded, warned, settings, pc>>

Init ==
  /\ inputs \in [user: Files, workspace: Files, env: Environments, flags: FlagSets]
  /\ layers = <<>> /\ loaded = Unset /\ warned = {} /\ settings = Unset
  /\ pc = "user"

-----------------------------------------------------------------------------
(* Reading the files.                                                      *)

(* parseOneFile: what a file's leaves are, once its unusable sections are   *)
(* dropped; a leaf of a legal section is kept as it is.                     *)
LeavesOf(file) ==
  [l \in Leaves |-> IF SectionOf[l] \in file.flat THEN Unset ELSE file.leaves[l]]

Dropped(source, file) ==
  {<<source, l>> : l \in {k \in Leaves : SectionOf[k] \in file.flat /\ file.leaves[k] # Unset}}

(* One turn of readConfigLayers' loop; the rules of a layer are iterated    *)
(* later, and what cannot be iterated is a TypeError then.                  *)
Read(source, next) ==
  LET file == inputs[source] IN
  /\ pc = source
  /\ UNCHANGED <<inputs, loaded, settings>>
  /\ \/ file = Missing /\ pc' = next /\ UNCHANGED <<layers, warned>>
     \/ file = Broken /\ pc' = "config error" /\ UNCHANGED <<layers, warned>>
     \/ /\ file \notin {Missing, Broken}
        /\ layers' = Append(layers, [source |-> source, leaves |-> LeavesOf(file)])
        /\ warned' = warned \cup Dropped(source, file)
        /\ pc' = next

ReadUser      == Read("user", "workspace")
ReadWorkspace == Read("workspace", "resolve")

-----------------------------------------------------------------------------
(* What the files say.                                                     *)

Narrowest == [mode |-> "read-only", policy |-> "never"]

(* The per-field validators: narrowed, ignored, or taken; Unset is ignored. *)
Valid(leaf, raw) ==
  IF raw = Bad THEN IF leaf \in DOMAIN Narrowest THEN Narrowest[leaf] ELSE Unset
  ELSE IF leaf = "roots" THEN LET kept == {r \in raw : r.absolute} IN
                              IF kept = {} THEN Unset ELSE kept
  ELSE raw

(* A validator's warning: something of the raw value was not taken.         *)
Complains(leaf, raw) ==
  \/ raw = Bad
  \/ leaf = "roots" /\ raw # Unset /\ \E r \in raw : ~r.absolute

NotSet == [value |-> Unset, source |-> "default"]

Setting(leaf) == {i \in DOMAIN layers : layers[i].leaves[leaf] # Unset}

Nearest(S) == CHOOSE i \in S : \A j \in S : j <= i

(* layerValue and checkBool: the nearest layer that sets the leaf decides,  *)
(* even when what it says is ignored.  onHookFailure is picked by a         *)
(* function that turns an illegal value into an unset one, and an alias     *)
(* that is no string is likewise not there.                                 *)
layerValue(leaf) ==
  LET legal == {i \in Setting(leaf) : layers[i].leaves[leaf] # Bad}
      S == IF leaf \in {"hooks", "alias"} THEN legal ELSE Setting(leaf)
  IN IF S = {} THEN NotSet
     ELSE [value |-> Valid(leaf, layers[Nearest(S)].leaves[leaf]),
           source |-> layers[Nearest(S)].source]

(* The rules of every layer.  A list's entries are iterated as they are,    *)
(* and so are the letters of a bare text: no validator reads the rules.     *)
Entries(raw) ==
  CASE raw = Unset -> <<>>
    [] raw # Unset /\ raw.is = "list" -> raw.of
    [] raw # Unset /\ raw.is = "text" -> [i \in DOMAIN raw.of |-> <<raw.of[i]>>]

FileRules(leaf) ==
  FlattenSeq([i \in DOMAIN layers |->
    [k \in DOMAIN Entries(layers[i].leaves[leaf]) |->
      [prefix |-> Entries(layers[i].leaves[leaf])[k], source |-> layers[i].source]]])

(* A rule leaf that is not iterable: resolveFileValues throws.              *)
Uniterable == \E i \in DOMAIN layers, l \in {"allow", "forbid", "prompt"} :
                 layers[i].leaves[l] = Bad

-----------------------------------------------------------------------------
(* The environment over the files.                                         *)

(* envOrFiles: an illegal value warns and leaves the files' standing.       *)
envOrFiles(leaf, fromFiles) ==
  LET raw == inputs.env[leaf] IN
  IF raw \in {Unset, Bad} \/ Valid(leaf, raw) = Unset THEN fromFiles
  ELSE [value |-> Valid(leaf, raw), source |-> "env"]

(* An allow that repeats or extends a forbidden prefix is dropped; the      *)
(* exact repetitions dedupeExact drops first are among them.                *)
applyForbidWins(allow, forbid) ==
  SelectSeq(allow, LAMBDA rule :
    \A i \in DOMAIN forbid : ~IsPrefix(forbid[i].prefix, rule.prefix))

Sourced(prefixes, source) == [i \in DOMAIN prefixes |-> [prefix |-> prefixes[i], source |-> source]]

ListOf(raw) == IF raw = Unset THEN <<>> ELSE raw

WithEnv(leaf) == FileRules(leaf) \o Sourced(ListOf(inputs.env[leaf]), "env")

DefaultOf ==
  [mode |-> "workspace-write", policy |-> "on-request", roots |-> {}, js |-> FALSE,
   hooks |-> "refuse", model |-> Unset, tokens |-> Unset, gallery |-> Unset]

(* withFallback *)
withFallback(leaf, sourced) ==
  IF sourced.value # Unset THEN sourced ELSE [value |-> DefaultOf[leaf], source |-> "default"]

(* The deprecated alias stands in for a model no file sets; a gallery that  *)
(* is Microsoft's is dropped, wherever it came from.                        *)
FromFiles(leaf) ==
  IF leaf = "model" /\ layerValue("model").value = Unset THEN layerValue("alias")
  ELSE layerValue(leaf)

Overlaid(leaf) ==
  LET found == envOrFiles(leaf, FromFiles(leaf)) IN
  IF leaf = "gallery" /\ found.value = "marketplace" THEN NotSet ELSE found

(* What the loader warns about, of the layers that decide and of the rest.  *)
Warnings ==
  {<<layers[i].source, l>> : <<i, l>> \in
     {<<i, l>> \in (DOMAIN layers) \X (Leaves \ {"allow", "forbid", "prompt"}) :
        /\ Complains(l, layers[i].leaves[l])
        /\ l = "hooks" \/ i = Nearest(Setting(l))}}
  \cup {<<"env", l>> : l \in {k \in Leaves : inputs.env[k] # Unset /\ Complains(k, inputs.env[k])}}

(* resolveFileValues and applyEnvironment.                                  *)
Load ==
  /\ pc = "resolve"
  /\ IF Uniterable
       THEN pc' = "type error" /\ UNCHANGED <<loaded, warned>>
       ELSE /\ loaded' = [values |-> [l \in DOMAIN DefaultOf |-> withFallback(l, Overlaid(l))],
                          allow |-> applyForbidWins(WithEnv("allow"), WithEnv("forbid")),
                          forbid |-> WithEnv("forbid"),
                          prompt |-> WithEnv("prompt")]
            /\ warned' = warned \cup Warnings
            /\ pc' = "flags"
  /\ UNCHANGED <<inputs, layers, settings>>

-----------------------------------------------------------------------------
(* The flags over everything.                                              *)

FlagOr(leaf) ==
  IF inputs.flags[leaf] # Unset THEN inputs.flags[leaf] ELSE loaded.values[leaf].value

Acting(rules, action) == [i \in DOMAIN rules |-> [prefix |-> rules[i].prefix, action |-> action]]

(* The roots a plan is reported for and the roots the gate is given, as     *)
(* runRun and runChat pass them: none stands for the workspace alone.       *)
PlanRoots(roots) == {Workspace} \cup roots
GateRoots(roots) == IF roots # {} THEN {Workspace} \cup roots ELSE {}

(* resolveWithFlags: a bad flag is a UsageError, whatever the files say.    *)
ApplyFlags ==
  /\ pc = "flags"
  /\ UNCHANGED <<inputs, layers, loaded, warned>>
  /\ IF \E l \in Leaves : inputs.flags[l] = Bad
       THEN pc' = "usage error" /\ UNCHANGED settings
       ELSE LET forbid == loaded.forbid \o Sourced(ListOf(inputs.flags.forbid), "flag")
                allow == applyForbidWins(
                           loaded.allow \o Sourced(ListOf(inputs.flags.allow), "flag"), forbid)
            IN /\ settings' = [mode |-> FlagOr("mode"), policy |-> FlagOr("policy"),
                               js |-> loaded.values.js.value,
                               hooks |-> loaded.values.hooks.value,
                               model |-> FlagOr("model"), tokens |-> FlagOr("tokens"),
                               planned |-> PlanRoots(loaded.values.roots.value),
                               gated |-> GateRoots(loaded.values.roots.value),
                               rules |-> Acting(allow, "allow") \o Acting(forbid, "forbid")
                                         \o Acting(loaded.prompt, "prompt")]
               /\ pc' = "ready"

Next == ReadUser \/ ReadWorkspace \/ Load \/ ApplyFlags

Spec == Init /\ [][Next]_vars

-----------------------------------------------------------------------------
(* adze doctor, which reads the same files and environment, has no flags,   *)
(* and outlives what it cannot read (packages/cli/src/commands/doctor.ts).  *)

(* The layer a row of rules is said to come from.                           *)
ruleSource(rules) ==
  LET sources == {rules[i].source : i \in DOMAIN rules} IN
  IF sources = {} THEN "default"
  ELSE IF \E s \in sources : sources = {s} THEN CHOOSE s \in sources : TRUE ELSE "mixed"

(* The Config section: the layer each row is said to come from.             *)
renderConfig ==
  IF loaded = Unset THEN "unreadable"
  ELSE [row \in DOMAIN DefaultOf \cup {"allow", "forbid"} |->
          IF row \in DOMAIN DefaultOf THEN loaded.values[row].source ELSE ruleSource(loaded[row])]

(* The same as data: nothing is folded, and the prompt rules are there.     *)
configJson ==
  IF loaded = Unset THEN [readable |-> FALSE]
  ELSE [readable |-> TRUE, values |-> loaded.values,
        allow |-> loaded.allow, forbid |-> loaded.forbid, prompt |-> loaded.prompt]

(* What the Sandbox section is planned for: the defaults, when the file     *)
(* could not be read.                                                       *)
resolveDoctorSandbox ==
  IF loaded = Unset
    THEN [mode |-> DefaultOf.mode, policy |-> DefaultOf.policy, planned |-> PlanRoots({}), rules |-> <<>>]
    ELSE [mode |-> loaded.values.mode.value, policy |-> loaded.values.policy.value,
          planned |-> PlanRoots(loaded.values.roots.value),
          rules |-> Acting(loaded.allow, "allow") \o Acting(loaded.forbid, "forbid")
                    \o Acting(loaded.prompt, "prompt")]

-----------------------------------------------------------------------------
(* Properties.                                                             *)

(* What the loader has built is of LoadedConfig's and AgentInvocation's    *)
(* shape.                                                                  *)
TypeOK ==
  /\ pc \in {"user", "workspace", "resolve", "flags", "ready",
             "config error", "type error", "usage error"}
  /\ Len(layers) <= 2
  /\ warned \subseteq {"user", "workspace", "env"} \X Leaves
  /\ pc = "ready" => /\ settings.mode \in Policy!Modes
                     /\ settings.policy \in Policy!ApprovalPolicies
                     /\ settings.js \in BOOLEAN

(* The values that permit most, those that permit less, those that refuse.  *)
Permits(leaf, value) ==
  IF leaf = "js" THEN IF value THEN 1 ELSE 0
  ELSE IF value = "full-access" THEN 2
  ELSE IF value \in {"workspace-write", "on-request", "untrusted", "warn"} THEN 1
  ELSE 0

Closed == [mode |-> "read-only", policy |-> "never", js |-> FALSE, hooks |-> "refuse"]

(* The nearest layer that sets a leaf of a boundary, to a legal word or to  *)
(* a misspelled one, is never outbid by a file below it or by a default:    *)
(* only the environment or a flag may permit more than it says, and a       *)
(* misspelled word of it is the narrowest one.  A section that is no object *)
(* sets nothing: of it FlatSectionsRefuse speaks.                           *)
Outbids(leaf) ==
  LET S == Setting(leaf)
      word == layers[Nearest(S)].leaves[leaf]
  IN /\ S # {} /\ inputs.env[leaf] \in {Unset, Bad} /\ inputs.flags[leaf] = Unset
     /\ Permits(leaf, settings[leaf]) >
          Permits(leaf, IF word = Bad THEN Closed[leaf] ELSE word)

RefusalsStand == pc = "ready" => \A leaf \in {"mode", "policy", "js"} : ~Outbids(leaf)

(* For the reaction to a failing hook, as resolveFileValues says of every  *)
(* leaf: a lower file must not decide after a nearer file's typo.          *)
HookTyposRefuse == pc = "ready" => ~Outbids("hooks")

(* "A lower layer must not fill in for an explicit-but-invalid higher       *)
(* value" (loader.ts:658-660), of a section that is no object: it is        *)
(* dropped with a warning, and the file below it decides.                   *)
FlatSectionsRefuse ==
  pc = "ready" => \A leaf \in {"mode", "policy", "js"}, i \in DOMAIN layers :
    /\ <<layers[i].source, leaf>> \in Dropped(layers[i].source, inputs[layers[i].source])
    /\ \A j \in Setting(leaf) : j < i
    /\ inputs.env[leaf] \in {Unset, Bad} /\ inputs.flags[leaf] = Unset
    => Permits(leaf, settings[leaf]) <= Permits(leaf, Closed[leaf])

AllForbids == {loaded.forbid[i].prefix : i \in DOMAIN loaded.forbid}
              \cup ToSet(ListOf(inputs.flags.forbid))

Forbidden(command) == \E prefix \in AllForbids : IsPrefix(prefix, command)

(* Whichever layers a forbid and an allow come from, no command a forbid   *)
(* matches is allowed by a rule: the longest match is the gate's, and the  *)
(* narrower allow never reaches it.                                        *)
ForbidsHold ==
  pc = "ready" => \A command \in Commands :
    Forbidden(command) => Policy!matchCommandRule(settings.rules, command) # "allow"

(* What parseCommandRules says of --forbid: it is absolute, and is never   *)
(* offered for approval.                                                   *)
ForbidIsAbsolute ==
  pc = "ready" => \A command \in Commands :
    Forbidden(command) => Policy!matchCommandRule(settings.rules, command) = "forbid"

(* The boundary a surface reports is planned for the roots that the gate   *)
(* enforces.                                                               *)
RootsAgree ==
  pc = "ready" => settings.planned = IF settings.gated = {} THEN {Workspace} ELSE settings.gated

(* "The same call run and chat make, resolved from the same config chain, so *)
(* this command reports the boundary a user is actually about to get"        *)
(* (doctor.ts:920-924): without flags doctor's plan is the invocation's, its *)
(* rules, refiltered by the flags' pass, are the gate's; a configuration it  *)
(* calls unreadable is one no command starts under; and the layer a row      *)
(* names is one that says what the row shows.                                *)
DoctorForetells ==
  /\ pc \in {"config error", "type error"} => ~configJson.readable
  /\ pc = "usage error" => configJson.readable
  /\ pc = "ready" /\ (\A l \in Leaves : inputs.flags[l] = Unset) =>
       resolveDoctorSandbox = [f \in {"mode", "policy", "planned", "rules"} |-> settings[f]]
  /\ configJson.readable => \A row \in DOMAIN DefaultOf :
       LET said == configJson.values[row].value IN
       CASE renderConfig[row] = "default" -> said = DefaultOf[row]
         [] renderConfig[row] = "env" -> inputs.env[row] \notin {Unset, Bad}
         [] OTHER -> \E i \in DOMAIN layers :
              /\ layers[i].source = renderConfig[row]
              /\ \/ Valid(row, layers[i].leaves[row]) = said
                 \/ row = "model" /\ layers[i].leaves.alias = said

(* A word that was not taken, of the layer that decides, is told.          *)
NothingIgnoredSilently ==
  pc = "ready" => \A leaf \in DOMAIN DefaultOf : LET S == Setting(leaf) IN
    S # {} /\ Complains(leaf, layers[Nearest(S)].leaves[leaf])
      => <<layers[Nearest(S)].source, leaf>> \in warned

(* What lenientParse says of the sections it keeps verbatim: every reader  *)
(* below validates, so no rule comes from a list its schema refuses.       *)
RulesAreRead ==
  pc = "ready" => \A i \in DOMAIN layers, l \in {"allow", "forbid", "prompt"} :
    layers[i].leaves[l] # Unset =>
      /\ layers[i].leaves[l].is = "list"
      /\ \A k \in DOMAIN layers[i].leaves[l].of : layers[i].leaves[l].of[k] # <<>>

(* What validAbsoluteRoots says: when nothing absolute remains, a lower    *)
(* layer decides.                                                          *)
RootsFallThrough ==
  pc = "ready" /\ inputs.env.roots = Unset => \A i \in Setting("roots") :
    /\ layers[i].leaves.roots # Bad /\ \E r \in layers[i].leaves.roots : r.absolute
    /\ \A j \in Setting("roots") : j > i => Valid("roots", layers[j].leaves.roots) = Unset
    => loaded.values.roots.source = layers[i].source

=============================================================================
