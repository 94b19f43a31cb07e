----------------------------- MODULE PluginLoading -----------------------------
(***************************************************************************)
(* Plugin directories become loaded plugins, hooks, commands, providers and *)
(* subagents (packages/plugin-sdk/src/loader.ts, manifest.ts, tools.ts,     *)
(* registry.ts, agents.ts).                                                 *)
(*                                                                         *)
(* Roots are loaded one after the other and the files of a plugin one after *)
(* the other, with an await at each: a file may be gone when its turn comes. *)
(***************************************************************************)
EXTENDS Naturals, FiniteSetsExt, SequencesExt

CONSTANTS
  Disks,        (* What the roots hold: functions from root to manifest.   *)
  Roots,        (* The roots in the order they are given.                  *)
  Permitted,    (* allowUnsandboxedJs and allowNative.                     *)
  Runtimes,     (* Kinds of guest runtime the host supplied.               *)
  Claimed,      (* options.claimedNamespaces.                              *)
  Environment,  (* Environment variables that are set.                     *)
  Parents,      (* What a parent session may hold when it delegates.       *)
  None

LoadingAssumption ==
  /\ Permitted \subseteq {"js", "native"} /\ Runtimes \subseteq {"wasm", "js", "native"}
  /\ \A disk \in Disks : DOMAIN disk = ToSet(Roots)

VARIABLES
  disk,      (* What the roots hold in this run.                           *)
  roots,     (* Roots yet to be loaded.                                    *)
  loading,   (* Locals of loadPlugin, or None.                             *)
  plugins,   (* LoadedPlugin, in order.                                    *)
  failures,  (* Root and diagnostics of every refusal.                     *)
  ran        (* Modules whose code a runtime was asked to load.            *)

vars == <<disk, roots, loading, plugins, failures, ran>>

Init ==
  /\ disk \in Disks /\ roots = Roots
  /\ loading = None /\ plugins = <<>> /\ failures = <<>> /\ ran = {}

-----------------------------------------------------------------------------
(* manifest.ts.                                                             *)

Repeated(values) == {v \in ToSet(values) : Cardinality({i \in DOMAIN values : values[i] = v}) > 1}
Field(items, f(_)) == [i \in DOMAIN items |-> f(items[i])]

TransportFits(tool) ==
  IF tool.transport = "stdio" THEN tool.command /\ ~tool.url ELSE tool.url /\ ~tool.command

validateStructure(m) ==
  {"transport-fields" : t \in {t \in ToSet(m.tools) : ~TransportFits(t)}}
  \cup {"duplicate-name" : n \in Repeated(Field(m.tools, LAMBDA t : t.name))
                             \cup Repeated(Field(m.providers, LAMBDA p : p.name))
                             \cup Repeated(Field(m.providers, LAMBDA p : p.trigger))}

(* The text is scanned before it is parsed and parsed before it is trusted.  *)
parseManifest(m) ==
  IF m.text # "fine" THEN {m.text} ELSE validateStructure(m)

checkEngineCompatibility(m) == IF m.engines = "satisfied" THEN {} ELSE {m.engines}

namespaceClaim(m) == IF m.namespace \in Claimed THEN {} ELSE {"manifest-schema"}

Refusal(m) ==
  IF parseManifest(m) # {} THEN parseManifest(m)
  ELSE IF checkEngineCompatibility(m) # {} THEN checkEngineCompatibility(m)
  ELSE namespaceClaim(m)

resolveRuntime(c) ==
  IF c.runtime # None THEN c.runtime ELSE IF c.extension \in {"wasm", "js"} THEN c.extension ELSE None

(* tools.ts: a server that refers to a variable it did not declare, or one  *)
(* that is not set, is a refusal.                                           *)
translateToolContribution(m, tool) ==
  {"transport-fields" : v \in tool.variables \ (m.env \cap Environment)}

-----------------------------------------------------------------------------
(* loadPlugin.                                                              *)

Tag(kind, items) == [i \in DOMAIN items |-> [kind |-> kind, of |-> items[i]]]

(* The contributions that need a file, in the order they are awaited.        *)
FilesOf(m) ==
  Tag("hook", m.hooks) \o Tag("provider", SelectSeq(m.providers, LAMBDA p : p.type # "glob"))
  \o Tag("command", m.commands) \o Tag("agent", m.agents)

Refuse(root, diagnostics) ==
  /\ failures' = Append(failures, [root |-> root, diagnostics |-> diagnostics])
  /\ loading' = None

(* Reads and judges the manifest; whatever is wrong with it ends the load    *)
(* before any other file is touched.                                         *)
Open ==
  /\ loading = None /\ roots # <<>>
  /\ roots' = Tail(roots)
  /\ LET root == Head(roots)
         m    == disk[root]
     IN  \/ Refuse(root, {"manifest-unreadable"})
         \/ Refusal(m) # {} /\ Refuse(root, Refusal(m))
         \/ /\ Refusal(m) = {}
            /\ loading' = [root |-> root, todo |-> FilesOf(m), items |-> <<>>,
                           diagnostics |-> UNION {translateToolContribution(m, t) : t \in ToSet(m.tools)}]
            /\ UNCHANGED failures
  /\ UNCHANGED <<disk, plugins, ran>>

(* What refuses a module before its file is looked at, and what before a     *)
(* runtime sees it.                                                          *)
Barred(c) ==
  IF resolveRuntime(c) = None THEN "module-unloadable"
  ELSE IF ~c.filters THEN "manifest-schema"
  ELSE IF resolveRuntime(c) \in {"js", "native"} \ Permitted THEN "native-not-permitted"
  ELSE None
Unfit(c) ==
  IF resolveRuntime(c) = "js" /\ c.hidden THEN "hidden-characters"
  ELSE IF resolveRuntime(c) \notin Runtimes THEN "module-unloadable"
  ELSE None

Module(entry) == entry.kind \in {"hook", "provider"}

Kept(entry) == loading' = [loading EXCEPT !.todo = Tail(@), !.items = Append(@, entry)]
Dropped(diagnostic) ==
  loading' = [loading EXCEPT !.todo = Tail(@), !.diagnostics = @ \cup {diagnostic}]

(* A module that a runtime does not take may have run already.               *)
loadGuest(entry) ==
  /\ Module(entry)
  /\ \/ Barred(entry.of) # None /\ Dropped(Barred(entry.of)) /\ UNCHANGED ran
     \/ Barred(entry.of) = None /\ Dropped("file-missing") /\ UNCHANGED ran
     \/ Barred(entry.of) = None /\ Unfit(entry.of) # None /\ Dropped(Unfit(entry.of)) /\ UNCHANGED ran
     \/ /\ Barred(entry.of) = None /\ Unfit(entry.of) = None
        /\ ran' = ran \cup {[root |-> loading.root, entry |-> entry]}
        /\ Kept(entry) \/ Dropped("module-unloadable")

readReferenced(entry) ==
  /\ ~Module(entry)
  /\ \/ Dropped("file-missing")
     \/ entry.of.parses /\ Kept(entry)
     \/ ~entry.of.parses /\ Dropped("frontmatter-invalid")
  /\ UNCHANGED ran

(* Slip of Contribution: what does not load is left out. *)
ContributionOrNot ==
  /\ loading # None /\ loading.todo # <<>>
  /\ \/ Kept(Head(loading.todo))
     \/ loading' = [loading EXCEPT !.todo = Tail(@)]
  /\ UNCHANGED <<disk, roots, plugins, failures, ran>>

(* One contribution is loaded or is a diagnostic; the others are tried all   *)
(* the same.                                                                 *)
Contribution ==
  /\ loading # None /\ loading.todo # <<>>
  /\ loadGuest(Head(loading.todo)) \/ readReferenced(Head(loading.todo))
  /\ UNCHANGED <<disk, roots, plugins, failures>>

IdOf(root) == disk[root].id

(* One diagnostic refuses the whole plugin; so does an id that is taken.     *)
Settle ==
  /\ loading # None /\ loading.todo = <<>>
  /\ \/ loading.diagnostics # {} /\ Refuse(loading.root, loading.diagnostics) /\ UNCHANGED plugins
     \/ /\ loading.diagnostics = {}
        /\ \E i \in DOMAIN plugins : IdOf(plugins[i].root) = IdOf(loading.root)
        /\ Refuse(loading.root, {"duplicate-name"}) /\ UNCHANGED plugins
     \/ /\ loading.diagnostics = {}
        /\ \A i \in DOMAIN plugins : IdOf(plugins[i].root) # IdOf(loading.root)
        /\ plugins' = Append(plugins, [root |-> loading.root, items |-> loading.items])
        /\ loading' = None /\ UNCHANGED failures
  /\ UNCHANGED <<disk, roots, ran>>

Done == loading = None /\ roots = <<>>
Next == Open \/ Contribution \/ Settle
Spec == Init /\ [][Next]_vars

-----------------------------------------------------------------------------
(* What the loaded plugins amount to, in load and then declaration order.    *)

Contributed(kind) ==
  FlattenSeq([i \in DOMAIN plugins |->
    LET of == SelectSeq(plugins[i].items, LAMBDA e : e.kind = kind)
    IN  [j \in DOMAIN of |-> [root |-> plugins[i].root, it |-> of[j].of]]])

hookHostFor == Contributed("hook")

(* registry.ts: the first of a name is the command or subagent of that name. *)
Register(registry, entry) ==
  IF \E i \in DOMAIN registry : registry[i].it.name = entry.it.name
    THEN registry ELSE Append(registry, entry)
buildCommandRegistry(kind) == FoldLeft(Register, <<>>, Contributed(kind))

(* The providers of a plugin in declaration order.  One that claims a taken  *)
(* trigger is inactive; a glob that does not compile claims nothing.         *)
ProvidersOf(plugin) ==
  LET declared == disk[plugin.root].providers
  IN  [j \in DOMAIN declared |-> [root |-> plugin.root, it |-> declared[j]]]
Provide(active, entry) ==
  IF \/ \E i \in DOMAIN active : active[i].it.trigger = entry.it.trigger
     \/ entry.it.type = "glob" /\ ~entry.it.filters
    THEN active ELSE Append(active, entry)
buildContextProviders ==
  FoldLeft(Provide, <<>>, FlattenSeq([i \in DOMAIN plugins |-> ProvidersOf(plugins[i])]))

-----------------------------------------------------------------------------
(* agents.ts: what a subagent gets of what its parent has.                   *)

Rank(level) == CHOOSE i \in 0..2 : <<"none", "read", "workspace-write">>[i + 1] = level

maxStepsFor(agent, parent) ==
  IF agent.maxSteps = None THEN parent.maxSteps
  ELSE IF parent.maxSteps = None THEN agent.maxSteps
  ELSE Min({agent.maxSteps, parent.maxSteps})

Wider(agent, parent) ==
  {w \in {"filesystem", "network", "maxSteps"} :
     CASE w = "filesystem" -> agent.filesystem # None /\ Rank(agent.filesystem) > Rank(parent.filesystem)
       [] w = "network"    -> agent.network # None /\ ~(agent.network \subseteq parent.network)
       [] OTHER            -> agent.maxSteps # None /\ parent.maxSteps # None
                              /\ agent.maxSteps > parent.maxSteps}

(* A tool the parent lacks is a refusal, every other clamp a warning.        *)
Delegates(agent, parent) == agent.tools \subseteq parent.tools

narrowSubagent(agent, parent) ==
  [tools |-> agent.tools,
   filesystem |-> IF agent.filesystem = None \/ "filesystem" \in Wider(agent, parent)
                    THEN parent.filesystem ELSE agent.filesystem,
   network |-> IF agent.network = None THEN parent.network ELSE agent.network \cap parent.network,
   maxSteps |-> maxStepsFor(agent, parent),
   narrowings |-> Wider(agent, parent)]

-----------------------------------------------------------------------------
(* Properties.                                                              *)

TypeOK ==
  /\ disk \in Disks /\ ToSet(roots) \subseteq ToSet(Roots)
  /\ loading # None => loading.root \in ToSet(Roots) /\ IsFiniteSet(loading.diagnostics)
  /\ \A i \in DOMAIN plugins : plugins[i].root \in ToSet(Roots)
  /\ \A x \in ran : x.root \in ToSet(Roots) /\ Module(x.entry)

(* A plugin enforces all it declares or is not there: every file it refers  *)
(* to is loaded, and the host has its hooks, all of them, in load and then   *)
(* declaration order (loader.ts loadPlugin, hookHostFor).                    *)
AllOrNothing ==
  /\ \A i \in DOMAIN plugins : plugins[i].items = FilesOf(disk[plugins[i].root])
  /\ [i \in DOMAIN hookHostFor |-> hookHostFor[i].it]
       = FlattenSeq([i \in DOMAIN plugins |-> disk[plugins[i].root].hooks])

(* No module reaches a runtime of a plugin whose manifest, engine range or   *)
(* namespace is refused, nor one that runs unsandboxed without its opt-in.   *)
NothingUnbidden ==
  \A x \in ran : /\ Refusal(disk[x.root]) = {}
                  /\ resolveRuntime(x.entry.of) \in Permitted \cup {"wasm"}

(* Every root is loaded or refused with a reason, once, whatever the others  *)
(* do, and the plugins that are loaded have different ids (loadPlugins).     *)
EachIsAnswered ==
  LET good == {plugins[i].root : i \in DOMAIN plugins}
      bad  == {failures[i].root : i \in DOMAIN failures}
  IN  /\ Done => good \cup bad = ToSet(Roots) /\ Len(plugins) + Len(failures) = Len(Roots)
      /\ \A i \in DOMAIN failures : failures[i].diagnostics # {}
      /\ \A i, j \in DOMAIN plugins : IdOf(plugins[i].root) = IdOf(plugins[j].root) => i = j

(* A name means what the first plugin that offers it says, however many are *)
(* loaded after it, and no name that is offered is lost (registry.ts).       *)
FirstOfAName ==
  Done => \A kind \in {"command", "agent"} :
    LET all    == Contributed(kind)
        active == buildCommandRegistry(kind)
    IN  \A i \in DOMAIN all :
          \E j \in DOMAIN active :
            /\ active[j].it.name = all[i].it.name
            /\ \E first \in 1..i : active[j] = all[first]
                 /\ \A k \in 1..(first - 1) : all[k].it.name # all[i].it.name

(* A trigger has one provider, which works, and a broken claim does not keep *)
(* a working one from it (loader.ts buildContextProviders).                  *)
TriggersAreServed ==
  Done =>
    LET offered == UNION {ToSet(disk[plugins[i].root].providers) : i \in DOMAIN plugins}
        active  == buildContextProviders
        Works(p) == p.type = "glob" => p.filters
    IN  /\ \A i, j \in DOMAIN active : active[i].it.trigger = active[j].it.trigger => i = j
        /\ \A i \in DOMAIN active : Works(active[i].it)
        /\ {active[i].it.trigger : i \in DOMAIN active} = {p.trigger : p \in {p \in offered : Works(p)}}

(* Whatever its file says, a subagent is never given more than its parent    *)
(* has, and what it asked for in vain is reported (agents.ts narrowSubagent). *)
NeverBroader ==
  Done => \A i \in DOMAIN plugins : \A parent \in Parents :
    \A agent \in {a \in ToSet(disk[plugins[i].root].agents) : Delegates(a, parent)} :
      LET child == narrowSubagent(agent, parent)
      IN  /\ child.tools \subseteq parent.tools /\ child.network \subseteq parent.network
          /\ Rank(child.filesystem) <= Rank(parent.filesystem)
          /\ parent.maxSteps # None => child.maxSteps # None /\ child.maxSteps <= parent.maxSteps
          /\ \/ child.narrowings # {}
             \/ /\ agent.filesystem \in {None, child.filesystem}
                /\ agent.network \in {None, child.network}
                /\ agent.maxSteps \in {None, child.maxSteps}

(* Loading ends (every file answers or is missing).                         *)
Fairness == WF_vars(Next)

=============================================================================
