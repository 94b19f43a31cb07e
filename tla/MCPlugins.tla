------------------------------- MODULE MCPlugins -------------------------------
(***************************************************************************)
(* The plugin host: hooks around a call, the loading of plugins, the store  *)
(* of what is installed, the expansion of a slash command, and the patterns *)
(* and version ranges they are filtered by.  The parts share no state and   *)
(* are checked side by side: a behaviour is one of one part, chosen at its  *)
(* start, and the variables of the others are None throughout.              *)
(***************************************************************************)
EXTENDS Integers, Sequences

CONSTANT None

VARIABLES
  part,
  hooks, onFailure, budget, call, fire, clock, args, verdict, text, records, trail,
  disk, roots, loading, plugins, failures, ran,
  installed, dev, clones, cli, begun, consented, promised,
  template, index, output, commandsRun, triggersResolved, diagnostics, warnings, expanded,
  sample

-----------------------------------------------------------------------------
(* Hooks of up to three plugins: with two decisions of a call, with filters  *)
(* on both, with injections, notifications and rewrites of a result.        *)

Hk(plugin, event, timeout, tools, paths) ==
  [plugin |-> plugin, event |-> event, timeout |-> timeout, tools |-> tools, paths |-> paths]
Args(path, content) == [path |-> path, content |-> content]

Hooking == INSTANCE PluginHooks WITH
  HookLists <- {<<Hk("p", "tool.pre", 1, {"write"}, {}), Hk("q", "tool.pre", 2, {}, {}),
                  Hk("q", "edit.pre", 1, {}, {"src"})>>,
                <<Hk("p", "session.turnStart", 1, {}, {}), Hk("p", "edit.pre", 1, {}, {}),
                  Hk("q", "edit.pre", 1, {"bash"}, {}), Hk("r", "edit.post", 1, {}, {"src"})>>,
                <<Hk("p", "tool.pre", 1, {}, {"src"}), Hk("p", "tool.post", 1, {}, {}),
                  Hk("q", "session.turnEnd", 1, {}, {})>>},
  LateHooks <- {Hk("z", "tool.pre", 4, {}, {})},
  Calls <- {[tool |-> "write", args |-> Args("src", "x")], [tool |-> "bash", args |-> Args("none", "x")]},
  EditTools <- {"write"},
  Arguments <- {Args("src", "x"), Args("src", "y"), Args("none", "x")},
  NoPath <- "none", OnFailure <- {"allow", "deny"}, Margin <- 1

-----------------------------------------------------------------------------
(* Two roots, each with a manifest that is good or wrong in one way.        *)

Module(extension, runtime, filters, hidden) ==
  [extension |-> extension, runtime |-> runtime, filters |-> filters, hidden |-> hidden]
Sandboxed == Module("wasm", None, TRUE, FALSE)
Provider(name, trigger, type, filters) ==
  [name |-> name, trigger |-> trigger, type |-> type, filters |-> filters,
   extension |-> "wasm", runtime |-> None, hidden |-> FALSE]
Named(name, parses) == [name |-> name, parses |-> parses]
Agent(name, filesystem, network, maxSteps) ==
  [name |-> name, parses |-> TRUE, tools |-> {"read"}, filesystem |-> filesystem,
   network |-> network, maxSteps |-> maxSteps]
Server(transport, variables) ==
  [name |-> "s", transport |-> transport, command |-> TRUE, url |-> FALSE, variables |-> variables]

Manifest == [id |-> "p", namespace |-> "n", text |-> "fine", engines |-> "satisfied", env |-> {"KEY"},
             tools |-> <<Server("stdio", {"KEY"})>>, hooks |-> <<Sandboxed>>,
             providers |-> <<Provider("a", "@a", "glob", TRUE)>>,
             commands |-> <<Named("c", TRUE)>>, agents |-> <<Agent("g", "read", {"h"}, 3)>>]

Wrong == {[Manifest EXCEPT !.text = "hidden-characters"], [Manifest EXCEPT !.engines = "engine-incompatible"],
          [Manifest EXCEPT !.namespace = "taken"], [Manifest EXCEPT !.env = {}],
          [Manifest EXCEPT !.tools = <<Server("http", {})>>],
          [Manifest EXCEPT !.commands = <<Named("c", FALSE)>>],
          [Manifest EXCEPT !.hooks = <<Sandboxed, Module("js", None, TRUE, TRUE)>>],
          [Manifest EXCEPT !.hooks = <<Module("wasm", None, FALSE, FALSE), Module("so", "native", TRUE, FALSE)>>],
          [Manifest EXCEPT !.providers = <<Provider("a", "@a", "glob", TRUE), Provider("a", "@b", "glob", TRUE)>>]}
Fine  == {Manifest,
          [Manifest EXCEPT !.id = "q", !.hooks = <<Module("js", None, TRUE, FALSE), Sandboxed>>,
                           !.agents = <<Agent("g", "workspace-write", {}, 9), Agent("h", None, None, None)>>],
          [Manifest EXCEPT !.id = "r", !.commands = <<Named("d", TRUE), Named("c", TRUE)>>,
                           !.providers = <<Provider("a", "@a", "glob", FALSE), Provider("b", "@b", "module", TRUE)>>]}

Loading == INSTANCE PluginLoading WITH
  Disks <- [{"x", "y"} -> Fine] \cup {[r \in {"x", "y"} |-> IF r = "x" THEN w ELSE Manifest] : w \in Wrong},
  Roots <- <<"x", "y">>, Permitted <- {"js"}, Runtimes <- {"wasm", "js"}, Claimed <- {"n"}, Environment <- {"KEY"},
  Parents <- [tools : {{"read"}, {"read", "bash"}}, filesystem : {"none", "read", "workspace-write"},
              network : {{}, {"h"}}, maxSteps : {None, 3, 5}]

-----------------------------------------------------------------------------
(* Plugins to install: from a directory, from a URL, under a taken id, with *)
(* a taken name, and wrong in one way each.                                 *)

File(kind, name, script, state) == [kind |-> kind, name |-> name, script |-> script, state |-> state]
Good(root, url, id, name) ==
  [root |-> root, url |-> url, id |-> id, parses |-> TRUE,
   license |-> [joined |-> "or", leaves |-> {"allowed", "other"}], engines |-> TRUE,
   reads |-> {"KEY"}, declares |-> {"KEY"}, globs |-> TRUE,
   files |-> <<File("hook", "h", TRUE, "fine"), File("command", name, FALSE, "fine")>>]
Shelf == {Good("a", FALSE, "p", "c"), Good("b", TRUE, "q", "d")}
Bad == {[Good("x", FALSE, "x", "x") EXCEPT !.license = [joined |-> "and", leaves |-> {"allowed", "denied"}]],
        [Good("y", TRUE, "y", "y") EXCEPT !.declares = {}],
        [Good("z", FALSE, "z", "z") EXCEPT !.files = <<File("command", "c", FALSE, "fine"), File("command", "c", FALSE, "fine")>>],
        [Good("w", FALSE, "w", "w") EXCEPT !.files = <<File("agent", "g", FALSE, "garbled"), File("hook", "h", TRUE, "hidden")>>]}

Alone == INSTANCE PluginStore WITH
  Sources <- Shelf \cup Bad \cup {Good("a2", FALSE, "p", "e"), Good("c", FALSE, "r", "d")},
  Processes <- {1}, MaxCommands <- 4, Kills <- FALSE
Together == INSTANCE PluginStore WITH
  Sources <- Shelf, Processes <- {1, 2}, MaxCommands <- 3, Kills <- TRUE

-----------------------------------------------------------------------------
(* Every template of up to three pieces, and output that looks like more.   *)

Piece(kind, value) == [kind |-> kind, value |-> value]
Pieces == {Piece("text", "t"), Piece("command", "ls"), Piece("empty", ""), Piece("unclosed", ""),
           Piece("trigger", "@a"), Piece("trigger", "@b"), Piece("punctuation", "@")}
Expanding == INSTANCE PromptExpansion WITH
  Templates <- UNION {[1 .. n -> Pieces] : n \in 1 .. 3},
  Printed <- {<<>>, <<Piece("command", "rm")>>, <<Piece("trigger", "@a"), Piece("text", "o")>>},
  Triggers <- {"@a"}, HasRunner <- TRUE, MaxBytes <- 1
Runnerless == INSTANCE PromptExpansion WITH
  Templates <- {<<Piece("command", "ls"), Piece("trigger", "@a")>>}, Printed <- {<<>>},
  Triggers <- {"@a"}, HasRunner <- FALSE, MaxBytes <- 1

-----------------------------------------------------------------------------
(* Globs around a star, names that are short, long, unsafe and empty, and   *)
(* versions in ranges and of peers: one sample to a behaviour.              *)

Names == INSTANCE NamesAndVersions

Paths == UNION {[1 .. n -> {"a", "b", "/"}] : n \in 1 .. 4}
Parts == {<<>>, <<"a">>, <<"a", "/">>, <<"?", "/">>, <<"[", "!", "b", "]">>, <<"*", "b">>}

Prereleases == {<<>>, <<Names!Number(1)>>, <<Names!Word("alpha")>>, <<Names!Word("alpha"), Names!Number(0)>>}
Versions == {Names!Version(0, 0, 1, <<>>), Names!Version(0, 1, 0, <<>>), Names!Version(0, 1, 2, <<>>)}
              \cup {Names!Version(1, 0, 0, p) : p \in Prereleases} \cup {Names!Version(2, 0, 0, <<>>)}
Tokens == {Names!Comparator(o, v) : o \in {"^", "~", ">=", "<"}, v \in Versions}
            \cup {Names!Comparator("*", Names!Version(0, 0, 0, <<>>)),
                  Names!Comparator("unreadable", Names!Version(0, 0, 0, <<>>))}

Long(n, end) == [i \in 1 .. n |-> "l"] \o end
Segments == UNION {[1 .. n -> {"a", "_", "!"}] : n \in 0 .. 3}
Peers == UNION {[1 .. n -> [form : {"plain", "padded", "malformed"}, major : {0, 1}, minor : {1}]] : n \in 0 .. 2}
           \cup {<<[form |-> "plain", major |-> 0, minor |-> m]>> : m \in {2, 3}}

Samples ==
  [of : {"glob"}, before : Parts, after : Parts, path : Paths]
    \cup [of : {"version"}, a : Versions, b : Versions, c : Versions]
    \cup {[of |-> "range", version |-> v, range |-> <<<<s, t>>, <<u>>>>] :
            v \in Versions, s \in {Names!Comparator(">=", Names!Version(0, 1, 0, <<>>))}, t, u \in Tokens}
    \cup [of : {"names"}, server : {<<"s">>, <<"!">>} \cup {Long(n, <<"!", "a">>) : n \in {48, 56, 70}},
          one : Segments \cup {Long(n, <<"a">>) : n \in {47, 54, 55, 56, 57, 70}},
          other : {<<"a">>, <<"a", "!", "a">>} \cup {Long(n, <<"!", "a">>) : n \in {47, 54, 55}}]
    \cup [of : {"peers"}, client : Peers, engine : {p \in Peers : p = <<>> \/ p[1].form = "plain"}]
    \cup [of : {"chunks"}, sizes : UNION {[1 .. n -> {1, 3, 999}] : n \in 0 .. 3}, max : 0 .. 4]

-----------------------------------------------------------------------------
ASSUME ConstantsAreLegal ==
  /\ Hooking!HookAssumption /\ Loading!LoadingAssumption /\ Alone!StoreAssumption /\ Together!StoreAssumption
  /\ Expanding!ExpansionAssumption /\ Runnerless!ExpansionAssumption

hookVars   == <<hooks, onFailure, budget, call, fire, clock, args, verdict, text, records, trail>>
loadVars   == <<disk, roots, loading, plugins, failures, ran>>
storeVars  == <<installed, dev, clones, cli, begun, consented, promised>>
promptVars == <<template, index, output, commandsRun, triggersResolved, diagnostics, warnings, expanded>>
vars       == <<part, hookVars, loadVars, storeVars, promptVars, sample>>

NoHooks ==
  /\ hooks = None /\ onFailure = None /\ budget = None /\ call = None /\ fire = None /\ clock = None
  /\ args = None /\ verdict = None /\ text = None /\ records = None /\ trail = None
NoLoading ==
  /\ disk = None /\ roots = None /\ loading = None /\ plugins = None /\ failures = None /\ ran = None
NoStore ==
  /\ installed = None /\ dev = None /\ clones = None /\ cli = None
  /\ begun = None /\ consented = None /\ promised = None
NoPrompt ==
  /\ template = None /\ index = None /\ output = None /\ commandsRun = None
  /\ triggersResolved = None /\ diagnostics = None /\ warnings = None /\ expanded = None

Init ==
  \/ part = "hooking" /\ Hooking!Init /\ NoLoading /\ NoStore /\ NoPrompt /\ sample = None
  \/ part = "loading" /\ Loading!Init /\ NoHooks /\ NoStore /\ NoPrompt /\ sample = None
  \/ part = "alone" /\ Alone!Init /\ NoHooks /\ NoLoading /\ NoPrompt /\ sample = None
  \/ part = "together" /\ Together!Init /\ NoHooks /\ NoLoading /\ NoPrompt /\ sample = None
  \/ part = "expanding" /\ Expanding!Init /\ NoHooks /\ NoLoading /\ NoStore /\ sample = None
  \/ part = "runnerless" /\ Runnerless!Init /\ NoHooks /\ NoLoading /\ NoStore /\ sample = None
  \/ part = "sample" /\ sample \in Samples /\ NoHooks /\ NoLoading /\ NoStore /\ NoPrompt

Next ==
  \/ part = "hooking" /\ Hooking!Next /\ UNCHANGED <<part, loadVars, storeVars, promptVars, sample>>
  \/ part = "loading" /\ Loading!Next /\ UNCHANGED <<part, hookVars, storeVars, promptVars, sample>>
  \/ part = "alone" /\ Alone!Next /\ UNCHANGED <<part, hookVars, loadVars, promptVars, sample>>
  \/ part = "together" /\ Together!Next /\ UNCHANGED <<part, hookVars, loadVars, promptVars, sample>>
  \/ part = "expanding" /\ Expanding!Next /\ UNCHANGED <<part, hookVars, loadVars, storeVars, sample>>
  \/ part = "runnerless" /\ Runnerless!Next /\ UNCHANGED <<part, hookVars, loadVars, storeVars, sample>>

InPart(p, A) == part = p /\ A

(* The Fairness of PluginHooks and of PluginLoading.                        *)
Spec ==
  /\ Init /\ [][Next]_vars
  /\ WF_hookVars(InPart("hooking", Hooking!Step))
  /\ WF_loadVars(InPart("loading", Loading!Next))

-----------------------------------------------------------------------------
(* A call runs only past guests that were shown it as it then stood and let *)
(* it, is denied only on the word of one of them, and is never denied by the *)
(* bus's clock instead; whatever they do, the turn comes to its end          *)
(* (packages/plugin-sdk/src/hooks.ts, bridge.ts, wasm.ts).                   *)
HooksDecide ==
  /\ [](part = "hooking" =>
          /\ Hooking!TypeOK /\ Hooking!DenialsDecide /\ Hooking!NoSilentPass
          /\ Hooking!RewritesChain /\ Hooking!BusNeverTimesOut)
  /\ InPart("hooking", TRUE) ~> InPart("hooking", fire.event = "over")

(* A plugin is loaded with everything it declares or refused with a reason, *)
(* runs nothing before its manifest is accepted, gives no name and no        *)
(* trigger away that another had, and no subagent more than its parent has;  *)
(* and every root is answered (packages/plugin-sdk/src/loader.ts).           *)
LoadedIsWhole ==
  /\ [](part = "loading" =>
          /\ Loading!TypeOK /\ Loading!AllOrNothing /\ Loading!NothingUnbidden /\ Loading!EachIsAnswered
          /\ Loading!FirstOfAName /\ Loading!TriggersAreServed /\ Loading!NeverBroader)
  /\ InPart("loading", TRUE) ~> InPart("loading", Loading!Done)

(* What is installed was validated and agreed to, one directory to an id,    *)
(* whoever runs or dies beside it; and while one command runs at a time what *)
(* was reported is what is there, a removal is complete, and no name comes   *)
(* twice (packages/cli/src/plugins/store.ts, validate.ts, commands/plugin.ts). *)
StoreIsConsented ==
  /\ [](part = "alone" =>
          Alone!TypeOK /\ Alone!OneRootPerId /\ Alone!NothingWithoutConsent /\ Alone!ReportsAreTrue)
  /\ [](part = "together" => Together!OneRootPerId /\ Together!NothingWithoutConsent)
  /\ [][part = "alone" => Alone!NameStaysUnique /\ Alone!ShadowGoes]_vars

(* Nothing that a command printed or a provider found is read again, and no  *)
(* prompt leaves out a block (packages/plugin-sdk/src/commands.ts); a        *)
(* provider keeps its budget (context.ts); ** stands for any segments        *)
(* (glob.ts); a server's tools keep names that are accepted and apart        *)
(* (packages/mcp/src/naming.ts); precedence is an order, a caret a           *)
(* compatible range, and a prerelease only what was asked for (semver.ts);   *)
(* and peers agree on the newest version they share (packages/protocol).     *)
TextMeansItself ==
  /\ part = "expanding" => Expanding!TypeOK /\ Expanding!NothingIsRescanned /\ Expanding!HandedOutWhole
  /\ part = "runnerless" => Runnerless!NothingIsRescanned /\ Runnerless!HandedOutWhole
  /\ part = "sample" =>
       /\ sample.of = "chunks" => Expanding!ProviderKeepsBudget(sample.sizes, sample.max)
       /\ sample.of = "glob" =>
            /\ Names!SegmentsAreOptional(sample.before, sample.after, sample.path)
            /\ Names!BracesAreChoices(sample.before, <<<<"a">>, <<"b", "?">>>>, sample.after, sample.path)
            /\ Names!StarsStayInside(sample.before \o sample.after, sample.path)
       /\ sample.of = "names" =>
            /\ Names!NameIsAccepted(sample.server, sample.one)
            /\ Names!SiblingsDiffer(sample.server, sample.one, sample.other)
       /\ sample.of = "peers" => Names!PeersAgree(sample.client, sample.engine)
       /\ sample.of = "version" =>
            /\ Names!PrecedenceIsAnOrder(sample.a, sample.b, sample.c)
            /\ Names!CaretIsCompatible(sample.a, sample.b)
       /\ sample.of = "range" => Names!PrereleaseIsAskedFor(sample.version, sample.range)

=============================================================================
