------------------------------- MODULE MCServices -------------------------------
(***************************************************************************)
(* What stands around a turn: the sessions of the engine, the adze run     *)
(* process, a request to a provider, a search of the workspace, the        *)
(* settings an invocation comes by, the boundary that is planned for a     *)
(* command, the report of a benchmark run, and the cutting of a file into  *)
(* chunks.  As in MCPlugins the parts share no state and are checked side  *)
(* by side: a behaviour is one of one part, and the variables of the       *)
(* others are None throughout.                                             *)
(***************************************************************************)
EXTENDS Integers, Sequences

CONSTANTS None, Broken, Torn, Noise, Missing, Unset, Bad

VARIABLES
  part,
  created, live, policy, gates, gateOf, prefix, active, turns, completions, waiting,
  stage, script, approvals, wanted, keyed, arrived, ended, opened, buffered, reading, askers,
  decisions, events, marked, armed, pressed, cancelled, stop, error, file, storage, exit,
  home, workspace, env, invocation, phase, providers, model, refused, parts, emitted, usage,
  finishReason, failure, signal, said, calls, finish, reported, completed, outcome,
  query, stream, hasRipgrep, troubled, expired, rg, sent, matches, why, step, lists, reason,
  notes, todo, hits, parsed, answer,
  inputs, layers, loaded, warned, settings, pc,
  host, request, mechanisms, broker, boundary, command, applied, planned,
  args, cases, progress, copy, results, report, files, trajectories, written, exitCode,
  sample

-----------------------------------------------------------------------------
(* Two sessions and two turns that nobody waits for, and one session whose   *)
(* turns are awaited twice at once.  An override widens the mode; subagents  *)
(* are given too many tools, the same one twice, or one that is none.        *)

Under(mode) == [mode |-> mode, approvals |-> "on-request"]

Engine == INSTANCE EngineSessions WITH
  Sessions <- {"s", "t"}, Opening <- {Under("read-only")}, Overriding <- {Under("full-access")},
  Enforced <- {"read-only"}, Tools <- {"read", "task"},
  TaskLists <- {<<"read", "task">>, <<"read", "read">>, <<"nope">>},
  MaxTurns <- 2, MaxSteps <- 1, MaxWaits <- 0
Awaited == INSTANCE EngineSessions WITH
  Sessions <- {"s"}, Opening <- {Under("read-only")}, Overriding <- {Under("full-access")},
  Enforced <- {"read-only"}, Tools <- {"read", "task"},
  TaskLists <- {<<"read", "task">>, <<"read", "read">>, <<"nope">>},
  MaxTurns <- 2, MaxSteps <- 2, MaxWaits <- 2

(* Answers of every kind, fewer than the questions and more.                *)
Running == INSTANCE RunCommand WITH
  Scripts <- {<<>>, <<"y">>, <<"n", "a", "y">>, <<"x", "q", "y">>},
  StopReasons <- {"end-turn", "error"}, MaxEvents <- 3, MaxAsks <- 4,
  phase <- stage, policy <- approvals, waiting <- reading

-----------------------------------------------------------------------------
(* Providers that are configured in the home directory, the workspace, the  *)
(* environment and by the embedder, over and beside one another.            *)

Entry(kind, keyEnv, key, base, default, native) ==
  [kind |-> kind, keyEnv |-> keyEnv, key |-> key, base |-> base, default |-> default, native |-> native]
Plain == Entry(None, None, None, None, None, None)
Only(id, entry) == [i \in {id} |-> entry]
Configured(entries, default) == [entries |-> entries, default |-> default]

Variables == {"ANTHROPIC_API_KEY", "ADZE_ANTHROPIC_API_KEY", "OPENAI_API_KEY", "ADZE_OPENAI_API_KEY",
              "ADZE_COMPATIBLE_API_KEY", "ANTHROPIC_BASE_URL", "OPENAI_BASE_URL",
              "ADZE_COMPATIBLE_BASE_URL", "MY_KEY"}
Exporting(names) == [v \in Variables |-> IF v \in names THEN v ELSE None]

Cause(status, attempts, text) == [status |-> status, attempts |-> attempts, text |-> text]

Gateway == INSTANCE ProviderGateway WITH
  Homes <- {None, Configured(Only("openai", Entry(None, None, "home", None, "g", None)), None)},
  Workspaces <-
    {None, Broken,
     Configured(Only("anthropic", Entry(None, "MY_KEY", "literal", None, None, None)), None),
     Configured(Only("local", Entry("openai-compatible", None, None, "http", "l", FALSE)), None),
     Configured(Only("local", [Plain EXCEPT !.default = "l"]), None),
     Configured(<<>>, [provider |-> "openai", id |-> "g"])},
  Environments <- {Exporting({}), Exporting({"ANTHROPIC_API_KEY"}), Exporting({"MY_KEY", "OPENAI_API_KEY"}),
                   Exporting({"ADZE_COMPATIBLE_BASE_URL", "MY_KEY", "ANTHROPIC_API_KEY"})},
  Invocations <-
    {[providers |-> <<>>, ref |-> None, effort |-> None, tools |-> TRUE],
     [providers |-> <<>>, ref |-> [provider |-> "anthropic", id |-> "c"], effort |-> "high", tools |-> FALSE],
     [providers |-> Only("openai", Entry(None, None, "given", "http", None, None)), ref |-> None,
      effort |-> None, tools |-> FALSE]},
  Known <- [m \in {<<"openai", "g">>, <<"openai", "gpt">>, <<"anthropic", "claude">>} |->
              [native |-> TRUE, priced |-> TRUE]],
  Errors <- {<<Cause(429, <<>>, <<"held">>)>>, <<Cause(None, <<500, 401>>, <<"shaped">>)>>,
             <<Cause(None, <<>>, <<"fine">>), Cause(402, <<>>, <<"labelled">>)>>},
  MaxParts <- 2, MaxTokens <- 1

-----------------------------------------------------------------------------
(* A tree of four files: one too big to parse, one that has gone, two of    *)
(* which the better extractor knows one.                                    *)

At(path, line) == [path |-> path, line |-> line, text |-> TRUE]
BytesAt(path, line) == [path |-> path, line |-> line, text |-> FALSE]
Symbols(at) == [i \in DOMAIN at |-> [line |-> at[i][1], rank |-> at[i][2]]]
Source(big, gone, extractor, symbols) ==
  [known |-> TRUE, big |-> big, gone |-> gone, extractor |-> extractor, symbols |-> Symbols(symbols)]

Searching == INSTANCE WorkspaceSearch WITH
  Streams <- {<<>>, <<At("c", 1)>>, <<At("a", 1), Noise, BytesAt("b", 2)>>,
              <<At("b", 2), At("a", 1), At("a", 3)>>,
              <<At("c", 1), At("d", 1), At("b", 2), At("a", 1)>>},
  Sources <- [p \in {"a", "b", "c", "d"} |->
    CASE p = "a" -> Source(FALSE, FALSE, "treesitter", <<<<1, 0>>, <<3, 1>>>>)
      [] p = "b" -> Source(FALSE, FALSE, "heuristic", <<<<2, 0>>>>)
      [] p = "c" -> Source(TRUE, FALSE, "treesitter", <<<<1, 0>>>>)
      [] OTHER   -> Source(FALSE, TRUE, "treesitter", <<<<1, 0>>>>)],
  Boosts <- [p \in {"a", "b", "c", "d"} |-> IF p = "b" THEN 50 ELSE 0],
  Walks <- <<"a", "b", "c", "d">>,
  Requests <- [tool : {"grep"}, mode : {"literal", "hybrid"}, cap : {1, 2, 3}]
                \cup [tool : {"symbols", "glob"}, mode : {"literal"}, cap : {1, 4}],
  MaxFiles <- 2, phase <- step, request <- query

-----------------------------------------------------------------------------
(* Two files of the same kinds, with the environment and the flags over     *)
(* them, and rules that forbid what another layer allows.                   *)

Nothing == [l \in {"mode", "roots", "policy", "js", "hooks", "model", "tokens", "gallery",
                   "allow", "forbid", "prompt", "alias"} |-> Unset]
Holding(leaves) == [flat |-> {}, leaves |-> leaves]
Rules(list) == [is |-> "list", of |-> list]
Root(path, absolute) == [path |-> path, absolute |-> absolute]

Layering == INSTANCE ConfigLayers WITH
  Files <- {Missing, Broken,
            Holding([Nothing EXCEPT !.mode = "read-only", !.policy = "never", !.roots = {Root("o", TRUE)},
                                    !.model = "m", !.gallery = "marketplace"]),
            Holding([Nothing EXCEPT !.mode = "full-access", !.js = TRUE, !.hooks = "warn", !.alias = "n",
                                    !.allow = Rules(<<<<"g", "p">>, <<"g">>>>)]),
            Holding([Nothing EXCEPT !.mode = Bad, !.policy = Bad, !.roots = {Root("w", FALSE)}, !.hooks = Bad]),
            Holding([Nothing EXCEPT !.forbid = Rules(<<<<"g", "p">>>>), !.prompt = Rules(<<<<"g", "p", "f">>>>),
                                    !.js = FALSE, !.roots = {Root("o", TRUE), Root("w", FALSE)}]),
            Holding([Nothing EXCEPT !.allow = [is |-> "text", of |-> <<"g", "p">>], !.hooks = "refuse"]),
            Holding([Nothing EXCEPT !.forbid = Bad]),
            [flat |-> {"sandbox", "commandRules"},
             leaves |-> [Nothing EXCEPT !.mode = "full-access", !.policy = "untrusted",
                                        !.allow = Rules(<<<<"g">>>>)]]},
  Environments <- {Nothing, [Nothing EXCEPT !.mode = "workspace-write", !.allow = <<<<"g", "p", "f">>>>],
                   [Nothing EXCEPT !.mode = Bad, !.roots = {Root("e", TRUE)}, !.forbid = <<<<"g">>>>],
                   [Nothing EXCEPT !.gallery = "open", !.tokens = Bad]},
  FlagSets <- {Nothing, [Nothing EXCEPT !.policy = "on-request", !.allow = <<<<"g", "p">>>>],
               [Nothing EXCEPT !.forbid = <<<<"g", "p">>>>], [Nothing EXCEPT !.mode = Bad]},
  Commands <- {<<"g">>, <<"g", "p">>, <<"g", "p", "f">>, <<"f">>},
  Workspace <- Root("w", TRUE), Letters <- {"g", "p", "f"}

-----------------------------------------------------------------------------
(* Hosts with and without what they need to confine a command.              *)

Host(platform, path, userns, failing) ==
  [platform |-> platform, path |-> path, userns |-> userns, failing |-> failing]
Helper(flags) ==
  [f \in {"filesystem", "network", "tree", "allowlist", "canWrap"} |-> f \in flags]
Command(empty, cwd, optionLike, action) ==
  [empty |-> empty, cwd |-> cwd, optionLike |-> optionLike, action |-> action]

(* adze asks for neither docker nor a helper and verifies nothing.          *)
Helpers ==
  LET all == {"filesystem", "network", "tree", "allowlist", "canWrap"} IN
  {Helper(all), Helper(all \ {"allowlist"}), Helper({"filesystem", "network"}),
   Helper(all \ {"network"}), Helper(all \ {"filesystem"})}

Asked(surfaces) ==
  {[f \in DOMAIN how \cup DOMAIN what |-> IF f \in DOMAIN how THEN how[f] ELSE what[f]] : how \in surfaces,
     what \in [mode : {"read-only", "workspace-write", "full-access"},
               roots : {{Root(<<"home">>, TRUE), Root(<<"home", "w">>, TRUE), Root(<<"w">>, FALSE)},
                        {Root(<<"var", "w">>, TRUE)}, {Root(<<"home", "\n">>, TRUE)}},
               hosts : {{"h"}}, approvals : {"untrusted", "on-request", "never"},
               assumeApproved : BOOLEAN]}

Planning == INSTANCE SandboxPlan WITH
  Hosts <- {Host("linux", {"bwrap", "docker"}, TRUE, {}), Host("linux", {"bwrap"}, TRUE, {"bubblewrap"}),
            Host("linux", {"bwrap"}, FALSE, {}),
            Host("darwin", {"sandbox-exec"}, FALSE, {}), Host("darwin", {"sandbox-exec"}, FALSE, {"seatbelt"}),
            Host("win32", {"taskkill", "docker"}, FALSE, {}), Host("freebsd", {}, FALSE, {})},
  Requests <- Asked({[docker |-> FALSE, helper |-> None, verify |-> FALSE, fromCli |-> TRUE]}
                    \cup [docker : BOOLEAN, helper : {None}, verify : BOOLEAN, fromCli : {FALSE}]
                    \cup [docker : {FALSE}, helper : Helpers, verify : {FALSE}, fromCli : {FALSE}]),
  CommandSet <- {Command(FALSE, <<"home", "w">>, FALSE, "none"), Command(FALSE, <<"var", "w">>, FALSE, "allow"),
                 Command(FALSE, <<"home">>, TRUE, "none"), Command(FALSE, <<"home">>, FALSE, "prompt"),
                 Command(FALSE, <<"home">>, FALSE, "forbid"), Command(TRUE, <<"home">>, FALSE, "none")},
  Places <- {<<>>, <<"home">>, <<"home", "w">>, <<"tmp">>, <<"var">>, <<"var", "w">>, <<"private">>,
             <<"private", "var", "w">>},
  Links <- [l \in {<<"var">>} |-> <<"private", "var">>], Temporary <- {<<"tmp">>, <<"var", "tmp">>},
  Control <- {"\n"},
  pc <- planned, reported <- boundary

-----------------------------------------------------------------------------
(* Case files with ids that collide, with tags that select, with outcomes   *)
(* of every kind; and the checks of leakage and comparison, one sample to a *)
(* behaviour.                                                               *)

Output(strategy)  == [kind |-> "output", content |-> "c", reason |-> None, strategy |-> strategy,
                      tier |-> None, validator |-> None]
Refusal           == [Output(None) EXCEPT !.kind = "refusal", !.content = None, !.reason = "no-op",
                                          !.tier = "search-replace"]
Result(ok, content, refusal, strategy) ==
  [ok |-> ok, content |-> content, reason |-> refusal, strategy |-> strategy,
   tier |-> "search-replace", validator |-> "none"]
Right == Result(TRUE, "c", None, "exact")
Wrong == Result(TRUE, "d", None, "exact")
Case(id, expect, result, tags) ==
  [id |-> id, says |-> {}, expect |-> expect, result |-> result, tags |-> tags]
Query == [kind |-> "paths", paths |-> {"p"}, k |-> 2]

Benching == INSTANCE BenchReports WITH
  CaseLists <-
    {<<Case(<<"a", "/", "b">>, Output(None), Right, {"t"}), Case(<<"a", "_", "b">>, Output(None), Right, {})>>,
     <<Case(<<"a">>, Output(None), Right, {"t"}), Case(<<"b">>, Refusal, Result(FALSE, "", "no-op", None), {"t"}),
       Case(<<"a", "b">>, Refusal, Wrong, {})>>,
     <<Case(<<"a">>, Output(None), Wrong, {"t"}), Case(<<"a">>, Output(None), Wrong, {"t"})>>,
     <<Case(<<"a">>, Output(None), None, {"t"}), Case(<<"b">>, Output("anchored"), Right, {}),
       Case(<<"b", "b">>, Output(None), Right, {})>>,
     <<Case(<<"a">>, [Refusal EXCEPT !.content = "c"], Right, {})>>,
     <<Case(<<"a">>, Query, <<"o", "o", "p">>, {}), Case(<<"b">>, Query, <<"o", "n", "p">>, {"t"}),
       Case(<<"b", "a">>, Query, None, {"t"})>>},
  Suites <- {"apply-bench", "swe-smoke", "index-bench"}, Filters <- {None, "t"},
  Left <- {{}, {<<<<"a">>, <<"z">>>>}}, phase <- progress

Record == [f \in {"repo", "patch"} |->
             IF f = "repo" THEN <<>>
             ELSE <<<<"+", " ", "x", "y">>, <<"+", "+", "+", "z">>, <<"-", "-", "x">>>>]

Hosts == {<<"com">>, <<"x", "com">>}
Link(labels, https) == [host |-> labels, https |-> https]
Citations ==
  [kind : {"first-party-leaderboard"}, label : {"l", ""},
   url : {None} \cup {Link(h, s) : h \in {<<"com">>, <<"x", "com">>, <<"y", "com">>, <<"y", "x", "com">>}, s \in BOOLEAN},
   methodologyUrl : {None}, retrievedAt : {None, "day"}]

(* Files of blank, short and overlong lines under budgets of a few lines,    *)
(* with symbols that share a line, contain each other, cross, or run past    *)
(* the end.                                                                 *)
Cutting == INSTANCE Chunking

Symbol(start, end) == [start |-> start, end |-> end]
Outer == {Symbol(2, 9), Symbol(4, 7), Symbol(6, 9), Symbol(8, 13)}
Inner == {Symbol(2, 3), Symbol(2, 4), Symbol(4, 5), Symbol(5, 7), Symbol(6, 6), Symbol(7, 7)}
SymbolLists ==
  UNION {[1 .. n -> Outer \cup Inner] : n \in 0 .. 2}
    \cup {<<o, i, j>> : o \in Outer, <<i, j>> \in {p \in Inner \X Inner : p[1].start < p[2].start}}
CodeFiles ==
  [of : {"file"}, symbols : SymbolLists,
   lines : {<<8, 4, 12, 4>>, <<0, 4, 0, 8>>, <<4, 0, 0, 0, 4>>, <<4, 4, 4, 20>>, <<0, 0>>, <<5, 5, 5, 5, 5>>},
   options : [max : {5, 8}, min : {3}, spans : {TRUE}] \cup [max : {2}, min : {0}, spans : BOOLEAN]]

Samples ==
  [of : {"prompt"}, text : UNION {[1 .. n -> {"x", "y", "-", "+"}] : n \in 1 .. 3}]
    \cup [of : {"repository"},
          parents : [1 .. 3 -> SUBSET {1, 2}], refs : SUBSET (1 .. 3), head : {1, 3}, base : 0 .. 3,
          answers : BOOLEAN]
    \cup [of : {"rates"}, rates : UNION {[1 .. n -> {10, 40, 43, 46, 90}] : n \in 2 .. 3},
          rate : {5, 38, 40, 43, 45}, sem : {0, 1}]
    \cup [of : {"source"}, citation : Citations,
          registry : [verified : SUBSET Hosts, aggregators : SUBSET Hosts]]
    \cup CodeFiles

-----------------------------------------------------------------------------
ASSUME ConstantsAreLegal ==
  /\ Engine!EngineAssumption /\ Awaited!EngineAssumption /\ Running!RunAssumption
  /\ Gateway!GatewayAssumption /\ Searching!SearchAssumption

engineVars  == <<created, live, policy, gates, gateOf, prefix, active, turns, completions, waiting>>
runVars     == <<stage, script, approvals, wanted, arrived, ended, opened, buffered, reading,
                 keyed, askers, decisions, events, marked, armed, pressed, cancelled, stop, error, file, storage, exit>>
gatewayVars == <<home, workspace, env, invocation, phase, providers, model, refused, parts, emitted,
                 usage, finishReason, failure, signal, said, calls, finish, reported, completed, outcome>>
searchVars  == <<query, stream, hasRipgrep, troubled, expired, rg, sent, matches, why, step, lists,
                 reason, notes, todo, hits, parsed, answer>>
configVars  == <<inputs, layers, loaded, warned, settings, pc>>
planVars    == <<host, request, mechanisms, boundary, broker, command, applied, planned>>
benchVars   == <<args, cases, progress, copy, results, report, files, trajectories, written, exitCode>>
vars == <<part, engineVars, runVars, gatewayVars, searchVars, configVars, planVars, benchVars, sample>>

NoEngine ==
  /\ created = None /\ live = None /\ policy = None /\ gates = None /\ gateOf = None
  /\ prefix = None /\ active = None /\ turns = None /\ completions = None /\ waiting = None
NoRun ==
  /\ stage = None /\ script = None /\ approvals = None /\ wanted = None /\ arrived = None
  /\ ended = None /\ opened = None /\ buffered = None /\ reading = None /\ keyed = None
  /\ askers = None /\ decisions = None
  /\ events = None /\ marked = None /\ armed = None /\ pressed = None /\ cancelled = None
  /\ stop = None /\ error = None /\ file = None /\ storage = None /\ exit = None
NoGateway ==
  /\ home = None /\ workspace = None /\ env = None /\ invocation = None /\ phase = None
  /\ providers = None /\ model = None /\ refused = None /\ parts = None /\ emitted = None
  /\ usage = None /\ finishReason = None /\ failure = None /\ signal = None /\ said = None
  /\ calls = None /\ finish = None /\ reported = None /\ completed = None /\ outcome = None
NoSearch ==
  /\ query = None /\ stream = None /\ hasRipgrep = None /\ troubled = None /\ expired = None
  /\ rg = None /\ sent = None /\ matches = None /\ why = None /\ step = None /\ lists = None
  /\ reason = None /\ notes = None /\ todo = None /\ hits = None /\ parsed = None /\ answer = None
NoConfig ==
  /\ inputs = None /\ layers = None /\ loaded = None /\ warned = None /\ settings = None /\ pc = None
NoPlan ==
  /\ host = None /\ request = None /\ mechanisms = None /\ boundary = None
  /\ broker = None /\ command = None /\ applied = None /\ planned = None
NoBench ==
  /\ args = None /\ cases = None /\ progress = None /\ copy = None /\ results = None
  /\ report = None /\ files = None /\ trajectories = None /\ written = None /\ exitCode = None

Init ==
  \/ /\ part = "engine" /\ Engine!Init
     /\ NoRun /\ NoGateway /\ NoSearch /\ NoConfig /\ NoPlan /\ NoBench /\ sample = None
  \/ /\ part = "awaited" /\ Awaited!Init
     /\ NoRun /\ NoGateway /\ NoSearch /\ NoConfig /\ NoPlan /\ NoBench /\ sample = None
  \/ /\ part = "run" /\ Running!Init
     /\ NoEngine /\ NoGateway /\ NoSearch /\ NoConfig /\ NoPlan /\ NoBench /\ sample = None
  \/ /\ part = "gateway" /\ Gateway!Init
     /\ NoEngine /\ NoRun /\ NoSearch /\ NoConfig /\ NoPlan /\ NoBench /\ sample = None
  \/ /\ part = "search" /\ Searching!Init
     /\ NoEngine /\ NoRun /\ NoGateway /\ NoConfig /\ NoPlan /\ NoBench /\ sample = None
  \/ /\ part = "config" /\ Layering!Init
     /\ NoEngine /\ NoRun /\ NoGateway /\ NoSearch /\ NoPlan /\ NoBench /\ sample = None
  \/ /\ part = "plan" /\ Planning!Init
     /\ NoEngine /\ NoRun /\ NoGateway /\ NoSearch /\ NoConfig /\ NoBench /\ sample = None
  \/ /\ part = "bench" /\ Benching!Init
     /\ NoEngine /\ NoRun /\ NoGateway /\ NoSearch /\ NoConfig /\ NoPlan /\ sample = None
  \/ /\ part = "sample" /\ sample \in Samples
     /\ NoEngine /\ NoRun /\ NoGateway /\ NoSearch /\ NoConfig /\ NoPlan /\ NoBench

Next ==
  \/ /\ part = "engine" /\ Engine!Next
     /\ UNCHANGED <<part, runVars, gatewayVars, searchVars, configVars, planVars, benchVars, sample>>
  \/ /\ part = "awaited" /\ Awaited!Next
     /\ UNCHANGED <<part, runVars, gatewayVars, searchVars, configVars, planVars, benchVars, sample>>
  \/ /\ part = "run" /\ Running!Next
     /\ UNCHANGED <<part, engineVars, gatewayVars, searchVars, configVars, planVars, benchVars, sample>>
  \/ /\ part = "gateway" /\ Gateway!Next
     /\ UNCHANGED <<part, engineVars, runVars, searchVars, configVars, planVars, benchVars, sample>>
  \/ /\ part = "search" /\ Searching!Next
     /\ UNCHANGED <<part, engineVars, runVars, gatewayVars, configVars, planVars, benchVars, sample>>
  \/ /\ part = "config" /\ Layering!Next
     /\ UNCHANGED <<part, engineVars, runVars, gatewayVars, searchVars, planVars, benchVars, sample>>
  \/ /\ part = "plan" /\ Planning!Next
     /\ UNCHANGED <<part, engineVars, runVars, gatewayVars, searchVars, configVars, benchVars, sample>>
  \/ /\ part = "bench" /\ Benching!Next
     /\ UNCHANGED <<part, engineVars, runVars, gatewayVars, searchVars, configVars, planVars, sample>>

InPart(p, A) == part = p /\ A

(* The Fairness of EngineSessions, RunCommand, ProviderGateway and          *)
(* WorkspaceSearch.                                                         *)
Spec ==
  /\ Init /\ [][Next]_vars
  /\ \A t \in 1 .. 2 : /\ SF_engineVars(InPart("awaited", Awaited!Ends(t)))
                       /\ WF_engineVars(InPart("awaited", Awaited!Returns(t)))
  /\ WF_runVars(InPart("run", Running!Process))
  /\ WF_runVars(InPart("run", Running!Input))
  /\ WF_gatewayVars(InPart("gateway", Gateway!CreateGateway \/ Gateway!Request \/ Gateway!StepEnds))
  /\ WF_gatewayVars(InPart("gateway", Gateway!StreamEnds))
  /\ WF_searchVars(InPart("search", Searching!Step))

-----------------------------------------------------------------------------
(* A turn runs alone in its session, under the session's policy, with a gate *)
(* of that policy and a prefix that tells the model of it, and a subagent    *)
(* with no more than its parent; a cancel is for the turn it names; and who  *)
(* awaited a turn finds it over, and is always answered                      *)
(* (packages/core/src/engine.ts, context.ts, registry.ts).                   *)
SessionsKeepTheirWord ==
  /\ [](part = "engine" =>
          /\ Engine!TypeOK /\ Engine!OneTurnAtATime /\ Engine!GateIsThePolicy /\ Engine!SubagentsNeverWiden)
  /\ [](part = "awaited" =>
          /\ Awaited!TypeOK /\ Awaited!OneTurnAtATime /\ Awaited!GateIsThePolicy /\ Awaited!SubagentsNeverWiden)
  /\ [][/\ part = "engine" => Engine!PrefixIsTheGates /\ Engine!AbortsTheNamed
        /\ part = "awaited" => Awaited!PrefixIsTheGates /\ Awaited!AbortsTheNamed /\ Awaited!OverOnReturn]_vars
  /\ \A t \in 1 .. 2 :
       InPart("awaited", waiting[t] > 0) ~> InPart("awaited", waiting[t] = 0)

(* adze run answers each request with the line that was typed for it, waits  *)
(* for nobody who will not come, says by its exit code how the turn ended,   *)
(* and leaves the whole trajectory behind; and it exits                      *)
(* (packages/cli/src/commands/run.ts, agent/approval.ts, agent/failure.ts).  *)
RunTellsTheOutcome ==
  /\ [](part = "run" =>
          /\ Running!TypeOK /\ Running!EachLineItsRequest /\ Running!NobodyWaitsInVain
          /\ Running!ExitTellsTheOutcome /\ Running!TrajectoryIsWhole)
  /\ InPart("run", TRUE) ~> InPart("run", stage = "exited")

(* A request leaves only for a provider that was configured, with the key    *)
(* the user pointed at; what the provider completed is run, what it reported *)
(* is billed unless the stream was aborted, and a failure is named by the    *)
(* attempt that ended it; and every step has an outcome                      *)
(* (packages/providers/src/config.ts, factory.ts, gateway.ts, errors.ts);     *)
(* and doctor and models say beforehand of a provider whether it can be      *)
(* asked (packages/cli/src/commands/doctor.ts, models.ts).                 *)
CallsAreBilled ==
  /\ [](part = "gateway" =>
          /\ Gateway!TypeOK /\ Gateway!CompletedCallsAreRun /\ Gateway!ReportedIsBilled
          /\ Gateway!NothingIsGuessed /\ Gateway!NamedKeyWins /\ Gateway!FailureIsNamed
          /\ Gateway!DiagnosesAgree)
  /\ InPart("gateway", TRUE) ~>
       InPart("gateway", phase = "ended" /\ (outcome # None \/ refused # None))

(* A search that does not say it was cut or troubled has found everything    *)
(* that is text, a grep cut at its cap left something out, the best stands   *)
(* first, no extractor is given more credit than it deserves, and every call *)
(* is answered                                                               *)
(* (packages/core/src/tools/search.ts, packages/retrieval/src); and a file   *)
(* that is cut for ranking loses no line, repeats none, keeps whole symbols   *)
(* whole and every chunk within its budget (chunk.ts).                       *)
SearchIsHonest ==
  /\ [](part = "search" =>
          /\ Searching!TypeOK /\ Searching!NothingIsMissed /\ Searching!TroubleIsTold
          /\ Searching!CutMeansMore /\ Searching!EvidenceIsWeakest /\ Searching!BestFirst)
  /\ [](part = "sample" /\ sample.of = "file" =>
          LET chunks == Cutting!chunkFile(sample.lines, sample.symbols, sample.options)
              Of(P(_, _, _, _)) == P(sample.lines, sample.symbols, sample.options, chunks)
          IN  /\ Of(Cutting!NoLineIsLost) /\ Of(Cutting!NoLineIsTwice)
              /\ Of(Cutting!SymbolsAreKept) /\ Of(Cutting!BudgetHolds))
  /\ InPart("search", TRUE) ~> InPart("search", step = "done")

(* No lower layer permits more than the nearest one that sets the leaf,      *)
(* misspelled or not, no allow undoes a forbid, and a word of that layer     *)
(* which is not taken is told (packages/cli/src/config).  What then runs     *)
(* under a boundary called os-level is wrapped by a mechanism the host was   *)
(* found to have and writes exactly where the plan says; nothing runs bare   *)
(* that nobody was asked about, and nothing runs where the wrapper does not  *)
(* start (packages/sandbox/src).  What adze doctor says beforehand of the    *)
(* two is what then happens.                                                *)
ConfinementIsThePlan ==
  /\ part = "config" =>
       /\ Layering!TypeOK /\ Layering!RefusalsStand /\ Layering!ForbidsHold
       /\ Layering!RootsAgree /\ Layering!NothingIgnoredSilently /\ Layering!DoctorForetells
  /\ part = "plan" =>
       /\ Planning!TypeOK /\ Planning!ClaimsAreReal /\ Planning!BoundaryIsThePlan
       /\ Planning!NothingBareUnasked /\ Planning!ReportIsTheClaim /\ Planning!ReasonIsListed

(* A report says what the trials were; its totals, its rate, its severe list *)
(* and its attempts can be given no other value the policy lets pass, but    *)
(* for how failures and harness errors share their sum; an edit that had to  *)
(* be refused never disappears from it, and the exit code is 0 only for what *)
(* it shows; a prompt that is redacted leaks no field, a checkout that       *)
(* passes no later commit, and no claim outruns its attempts or rests on a   *)
(* source nobody vetted (bench/harness/src).                                *)
ReportsAreBound ==
  /\ part = "bench" =>
       /\ Benching!TypeOK /\ Benching!OwnReportIsSound /\ Benching!HeadlineIsBound
       /\ Benching!SuccessIsShown /\ Benching!CorruptionIsSevere
  /\ part = "sample" =>
       /\ sample.of = "prompt" => Benching!RedactionIsEnough(Record, sample.text)
       /\ sample.of = "repository" /\ (\A c \in 1 .. 3 : \A q \in sample.parents[c] : q < c) =>
            Benching!NoWayToTheFix(sample)
       /\ sample.of = "rates" => Benching!ClaimsAreMonotone(sample.rates, [rate |-> sample.rate, sem |-> sample.sem])
       /\ sample.of = "source" => Benching!SourcesAreVetted(sample.citation, sample.registry)

=============================================================================
