# A TLA+ model of adze

adze is a coding agent: an engine that leads a conversation with a model, runs
the tools the model asks for under a policy, and is embedded by a command line,
an SDK and an editor extension, with plugins, a retrieval index and a benchmark
harness around it. This directory models the parts of it where the order of
events, or the combination of several inputs, decides what happens. TLC checks
each of them on small instances, and TLAPS proves the safety of the loop, its budget, the
gate, the hook bus, the engine's sessions, the two brokers, the MCP host, the file tools,
the chat's session files, the SDK client and the editor's view and settings for every
instance.

Everything here is translated from the source under `packages/`, `apps/` and `bench/`.
`PROJECT.json` maps each definition to the lines it stands for.

## 1. The system

The engine is one single-threaded Node process. Code between two awaits runs
undisturbed; anything may happen at an await, and at a call of the event sink,
which runs the embedder's code and may call back into the engine before it
returns. This is the atomicity of the models: **an action is the code from one
such point to the next.** Other processes (commands, MCP servers, another chat
over the same session files, a person with an editor) interleave with it freely.

| Component | State it keeps | Operations | What is hard | What makes it correct |
|---|---|---|---|---|
| Agent loop (`core/turn`, `dispatch`) | the locals of a turn and of its subagent, the history, the signal | submit, cancel, close, the steps of `runTurn`, `dispatchToolCall` | cancel, close and denial at any await; callbacks that throw; a turn inside a tool call | the history can be replayed, a cancel stops requests and tools, one settlement per turn, ceilings hold |
| Engine (`core/engine`, `context`, `registry`) | runtimes, gates, prefixes, the active turn of each session, completions | create, submit with overrides, cancel, await, close, delegate | a turn, its subagent and a waiter each hold an older session, gate or signal | policy, gate and prefix belong together; one turn at a time; no subagent is wider; who awaits is answered |
| Budget and usage (`core/budget`, `cost`, `providers/usage`, `gateway`) | steps, usage, start time | check, recordStep, toolLimitsFor | usage missing or partial, cached tokens, subagents, people who answer late | what is billed stays within one response of the ceiling; the turn ends |
| Hook bus (`core/hooks`) | a live list of hooks | register, dispose, four kinds of fire | the list changes while a fire waits; late answers | hooks asked in order and once; silence before a tool is a denial |
| Permission gate (`core/permissions`) | the policy in force, session memory | authorize, allow once / for the session / deny / abort, the grant | overrides of one turn, links, overlapping rules | nothing is done that was not allowed under this policy |
| Brokers (`core/broker`, `sandbox/exec`) | the child, timer, listener, buffers | exec | descendants on the pipes, exit before close, timer against cancel | output complete, outcome final, a killed command returns |
| Sandbox planning (`sandbox/select`, `policy`, `capabilities`, the backends) | mechanisms found, the broker chosen, the reported plan | probe, select, report, judge a command, wrap it | what a host claims and what it does; links; the order of mounts and rules | the reported boundary is real, holds exactly there, and nothing runs bare unasked |
| Results (`core/truncate`, dispatch, `mcp/content`) | the continuation store | truncate, retain, redeem | two cuts, marker sizes, eviction | cuts are flagged and paid for, tokens give back their text |
| Edits (`apply`) | none between calls | applyEdit | four matching strategies and an elision, tiers | what was quoted is what is replaced; what is written parses |
| Files (`core/fs`, `tools/edit`, `tools/files`) | temporary files | edit, write | approval before the read, shared names, crashes | whole files, edits that are done stay, failures change nothing |
| Chat sessions (`cli/chat`, `sessions/store`) | one file per session | start, resume, fork, compact, clear, save | kills, full disks, several chats | saved turns survive, conversations are whole |
| `adze run` (`cli/run`, `agent/approval`, `agent/failure`) | buffered lines, pending questions, the trajectory | prompt, ask, interrupt, write, exit | lines before questions, end of input, Ctrl-C, a full disk | each answer for its question, a true exit code, a whole trajectory |
| Configuration (`cli/config`, `agent/flags`) | layers, values with their sources, warnings | load two files, the environment, flags; merge rules | typos and gaps in any layer | a refusal is never weakened, what is ignored is told |
| Plugin store (`cli/plugins`, `commands/plugin`) | installed.json, dev.json, clones | add, remove, dev, validate | processes side by side, kills between steps | nothing installed without consent, one directory to an id |
| Plugin host (`plugin-sdk`) | loaded plugins, hooks, a fire, a prompt | load, fire, decide, expand, match | guests late, malformed or rewriting; files that vanish; output that looks like a template | whole or refused, asked in order, nothing read twice |
| Provider gateway (`providers`) | configured providers, one request | configure, choose, stream, name a failure | streams that fail, abort or repeat; keys from four places | what is reported is billed, what is complete is run, the named key is used |
| Retrieval (`retrieval`, `core/tools/search`) | matches, the lists of the signals, the deadline | search, parse, fuse, answer | caps, deadline and ripgrep's death in any order | nothing missed silently, nothing called cut that is whole |
| SDK client (`sdk`) | sessions, active turn, totals, router | create, run, result, close, dispose | everything overlaps at awaits | close waits and counts each turn once; no false refusal |
| MCP host (`mcp/client`) | connections, liveness, failures | connectAll, call, close | crashes in every phase, late answers | nothing left running, calls settle |
| VS Code surface (`apps/vscode`) | host, view, review, completion, settings in force | submit, cancel, reset, accept, revert, complete, change a setting | events of several turns and hosts in one view; an editor that lags behind the file; settings that change under a prompt | the view tells the truth, a revert takes nothing of the user's, settings are obeyed |
| Benchmark harness (`bench/harness`) | results, report, files | run, derive, write, check, exit | kills between files, names that collide, figures that are edited | a report is bound to its trials; no claim outruns its attempts |
| MCP server, rendering, scripts | see `PROJECT.json` | | | not modelled (section 8) |

How they interact: surfaces (chat, SDK, VS Code) submit turns to the engine and
receive events through one sink. The loop asks the provider for a stream, fires
hooks, passes every tool call through the gate (which may ask the surface back)
and runs the tool with a grant; tools use the broker, the file system, `apply`,
MCP connections, the retrieval provider. Results go through truncation into the
history. The chat saves the history after each turn. Plugins come in twice: their
hooks stand behind one adapter on the engine's hook bus, their commands become
prompts of the surface.

## 2. The modules

| Module | Models | State ↔ code |
|---|---|---|
| `Messages`, `Conversation` | what a history is; the abstract session: one turn at a time, a prompt, whole exchanges, one settlement | no code of its own: the promise `TurnMachine` keeps |
| `TurnMachine` | `runTurn`, `runStep`, `runToolCalls`, `dispatchToolCall`, `subagentRunner`, `turnSubmit`, `turnCancel`, `sessionClose` | `fr[l]` are the locals of `runTurn` of the turn and of its subagent, `history` is `session.history`, `aborted` the signal, `result[t]` the promise of turn t |
| `TurnBudget` | `BudgetTracker`, `toolLimitsFor`, what `stream` and `toProtocolUsage` report and lose, a subagent's usage | the tracker's fields, beside an account of what is billed |
| `HookBus` | `HookBus.register`, `dispose`, `runWithTimeout` and the fires | `hooks` is the live array; `fire[f]` a fire's locals, its iterator among them |
| `CommandPolicy`, `PermissionGate` | `PermissionGate.authorize`, the grant, `matchCommandRule`, `buildGate`; the second judgement in `@adze/sandbox` | `sandbox` and `approvals` are the session's, `allowed` is `sessionAllowed`, `broker` what the broker was built with |
| `ChildProcess`, `SubprocessBroker`, `ContainedExec` | the two `exec` implementations over one external model of a child, a descendant and their pipes | the locals of the promise's closure |
| `ToolResults` | `truncateText`, `truncateBlocks`, `ContinuationStore`, the cuts of bash, MCP and read, `toolMessage` | `store` and `bytes` are the store's; texts are sequences of line lengths |
| `EditMatch`, `EditApplier` | `match.ts` and `applyEdit` | texts are sequences of words, spaces and line breaks |
| `FileEdits` | the edit and write tools over `writeFile`; `adze apply` beside them | `names` and `data` are the directory and the inodes; `invoked` and `exit` a command's arguments and exit code |
| `ChatSessions` | `adze chat` over `sessions/store.ts` | `chat[p]` the process, `files[id]` the lines of a file |
| `SdkClient` | `client.ts` of the SDK, over the engine as it sees it | `client`, `sess`, `turn`: the fields of the classes |
| `McpHost` | `McpClientHost` and `McpConnection`; servers are external | `server[i]`, `call[c]`, `at` the loop of `connectAll` |
| `ChatSurface` | controller, `EngineHost`, view model, review, inline completion | `host`, `turnOf`, `view`, `review` |
| `EngineSessions` | `Engine`: `sessionCreate`, `turnSubmit`, `turnCancel`, `awaitTurn`, `sessionClose`, `subagentRunner`, `EpochAssembler`, `ToolRegistry.narrow` | `gates` is every gate that was built, `gateOf` the one in the runtime, `prefix` what the frozen prefix tells the model, `turns` the promises |
| `RunCommand` | `adze run` with `stdinReader`, the approval channel, the SIGINT handler, failures and the trajectory | `buffered`, `waiting`, `ended` are the reader's; `stage` where the command awaits |
| `ConfigLayers` | `loadConfig`, the validators of every leaf, `applyForbidWins`, flags | `layers` as read, `loaded` the `LoadedConfig`, `warned` what a warning named |
| `SandboxPlan` | detection, with its verification or without, `createSandbox`, `planFor`, the brokers' `decide`, `buildBubblewrapArgs`, the profile of seatbelt, the mounts of docker, the allowlist of a Windows helper | `reported` is what the surface shows, `applied` what one exec did |
| `WorkspaceSearch` | the grep, symbols and glob tools over `LocalRetrievalProvider`, `ripgrep.ts`, `files.ts`, `rank.ts` | `rg` the child, `matches` and `why` the parser's state, `lists` the signals |
| `ProviderGateway` | `resolveProviders`, `createGateway`, `stream`, `toRequestError`, redaction | the locals of the generator: `emitted`, `usage`, `failure`, `finishReason` |
| `PluginHooks` | `HookHost`, `toRegisteredHook`, `runWithTimeout` of the bus around one call | `fire` the locals of a fire, `trail` who was asked what, `records` the observer's |
| `PluginLoading` | `loadPlugins`, manifest checks, the registries of commands and providers, subagent limits | `loading` the locals of `loadPlugin` |
| `PluginStore` | `plugin add`, `remove`, `dev`, `validate` | `installed`, `dev`, `clones` on disk, `cli[p]` a process |
| `PromptExpansion` | `expandCommandBlock`, `expandTrigger`, `context.ts` | `index` the scan over the template |
| `NamesAndVersions` | `glob.ts`, `semver.ts`, the MCP tool names of `naming.ts`, `negotiateProtocolVersion` | operators over sequences of characters and over versions |
| `Chunking` | `chunk.ts` of retrieval | operators over the line lengths of a file and the extents of its symbols |
| `EditReview` | `ReviewStore`, `locate.ts`, pairing of events in the controller | `entries` as recorded, `plan` the revert VS Code was asked for, `document` against `disk` |
| `SurfaceSettings` | `settings.ts`, the rebuild of hosts, `approval.ts`, the gate of ghost text | `config` the editor's, `session` what each session was made with |
| `BenchReports` | a run of the harness, its report and policy; leakage, checkout and comparison as operators | `results`, `report`, `files` |
| `MC*` | instances for TLC | |
| `TurnMachine_proofs`, `PermissionGate_proofs`, `EngineSessions_proofs`, `SdkClient_proofs` | proofs of the module they are named after | |
| `Processes_proofs` | proofs of `MCProcesses`: the two brokers and `McpHost` | |
| `Tools_proofs` | proofs of `MCTools`: `FileEdits` and `ChatSessions` | |
| `MCTurnParts`, `MCSurfaces` | beside the instances, the proofs about `TurnBudget` and `HookBus`, and about `ChatSurface`, `SurfaceSettings` and the three embedders of the SDK | |

`Conversation` is the abstract specification; `TurnMachine!KeepsPromise` is its
`Spec` under the mapping `log <- Answered`, `phase <- Phase`,
`current <- active`, `cancelled <- aborted`. While the calls of a step are
running their answers are not in `session.history` yet; `Answered` adds them,
so that an exchange appears on the log whole.

Data is abstracted to what the properties tell apart: messages carry their role
and the number of calls, texts the lengths or words of their lines, effects a
target and a kind. A definition introduced as a "slip" of another (`CloseStepRagged`,
`RetainLeaky`, ...) is a plausible bug in the code of that definition: the property
listed with it in `PROJECT.json` fails when it takes the other's place. Slips are no
part of any specification.

## 3. The runs

`tlc -config X.cfg M` in this directory. Times are for two workers.

| Run | Module, config | States, time | Question |
|---|---|---|---|
| turn_long | `TurnMachine`, `TurnMachine_long` | 0.43M, 25 s | one turn under every interleaving |
| turn_promise | `TurnMachine`, `TurnMachine_promise` | 0.61M, 15 s | two turns implement `Conversation` |
| gate | `MCPermissionGate`, `PermissionGate` | 0.28M, 11 s | what is granted and what runs |
| turn_parts | `MCTurnParts` | 0.21M, 35 s | what ends a turn: loop, budget, hooks |
| tools | `MCTools` | 1.0M, 67 s | results on the way to the model, edits on the way to the file, session files, files under the tools and under `adze apply` |
| processes | `MCProcesses` | 0.43M, 73 s | commands and MCP servers |
| surfaces | `MCSurfaces` | 0.56M, 71 s | SDK and VS Code, reverts and settings |
| plugins | `MCPlugins` | 0.15M, 34 s | hooks, loading, store, prompts, globs, versions and names |
| services | `MCServices` | 0.12M, 47 s | engine, `adze run`, gateway, search and chunks, configuration, sandbox plan, benchmark |
| turn_ragged, revert_ambiguous, gate_override | | seconds | promises the code does not keep (section 6) |

The suites `MCTurnParts`, `MCTools`, `MCProcesses`, `MCSurfaces`, `MCPlugins` and
`MCServices` each put several components, or one under several constants, side by side. A
behaviour is of one `part`, chosen at its start; the variables of the other parts
are `None` throughout, and every property says which part it is about. A property
of a suite is the conjunction of what its module promises, each conjunct defined
and stated in words there. Nothing is
composed that the code composes differently: the parts of a suite share no state,
and the state space is the sum of theirs. Where components do interact the
composition is inside a module (the loop and its subagent; the gate and the
broker's second judgement; the chat and the session it drives).

### What the properties say

- **turn_long.** `ReplayableHistory`: every call in the history is answered, in
  order; a turn whose callback threw may leave its last step unanswered, the whole
  of it and no more, and what later turns add is answered. `StopReasonIsTrue`: a turn says cancelled, refused or exhausted
  when it was. `DeniedNeverRan`: a call that was denied, by a hook, the gate or
  an abort, never entered its tool. `RequestWithinBudget`: no level asks the
  model at or past its ceiling. `OneLateRunAtMost`: after a cancel at most one
  tool body is entered (the one whose approval or hook was being awaited).
  `SubagentInsideTurn`: a subagent runs only inside the task call of the active
  turn. `NoRequestAfterCancel`: no request once the signal is aborted.
- **turn_promise.** `KeepsPromise`, the refinement.
- **gate.** `GrantIsJustified`: nothing granted is forbidden, and everything the
  policy asks about was allowed for this call or for the session *under this
  policy*. `ForbiddenNeverRuns`: the longest matching rule decides, in gate and
  broker, wherever it stands on the list.
- **turn_parts.** `CeilingsAreTrue`: what was counted exceeds a ceiling by less than
  one response in every turn; so does what is *billed*, where no usage is lost and
  nothing is delegated, and where it is, the steps bound the bill; an exhausted turn
  has reached a ceiling, and no tool runs past the wall clock by more than the calls
  before it in its step took. `FireIsFaithful`: hooks in order, none twice,
  no silence taken for consent, rewrites chained. `NothingHangs`: a submitted turn
  settles or waits on a person; the wall clock ends a model that never stops; a
  fire ends.
- **tools.** `CutsAreAccounted`, `MatchIsFaithful`, `TiersEndWell`: cuts are
  flagged and paid for, a match replaces what was quoted and, to the tolerance it was
  found with, the file reads so at no other place (but for a block that hangs to the
  left of its first line), what is handed back parses. `SavedTurnsSurvive`: a completed
  save is there whenever nobody writes, unless a save of that very session broke off
  since, and every file a resume or fork makes is a conversation. `DoneEditsStay`: in
  one session an edit reported as applied stays, with what stood in the file when its
  call was let in (a save between the read and the write is lost); files are whole at
  every moment of a crash; `adze apply` exits with 0 only when its edit is in the file.
- **processes.** `OutputIsComplete`, `SettledIsQuiet`, `CommandsReturn`,
  `HostIsTidy`: output up to the cap, outcomes final, kills and timeouts return,
  calls and closes of MCP hosts settle. A server that could not be connected leaves no
  process; after a close none runs that it took, and none at all unless it came in the
  middle of `connectAll`.
- **surfaces.** `ClosedAndCounted`, `NoFalseRefusal`, `CloseReturns` for the SDK.
  `ViewIsHonest`: what the view shows is what runs, and rest is rest, but for a turn
  that rejected after it had begun, which goes on being shown as running.
  `RevertIsCareful`: a revert takes away no word the user typed and forgets no
  edit it was not planned for. `SettingsAreObeyed`: a turn runs under the settings
  in force, a typo narrows, a grant was given at a prompt.
- **plugins.** `HooksDecide`: a call runs only past guests that were shown it as
  it then stood; the first denial decides; the bus's clock never does.
  `LoadedIsWhole`: all of a plugin or none. `StoreIsConsented`: nothing installed
  that was not validated and agreed to, one directory to an id.
  `TextMeansItself`: what a command prints is never read as a template; globs,
  versions and ranges mean what they say, every tool name is one a provider takes,
  siblings stay apart, and two peers agree on the newest version both name.
- **services.** `SessionsKeepTheirWord`: policy, gate and prefix together, one
  turn at a time, a cancel for the turn it names, waiters answered.
  `RunTellsTheOutcome`: each line answers its request, the exit code tells how
  the turn ended (1 also for a missing key, which the turn reports as its error), the
  trajectory is whole. `CallsAreBilled`: completed calls are
  run, reported usage is billed, failures are named by the attempt that ended the
  request. `SearchIsHonest`: no line that is UTF-8 is missed silently and a grep cut at
  its cap left something out; a file cut into chunks loses no line and keeps whole
  symbols whole. `ConfinementIsThePlan`: a refusal in a nearer file stands, no allow
  undoes a forbid, what is called os-level is wrapped by a mechanism that was found or
  named and holds the boundary reported, and nothing runs where the wrapper does not
  start. `ReportsAreBound`: a report says what its trials were; its totals, rate, severe
  list and attempts cannot be given another value that its policy lets pass, but for how
  failures and harness errors share their sum; an edit that should have been refused never
  disappears, a claim needs its margin.

Each is stated in words above its definition. The type invariants (`TypeOK` of a module,
`TypesHold` of a suite) are conjuncts of these.

### The bounds, and why they are enough

- *Loop:* two steps, two calls a step, one subagent, at most two turns. The code
  keeps nothing between calls but their order and nothing between steps but the
  counters; two of each is what it takes for a cancel to fall between, before and
  after. `StepBudget` of two makes the ceiling bite in the first turn. The history
  is bounded by these.
- *Budget:* three turns. One has four ceilings: a response costs 2, 3 or 2 tokens against
  6, so that it is reached exactly and overshot, and a clock of 7 moments runs against a
  wall of 3 and a tool limit of 5, so that the tighter one is either. One has streams
  that break off, usage that is not reported and calls that delegate, and no clock. One
  has nothing but the clock.
- *Hooks:* three hooks and one fire: one before, at and after the iterator. A
  fire writes nothing another fire reads, so several add nothing; `FiresStayFaithful`
  is about any number of both.
- *Gate:* five policies that differ in mode, roots and rules (allowed, forbidden
  and prompted prefixes that overlap), a path inside, one beside and a link that
  leads out of the workspace, a wrapped and a direct command.
- *Processes:* up to four chunks against a cap of two, one descendant, one
  timer, one cancel; two servers that are closed between the calls of the host or in
  the middle of `connectAll`, three lists, two calls.
- *Results:* byte limits scaled down together (32:24 for 32 KiB:24 KiB) and every
  text of up to four lines of four lengths: below a marker, a line, over the tool's
  limit, over all.
- *Edits:* every file of up to three of four lines against every block of up to two
  of five; brackets that open, close or stay open for the tiers.
- *Files:* three session files and three turns: a session, its fork and the one
  a resume goes back to; three edits, or two and a write, with a save; two `adze apply` and a
  save, each asked for in every right and wrong way.
- *Surfaces:* two sessions and two turns; two hosts, two turns, two edits: the
  overlap is always between a thing and its successor. With subagents and resets each
  turn and subagent makes at most one call, which edits; calls that edit nothing move
  only the sequence numbers, and are in the other two editors.
- *Reverts and settings:* two edits of the engine over files of two or three
  words with replacements that double, vanish or overlap, one insertion by the
  user, an editor that reloads late; six configurations, two changes, two turns,
  two prompts.
- *Engine:* two sessions and two turns, or one session whose two turns are awaited
  twice; one mode that is widened, three tool lists a model may invent.
- *Plugins:* three lists of three or four hooks over two calls, so that filters,
  two decisions of one call and a late registration meet; two roots with each
  single defect of a manifest beside a good one; two processes and three commands
  with kills, or one and four without; every template of three pieces; globs of
  two parts around a star against every path of four characters.
- *Services:* four scripts of answers, four questions; 144 configurations of
  providers; four streams of ripgrep under caps of one to four; files of up to five lines,
  blank, short and over the budget, with up to three symbols that nest, cross or share
  a line; nine files, four
  environments and four sets of flags, each leaf legal, missing, misspelled or in
  conflict; seven hosts, every request and six commands; five case lists.

`CHECK_DEADLOCK FALSE` stands where the system really stops: a finished turn, an
exited command, a closed host, a result, a dead process; in turn_long and turn_promise
the last turn the bound allows. The gate has an explicit idle state and is checked for
deadlock in gate, and that a turn goes on to its end is `NothingHangs`.

## 4. Fairness

Weak fairness is put on what the code's runtime does by itself, never on a
person, a model or another program:

- the engine's own steps (`Loop!Engine(l)`: promises that resolve, hooks under
  the bus's timer, streams and tools that end). **Not** on an approval: a surface
  that never answers keeps the turn, and `NothingHangs` says so;
- time (`Live!Tick`) and the submitted turn's own steps;
- a fire's timeout (`Bus!Fails`), the only thing sure to come;
- the delivery of kernel events (`Events` of both brokers) and the grace timer;
  not on the descendant, which may hold the pipes for ever, and the plain broker's
  timer not at all (`TimedSpec` of the module adds it);
- in `McpHost` the steps of adze itself, the close event of a server that is gone
  and the timers of calls; not on a server's answers;
- in `SdkClient` the client's continuations, and strong fairness on the end of a
  turn, which is disabled while it waits for an approval and enabled again after
  each: its steps are bounded, so it cannot ask for ever, and `NothingHangs` is the
  engine's side of it.
- in `EngineSessions` the end of a turn (strong: its subagents come and go before
  it; a person who is asked is taken to answer, `NothingHangs` is about one who
  does not) and the return of an await;
- in `RunCommand` the process and its input: stdin, while somebody reads it,
  brings its lines and ends. The turn inside it ends by `NothingHangs`;
- in `ProviderGateway` the code's own steps and the end of the provider's stream:
  the property is about streams that end, an endless one is cut by the wall clock
  of `TurnBudget`; in `WorkspaceSearch` the provider's steps, the timer of the
  child and the close of a child that was killed;
- in `PluginHooks` every step of a fire, since each guest is under a timer, and in
  `PluginLoading` every step: it is a loop over files.

## 5. The proofs

Every theorem holds for every value of the constants that satisfies the hypotheses
named beside it. The last column is the inductive invariant it follows from; each was
checked by TLC on an instance of its module before it was proved. The theorems about a
suite are about its own specification: what varies from part to part is a constant of the
suite, a record for the parametrised instances (`Turns(p)`, `Host(servers, ...)`,
`Surface(p)`, `Files(p)`, `Chats(p)`), and its assumption `ConstantsAreLegal` says which
values are meant.

| Theorem | Establishes | Hypotheses | Rests on |
|---|---|---|---|
| **`TurnMachine_proofs`** | | bounds, budgets, `Faults` as assumed in the module | |
| `TypeCorrect` | `[]TypeOK` | | one lemma per action |
| `SubagentsAreInside`, `CeilingsHold`, `CancelLetsOneThrough` | `[]SubagentInsideTurn`, `[]RequestWithinBudget`, `[]OneLateRunAtMost` | | `Safe` |
| `CancelStopsRequests` | `NoRequestAfterCancel` | | `Safe`, `StepShape` |
| `StopReasonsAreTrue`, `DeniedCallsNeverRan` | `[]StopReasonIsTrue`, `[]DeniedNeverRan` | | `Honest` |
| `HistoriesReplay` | `[]ReplayableHistory` | | `Replays` |
| `NextTurnsAreValid` | `[](Thrown = {} => NextTurnIsValid)` | | `Replays` |
| `PromiseIsKept` | `KeepsPromise`, the refinement of `Conversation` | `Faults \subseteq {"budget"}` | `Replays` |
| **`PermissionGate_proofs`** | | `GateAssumption` | |
| `TypeCorrect`, `Justified`, `WritesAreReadable` | `[]TypeOK`, `[]GrantIsJustified`, `[]WritableIsReadable` | | `IInv` |
| `ForbiddenCommandsNeverRun` | `[]ForbiddenNeverRuns` | `OneText` | `IInv`, `OnlyGrantsRun` |
| **`MCTurnParts`** | | `ConstantsAreLegal` | |
| `CeilingsAreKept` | `[]CeilingsAreTrue` | none | `BudgetInv` |
| `FiresStayFaithful` | `[]FireIsFaithful` | none | `HInv` |
| **`EngineSessions_proofs`** | | `EngineAssumption` | |
| `SessionsAreKept` | `[](TypeOK /\ OneTurnAtATime /\ GateIsThePolicy /\ SubagentsNeverWiden)` | | `EInv` |
| `PrefixesTell`, `CancelsAreAimed`, `AwaitsTellTheEnd` | `PrefixTellsThePolicy`, `CancelIsAimed`, `AwaitedMeansOver` | | `EInv` |
| **`Processes_proofs`** | | `ConstantsAreLegal` | |
| `ReportsAreComplete` | `[]OutputIsComplete` | | `BInv`, `CInv` |
| `OutcomesAreFinal` | `SettledIsQuiet` | | `BInv`, `CInv` |
| `HostsAreTidy` | `[]HostIsTidy` | none | `HostInv` |
| **`Tools_proofs`** | | `ConstantsAreLegal` | |
| `FileEditsStay` | `[]DoneEditsStay` | `Apart`; for edits that stay, one session that only edits; no `adze apply` but in the part about it | `FInv`, `EditsBuildOn` |
| `SavesStay` | `[]SavedTurnsSurvive` | one chat at a time | `ChatInv` |
| **`SdkClient_proofs`** | | `ClientAssumption` | |
| `ClosedAndCountedOnce` | `[](TypeOK /\ ClosedMeansCancelled /\ CountedOnce)` | | `CInv` |
| `NobodyIsRefusedFalsely` | `NoFalseRefusal` | | `CInv` |
| `ClosesWait` | `[](CloseWaits /\ DisposeWaits /\ NothingOutlivesDispose)`, `UsageIsWhole` | `Consumer = {}` | `CInv`, `DInv`, `KnownAreOpen` |
| **`MCSurfaces`** | | `ConstantsAreLegal` | |
| `SessionsAreClosedAndCounted` | `[]ClosedAndCounted` | `CarefulUse.habits = {}` for `DisposeWaits` | `CInv`, `DInv` |
| `NobodyIsRefusedFalsely` | `NoFalseRefusal` | | `CInv` |
| `TheViewStaysHonest` | `[]ViewIsHonest` | a plain editor, but for `RestIsRest` | `PlainInv`, `RestInv` |
| `SettingsStayObeyed` | `[]SettingsAreObeyed` | | `SInv` |

The hypotheses that are more than types say when the code keeps its word:

- `Faults \subseteq {"budget"}`: no approval channel and no sink throws. One that does
  skips the answers of a step, which is the finding of turn_ragged, so the refinement
  fails there. `HistoriesReplay` needs no such hypothesis: its property bounds what a
  turn that threw leaves behind, and `NextTurnsAreValid` says that nothing else breaks a
  history.
- `OneText`: two command effects with the same argv declare the same text. The shell
  tool is the only one that declares a text of its own, and it puts the whole of it into
  the argv (`core/src/tools/shell.ts`). The session's memory goes by the argv and the
  rules by the text: with two texts for one argv what is remembered for one would let the
  other run. The instance of the run gate satisfies it.
- `Apart`: no two calls share a temporary name, because their milliseconds differ
  (`~SharedMs`) or because they are of one session, which has one at a time. Without it
  `FileIsWhole` is false (section 6). `adze apply` writes in place, so that files are whole
  only where nobody runs it; the part "byCommand" is what holds when somebody does. One
  session: of two with one file, the second may write over what the first did after it had
  read; and the write tool replaces the whole file.
- *One chat at a time*: of two chats over a session the later overwrites the other
  (section 6). A chat may be killed and the disk be full at any point, in the middle of a
  save too: that costs what was in this one file (`SavesAreAtomic` is false), and the
  theorem says that it costs nothing else.
- *A plain editor* has no subagents, no reverts and a host that is never let go of; what
  the view shows in the others is in section 6. `RestIsRest` is proved of every editor.
- `Consumer = {}`: an embedder that awaits every run and closes nothing twice. With the
  habits that `Consumer` names `close` and `dispose` may return too early (section 6).

### Why the invariants are not inductive, and what makes them so

*The loop.* `Safe == SubagentInsideTurn /\ RequestWithinBudget /\ NobodyWaitsBehind`;
the last says that at most one tool body was entered after the abort, and once one was,
no level stands at a hook or an approval from which a second could be entered. It needs
the first: with a subagent outside its parent's task call two levels could wait at once.
`Honest` says of each frame, place by place in the code, which reasons to stop can be
true there (`Fits`, `TrueReason`) and which of a call's answers can have been given
(`ToldApart`). `Replays` says that the history of a level, with the answers of a tool
phase in progress filled in (`Fill`), is linear, the turn's unless it threw, and that turns
settle once each, in the order of their numbers (`Settled`). Two sets of shapes carry the
arguments: what a disjunct of `Next` does to a frame's program counter (`StepShape`), and to
a history so filled in (a prompt, a whole exchange, or nothing). The refinement follows
from the second: a step that adds nothing stutters on the log, since `Answered` adds the
answers while they are collected, and the others are actions of `Conversation`.

*The gate.* `IInv` adds to `GrantIsJustified` that the gate remembers only what the
user allowed under the policy in force (`MemoryIsConsent`), that no call outlives
its turn (`CallsAreInTurns`), so that the policy cannot change under one, and that
what is put to the user is what the policy asks about and the gate does not
remember (`AskedIsPending`). `ForbiddenCommandsNeverRun` is about lists of rules of any
length: `VerdictIsSpecific` shows, from the existence of a least and of a longest
matching rule, that where a rule forbids and the verdict does not, a rule at least as
long decided otherwise.

*The budget.* `Told` is the account: what the tracker was told is what was billed, less
what was lost, which is nothing unless a stream broke off, reported no usage or a subagent
ran. A request is out only under the ceilings (`Requested`), so the one response that ends
it is all the count can exceed them by; the steps bound the requests, and with them the
bill, the subagent's included. `Underway` says which calls a step can have, and `Limited`
that a limit was computed from the time left when the tools of the step began, so that a
call is late by no more than the ones before it took.

*The hook bus.* The order of asking is the order of registration, kept as a history in
`known`; `ListIsSorted` says that the live list is always in that order, through
`Append` and `splice`. Of a waiting fire `Walk` says that whatever still lies ahead of
the iterator was registered after all it has asked (`NothingIsBehind`: a `splice` moves
hooks towards the front, never behind the iterator's past), that the list still begins as
it did at the start of the fire up to the first hook that is gone (`StillThere`: so only a
hook behind a disposed one can be passed over), and that what was given out after the last
rewriting is what that one left (`Chained`, which needs that no hook is asked twice).
`AdvanceWalks` proves the loop of a fire once, for all the actions that end in it.

*The engine.* `EInv` says that the active turn of a session is the one turn of it that is
not over (`ActiveIsOpen`), which survives a close only because a closed session's name is
not given out again; that the gate in the runtime is of the session's policy and is the one
the active turn holds (`GatesAgree`), so that an override, which builds a new gate, cannot
come between; and that a subagent is there only while its turn waits for it, with that
turn's gate (`ChildIsInside`). The second is what makes a request's prefix tell the right
policy, though the prefix was frozen earlier and the override came later.

*The brokers.* What was read of the pipes is kept up to the cap, as long as nobody let go
of them (`Accounted`); only a command that was killed is let go of, and only one that has
ended, its descendant with it, is closed (`Ended`); after an outcome nothing is armed
(`Disarmed`). The contained broker never lets go of its pipes, but may be settled by a grace
timer: those are armed by the timer or by the listener, once each (`Graced`), and until there
is an outcome the listener is there or has noted the cancel (`Noted`).

*The MCP host.* Servers are connected one at a time in the order of the configuration
(`InTurn`): those before `at` have failed or are connected, and what a close took was
connected. `Stopped` follows a close through its list: a connected server is on the host's
list before the close and on the close's after it, unless it came too late. `Listed`
follows a discovery through the lists.

*The files.* A temporary name leads to the file of the one call that writes under it
(`NamesAreOwn`), what is about to be renamed is the whole result (`FullIsResult`), what the
path leads to was put there by a call that is done (`FilesHaveLanded`), and of one that is
not done nothing is anywhere but in its own file (`UnfinishedIsUnseen`); of a command
nothing is anywhere before it has exited with 0 (`CommandIsHonest`). `EditsBuildOn` relates
the call at work to the file: what it has read, and will write, holds every edit that is
done and whatever was there when it was let in. It is about edits alone: the write tool
replaces the file, and `DoneEditsStay` of the module speaks of histories without one.

*The chats.* `ToldIsHeld` says that what a save was reported to contain is not only in the
file but in the conversation of the chat that has the session, before the prompt it drops
when a turn fails; without that the next save, which rewrites the file, could take it away.
`PromptIsLast` says that what is dropped is no more than that prompt. A fork is cut before
the k-th prompt, which exists because there are at least k prompts (the least of the places
from which k are counted, `WellFoundedInduction`), and the count in its header is right
since a conversation in order has no more replies than prompts (an injection,
`FiniteSetTheorems`).

*The SDK client.* `CInv` says whose each turn is and that a session has one in flight
(`TurnsAreOwned`, `OneInFlight`), that until it is disposed of the client knows every session
that is not closed (`OpenAreMembers`), and that the policy its accessors give is the one the
engine enforces except while a submit is under way (`PolicyIsTheGates`): the last two make a
false refusal impossible. `DInv` adds, for a careful embedder, that of the turns of a session
at most one has a result to come (`OthersAreGiven`), the active one once its submit has
returned (`ActiveIsDue`), so that a close waits for the right one (`CloseKnowsIt`), and that
`dispose` has every session that is not closed on its list (`DisposeHasAll`). `KnownAreOpen`
says what the engine still knows: `dispose` leaves it nothing.

*The editor.* `RestInv`: a host that knows a turn knows a live one, and nothing is
shown as running but a live one and one on screen that rejected. `PlainInv` adds, for a plain editor, that the turn in flight is that of
the only host, that the view is of that turn and expects exactly its next event
(`ViewIsCurrent`), without which a dropped event would lose a call or an edit. `SInv`: a
session is of the settings in force or gone, and so is a turn that was not told to stop;
a prompt was opened under a policy that permits one.

### Only model-checked

Out of this prover's reach:

- liveness under fairness (`NothingHangs`, `CommandsReturn`, `CloseReturns`, and the last
  conjuncts of `HooksDecide`, `LoadedIsWhole`, `SessionsKeepTheirWord`, `RunTellsTheOutcome`,
  `CallsAreBilled` and `SearchIsHonest`) and `ENABLED`;
- induction over data: what recursive functions and folds compute for every text, in
  `ToolResults`, `EditMatch`, `EditApplier`, `ConfigLayers`, `WorkspaceSearch` and
  `PromptExpansion` (`CutsAreAccounted`, `MatchIsFaithful`, `TiersEndWell`,
  `TextMeansItself`, parts of `ConfinementIsThePlan`, `SearchIsHonest` and `ReportsAreBound`);
- the lists of `PluginStore`, `PluginHooks` and `EditReview` (`StoreIsConsented`,
  `HooksDecide`, `RevertIsCareful`) as they are written: operators that take operators
  (`SelectSeq`, the folds) have no facts the provers can use;
- the suites `MCPlugins` and `MCServices` as a whole, which reach the `RECURSIVE`
  operators of `NamesAndVersions` and `Chunking`. The safety of `SessionsKeepTheirWord` is
  proved of its module, in `EngineSessions_proofs`.

`PluginLoading`, `RunCommand`, `ProviderGateway`, `SandboxPlan` and `BenchReports` have no
proofs: their safety is checked on instances only.

## 6. Where the code and its documentation disagree

Three are runs of their own, whose counterexample TLC finds:

| Run | Promise | What the code does |
|---|---|---|
| turn_ragged | `NextTurnIsValid`: the history of a finished turn is one the next can continue (`sdk/src/types.ts:280-281`) | an approval channel that rejects leaves the step's calls unanswered in the history (`core/src/turn.ts:334`) |
| revert_ambiguous | `AmbiguityIsRefused`: "If `replace` occurs more than once, this module refuses" (`vscode/src/edits/locate.ts:19-21`) | `countOccurrences` goes on after the end of a match, so "aa" in "aaa" counts once and the revert goes to the first place (`locate.ts:54`) |
| gate_override | `OverrideLastsOneTurn`: "Per-turn override" (`protocol/src/messages.ts:159`) | the override is written into the session and stays (`core/src/engine.ts:319`) |

The modules state more promises that the code breaks. They are no runs; to see
one, instantiate the module with the constants given, or take the part of the
suite that is nearest, and check the definition.

| Module: definition | Constants that matter | The code |
|---|---|---|
| `TurnMachine`: `StartedMeansRan` | any | `tool.started` is emitted also for unknown tools and invalid arguments (`turn.ts:451`; `events.ts:127-129`) |
| `AbortEndsTheTurn` | two turns | an abort inside a subagent becomes an ordinary tool result (`engine.ts:421`; `docs/guides/embedding.md:273`) |
| `CancelFalseOnceFinished` | any | `cancelled: true` until the `finally` after `turn.completed` (`engine.ts:379`; `messages.ts:178`) |
| `SubprocessBroker`: `TimeoutReturns` | `Descends`, under `TimedSpec` | when the process exits by itself and a descendant keeps its pipes, the timer kills nothing and `exec` stays pending (`broker.ts:337`; `broker.ts:194-195`) |
| `HookBus`: `EveryHookAsked` | `Disposes` | `dispose` during a fire shifts the array under the iterator and the next hook is passed over (`hooks.ts:145`; `hooks.ts:171`) |
| `TurnBudget`: `BillWithinBudget` without the condition `LosesNothing` | a token ceiling and one of: `"task"` in `Tools`; `"silent"`; `"midway"` in `Faults` | a subagent's usage counts nowhere (`engine.ts:469`); missing usage is zero (`usage.ts:85`); a stream that fails midway is free (`gateway.ts:514`) |
| `ToolsEndInTime` without the allowance for the calls before it in the step | `MaxCalls` 2, `Latency` 1, a wall clock, "command" | the time left is computed once per step, and each call of the step gets all of it (`turn.ts:330`) |
| `ChatSessions`: `SavesAreAtomic`; `SavedTurnsSurvive` | `Faults`; two `Procs` | a kill or a full disk during the rewrite loses the file (`store.ts:126`, `141`); the later of two chats overwrites the other (`chat.ts:327`) |
| `ResumeKeepsSettings`, `RecordedRollsHappened` | two `Settings`; any | the header's settings are never read (`chat.ts:480`); `/compact` records a roll that nothing rolls (`chat.ts:622`) |
| `ToolResults`: `TokenStaysRedeemable`, `CutIsContinuable`, `TokenReachesModel`, `ReadsCutFromTheTail`, `HardCap` | as in part "in a row" | eviction takes tokens that are out (`truncate.ts:227`); a cut by the tool alone is not registered (`dispatch.ts:197`); the token is not in the message (`turn.ts:490`); reads are cut in the middle (`dispatch.ts:191`); a marker is put where it does not fit (`truncate.ts:72`) |
| `EditApplier`: `MeantPlaceIsTaken` | as in part "quoting" | a block with a line to the left of its first one is not found where it was shifted as a whole, and another place is edited (`match.ts:8`, `163`) |
| `AmbiguityIsReported`, `RelativeIndentMatches`, `PlacedOnItsIndent`, `NoLineAppears`; `LocationsAreInTheOriginal` | as in part "quoting"; `MaxEdits` 2 | overlapping places count once (`match.ts:89`); a line of another indent matches (`match.ts:203`); a line found inside a line carries no indent (`match.ts:80`); a trailing newline is doubled (`match.ts:132`); offsets are those of the intermediate text (`applier.ts:125`) |
| `FileEdits`: `FileIsWhole`, `FailureWritesNothing` | `SharedMs`, several sessions | two writes in one millisecond share a temporary file (`fs.ts:147`) |
| `SubprocessBroker`: `CancelReturns`, `EngineSurvives` | `PreAborted`; `Feeds` | the listener is added to a signal already aborted (`broker.ts:275`); stdin has no error listener (`broker.ts:357`) |
| `PermissionGate`: `AllowSessionLasts`, `BrokerAgrees`, `RulesMatchArgv` | as in gate | any override forgets what was allowed for the session (`engine.ts:321`); gate and broker match different texts (`sandbox/src/policy.ts:244`, `permissions.ts:348`) |
| `ChatSurface`: `TranscriptIsHonest`, `CancelReaches`, `NeverWhileATurnRuns`, `RevertUndoesWhatItForgets` | `Subagents` or `Resets`; `Subagents`; `GhostText`; `Reverts` | a subagent's events, or those of a host let go, are folded into the turn's view (`view-model.ts:123`, `controller.ts:152`) and clear the turn (`engine/host.ts:219`); `busy` is read before the pause (`inline/provider.ts:83`); entries recorded during a revert are forgotten (`review.ts:164`) |
| `ShownRunningMeansRunning`; `RunningIsKnown` | any; `Resets` | a turn whose `runTurn` rejects sends no `turn.completed` (`core/src/turn.ts:327-334`), so the view says running until the next (`view-model.ts:285-288`, `engine/host.ts:163-167`); a host let go leaves its turn in the view |
| `SdkClient`: `CloseWaits`, `UsageIsWhole`, `DisposeWaits`, `NothingOutlivesDispose` | `Consumer` with "late", "late", "again", "early" | `client.ts:293`, `291`, `317`, `165` |
| `McpHost`: `AliveMeansUp`, `DeadMeansGone`; `NothingRunsAfterClose` | any; `Interrupts` | handlers are installed after discovery (`client.ts:343`); any protocol error is taken for death (`client.ts:109`); `connectAll` goes on after `close` (`client.ts:499`) |
| `RunCommand`: `MissingKeyIsUsage`; `QuitEndsTheTurn` | as in part "run" | a missing key is thrown by the stream and caught by the step: exit 1, not 2 (`run.ts:11-13`, `turn.ts:280-296`); quitting at a subagent's question ends the subagent only (`approval.ts:161`, `192`; `engine.ts:474-496`) |
| `PluginHooks`: `FailureIsDenied`, `ShownIsWritten`, `DiscardIsVisible` | as in part "hooking" | an answer of another event is recorded as treated as deny and passed over (`plugin-sdk/src/hooks.ts:466`); an earlier rewrite does not reach the content an edit.pre guest is shown (`hooks.ts:129`); a rewrite of tool.pre that edit.pre's denial discards is not told (`hooks.ts:571`) |
| `FileEdits`: `FailureLeavesTheFile`; `CommandKeepsSaves` | `FullDisk`; `Saves` and `Commands` | `adze apply` writes in place, which empties the file first (`apply.ts:253`; `10-12`); a save between its read and its write is lost |
| `NamesAndVersions`: `UnreadableIsRefused`; `DifferentToolsDiffer` | a wildcard before an unreadable token; names that differ in unsafe characters only | the wildcard answers before the rest is read (`semver.ts:12`, `manifest.ts:588`); `a b` and `a.b` of one server become one name, on which `ToolRegistry.register` throws (`naming.ts:38`, `registry.ts:83`) |
| `Chunking`: `CeilingIsKept`; `EveryLineOnce` | as in part "sample"; symbols that share a line | merging adds two estimates and forgets the line break (`chunk.ts:213`; `types.ts:294`, `chunk.test.ts:197`); the shared line is in both chunks (`chunk.test.ts:92`) |
| `PluginStore`: `RemovedCanBeReinstalled`; `NoInstallIsLost` | a URL in `Sources`; two `Processes` or `Kills` | remove leaves the clone, and git does not clone into it (`plugins/store.ts:137`); the later of two adds overwrites the other, and a torn file reads as empty (`store.ts:81`) |
| `ConfigLayers`: `ForbidIsAbsolute`, `HookTyposRefuse`, `RulesAreRead`, `RootsFallThrough`, `FlatSectionsRefuse` | as in part "config" | a longer `prompt` rule wins over a forbid, so it is offered for approval (`flags.ts:145-148`); a misspelled `onHookFailure` lets the layer below decide (`loader.ts:655`); rules of a section that failed its schema are not validated again (`loader.ts:181`, `213`); when only relative roots remain the layer below is not asked (`loader.ts:660`; `339`); a section that is no object is dropped and the file below decides (`loader.ts:658-660`, `185-206`) |
| `SandboxPlan`: `FoundMeansWorks`; `MechanismWasFound` | as in part "plan" | no surface asks for verification, so that a bubblewrap that cannot start is reported os-level (`capabilities.ts:9-12`, `select.ts:64`); docker by name is taken where none was found (`capabilities.ts:14`, `select.ts:133`) |
| `ReportIsThePlan`, `FullAccessWrites` | as in part "plan" | `createCliSandbox` reports a plan without the network hosts that exec applies (`select.ts:121-123`); a container under full access still has only its mounts (`docker.ts:91`; `policy.ts:336`) |
| `WorkspaceSearch`: `OmissionsAreTold`; `UnreadableIsTold`; `TruncatedMeansCut` | a file that is `big`; a match that is not UTF-8; as in part "search" | a file too large to parse is left out without a reason or a note (`types.ts:154`); a match whose line or path is given as bytes is skipped silently (`ripgrep.ts:197-209`); what is whole is called cut when it is as long as the cap or the deadline passed (`types.ts:159`) |
| `ProviderGateway`: `BillIsWhole`, `OperatorsEndpointStands`, `RedactionIsFixed` | as in part "gateway" | an abort reports no usage (`gateway.ts:493`); a workspace file sets the endpoint over the exported one (`config.ts:4-8`); for a pattern without a group the second argument of the replacer is the offset of the match, which is put before the marker (`redact.ts:92-97`; `31`) |
| `EditReview`: `RevertRestores` | replacements that overlap what stands beside them | the inverse of the blocks, taken in the wrong place, leaves another file than the one that was edited (`locate.ts:14-17`) |
| `SurfaceSettings`: `InvalidBlocks`, `ZeroIsNotUnbounded` | as in part "settings" | ghost text starts turns under invalid settings (`settings.ts:14`, `controller.ts:390`); a ceiling of 0 is left out, and no ceiling is unbounded (`settings.ts:114`) |
| `BenchReports`: `IntegrityIsEnforced` | as in part "bench" | the breakdowns by tier, strategy, validator, tag and reason and the split of failures and harness errors are not checked (`report-policy.ts:30`, `169`) |
| `TrialsAreKept`, `LeaksAreFound` | ids that differ in a separator; a patch line that begins with a sign | two ids become one file name (`write-run.ts:36`; `runner.ts:51`); a patch line whose content looks like a diff header is skipped (`leakage.ts:72-74`) |

The passing runs check the same definitions where the code does keep them: the
constants of the suites leave out just the case named here, and say so.

## 7. Modelling decisions worth knowing

- A provider's stream, tools, hooks, servers, the person and the kernel are
  nondeterministic; what they may do is what the code is prepared for.
- The sink may cancel or close at each event; this is why an emit ends an action.
- Faults are switched by constants (`Faults`, `Descends`, `PreAborted`, ...), so a
  property can be checked with and without them, and a proof covers any choice.
- Line breaks are `\n` in `EditMatch`; of the validators `EditApplier` keeps that
  brackets close.
- `Verdict` in `PermissionGate` follows the order of the early returns in
  `classify*`: full access first, then the roots.
- Numbers are unbounded in the models; the code's are counts and milliseconds far
  from the limits of doubles.

## 8. Not modelled, and the plan

Left out for good: rendering and formatting, logging, the patterns of test runners,
data files, generated schemas, build scripts, the layout of what doctor and models print
(what they decide stands in `ProviderGateway`, `ConfigLayers`, `SandboxPlan` and
`PluginStore`, beside what the component then does), the front-matter and manifest grammars,
the symbol extractors and
vectors of retrieval, the conversion of
messages to the provider SDK's shapes, the MCP server side (one request at a time,
no state of its own), worktrees and the filtering of the environment.

Worth proving next:

1. `PluginStore` (`NothingWithoutConsent`) and `PluginHooks` (`DenialsDecide`,
   `NoSilentPass`), once their lists are written without operators that take operators;
   `EditReview` (`RevertIsCareful`) after them.
2. `RunCommand`: that each line answers the request it was read for.
3. `EngineSessions` under `TurnMachine`: that a turn of the first is a turn of the second.
