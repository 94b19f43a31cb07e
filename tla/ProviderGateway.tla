--------------------------- MODULE ProviderGateway ---------------------------
(***************************************************************************)
(* @adze/providers: the providers that a workspace, a home directory, the  *)
(* environment and an embedder configure (config.ts), the model that is    *)
(* chosen (factory.ts), what the catalog says of it (catalog.ts), and one  *)
(* streamed request of the gateway (gateway.ts) with the loop that         *)
(* consumes it (core's turn.ts).  The AI SDK is the environment: it sends  *)
(* the parts of a stream, retries by itself, and fails in its own ways     *)
(* (errors.ts, redact.ts).                                                 *)
(***************************************************************************)
EXTENDS Integers, SequencesExt, FiniteSets, Functions

CONSTANTS
  Homes, Workspaces, (* providers.json: None, Broken, or [entries, default] *)
                     (* with entries a function of ids to Entry.            *)
  Environments,      (* variable -> value or None.                          *)
  Invocations,       (* [providers, ref, effort, tools]                     *)
  Known,             (* <<provider, model>> -> [native, priced]: the        *)
                     (* catalog.                                            *)
  Errors,            (* What the SDK throws: the chain of its causes, each  *)
                     (* [status, attempts, text].                           *)
  MaxParts, MaxTokens,  (* Bounds of a stream.                              *)
  Broken, None

Kinds == {"anthropic", "openai", "openai-compatible"}
Vendors == {"anthropic", "openai"}

KeyVars == [k \in Kinds |->
  CASE k = "anthropic" -> <<"ANTHROPIC_API_KEY", "ADZE_ANTHROPIC_API_KEY">>
    [] k = "openai"    -> <<"OPENAI_API_KEY", "ADZE_OPENAI_API_KEY">>
    [] OTHER           -> <<"ADZE_COMPATIBLE_API_KEY">>]
BaseVar == [k \in Kinds |->
  CASE k = "anthropic" -> "ANTHROPIC_BASE_URL" [] k = "openai" -> "OPENAI_BASE_URL"
    [] OTHER           -> "ADZE_COMPATIBLE_BASE_URL"]

GatewayAssumption == MaxParts \in Nat \ {0} /\ MaxTokens \in Nat \ {0}

VARIABLES
  home, workspace, env, invocation,  (* What is configured.                 *)
  phase,     (* "start", "ready", "streaming", "drained", "ended".          *)
  providers, (* id -> ResolvedProvider.                                     *)
  model,     (* The selection in force: [provider, id].                     *)
  refused,   (* A ProviderConfigurationError, by what it is about.          *)
  parts,     (* How many parts the stream had.                              *)
  emitted, usage, finishReason, failure,   (* The locals of stream().       *)
  signal,    (* The turn's AbortSignal.                                     *)
  said, calls, finish,   (* What consumeStream collected; finish is the     *)
                         (* last chunk.                                     *)
  reported,  (* History variable: the usage in the provider's finish part.  *)
  completed, (* History variable: the tool calls the provider completed.    *)
  outcome    (* Of the step, once it is over: [kind, calls, usage, failed]. *)

config   == <<home, workspace, env, invocation>>
resolved == <<providers, model>>
locals   == <<parts, emitted, usage, finishReason, failure>>
chunks   == <<said, calls, finish>>
history  == <<reported, completed>>
vars == <<config, phase, resolved, refused, locals, signal, chunks, history, outcome>>

Init ==
  /\ home \in Homes /\ workspace \in Workspaces
  /\ env \in Environments /\ invocation \in Invocations
  /\ phase = "start" /\ providers = <<>> /\ model = None /\ refused = None
  /\ parts = 0 /\ emitted = FALSE /\ usage = None /\ finishReason = "stop"
  /\ failure = None /\ signal = FALSE
  /\ said = 0 /\ calls = <<>> /\ finish = None
  /\ reported = None /\ completed = <<>> /\ outcome = None

-----------------------------------------------------------------------------
(* Configuration.                                                          *)

NoEntry == [kind |-> None, keyEnv |-> None, key |-> None, base |-> None,
            default |-> None, native |-> None]

(* { ...entries[id], ...entry }                                             *)
Over(entry, under) ==
  [f \in DOMAIN NoEntry |-> IF entry[f] = None THEN under[f] ELSE entry[f]]

Overlay(entries, under) ==
  [id \in DOMAIN entries \cup DOMAIN under |->
     Over(IF id \in DOMAIN entries THEN entries[id] ELSE NoEntry,
          IF id \in DOMAIN under THEN under[id] ELSE NoEntry)]

firstDefined(names) ==
  LET set == SelectSeq(names, LAMBDA v : env[v] # None)
  IN  IF set = <<>> THEN None ELSE env[Head(set)]

builtinEntries ==
  [k \in IF env[BaseVar["openai-compatible"]] = None THEN Vendors ELSE Kinds |->
     [NoEntry EXCEPT !.kind = k]]

EntriesOf(file) == IF file = None THEN <<>> ELSE file.entries

(* A file of the workspace overlays one of the home directory, key by key,  *)
(* and the embedder's entries overlay both.                                 *)
Entries ==
  Overlay(invocation.providers,
    Overlay(EntriesOf(workspace), Overlay(EntriesOf(home), builtinEntries)))

kindOf(id) ==
  LET declared == Entries[id].kind
  IN  IF declared # None THEN declared ELSE IF id \in Kinds THEN id ELSE None

Or(first, second) == IF first # None THEN first ELSE second

(* The variable an entry names, then its literal key, then the variables of *)
(* the vendor; the entry's endpoint, then the environment's.                *)
resolveOne(id) ==
  LET e == Entries[id]  k == kindOf(id)
      named == IF e.keyEnv = None THEN None ELSE env[e.keyEnv]
  IN [kind |-> k, base |-> Or(e.base, env[BaseVar[k]]), default |-> e.default,
      native |-> e.native,
      key |-> Or(named, Or(e.key, firstDefined(KeyVars[k])))]

FileDefault ==
  LET of(file) == IF file = None THEN None ELSE file.default
  IN  Or(of(workspace), of(home))

Fallback == [anthropic |-> "claude", openai |-> "gpt"]

(* The order of Object.entries: the built-in ones first.                    *)
InOrder(ps) ==
  SelectSeq(<<"anthropic", "openai", "openai-compatible", "local">>,
            LAMBDA id : id \in DOMAIN ps)

(* A vendor that has a key before any other provider with a default model.  *)
fallbackSelection(ps) ==
  LET keyed    == SelectSeq(<<"anthropic", "openai">>, LAMBDA id : ps[id].key # None)
      declared == SelectSeq(InOrder(ps), LAMBDA id : ps[id].default # None)
  IN  CASE keyed # <<>> -> [provider |-> keyed[1],
                            id |-> Or(ps[keyed[1]].default, Fallback[keyed[1]])]
        [] keyed = <<>> /\ declared # <<>> ->
             [provider |-> declared[1], id |-> ps[declared[1]].default]
        [] OTHER -> None

selectModel(ps) ==
  Or(invocation.ref, Or(FileDefault, fallbackSelection(ps)))

(* createGateway: resolveConfig, selectModel, and a provider that exists.   *)
CreateGateway ==
  /\ phase = "start"
  /\ LET ps == [id \in DOMAIN Entries |-> resolveOne(id)]
         chosen == selectModel(ps)
         problem == CASE Broken \in {home, workspace} -> "file"
                      [] OTHER -> IF \E id \in DOMAIN Entries : kindOf(id) = None
                                  THEN "kind"
                                  ELSE IF chosen = None THEN "model"
                                  ELSE IF chosen.provider \notin DOMAIN ps
                                  THEN "provider" ELSE None
     IN  IF problem # None
         THEN /\ refused' = problem /\ phase' = "ended"
              /\ UNCHANGED resolved
         ELSE /\ providers' = ps /\ model' = chosen /\ phase' = "ready"
              /\ UNCHANGED refused
  /\ UNCHANGED <<config, locals, signal, chunks, history, outcome>>

-----------------------------------------------------------------------------
(* One request.                                                            *)

Provider == providers[model.provider]

(* An endpoint's own declaration wins over the catalog; a model that the    *)
(* catalog has never heard of is taken to call tools.                       *)
nativeToolCalling ==
  IF Provider.native # None THEN Provider.native
  ELSE LET m == <<model.provider, model.id>>
       IN  m \in DOMAIN Known => Known[m].native

lacksCredential == Provider.key = None /\ Provider.kind # "openai-compatible"

(* What stream() and defaultLanguageModel refuse before anything is sent.   *)
(* The turn sends no tools to a model without native tool calling.          *)
Refusal ==
  CASE lacksCredential -> "credential"
    [] ~lacksCredential /\ ~nativeToolCalling /\ invocation.tools -> "tools"
    [] OTHER -> IF invocation.effort # None /\ Provider.kind = "anthropic" THEN "effort"
                ELSE IF Provider.kind = "openai-compatible" /\ Provider.base = None
                THEN "endpoint" ELSE None

Request ==
  /\ phase = "ready"
  /\ IF Refusal # None
     THEN /\ refused' = Refusal /\ phase' = "ended"
          /\ outcome' = [kind |-> "thrown", calls |-> <<>>, usage |-> None,
                         failed |-> Refusal]
     ELSE phase' = "streaming" /\ UNCHANGED <<refused, outcome>>
  /\ UNCHANGED <<config, resolved, locals, signal, chunks, history>>

(* A part that is none of the last ones.                                    *)
PartComes == phase = "streaming" /\ parts < MaxParts /\ parts' = parts + 1
             /\ failure = None /\ reported = None

TextDelta ==
  /\ PartComes
  /\ emitted' = TRUE /\ said' = said + 1
  /\ UNCHANGED <<config, phase, resolved, refused, usage, finishReason, failure,
                 signal, calls, finish, history, outcome>>

ToolCall ==
  /\ PartComes
  /\ emitted' = TRUE
  /\ calls' = Append(calls, parts) /\ completed' = Append(completed, parts)
  /\ UNCHANGED <<config, phase, resolved, refused, usage, finishReason, failure,
                 signal, said, finish, reported, outcome>>

(* An empty delta, reasoning, a source, a step boundary.                    *)
Ignored ==
  /\ PartComes
  /\ UNCHANGED <<config, phase, resolved, refused, emitted, usage, finishReason,
                 failure, signal, chunks, history, outcome>>

ErrorPart ==
  /\ PartComes
  /\ failure' \in Errors
  /\ UNCHANGED <<config, phase, resolved, refused, emitted, usage, finishReason,
                 signal, chunks, history, outcome>>

toFinishReason(reason) == IF reason = "other" THEN "stop" ELSE reason

(* The totals of the request; they may follow an error.                     *)
FinishPart ==
  /\ phase = "streaming" /\ reported = None
  /\ \E reason \in IF failure # None THEN {"error"}
                   ELSE {"stop", "tool-calls", "length", "other"} :
       finishReason' = toFinishReason(reason)
  /\ \E n \in 1..MaxTokens : usage' = n /\ reported' = n
  /\ UNCHANGED <<config, phase, resolved, refused, parts, emitted, failure,
                 signal, chunks, completed, outcome>>

(* turn.cancel, or the budget's deadline.                                   *)
Abort ==
  /\ phase \in {"ready", "streaming"} /\ ~signal
  /\ signal' = TRUE
  /\ UNCHANGED <<config, phase, resolved, refused, locals, chunks, history, outcome>>

(* The nearest cause that is an HTTP failure, eight causes deep at the      *)
(* most; of a RetryError the last attempt, which ended it.                  *)
findApiCallError(chain) ==
  LET at == {i \in 1..(IF Len(chain) < 8 THEN Len(chain) ELSE 8) :
               chain[i].status # None \/ chain[i].attempts # <<>>}
      i  == CHOOSE j \in at : \A k \in at : j <= k
  IN  IF at = {} THEN None
      ELSE Or(chain[i].status, Last(chain[i].attempts))

classifyStatus(status) ==
  CASE status \in {401, 403} -> "auth"    [] status = 402 -> "quota"
    [] status = 404 -> "not-found"        [] status \in {408, 504} -> "timeout"
    [] status = 429 -> "rate-limit"       [] status >= 500 /\ status # 504 -> "server"
    [] OTHER -> "bad-request"

(* redact: the keys this process holds, and what is shaped like a key.  The *)
(* patterns have no group but one, and the second argument of the replacer  *)
(* is then where the match starts.                                          *)
redact(text) ==
  FlattenSeq([i \in DOMAIN text |->
    CASE text[i] = "held"    -> <<"[redacted]">>
      [] text[i] = "shaped"  -> <<"offset", "[redacted]">>
      [] text[i] = "labelled" -> <<"label", "[redacted]">>
      [] OTHER               -> <<text[i]>>])

toRequestError(error) ==
  LET status == findApiCallError(error)
  IN  [about |-> IF status = None THEN "unknown" ELSE classifyStatus(status),
       message |-> redact(error[1].text)]

throwsAlways(e) == TRUE

(* Nothing was handed to the loop yet.                                      *)
ThrowsOn(e) == ~emitted

(* The stream ends.  A stream that was aborted says nothing more; a failure *)
(* is thrown before anything was emitted and is a finish chunk after.       *)
StreamEnds ==
  /\ phase = "streaming"
  /\ phase' = "drained"
  /\ CASE signal -> UNCHANGED <<finish, outcome>>
       [] ~signal /\ failure # None ->
            IF ThrowsOn(failure)
            THEN /\ outcome' = [kind |-> "thrown", calls |-> <<>>, usage |-> None,
                                failed |-> toRequestError(failure)]
                 /\ UNCHANGED finish
            ELSE /\ finish' = [reason |-> "error", usage |-> Or(usage, 0),
                               failed |-> toRequestError(failure)]
                 /\ UNCHANGED outcome
       [] OTHER -> /\ finish' = [reason |-> finishReason, usage |-> Or(usage, 0),
                                 failed |-> None]
                   /\ UNCHANGED outcome
  /\ UNCHANGED <<config, resolved, refused, locals, signal, said, calls, history>>

(* runStep, after consumeStream: the usage first, then the signal, then the *)
(* assistant message with its calls.                                        *)
StepEnds ==
  /\ phase = "drained"
  /\ phase' = "ended"
  /\ LET billed == IF finish = None THEN None ELSE finish.usage
         failed == IF finish = None THEN None ELSE finish.failed
     IN  IF outcome # None THEN UNCHANGED outcome
         ELSE IF signal
         THEN outcome' = [kind |-> "cancelled", calls |-> <<>>, usage |-> billed,
                          failed |-> failed]
         ELSE outcome' = [kind |-> IF calls # <<>> THEN "tools"
                                   ELSE IF finish.reason = "error" THEN "error"
                                   ELSE "end-turn",
                          calls |-> calls, usage |-> billed, failed |-> failed]
  /\ UNCHANGED <<config, resolved, refused, locals, signal, chunks, history>>

(* The signal may also abort between the last part and the step's check.    *)
LateAbort ==
  /\ phase = "drained" /\ ~signal /\ outcome = None
  /\ signal' = TRUE
  /\ UNCHANGED <<config, phase, resolved, refused, locals, chunks, history, outcome>>

Next ==
  \/ CreateGateway \/ Request
  \/ TextDelta \/ ToolCall \/ Ignored \/ ErrorPart \/ FinishPart
  \/ StreamEnds \/ StepEnds
  \/ Abort \/ LateAbort

(* The provider's stream ends, and the loop goes on.                        *)
Fairness == WF_vars(CreateGateway \/ Request \/ StepEnds) /\ WF_vars(StreamEnds)

Spec == Init /\ [][Next]_vars /\ Fairness

-----------------------------------------------------------------------------
(* What adze doctor and adze models say of the same files and variables.    *)
(* Neither is given entries by an embedder, and neither sends anything.     *)

(* resolveConfig throws: a broken file, or an entry of no kind it knows.    *)
Unreadable == Broken \in {home, workspace} \/ \E id \in DOMAIN Entries : kindOf(id) = None

(* A request could be made: there is a key, or none is demanded.            *)
providerUsable(p) == p.key # None \/ p.kind = "openai-compatible"

(* doctor outlives what it reports on; a provider is shown with its mark.   *)
buildProviderSection ==
  IF Unreadable THEN [error |-> TRUE, usable |-> {}, keyed |-> {}]
  ELSE LET ps == [id \in DOMAIN Entries |-> resolveOne(id)]
       IN  [error |-> FALSE, usable |-> {id \in DOMAIN ps : providerUsable(ps[id])},
            keyed |-> {id \in DOMAIN ps : ps[id].key # None}]

renderProviders(section) ==
  [id \in IF section.error THEN {} ELSE DOMAIN Entries |->
     IF id \in section.keyed THEN "key"
     ELSE IF id \in section.usable THEN "optional" ELSE "missing"]

(* What is asked of the programs around it: a version, or in the shell's     *)
(* case a command, is asked for, and finding one proves nothing; ripgrep is  *)
(* only looked for.                                                         *)
versionOf(program)   == program = "runs"
probeShell(program)  == program = "runs"
findRipgrep(program) == program # "missing"

(* The check of that name, a warning where it fails.                        *)
providerCheck(section) == section.usable # {}

(* All that is checked: host says whether node is new enough, and how the    *)
(* others are: missing, broken or running.                                  *)
buildChecks(section, host) ==
  {[name |-> "node", ok |-> host.node, required |-> TRUE],
   [name |-> "ripgrep", ok |-> findRipgrep(host.ripgrep), required |-> FALSE],
   [name |-> "shell", ok |-> probeShell(host.shell), required |-> FALSE],
   [name |-> "provider", ok |-> providerCheck(section), required |-> FALSE]}
  \cup {[name |-> n, ok |-> versionOf(host[n]), required |-> FALSE] : n \in {"pnpm", "git"}}

runDoctor(host) ==
  IF \E c \in buildChecks(buildProviderSection, host) : c.required /\ ~c.ok THEN "failure" ELSE "ok"

(* The models listed: the catalog's and the declared default of each usable *)
(* provider, or of every one.                                               *)
rowsFor(includeAll) ==
  LET ps == [id \in DOMAIN Entries |-> resolveOne(id)]
      shown == {id \in DOMAIN ps : includeAll \/ providerUsable(ps[id])}
  IN  {m \in DOMAIN Known : m[1] \in shown}
        \cup {<<id, ps[id].default>> : id \in {i \in shown : ps[i].default # None}}

(* models gives up where doctor goes on.                                    *)
runModels(includeAll) == IF Unreadable THEN "failure" ELSE rowsFor(includeAll)

-----------------------------------------------------------------------------
TypeOK ==
  /\ phase \in {"start", "ready", "streaming", "drained", "ended"}
  /\ parts \in 0..MaxParts /\ said \in 0..MaxParts
  /\ {emitted, signal} \subseteq BOOLEAN
  /\ usage = None \/ usage \in 1..MaxTokens
  /\ finishReason \in {"stop", "tool-calls", "length", "error"}
  /\ Len(calls) <= MaxParts

(* "Throwing after tool calls were emitted would lose calls the model       *)
(* completed" (gateway.ts:409-415): a step that was neither cancelled nor   *)
(* refused runs every call the provider completed, in order, though the     *)
(* stream failed after them; and nothing was said when it throws.           *)
CompletedCallsAreRun ==
  phase = "ended" /\ outcome # None =>
    /\ outcome.kind \in {"tools", "error", "end-turn"} => outcome.calls = completed
    /\ outcome.kind = "thrown" => completed = <<>> /\ said = 0
    /\ outcome.kind = "cancelled" => outcome.calls = <<>>

(* What the provider reported as used is what the loop bills, in every step *)
(* that was neither aborted nor thrown; and an abort after the finish chunk *)
(* does not lose it (turn.ts:298).                                          *)
ReportedIsBilled ==
  phase = "ended" /\ outcome # None /\ outcome.kind # "thrown" /\ finish # None =>
    outcome.usage = Or(reported, 0)

(* "All three must agree, or doctor reports a provider as unusable that run  *)
(* then uses" (doctor.ts:333-338, models.ts:58-69, gateway.ts:391-404): what *)
(* doctor and models say of a configuration without an embedder's entries is *)
(* what the request comes to, of the model that is named or chosen; and the  *)
(* exit code of doctor depends on neither, whatever is broken (doctor.ts:    *)
(* 352-356).                                                                *)
DiagnosesAgree ==
  LET section == buildProviderSection IN
  invocation.providers = <<>> /\ phase # "start" =>
    /\ section.error <=> refused \in {"file", "kind"}
    /\ refused = "credential" =>
         /\ renderProviders(section)[model.provider] = "missing"
         /\ \A row \in runModels(FALSE) : row[1] # model.provider
    /\ phase \in {"streaming", "drained"} =>
         /\ providerCheck(section) /\ renderProviders(section)[model.provider] # "missing"
         /\ invocation.ref = None /\ FileDefault = None =>
              <<model.provider, model.id>> \in runModels(FALSE)
    /\ \A node \in BOOLEAN, program \in {"missing", "broken", "runs"} :
         runDoctor([ripgrep |-> program, shell |-> program, pnpm |-> program, git |-> program]
                   @@ [node |-> node]) = IF node THEN "ok" ELSE "failure"

(* Every token the provider reported reaches the loop.                      *)
BillIsWhole ==
  phase = "ended" /\ reported # None => outcome # None /\ outcome.usage = reported

(* A request leaves only for a provider that was configured, with a key     *)
(* where one is needed and an endpoint where there is no vendor's; and a    *)
(* model that nobody named is one of a vendor whose key is there, whenever  *)
(* there is such a vendor (gateway.ts:376-404, factory.ts:88-101).          *)
NothingIsGuessed ==
  /\ phase \in {"streaming", "drained"} =>
       /\ Provider.kind \in Vendors => Provider.key # None
       /\ Provider.kind = "openai-compatible" => Provider.base # None
       /\ invocation.tools => nativeToolCalling
  /\ /\ phase \in {"ready", "streaming"}
     /\ invocation.ref = None /\ FileDefault = None
     /\ \E v \in Vendors : providers[v].key # None
     => Provider.key # None

(* The key a request carries is the one the user pointed at: the variable   *)
(* that the nearest entry names, unless it is empty, whatever literal keys  *)
(* and vendor variables lie about (config.ts:233-241).                      *)
NamedKeyWins ==
  phase = "streaming" =>
    LET e == Entries[model.provider]
    IN  /\ e.keyEnv # None /\ env[e.keyEnv] # None => Provider.key = env[e.keyEnv]
        /\ (e.keyEnv = None /\ e.key # None) => Provider.key = e.key

(* The kind that decides the advice is the one of the attempt that ended    *)
(* the request, and no key leaves in its message (gateway.ts:206-266).      *)
FailureIsNamed ==
  outcome # None /\ failure # None /\ outcome.failed # None =>
    /\ Range(outcome.failed.message) \cap {"held", "shaped"} = {}
    /\ failure[1].attempts # <<>> /\ failure[1].status = None =>
         outcome.failed.about = classifyStatus(Last(failure[1].attempts))

(* config.ts:4-8: "a checked-out repository's config file should not be     *)
(* able to silently redirect an agent at a different endpoint than the one  *)
(* the operator exported."                                                  *)
OperatorsEndpointStands ==
  phase = "streaming" /\ invocation.providers = <<>> =>
    LET exported == env[BaseVar[Provider.kind]]
    IN  exported # None => Provider.base = exported

(* redact.ts:31: "What replaces a redacted value. Fixed": a redacted        *)
(* message differs from the original only where a key was.                  *)
RedactionIsFixed ==
  outcome # None /\ failure # None /\ outcome.failed # None =>
    "offset" \notin Range(outcome.failed.message)

(* Every step that was begun comes to an outcome, or the configuration was  *)
(* refused before.                                                          *)
StepsEnd == <>(phase = "ended" /\ (outcome # None \/ refused # None))
=============================================================================
