------------------------------ MODULE BenchReports ------------------------------
(***************************************************************************)
(* A run of the benchmark harness (bench/harness/src): the cases are loaded *)
(* and run one by one, the report is derived from their results, the files  *)
(* are written, the publication policy is checked and the process exits     *)
(* (case-schema.ts, runner.ts, index-bench.ts, report-policy.ts,            *)
(* write-run.ts, bin/adze-bench.mjs).  The process may be killed at any      *)
(* point of it, a file or the fixture's copy may fail, and a directory given *)
(* with --out may hold an earlier run.                                      *)
(*                                                                         *)
(* The checks a run does not make yet, leakage of a task's solution, the     *)
(* sources of a published number and the comparison with it (leakage.ts,     *)
(* publication.ts, statistics.ts), are operators, for the values a caller    *)
(* may give them.  A rate is a pair <<passed, of>>, durations are left out,  *)
(* and the applier and ripgrep are external: a case comes with its result.  *)
(***************************************************************************)
EXTENDS Integers, FiniteSetsExt, SequencesExt

CONSTANTS
  CaseLists, (* Case files: sequences of cases, or of queries.             *)
  Suites,    (* The suite that is run; "index-bench" runs queries.         *)
  Filters,   (* What --filter asks for, or None.                           *)
  Left,      (* What --out may hold: trajectory files of another run.      *)
  None

VARIABLES
  args,         (* [suite, filter, write]; write is FALSE under --no-write. *)
  cases,
  phase,        (* "load", "run", "write", "over", "killed".               *)
  copy,         (* The copy of the fixture that queries search exists.     *)
  results,      (* The results of the cases that ran, in order.            *)
  report,       (* The BenchReport, or None.                               *)
  files,        (* Which of the four files this run wrote.                 *)
  trajectories, (* The trajectory files: a set of <<name, id>>.            *)
  written,      (* Trajectories written so far.                            *)
  exitCode

vars == <<args, cases, phase, copy, results, report, files, trajectories, written, exitCode>>

IsIndex == args.suite = "index-bench"

Init ==
  /\ args \in [suite : Suites, filter : Filters, write : BOOLEAN]
  /\ cases \in CaseLists /\ IsIndex = (cases[1].expect.kind = "paths")
  /\ phase = "load" /\ copy = FALSE /\ results = <<>> /\ report = None
  /\ files = {} /\ trajectories \in Left /\ written = 0 /\ exitCode = None

-----------------------------------------------------------------------------
(* Loading and running.                                                    *)

(* An output names its content; a refusal names its reason and no content.  *)
checkExpectation(expect) ==
  \/ expect.kind = "output" /\ expect.content # None
  \/ expect.kind = "refusal" /\ expect.reason # None /\ expect.content = None

parseQuery(query) == query.id # <<>> /\ query.expect.k >= 1 /\ query.expect.paths # {}
parseCase(case) == case.id # <<>> /\ checkExpectation(case.expect)

Ids(list) == {list[k].id : k \in DOMAIN list}

(* --filter looks in the id, the description and the tags.                  *)
matches(case, filter) == filter = None \/ filter \in case.says \cup case.tags

(* A case that is no case, two of one id, or none at all end the run; the    *)
(* queries of index-bench get a copy of the fixture to search in.           *)
Load ==
  /\ phase = "load"
  /\ LET Parses(c) == IF IsIndex THEN parseQuery(c) ELSE parseCase(c)
         selected == SelectSeq(cases, LAMBDA c : matches(c, args.filter))
         illegal == \/ \E k \in DOMAIN cases : ~Parses(cases[k])
                    \/ Cardinality(Ids(cases)) < Len(cases)
     IN IF illegal \/ selected = <<>>
        THEN phase' = "over" /\ exitCode' = 2 /\ UNCHANGED <<cases, copy>>
        ELSE phase' = "run" /\ cases' = selected /\ copy' = IsIndex /\ UNCHANGED exitCode
  /\ UNCHANGED <<args, results, report, files, trajectories, written>>

Unmet(expected, got) == expected # None /\ expected # got

(* What a result is under the expectation of its case: the first difference. *)
classify(expect, r) ==
  IF expect.kind = "refusal"
  THEN IF r.ok THEN "unexpected-success"
       ELSE IF r.reason # expect.reason THEN "wrong-reason"
       ELSE IF Unmet(expect.tier, r.tier) THEN "wrong-tier" ELSE "pass"
  ELSE IF ~r.ok THEN "unexpected-refusal"
       ELSE IF r.content # expect.content THEN "wrong-output"
       ELSE IF Unmet(expect.strategy, r.strategy) THEN "wrong-strategy"
       ELSE IF Unmet(expect.tier, r.tier) THEN "wrong-tier"
       ELSE IF Unmet(expect.validator, r.validator) THEN "wrong-validator" ELSE "pass"

(* Each path once, in the order of ripgrep's first match in it.             *)
returnedPaths(found) ==
  FoldLeft(LAMBDA acc, path : IF path \in ToSet(acc) THEN acc ELSE Append(acc, path), <<>>, found)

Top(returned, k) == SubSeq(returned, 1, Min({k, Len(returned)}))

matchedAtK(expected, returned, k) == \E path \in ToSet(Top(returned, k)) : path \in expected

precisionAtK(expected, returned, k) ==
  IF Top(returned, k) = <<>> THEN <<0, 1>>
  ELSE <<Len(SelectSeq(Top(returned, k), LAMBDA path : path \in expected)), Len(Top(returned, k))>>

(* A query passes when an expected path is among the first k.  A ripgrep     *)
(* that failed is the harness's error; a provider that failed is nothing.    *)
measureQuery(query, found) ==
  IF found = None THEN [outcome |-> "harness-error", precision |-> <<0, 1>>]
  ELSE LET returned == returnedPaths(found) IN
       [outcome |-> IF matchedAtK(query.paths, returned, query.k) THEN "pass" ELSE "wrong-output",
        precision |-> precisionAtK(query.paths, returned, query.k)]

OutcomeOf(case) ==
  IF IsIndex THEN measureQuery(case.expect, case.result).outcome
  ELSE IF case.result = None THEN "harness-error"
  ELSE classify(case.expect, case.result)

(* One case: what the applier throws is the harness's error, not the case's. *)
(* A query has no `actual': it measures no applier.                         *)
runCase ==
  /\ phase = "run" /\ Len(results) < Len(cases)
  /\ LET case == cases[Len(results) + 1]
     IN results' = Append(results, [id |-> case.id, outcome |-> OutcomeOf(case), tags |-> case.tags,
                                    actual |-> IF IsIndex THEN None ELSE case.result])
  /\ UNCHANGED <<args, cases, phase, copy, report, files, trajectories, written, exitCode>>

(* The fixture cannot be copied or listed, or the second search of it throws: *)
(* the copy is removed, and an error nobody catches ends the process.       *)
SuiteThrows ==
  /\ phase = "run" /\ IsIndex
  /\ phase' = "over" /\ exitCode' = 1 /\ copy' = FALSE
  /\ UNCHANGED <<args, cases, results, report, files, trajectories, written>>

-----------------------------------------------------------------------------
(* The report.                                                             *)

With(rs, outcomes) == SelectSeq(rs, LAMBDA r : r.outcome \in outcomes)

Rate(passed, of) == IF of = 0 THEN None ELSE <<passed, of>>

(* addToBreakdown for each result, under each of its keys.                  *)
Breakdown(rs, keys) ==
  [key \in UNION ToSet(keys) |->
     LET mine == {k \in DOMAIN rs : key \in keys[k]}
         passed == Cardinality({k \in mine : rs[k].outcome = "pass"})
     IN [total |-> Cardinality(mine), passed |-> passed, passRate |-> Rate(passed, Cardinality(mine))]]

(* The key of a result in the breakdown by a field the applier reported.    *)
Reported(rs, field) ==
  [k \in DOMAIN rs |->
     IF rs[k].actual = None THEN {}
     ELSE {IF rs[k].actual[field] = None THEN "none" ELSE rs[k].actual[field]}]

refusalReasons(rs) ==
  LET Refused == {k \in DOMAIN rs : rs[k].actual # None /\ ~rs[k].actual.ok}
  IN [reason \in {rs[k].actual.reason : k \in Refused} |->
        Cardinality({k \in Refused : rs[k].actual.reason = reason})]

(* Slip of Totals: what the harness failed at is left out of the rate.      *)
TotalsOfTheRest(rs) ==
  LET passed == Len(With(rs, {"pass"}))
      errors == Len(With(rs, {"harness-error"}))
  IN [cases |-> Len(rs), passed |-> passed, failed |-> Len(rs) - passed - errors,
      harnessErrors |-> errors, passRate |-> Rate(passed, Len(rs) - errors)]

Totals(rs) ==
  LET passed == Len(With(rs, {"pass"}))
      errors == Len(With(rs, {"harness-error"}))
  IN [cases |-> Len(rs), passed |-> passed, failed |-> Len(rs) - passed - errors,
      harnessErrors |-> errors, passRate |-> Rate(passed, Len(rs))]

(* Both runners write the report of a deterministic, synthetic run.         *)
runSuite ==
  /\ phase = "run" /\ Len(results) = Len(cases)
  /\ phase' = "write" /\ copy' = FALSE
  /\ report' = [schemaVersion |-> 1, suite |-> args.suite, harnessVersion |-> "0.0.1",
                invocation |-> "node", inputSource |-> "synthetic", models |-> 0,
                attempts |-> 1, deterministic |-> TRUE, totals |-> Totals(results),
                byTier |-> Breakdown(results, Reported(results, "tier")),
                byStrategy |-> Breakdown(results, Reported(results, "strategy")),
                byValidator |-> Breakdown(results, Reported(results, "validator")),
                byTag |-> Breakdown(results, [k \in DOMAIN results |-> results[k].tags]),
                refusalReasons |-> refusalReasons(results), results |-> results,
                severe |-> IF IsIndex THEN <<>> ELSE With(results, {"unexpected-success"})]
  /\ UNCHANGED <<args, cases, results, files, trajectories, written, exitCode>>

-----------------------------------------------------------------------------
(* The sources of a number, in publication.ts.  A host is its labels; a      *)
(* citation is refused for each of the problems its check returns.          *)

SourceRegistry == [verified |-> {}, aggregators |-> {}]

hostMatches(host, entry) ==
  Len(entry) <= Len(host) /\ SubSeq(host, Len(host) - Len(entry) + 1, Len(host)) = entry

Listed(url, hosts) == \E entry \in hosts : hostMatches(url.host, entry)

checkHarnessCitation(citation) ==
  {f \in {"harnessName", "harnessVersion", "invocation"} : citation[f] \in {None, ""}}

checkLeaderboardCitation(citation, registry) ==
  IF citation.url = None \/ ~citation.url.https THEN {"url"}
  ELSE IF Listed(citation.url, registry.aggregators) THEN {"aggregator"}
  ELSE IF Listed(citation.url, registry.verified) THEN {} ELSE {"unverified"}

checkEvaluatorCitation(citation) ==
  {f \in {"evaluator", "methodologyUrl"} :
     \/ citation[f] = None
     \/ f = "evaluator" /\ citation[f] = ""
     \/ f = "methodologyUrl" /\ citation[f] # None /\ ~citation[f].https}

checkCitation(citation, registry) ==
  {f \in {"label"} : citation.label = ""}
    \cup (CASE citation.kind = "first-party-harness" -> checkHarnessCitation(citation)
            [] citation.kind = "first-party-leaderboard" -> checkLeaderboardCitation(citation, registry)
            [] citation.kind = "independent-evaluator" -> checkEvaluatorCitation(citation)
            [] OTHER -> {"kind"})
    \cup {f \in {"retrievedAt"} : /\ citation.url # None \/ citation.methodologyUrl # None
                                 /\ citation.retrievedAt = None}

(* A run is cited by its version and its command; its label is never empty. *)
harnessCitation(r) ==
  [kind |-> "first-party-harness", label |-> "first-party harness run", harnessName |-> "adze-bench",
   harnessVersion |-> r.harnessVersion, invocation |-> r.invocation, url |-> None, evaluator |-> None,
   methodologyUrl |-> None, retrievedAt |-> None]

-----------------------------------------------------------------------------
(* report-policy.ts.                                                       *)

MIN_ATTEMPTS == 3

SameRate(a, b) == IF None \in {a, b} THEN a = b ELSE a[1] * b[2] = b[1] * a[2]

(* The ids of some results, as the sorted list of them tells them apart.    *)
Counted(rs) == [id \in Ids(rs) |-> Cardinality({k \in DOMAIN rs : rs[k].id = id})]

checkIntegrity(r) ==
  LET passed == Len(With(r.results, {"pass"})) IN
  {code \in {"schema-version-mismatch", "case-count-mismatch", "totals-do-not-sum",
             "headline-not-derived-from-results", "severe-list-incomplete"} :
     \/ code = "schema-version-mismatch" /\ r.schemaVersion # 1
     \/ code = "case-count-mismatch" /\ r.totals.cases # Len(r.results)
     \/ code = "totals-do-not-sum" /\ r.totals.passed + r.totals.failed + r.totals.harnessErrors # r.totals.cases
     \/ code = "headline-not-derived-from-results"
          /\ (passed # r.totals.passed \/ ~SameRate(Rate(passed, Len(r.results)), r.totals.passRate))
     \/ code = "severe-list-incomplete" /\ Counted(r.severe) # Counted(With(r.results, {"unexpected-success"}))}

checkMeasurementClaims(r) ==
  {code \in {"invalid-attempt-count", "deterministic-repeated-attempts", "single-run-headline",
             "synthetic-claim-with-model-pins", "model-claim-without-pins"} :
     \/ code = "invalid-attempt-count" /\ r.attempts < 1
     \/ code = "deterministic-repeated-attempts" /\ r.attempts > 1 /\ r.deterministic
     \/ code = "single-run-headline" /\ r.attempts \in 1 .. MIN_ATTEMPTS - 1 /\ ~r.deterministic
     \/ code = "synthetic-claim-with-model-pins" /\ r.inputSource = "synthetic" /\ r.models > 0
     \/ code = "model-claim-without-pins" /\ r.inputSource # "synthetic" /\ r.models = 0}

checkWiringOnly(r) == IF r.suite = "swe-smoke" THEN {"wiring-check-not-publishable"} ELSE {}

checkReportPolicy(r) ==
  checkIntegrity(r) \cup checkMeasurementClaims(r) \cup checkWiringOnly(r)
    \cup (IF checkCitation(harnessCitation(r), SourceRegistry) = {} THEN {} ELSE {"provenance-not-citable"})

-----------------------------------------------------------------------------
(* Writing.                                                                *)

Safe == {"a", "b", "_"}

(* Every run of other characters is one underscore.                         *)
safeId(id) ==
  FoldLeft(LAMBDA acc, k : IF id[k] \in Safe THEN Append(acc, id[k])
                           ELSE IF k > 1 /\ id[k - 1] \notin Safe THEN acc ELSE Append(acc, "_"),
           <<>>, [k \in DOMAIN id |-> k])

Files == <<"report", "result", "audit", "config">>

WriteFile ==
  /\ phase = "write" /\ args.write /\ Cardinality(files) < Len(Files)
  /\ files' = files \cup {Files[Cardinality(files) + 1]}
  /\ UNCHANGED <<args, cases, phase, copy, results, report, trajectories, written, exitCode>>

(* Every trial is kept, failures included.                                  *)
Kept(r) == TRUE

(* A file of this name is written over.                                     *)
WriteTrajectory ==
  LET r == results[written + 1]
      name == safeId(r.id)
  IN /\ phase = "write" /\ args.write /\ Cardinality(files) = Len(Files) /\ written < Len(results)
     /\ trajectories' = IF Kept(r) THEN {f \in trajectories : f[1] # name} \cup {<<name, r.id>>}
                        ELSE trajectories
     /\ written' = written + 1
     /\ UNCHANGED <<args, cases, phase, copy, results, report, files, exitCode>>

AllWritten == Cardinality(files) = Len(Files) /\ written = Len(results)

(* A file that cannot be written is an error nobody catches.               *)
WriteThrows ==
  /\ phase = "write" /\ args.write /\ ~AllWritten
  /\ phase' = "over" /\ exitCode' = 1
  /\ UNCHANGED <<args, cases, copy, results, report, files, trajectories, written>>

(* A report that may not be published is the worse outcome.                 *)
ExitOf(r) ==
  IF checkReportPolicy(r) # {} THEN 3
  ELSE IF r.totals.failed + r.totals.harnessErrors > 0 THEN 1 ELSE 0

(* The policy is checked whether or not the run was written.               *)
finishRun ==
  /\ phase = "write"
  /\ args.write => AllWritten
  /\ exitCode' = ExitOf(report) /\ phase' = "over"
  /\ UNCHANGED <<args, cases, copy, results, report, files, trajectories, written>>

Killed ==
  /\ phase \notin {"over", "killed"} /\ phase' = "killed"
  /\ UNCHANGED <<args, cases, copy, results, report, files, trajectories, written, exitCode>>

Harness ==
  \/ Load \/ runCase \/ SuiteThrows \/ runSuite
  \/ WriteFile \/ WriteTrajectory \/ WriteThrows \/ finishRun

Next == Harness \/ Killed

Spec == Init /\ [][Next]_vars

-----------------------------------------------------------------------------
(* leakage.ts.  A line of a patch is a sequence of tokens, its mark first,   *)
(* " " a blank; a line of MinLine tokens is distinctive.                    *)

MinLine == 2

PROMPT_ALLOWED_FIELDS == {"instance_id", "repo", "base_commit", "problem_statement"}

redactTaskRecord(record) == [f \in DOMAIN record \cap PROMPT_ALLOWED_FIELDS |-> record[f]]

Begins(line, mark) == Len(line) >= Len(mark) /\ SubSeq(line, 1, Len(mark)) = mark

(* String.trim.                                                            *)
Trim(line) ==
  LET solid == {k \in DOMAIN line : line[k] # " "}
  IN IF solid = {} THEN <<>> ELSE SubSeq(line, Min(solid), Max(solid))

(* The added and removed lines, without the headers of the files.           *)
significantPatchLines(patch) ==
  LET changes == {l \in ToSet(patch) : /\ ~Begins(l, <<"+", "+", "+">>) /\ ~Begins(l, <<"-", "-", "-">>)
                                       /\ Begins(l, <<"+">>) \/ Begins(l, <<"-">>)}
  IN {l \in {Trim(Tail(c)) : c \in changes} : Len(l) >= MinLine}

Includes(text, line) == \E at \in 0 .. Len(text) : Begins(SubSeq(text, at + 1, Len(text)), line)

leakedLinesFrom(record, key, text) ==
  IF key \notin DOMAIN record THEN {} ELSE {l \in significantPatchLines(record[key]) : Includes(text, l)}

checkPromptLeakage(record, fields, text) ==
  (IF DOMAIN fields \subseteq PROMPT_ALLOWED_FIELDS THEN {} ELSE {"undeclared-field-in-prompt"})
    \cup (IF leakedLinesFrom(record, "patch", text) = {} THEN {} ELSE {"gold-patch-content-in-prompt"})
    \cup (IF leakedLinesFrom(record, "test_patch", text) = {} THEN {} ELSE {"test-patch-content-in-prompt"})

(* A repository: whether git answers there, the parents of each commit, all  *)
(* older than it, the commits the refs name, HEAD, and the base the task     *)
(* names, 0 when it is not there.                                           *)
History(repository) ==
  LET Of[c \in 0 .. Len(repository.parents)] ==
        IF c = 0 THEN {} ELSE {c} \cup UNION {Of[p] : p \in repository.parents[c]}
  IN Of

(* What git rev-list --all leaves out of the history of a commit: HEAD is    *)
(* one of its starting points.                                              *)
Outside(r) == UNION {History(r)[c] : c \in r.refs \cup {r.head}} \ History(r)[r.base]

(* "threw": a check that could not be made is not a pass.                   *)
checkHistoryIsolation(r) ==
  IF ~r.answers THEN {"threw"}
  ELSE IF r.base = 0 THEN {"base-commit-missing"}
  ELSE {code \in {"head-not-at-base-commit", "future-history-reachable"} :
          \/ code = "head-not-at-base-commit" /\ r.head # r.base
          \/ code = "future-history-reachable" /\ Outside(r) # {}}

-----------------------------------------------------------------------------
(* statistics.ts and the comparison of publication.ts.  The rates of the     *)
(* attempts and of the baseline are whole percents; a baseline's sem is      *)
(* squared, 0 when it publishes none.                                       *)

NOISE_FLOOR_POINTS == 3
SEM_MULTIPLE == 2

Sum(rates) == FoldLeft(LAMBDA a, b : a + b, 0, rates)
Squares(rates) == Sum([k \in DOMAIN rates |-> rates[k] * rates[k]])
Magnitude(x) == IF x < 0 THEN -x ELSE x

(* The mean is sum / n and its SEM squared spread / (n^2 * (n - 1)).          *)
estimatePassRate(rates) ==
  LET n == Len(rates) IN
  IF n < MIN_ATTEMPTS THEN None
  ELSE [n |-> n, sum |-> Sum(rates), spread |-> n * Squares(rates) - Sum(rates) * Sum(rates)]

(* The difference is inside the floor, or inside twice the combined SEM, both *)
(* multiplied out.                                                          *)
WithinNoise(ours, baseline) ==
  LET n == ours.n
      delta == ours.sum - n * baseline.rate
  IN \/ Magnitude(delta) < NOISE_FLOOR_POINTS * n
     \/ delta * delta * (n - 1) <
          SEM_MULTIPLE * SEM_MULTIPLE * (ours.spread + n * n * (n - 1) * baseline.sem)

compareToBaseline(ours, baseline) ==
  IF ours = None THEN "insufficient-evidence"
  ELSE IF WithinNoise(ours, baseline) THEN "within-noise"
  ELSE IF ours.sum > ours.n * baseline.rate THEN "ahead" ELSE "behind"

looksLikeMaxOverN(reported, rates) ==
  /\ Len(rates) >= 2
  /\ Max(ToSet(rates)) # Min(ToSet(rates))
  /\ reported = Max(ToSet(rates)) /\ reported * Len(rates) # Sum(rates)

-----------------------------------------------------------------------------
(* Properties.                                                             *)

Outcomes == {"pass", "wrong-output", "unexpected-refusal", "unexpected-success", "wrong-reason",
             "wrong-strategy", "wrong-tier", "wrong-validator", "harness-error"}

(* The types of a run.                                                     *)
TypeOK ==
  /\ phase \in {"load", "run", "write", "over", "killed"} /\ exitCode \in {None, 0, 1, 2, 3}
  /\ \A k \in DOMAIN results : results[k].outcome \in Outcomes
  /\ written <= Len(results) /\ files \subseteq ToSet(Files) /\ copy \in BOOLEAN

(* A harness and its policy, written apart, agree: the report of a run is    *)
(* refused for its suite alone.                                             *)
OwnReportIsSound == report # None => checkReportPolicy(report) \subseteq {"wiring-check-not-publishable"}

(* A report with other totals, another rate, another severe list or another *)
(* count of attempts, whatever they are.                                    *)
Retouched(r) ==
  LET n == Len(r.results) IN
  {[r EXCEPT !.totals = [cases |-> c, passed |-> p, failed |-> f, harnessErrors |-> h,
                         passRate |-> r.totals.passRate]] : c, p, f, h \in 0 .. n + 1}
    \cup {[r EXCEPT !.totals.passRate = rate] :
            rate \in {None} \cup {<<p, q>> : p \in 0 .. n, q \in 1 .. n}}
    \cup {[r EXCEPT !.severe = With(r.results, outcomes)] : outcomes \in SUBSET Outcomes}
    \cup {[r EXCEPT !.attempts = a] : a \in 0 .. 3}

(* Of a report the policy lets pass, the cases, those that passed, their    *)
(* rate, the attempts and the ids of the severe list are what its results   *)
(* say, and so is the sum of those that failed and of harness errors.  How  *)
(* that sum is split it does not look at, nor at the breakdowns.            *)
HeadlineIsBound ==
  report # None => \A r \in Retouched(report) : checkReportPolicy(r) = {} =>
    LET own == Totals(r.results) IN
    /\ r.totals.cases = own.cases /\ r.totals.passed = own.passed
    /\ SameRate(r.totals.passRate, own.passRate)
    /\ r.totals.failed + r.totals.harnessErrors = own.failed + own.harnessErrors
    /\ Counted(r.severe) = Counted(report.severe) /\ r.attempts = report.attempts

(* The process exits with 0 only when every case it was asked for ran and    *)
(* passed, no edit was applied that had to be refused, and the report may be  *)
(* published; and then, unless nothing was to be written, every file and      *)
(* every trial is in the directory, but for one whose name another trial of   *)
(* the run has.  However it exits, no copy of the fixture is left.           *)
SuccessIsShown ==
  /\ exitCode # None => ~copy
  /\ exitCode = 0 =>
      /\ \A k \in DOMAIN cases : cases[k].result # None /\ OutcomeOf(cases[k]) = "pass"
      /\ Len(results) = Len(cases) /\ checkReportPolicy(report) = {}
      /\ args.write => files = ToSet(Files)
      /\ args.write => \A k \in DOMAIN results :
           (\A j \in DOMAIN results : j # k => safeId(results[j].id) # safeId(results[k].id))
             => <<safeId(results[k].id), results[k].id>> \in trajectories

(* An edit that was applied where it had to be refused is never a pass and   *)
(* never leaves the list a reader looks at.                                  *)
CorruptionIsSevere ==
  report # None /\ ~IsIndex =>
    \A k \in DOMAIN cases :
      cases[k].expect.kind = "refusal" /\ cases[k].result # None /\ cases[k].result.ok
        => \E j \in DOMAIN report.severe : report.severe[j].id = cases[k].id

(* What starts from the redacted record, and quotes nothing, may be handed   *)
(* to an agent; what carries the patch as a field may not.                   *)
RedactionIsEnough(record, text) ==
  /\ "undeclared-field-in-prompt" \notin checkPromptLeakage(record, redactTaskRecord(record), text)
  /\ DOMAIN record \cap {"patch", "test_patch", "hints_text"} # {}
       => checkPromptLeakage(record, record, text) # {}

(* From a checkout that passes, no commit that is not in the history of the  *)
(* base can be reached by any walk from a ref or from HEAD.                   *)
NoWayToTheFix(r) ==
  checkHistoryIsolation(r) = {} =>
    \A c \in r.refs \cup {r.head} : \A d \in History(r)[c] : d \in History(r)[r.base]

(* A claim against a baseline survives a weaker baseline, and none is made   *)
(* that the attempts themselves contradict: with every attempt below the     *)
(* baseline nobody is ahead of it.                                          *)
ClaimsAreMonotone(rates, baseline) ==
  LET ours == estimatePassRate(rates) IN
  compareToBaseline(ours, baseline) = "ahead" =>
    /\ baseline.rate > 0 => compareToBaseline(ours, [baseline EXCEPT !.rate = @ - 1]) = "ahead"
    /\ \E k \in DOMAIN rates : rates[k] > baseline.rate

(* A leaderboard is trusted by name or not at all: what a registry accepts,   *)
(* the empty one the harness ships refuses, and so does any registry that     *)
(* has the host, or one it is part of, on record as an aggregator.           *)
SourcesAreVetted(citation, registry) ==
  citation.kind = "first-party-leaderboard" /\ checkCitation(citation, registry) = {} =>
    /\ checkCitation(citation, SourceRegistry) # {}
    /\ \A n \in 1 .. Len(citation.url.host) :
         LET part == SubSeq(citation.url.host, n, Len(citation.url.host))
         IN checkCitation(citation, [registry EXCEPT !.aggregators = @ \cup {part}]) # {}

-----------------------------------------------------------------------------
(* Promises of the documentation the code does not keep; see README.md.    *)

(* runner.ts refuses duplicate ids because they "would silently overwrite    *)
(* each other in the per-case trajectory files".                            *)
TrialsAreKept ==
  exitCode \in {0, 1} =>
    \A k \in DOMAIN results : \E f \in trajectories : f[2] = results[k].id

(* A report with a breakdown emptied, or a failure called a harness error.  *)
RetouchedElsewhere(r) ==
  {[r EXCEPT ![f] = <<>>] : f \in {"byTier", "byStrategy", "byValidator", "byTag", "refusalReasons"}}
    \cup {[r EXCEPT !.totals.failed = 0, !.totals.harnessErrors = @ + r.totals.failed]}

(* "Enforced: report integrity" (report-policy.ts:30), of a report whose     *)
(* figures are not those of the results beside them.                        *)
IntegrityIsEnforced ==
  report # None => \A r \in RetouchedElsewhere(report) : r = report \/ checkReportPolicy(r) # {}

(* leakage.ts: the content check looks for "verbatim lines of the gold or    *)
(* test patch inside the text the model actually sees".                     *)
LeaksAreFound(record, text) ==
  \A l \in ToSet(record["patch"]) :
    l[1] \in {"+", "-"} /\ Len(Trim(Tail(l))) >= MinLine /\ Includes(text, Trim(Tail(l)))
      => "gold-patch-content-in-prompt" \in checkPromptLeakage(record, redactTaskRecord(record), text)

=============================================================================
