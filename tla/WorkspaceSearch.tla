---------------------------- MODULE WorkspaceSearch ----------------------------
(***************************************************************************)
(* One call of the grep, symbols or glob tool: core's tools/search.ts over *)
(* the CLI's RetrievalSearchBackend, over LocalRetrievalProvider of        *)
(* @adze/retrieval (provider.ts), over a ripgrep process (ripgrep.ts) whose *)
(* lines arrive while a deadline runs; without ripgrep the symbol signal   *)
(* walks the directories (files.ts).  The lists of the signals are fused   *)
(* by reciprocal rank (rank.ts).                                           *)
(*                                                                         *)
(* What ripgrep would send is a sequence of locations and noise; a file is *)
(* what a parse of it would find.                                          *)
(***************************************************************************)
EXTENDS Integers, SequencesExt, FiniteSetsExt, Functions

CONSTANTS
  Streams,    (* What ripgrep would send: sequences of Noise and of matches  *)
              (* [path, line, text], text FALSE when the path or the line is *)
              (* not UTF-8 and comes as bytes.                              *)
  Noise,      (* A line of ripgrep's that holds no match.                   *)
  Sources,    (* path -> [known, big, gone, extractor, symbols]; a symbol is *)
              (* [line, rank], rank None when the name does not match.       *)
  Boosts,     (* path -> what recency and proximity add, in percent.        *)
  Walks,      (* The files of the tree, breadth first.                      *)
  Requests,   (* [tool, mode, cap]                                          *)
  MaxFiles,   (* maxFilesParsed                                             *)
  None

SearchAssumption ==
  /\ MaxFiles \in Nat \ {0}
  /\ \A r \in Requests : r.cap \in Nat \ {0}

VARIABLES
  request, stream, hasRipgrep,
  troubled,   (* ripgrep complains on stderr, and misses its last line.     *)
  expired,    (* The request's deadline has passed.                         *)
  rg,         (* "off", "running", "killed" or "closed".                    *)
  sent,       (* Lines of the stream that were consumed.                    *)
  matches, why, (* ParserState.matches and truncationReason of this run.    *)
  phase,      (* "lexical", "prefilter", "parse", "list", "answer", "done". *)
  lists,      (* The candidates of each signal, best first.                 *)
  reason,     (* The response's truncationReason.                           *)
  notes,      (* The levels of the diagnostics.                             *)
  todo, hits, parsed, (* The parse loop of collectSymbolHits.               *)
  answer

ripgrep == <<rg, sent, matches, why>>
loop    == <<todo, hits, parsed>>
given   == <<request, stream, hasRipgrep, troubled>>
vars    == <<given, expired, ripgrep, phase, lists, reason, notes, loop, answer>>

(* signalsForMode; the symbols tool asks definitions and no signal else.    *)
WantsSymbols == request.tool = "symbols" \/ request.mode = "hybrid"

Init ==
  /\ request \in Requests /\ stream \in Streams /\ hasRipgrep \in BOOLEAN
  /\ troubled \in BOOLEAN
  /\ expired = FALSE
  /\ rg = "off" /\ sent = 0 /\ matches = <<>> /\ why = None
  /\ phase = CASE request.tool = "glob" -> "list"
               [] request.tool = "grep" -> "lexical"
               [] request.tool = "symbols" -> "prefilter"
  /\ lists = [lexical |-> <<>>, symbol |-> <<>>]
  /\ reason = None /\ notes = {}
  /\ todo = <<>> /\ hits = <<>> /\ parsed = {}
  /\ answer = None

TimePasses ==
  /\ ~expired /\ phase # "done"
  /\ expired' = TRUE
  /\ UNCHANGED <<given, ripgrep, phase, lists, reason, notes, loop, answer>>

-----------------------------------------------------------------------------
(* The ripgrep process of a phase.                                         *)

UsesRipgrep == phase \in {"lexical", "prefilter", "list"}

(* One more than was asked for, so that exactly at the cap is not a cut.    *)
CapOf(p) == CASE p = "lexical" -> request.cap + 1
              [] p = "prefilter" -> MaxFiles * 8
              [] p = "list" -> request.cap

FirstOf(seq, limit) == SubSeq(seq, 1, IF Len(seq) < limit THEN Len(seq) ELSE limit)

(* The lines of this run: paths with --files, match events otherwise.       *)
Lines == LET all == IF phase = "list" THEN Walks ELSE stream
         IN IF troubled /\ all # <<>> THEN FirstOf(all, Len(all) - 1) ELSE all

Spawn ==
  /\ UsesRipgrep /\ rg = "off" /\ hasRipgrep
  /\ rg' = "running" /\ sent' = 0 /\ matches' = <<>> /\ why' = None
  /\ UNCHANGED <<given, expired, phase, lists, reason, notes, loop, answer>>

(* A path of --files, or a match whose path and line readPath and            *)
(* readLineText could read.                                                 *)
Taken(line) == phase = "list" \/ (line # Noise /\ line.text)

(* A line that is no match is skipped, and so is a match that is not text;  *)
(* the match that reaches the cap kills the process.                        *)
handleEvent(line) ==
  /\ matches' = IF Taken(line) THEN Append(matches, line) ELSE matches
  /\ IF Taken(line) /\ Len(matches) + 1 >= CapOf(phase)
       THEN why' = "max-results" /\ rg' = "killed"
       ELSE UNCHANGED <<why, rg>>

(* What arrives after a cut is dropped.                                     *)
Data ==
  /\ rg \in {"running", "killed"} /\ sent < Len(Lines)
  /\ sent' = sent + 1
  /\ IF why # None THEN UNCHANGED <<matches, why, rg>> ELSE handleEvent(Lines[sent + 1])
  /\ UNCHANGED <<given, expired, phase, lists, reason, notes, loop, answer>>

(* Slip of TimerFires: the process is killed and nobody is told. *)
KilledSilently ==
  /\ expired /\ rg \in {"running", "killed"} /\ why # "timeout"
  /\ rg' = "killed"
  /\ why' = IF sent < Len(Lines) THEN why ELSE "timeout"
  /\ UNCHANGED <<given, expired, sent, matches, phase, lists, reason, notes, loop, answer>>

(* The timer of a run ends with the deadline of the request.                *)
TimerFires ==
  /\ expired /\ rg \in {"running", "killed"} /\ why # "timeout"
  /\ rg' = "killed" /\ why' = "timeout"
  /\ UNCHANGED <<given, expired, sent, matches, phase, lists, reason, notes, loop, answer>>

(* close comes when everything was sent, or some time after a kill.         *)
Close ==
  /\ rg = "killed" \/ (rg = "running" /\ sent = Len(Lines))
  /\ rg' = "closed"
  /\ UNCHANGED <<given, expired, sent, matches, why, phase, lists, reason, notes, loop, answer>>

-----------------------------------------------------------------------------
(* The signals.                                                            *)

OrElse(a, b) == IF a # None THEN a ELSE b

(* gatherSignals goes on to the symbols only when time is left.             *)
AfterLexical == IF WantsSymbols /\ ~expired THEN "prefilter" ELSE "answer"

LexicalDone ==
  /\ phase = "lexical" /\ rg = "closed"
  /\ lists' = [lists EXCEPT !.lexical = matches]
  /\ reason' = OrElse(reason, why)
  /\ notes' = notes \cup IF ~troubled THEN {}
                         ELSE {IF matches = <<>> THEN "error" ELSE "warning"}
  /\ phase' = AfterLexical /\ rg' = "off"
  /\ UNCHANGED <<given, expired, sent, matches, why, loop, answer>>

(* runLexical's catch: an error is noted, nothing is found.                 *)
LexicalFails ==
  /\ phase = "lexical" /\ rg = "off" /\ ~hasRipgrep
  /\ notes' = notes \cup {"error"}
  /\ phase' = AfterLexical
  /\ UNCHANGED <<given, expired, ripgrep, lists, reason, loop, answer>>

Distinct(paths) ==
  [i \in 1 .. Cardinality(ToSet(paths)) |->
     paths[CHOOSE k \in DOMAIN paths :
       /\ \A j \in 1 .. (k - 1) : paths[j] # paths[k]
       /\ Cardinality({paths[j] : j \in 1 .. k}) = i]]

Known(path) == Sources[path].known

(* symbolCandidatePaths: distinct, of a registered language, up to a limit. *)
symbolCandidatePaths ==
  FirstOf(SelectSeq(Distinct([i \in DOMAIN matches |-> matches[i].path]), Known), MaxFiles)

(* candidateFiles.  Reaching the limit counts as truncated.                 *)
Candidates(files, cut) ==
  /\ todo' = files /\ hits' = <<>> /\ parsed' = {}
  /\ reason' = OrElse(reason, IF cut \/ Len(files) >= MaxFiles THEN "max-files" ELSE None)
  /\ phase' = "parse"

PrefilterDone ==
  /\ phase = "prefilter" /\ rg = "closed"
  /\ Candidates(symbolCandidatePaths, why # None)
  /\ notes' = notes \cup IF troubled THEN {"warning"} ELSE {}
  /\ rg' = "off"
  /\ UNCHANGED <<given, expired, sent, matches, why, lists, answer>>

(* The walk knows neither .gitignore nor the paths of the request.          *)
WalkInstead ==
  /\ phase = "prefilter" /\ rg = "off" /\ ~hasRipgrep
  /\ notes' = notes \cup {"warning"}
  /\ Candidates(FirstOf(SelectSeq(Walks, Known), MaxFiles), FALSE)
  /\ UNCHANGED <<given, expired, ripgrep, lists, answer>>

Matching(path) ==
  LET wanted(s) == IF request.tool = "symbols" THEN s.rank = 0 ELSE s.rank # None
      symbols == SelectSeq(Sources[path].symbols, wanted)
  IN [i \in DOMAIN symbols |->
        [path |-> path, line |-> symbols[i].line, rank |-> symbols[i].rank,
         extractor |-> Sources[path].extractor]]

(* hitsForFile; what is unreadable or too large was never parsed.           *)
ParseFile ==
  /\ phase = "parse" /\ todo # <<>> /\ ~expired
  /\ todo' = Tail(todo)
  /\ IF Sources[Head(todo)].gone \/ Sources[Head(todo)].big
       THEN UNCHANGED <<hits, parsed>>
       ELSE /\ hits' = hits \o Matching(Head(todo))
            /\ parsed' = parsed \cup {Head(todo)}
  /\ UNCHANGED <<given, expired, ripgrep, phase, lists, reason, notes, answer>>

PathBefore(p, q) == \E i, j \in DOMAIN Walks : i < j /\ Walks[i] = p /\ Walks[j] = q

(* By rank then path for a search; by path then line for definitions.       *)
HitBefore(a, b) ==
  IF request.tool = "symbols"
    THEN PathBefore(a.path, b.path) \/ (a.path = b.path /\ a.line < b.line)
    ELSE a.rank < b.rank \/ (a.rank = b.rank /\ PathBefore(a.path, b.path))

(* collectSymbolHits breaks off at the deadline.  A reason the lexical       *)
(* signal gave already stands.                                              *)
SymbolsDone ==
  /\ phase = "parse" /\ (todo = <<>> \/ expired)
  /\ lists' = [lists EXCEPT !.symbol = SortSeq(hits, HitBefore)]
  /\ reason' = IF todo = <<>> \/ reason \in {"max-results", "timeout"} THEN reason
               ELSE "timeout"
  /\ phase' = "answer"
  /\ UNCHANGED <<given, expired, ripgrep, notes, loop, answer>>

ListDone ==
  /\ phase = "list" /\ rg = "closed"
  /\ answer' = [ok |-> TRUE, hits |-> matches, truncated |-> why # None, extractor |-> None]
  /\ phase' = "done"
  /\ UNCHANGED <<given, expired, ripgrep, lists, reason, notes, loop>>

(* A missing ripgrep fails the call of glob.                                *)
ListFails ==
  /\ phase = "list" /\ rg = "off" /\ ~hasRipgrep
  /\ answer' = [ok |-> FALSE, hits |-> <<>>, truncated |-> FALSE, extractor |-> None]
  /\ phase' = "done"
  /\ UNCHANGED <<given, expired, ripgrep, lists, reason, notes, loop>>

-----------------------------------------------------------------------------
(* The answer.                                                             *)

At(hit) == <<hit.path, hit.line>>

(* The best rank a signal gave a location, or 0.                            *)
RankIn(signal, at) ==
  LET places == {i \in DOMAIN lists[signal] : At(lists[signal][i]) = at}
  IN IF places = {} THEN 0 ELSE Min(places)

(* weight / (k + rank) with weight 1 and k = 60, in millionths.             *)
Contribution(rank) == IF rank = 0 THEN 0 ELSE 1000000 \div (60 + rank)

Score(at) ==
  (Contribution(RankIn("lexical", at)) + Contribution(RankIn("symbol", at)))
    * (100 + Boosts[at[1]])

Better(a, b) ==
  \/ Score(a) > Score(b)
  \/ /\ Score(a) = Score(b)
     /\ PathBefore(a[1], b[1]) \/ (a[1] = b[1] /\ a[2] < b[2])

Located == {At(h) : h \in ToSet(lists.lexical) \cup ToSet(lists.symbol)}

fuseResults == SetToSortSeq(Located, Better)

Strength == [none |-> 0, heuristic |-> 1, treesitter |-> 2]

weakest(levels) ==
  IF levels = {} THEN "none"
  ELSE CHOOSE l \in levels : \A m \in levels : Strength[l] <= Strength[m]

(* Of the hits that are returned, or else of the files that were parsed.    *)
Evidence(kept) ==
  weakest(IF kept # <<>> THEN {h.extractor : h \in ToSet(kept)}
          ELSE {Sources[path].extractor : path \in parsed})

(* search: the fused list to the cap.  definitions: its own order.          *)
Answer ==
  /\ phase = "answer"
  /\ LET search == request.tool = "grep"
         all    == IF search THEN fuseResults ELSE lists.symbol
         kept   == FirstOf(all, request.cap)
         why2   == IF Len(all) > request.cap THEN "max-results"
                   ELSE IF search /\ expired THEN OrElse(reason, "timeout") ELSE reason
     IN /\ reason' = why2
        /\ answer' = [ok |-> TRUE,
                      hits |-> IF search THEN kept ELSE [i \in DOMAIN kept |-> At(kept[i])],
                      truncated |-> why2 # None,
                      extractor |-> IF search THEN None ELSE Evidence(kept)]
  /\ phase' = "done"
  /\ UNCHANGED <<given, expired, ripgrep, lists, notes, loop>>

Finished == phase = "done" /\ UNCHANGED vars

Step ==
  \/ Spawn \/ Data \/ TimerFires \/ Close
  \/ LexicalDone \/ LexicalFails \/ PrefilterDone \/ WalkInstead
  \/ ParseFile \/ SymbolsDone \/ ListDone \/ ListFails \/ Answer

Next == Step \/ TimePasses \/ Finished

(* Time passes and the calls come back: a killed process closes.           *)
Spec == Init /\ [][Next]_vars /\ WF_vars(Step)

-----------------------------------------------------------------------------
(* Properties.                                                             *)

Found == {line \in ToSet(stream) : line # Noise}
Readable == {match \in Found : match.text}

(* What a search could have found: every file, every match that is text, or *)
(* every definition in a file with such a match that can be parsed.         *)
Wanted ==
  CASE request.tool = "glob" -> ToSet(Walks)
    [] request.tool = "grep" -> {At(l) : l \in Readable}
    [] request.tool = "symbols" ->
         UNION {{<<path, d.line>> : d \in {s \in ToSet(Sources[path].symbols) : s.rank = 0}} :
                path \in {p \in {l.path : l \in Readable} :
                           Sources[p].known /\ ~Sources[p].gone /\ ~Sources[p].big}}

Missed == Wanted \ ToSet(answer.hits)

(* Types and bounds of the search.                                          *)
TypeOK ==
  /\ rg \in {"off", "running", "killed", "closed"}
  /\ phase \in {"lexical", "prefilter", "parse", "list", "answer", "done"}
  /\ sent \in Nat /\ Len(matches) <= sent
  /\ why \in {None, "max-results", "timeout"}
  /\ reason \in {None, "max-results", "max-files", "timeout"}
  /\ notes \subseteq {"error", "warning"}
  /\ phase = "done" <=> answer # None

(* A search that is neither truncated nor accompanied by a warning has      *)
(* every match that is text in its answer, and a lookup every definition in *)
(* the files that can be parsed and have one; glob has every file.  (A      *)
(* model takes a short list without a note for evidence that there is       *)
(* nothing else.)                                                           *)
NothingIsMissed ==
  phase = "done" /\ answer.ok /\ ~answer.truncated /\ notes = {} /\ ~troubled => Missed = {}

(* What ripgrep could not read, and ripgrep's absence, are told or fail the  *)
(* call: an empty answer never stands for them.  (glob drops stderr.)       *)
TroubleIsTold ==
  phase = "done" /\ answer.ok /\ ~answer.truncated /\ request.tool # "glob"
    /\ (troubled \/ ~hasRipgrep) => notes # {}

(* A result of grep cut at its cap means that there was more: exactly as    *)
(* many as were asked for is no cut (provider.ts:530-532).                      *)
CutMeansMore ==
  phase = "done" /\ request.tool = "grep" /\ reason = "max-results"
    => Cardinality({At(l) : l \in Readable} \cup Located) > request.cap

(* The extractor that is reported is never better than the one that found   *)
(* a definition the answer holds (agent/search.ts: weakest evidence wins).  *)
EvidenceIsWeakest ==
  phase = "done" /\ answer.ok /\ request.tool = "symbols" =>
    \A h \in ToSet(answer.hits) :
      Strength[answer.extractor] <= Strength[Sources[h[1]].extractor]

(* Nothing stands before a location that every signal ranked higher and     *)
(* that is as recent and as near; and no location stands twice.             *)
Dominates(a, b) ==
  /\ Boosts[a[1]] >= Boosts[b[1]]
  /\ \A signal \in {"lexical", "symbol"} :
       RankIn(signal, b) # 0 => RankIn(signal, a) # 0 /\ RankIn(signal, a) < RankIn(signal, b)

BestFirst ==
  phase = "done" /\ answer.ok /\ request.tool = "grep" =>
    \A i, j \in DOMAIN answer.hits : i < j =>
      answer.hits[i] # answer.hits[j] /\ ~Dominates(answer.hits[j], answer.hits[i])

(* Every call is answered, whatever ripgrep does, once time passes.         *)
EveryCallAnswers == <>(phase = "done")

-----------------------------------------------------------------------------
(* Promises of the documentation the code does not keep; see README.md.    *)

(* types.ts:154, "Why a result set is incomplete.  Never silently omitted": *)
(* a file too large to parse is left out of the symbols without a reason    *)
(* and without a note.                                                      *)
OmissionsAreTold ==
  phase = "done" /\ request.tool = "symbols" /\ hasRipgrep /\ ~answer.truncated /\ notes = {}
    => \A path \in {l.path : l \in Found} :
         Sources[path].big => \A d \in ToSet(Sources[path].symbols) : d.rank # 0

(* The same of grep: a match that is not UTF-8 is left out likewise.        *)
UnreadableIsTold ==
  phase = "done" /\ request.tool = "grep" /\ hasRipgrep /\ ~answer.truncated /\ notes = {}
    => {At(l) : l \in Found} \subseteq ToSet(answer.hits)

(* types.ts:159, "True when results were cut": so is a list of exactly as   *)
(* many files as were asked for, a lookup in exactly MaxFiles files, and    *)
(* what was whole when the deadline passed.                                 *)
TruncatedMeansCut == phase = "done" /\ answer.ok /\ answer.truncated => Missed # {}

=============================================================================
