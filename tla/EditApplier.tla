------------------------------ MODULE EditApplier ------------------------------
(***************************************************************************)
(* One call of applyEdit: the tiers it tries in order, what each makes of  *)
(* the request, the validation every success has to pass, and the refusal  *)
(* when none does (packages/apply/src/applier.ts, validate.ts).            *)
(*                                                                         *)
(* Of the validators the model keeps what both have in common, that the    *)
(* brackets of the result close; strings, comments, templates and Python's *)
(* indentation are abstracted.                                             *)
(***************************************************************************)
EXTENDS EditMatch

CONSTANTS
  Originals,      (* Contents of the file.                                 *)
  Searches,       (* Search texts of a block.                              *)
  Replacements,   (* Replacement texts of a block.                         *)
  Occurrences,    (* Values of occurrence, 0 for none given.               *)
  Wholes,         (* Whole-file replacements, NoText for none given.       *)
  TierLists,      (* options.tiers.                                        *)
  Options,        (* Which of "provider", "skip", "known", "grammar" hold. *)
  MaxEdits,       (* Bound: blocks in a request.                           *)
  MaxWhole        (* options.maxWholeFileBytes, in tokens.                 *)

Tiers   == {"search-replace", "whole-file", "fast-apply"}
Reasons == {"none", "not-found", "ambiguous", "parse-broken", "file-too-large", "tier-unavailable", "no-op"}
NoText  == <<"no text">>

RequestAssumption ==
  /\ Occurrences \subseteq Nat /\ TierLists \subseteq Seq(Tiers)
  /\ Options \subseteq SUBSET {"provider", "skip", "known", "grammar"}
  /\ MaxEdits \in Nat \ {0} /\ MaxWhole \in Nat

VARIABLES
  request,      (* The request and its options.                            *)
  next,         (* The tier applyEdit tries next.                          *)
  attempted,    (* tiersAttempted.                                         *)
  failure,      (* lastFailure and lastFailureTier.                        *)
  validation,   (* lastValidation: which validator and what it said.       *)
  result        (* The ApplyResult, once there is one.                     *)

vars == <<request, next, attempted, failure, validation, result>>

EditBlock == [search: Searches, replace: Replacements, occurrence: Occurrences]

NoFailure == [reason |-> "none", tier |-> "none"]
NoResult  == [done |-> FALSE, ok |-> FALSE, content |-> <<>>, locations |-> <<>>, strategy |-> "none",
              reason |-> "none", tier |-> "none", attempted |-> 0, validation |-> "none"]

Init ==
  /\ request \in [original: Originals, edits: UNION {[1 .. n -> EditBlock] : n \in 1 .. MaxEdits},
                  whole: Wholes, tiers: TierLists, options: Options]
  /\ next = 1 /\ attempted = 0
  /\ failure = NoFailure /\ validation = "none" /\ result = NoResult

-----------------------------------------------------------------------------
(* The tiers.  An outcome with the reason "none" is a success.              *)

Outcome(reason, content, locations, strategy) ==
  [reason |-> reason, content |-> content, locations |-> locations, strategy |-> strategy]
Failed(reason) == Outcome(reason, <<>>, <<>>, "none")

StrategyOrder == <<"none", "exact", "whitespace-normalized", "indentation-tolerant", "anchored">>

Widest(a, b) ==
  StrategyOrder[Max({i \in DOMAIN StrategyOrder : StrategyOrder[i] \in {a, b}})]

Splice(text, m, replacement) ==
  SubSeq(text, 1, m.start) \o ReindentReplacement(replacement, m) \o SubSeq(text, m.end + 1, Len(text))

Spliced(acc, edit, m) ==
  Outcome("none", Splice(acc.content, m, edit.replace), Append(acc.locations, m),
          Widest(acc.strategy, m.strategy))

(* An empty search block means the top of the file.                         *)
Matches(text, edit) ==
  IF edit.search = <<>> THEN <<Match(0, 0, 1, "exact")>> ELSE FindMatch(text, edit.search)

(* Why a block is not applied, if it is not.                                *)
BlockReason(edit, matches) ==
  IF edit.search = edit.replace THEN "no-op"
  ELSE IF matches = <<>> THEN "not-found"
  ELSE IF Len(matches) > 1 /\ edit.occurrence = 0 THEN "ambiguous"
  ELSE IF Len(matches) > 1 /\ edit.occurrence > Len(matches) THEN "not-found"
  ELSE "none"

Chosen(edit, matches) ==
  matches[IF Len(matches) > 1 /\ edit.occurrence # 0 THEN edit.occurrence ELSE 1]

Placed(acc, edit, matches) ==
  IF BlockReason(edit, matches) # "none" THEN Failed(BlockReason(edit, matches))
  ELSE Spliced(acc, edit, Chosen(edit, matches))

(* One block, looked for in what the blocks before it made of the file.     *)
ApplyBlock(acc, edit) ==
  IF acc.reason # "none" THEN acc ELSE Placed(acc, edit, Matches(acc.content, edit))

ApplySearchReplace(r) ==
  FoldLeft(ApplyBlock, Outcome("none", r.original, <<>>, "none"), r.edits)

WholeFile(r, text) == Outcome("none", text, <<Match(0, Len(r.original), 1, "exact")>>, "none")

ApplyWholeFile(r) ==
  IF r.whole = NoText THEN Failed("tier-unavailable")
  ELSE IF Len(r.whole) > MaxWhole THEN Failed("file-too-large")
  ELSE WholeFile(r, r.whole)

(* What a configured provider may do: fail, or return any text.             *)
RunFastApply(r) == {Failed("tier-unavailable")} \cup {WholeFile(r, text) : text \in Wholes \ {NoText}}

RunTier(tier, r) ==
  CASE tier = "search-replace" -> {ApplySearchReplace(r)}
    [] tier = "whole-file"     -> {ApplyWholeFile(r)}
    [] tier = "fast-apply"     -> RunFastApply(r)

-----------------------------------------------------------------------------
(* Validation.                                                              *)

Depth(text, i) == Cardinality({j \in 1 .. i : text[j] = "{"})
Closed(text, i) == Cardinality({j \in 1 .. i : text[j] = "}"})

Balanced(text) ==
  /\ \A i \in DOMAIN text : Closed(text, i) <= Depth(text, i)
  /\ Closed(text, Len(text)) = Depth(text, Len(text))

(* The validator that runs: a grammar's, the structural one, or none.       *)
Validator(r) ==
  IF "skip" \in r.options \/ "known" \notin r.options THEN "none"
  ELSE IF "grammar" \in r.options THEN "tree-sitter" ELSE "structural"

Validates(r, text) == Validator(r) = "none" \/ Balanced(text)

-----------------------------------------------------------------------------
(* The loop of applyEdit.                                                   *)

Tier    == request.tiers[next]
Trying  == ~result.done /\ next <= Len(request.tiers)
Offered == Tier = "fast-apply" => "provider" \in request.options

(* Slip of RecordFailure: the last failure wins. *)
RecordLast(reason) == failure' = [reason |-> reason, tier |-> Tier]

(* A tier that did not really run hides no diagnosis of an earlier one.     *)
RecordFailure(reason) ==
  failure' = IF failure = NoFailure \/ reason # "tier-unavailable"
             THEN [reason |-> reason, tier |-> Tier] ELSE failure

SkipTier ==
  /\ Trying /\ ~Offered
  /\ next' = next + 1
  /\ UNCHANGED <<request, attempted, failure, validation, result>>

TierFails ==
  /\ Trying /\ Offered
  /\ \E outcome \in RunTier(Tier, request) :
       /\ outcome.reason # "none"
       /\ RecordFailure(outcome.reason)
  /\ next' = next + 1 /\ attempted' = attempted + 1
  /\ UNCHANGED <<request, validation, result>>

(* The attempt succeeds and its result does not parse.                      *)
TierBreaks ==
  /\ Trying /\ Offered
  /\ \E outcome \in RunTier(Tier, request) :
       outcome.reason = "none" /\ ~Validates(request, outcome.content)
  /\ RecordFailure("parse-broken")
  /\ validation' = Validator(request)
  /\ next' = next + 1 /\ attempted' = attempted + 1
  /\ UNCHANGED <<request, result>>

TierApplies ==
  /\ Trying /\ Offered
  /\ \E outcome \in RunTier(Tier, request) :
       /\ outcome.reason = "none" /\ Validates(request, outcome.content)
       /\ result' = [done |-> TRUE, ok |-> TRUE, content |-> outcome.content,
                     locations |-> outcome.locations, strategy |-> outcome.strategy, reason |-> "none",
                     tier |-> Tier, attempted |-> attempted + 1, validation |-> Validator(request)]
  /\ validation' = Validator(request) /\ attempted' = attempted + 1
  /\ UNCHANGED <<request, next, failure>>

Refuse ==
  /\ ~result.done /\ next > Len(request.tiers)
  /\ result' = [NoResult EXCEPT !.done = TRUE, !.attempted = attempted, !.validation = validation,
                  !.reason = IF failure = NoFailure THEN "tier-unavailable" ELSE failure.reason,
                  !.tier = IF failure # NoFailure THEN failure.tier
                           ELSE IF request.tiers = <<>> THEN "search-replace" ELSE request.tiers[1]]
  /\ UNCHANGED <<request, next, attempted, failure, validation>>

Next == SkipTier \/ TierFails \/ TierBreaks \/ TierApplies \/ Refuse

Spec == Init /\ [][Next]_vars

-----------------------------------------------------------------------------
(* Properties.                                                              *)

(* What every variable may hold (applier.ts applyEdit).                     *)
TypeOK ==
  /\ next \in 1 .. Len(request.tiers) + 1 /\ attempted \in 0 .. Len(request.tiers)
  /\ failure.reason \in Reasons /\ failure.tier \in Tiers \cup {"none"}
  /\ validation \in {"none", "structural", "tree-sitter"}
  /\ result.attempted \in 0 .. Len(request.tiers) /\ result.tier \in Tiers \cup {"none"}
  /\ result.done => result.ok = (result.reason = "none")

Only       == request.edits[1]
AppliedOne == result.ok /\ result.tier = "search-replace" /\ Len(request.edits) = 1
At         == result.locations[1]
Quoted     == NeedleLines(Only.search)
Found      == Lines(SubSeq(request.original, At.start + 1, At.end))

(* However tolerant the match, apart from an elided middle the lines that  *)
(* are replaced carry the words the block quoted, with the same gaps       *)
(* between them (match.ts, the strategies).                                *)
FoundIsWhatWasQuoted ==
  AppliedOne /\ Only.search # <<>> /\ At.strategy \notin {"exact", "anchored"} =>
    /\ Len(Found) = Len(Quoted)
    /\ \A k \in DOMAIN Found : NormalizeWhitespace(Found[k]) = NormalizeWhitespace(Quoted[k])

(* What it is for lines to read as the quoted block, to each tolerance:     *)
(* but for the spaces between words; but for one shift of all that is not   *)
(* blank, and spaces at the end.                                           *)
ReadsAsSpaced(found, quoted) ==
  \A k \in DOMAIN quoted :
    \/ IsBlank(found[k]) /\ IsBlank(quoted[k])
    \/ /\ LeadingWhitespace(found[k]) = LeadingWhitespace(quoted[k])
       /\ NormalizeWhitespace(found[k]) = NormalizeWhitespace(quoted[k])

ReadsAsShifted(found, quoted) ==
  /\ \A k \in DOMAIN quoted :
       TrimEnd(TrimStart(found[k])) = TrimEnd(TrimStart(quoted[k]))
  /\ \A j, k \in {i \in DOMAIN quoted : ~IsBlank(quoted[i])} :
       LeadingWhitespace(found[j]) + LeadingWhitespace(quoted[k])
         = LeadingWhitespace(found[k]) + LeadingWhitespace(quoted[j])

(* The numbers of the lines from which the file reads as the block.         *)
ReadFrom(strategy) ==
  LET all == Lines(request.original)
      From(i) == SubSeq(all, i, i + Len(Quoted) - 1)
  IN {i \in 1 .. Len(all) + 1 - Len(Quoted) :
        \/ strategy = "whitespace-normalized" /\ ReadsAsSpaced(From(i), Quoted)
        \/ strategy = "indentation-tolerant" /\ ReadsAsShifted(From(i), Quoted)}

(* No line of the block is to the left of its first that is not blank.     *)
NoneToTheLeft ==
  \A j, k \in {i \in DOMAIN Quoted : ~IsBlank(Quoted[i])} :
    (\A i \in DOMAIN Quoted : i < j => IsBlank(Quoted[i]))
      => LeadingWhitespace(Quoted[k]) >= LeadingWhitespace(Quoted[j])

(* Without an occurrence an edit is made only where its block could not    *)
(* have been meant for other lines (applier.ts, the ambiguous refusal): the *)
(* text found byte by byte is not in the file again after its end; from no  *)
(* line but the one found to a tolerance does the file read as the block to *)
(* that tolerance, a shifted block that hangs to the left of its first line *)
(* apart (MeantPlaceIsTaken); and of an elided block neither the first nor  *)
(* the last line is in the file twice.                                     *)
NoSecondPlace ==
  AppliedOne /\ Only.search # <<>> /\ Only.occurrence = 0 =>
    CASE At.strategy = "exact" ->
           \A at \in 0 .. Len(request.original) :
             OccursAt(request.original, Only.search, at) => at < At.end
      [] At.strategy = "whitespace-normalized" -> ReadFrom(At.strategy) = {At.line}
      [] At.strategy = "indentation-tolerant" ->
           NoneToTheLeft => ReadFrom(At.strategy) = {At.line}
      [] At.strategy = "anchored" ->
           \A line \in {Quoted[1], Last(Quoted)} :
             Cardinality({k \in DOMAIN Lines(request.original) :
               NormalizeWhitespace(Lines(request.original)[k]) = NormalizeWhitespace(line)}) = 1

(* An indentation-tolerant edit leaves the lines of its replacement at the *)
(* distances from each other they were written with (match.ts              *)
(* reindentReplacement), as long as none was to the left of the block.     *)
ShapeIsKept ==
  AppliedOne /\ At.strategy = "indentation-tolerant"
  /\ (\A k \in DOMAIN Lines(Only.replace) :
        IsBlank(Lines(Only.replace)[k]) \/ LeadingWhitespace(Lines(Only.replace)[k]) >= At.searchIndent) =>
    \A k \in DOMAIN Lines(Only.replace) :
      LET put == Lines(result.content)[At.line + k - 1]
      IN  ~IsBlank(Lines(Only.replace)[k]) =>
            LeadingWhitespace(put) + At.searchIndent
              = LeadingWhitespace(Lines(Only.replace)[k]) + At.foundIndent

(* Whatever tier it comes from, content that is handed back for writing    *)
(* parses, if there is a validator for its language (applier.ts:247).      *)
AppliedParses ==
  result.ok /\ "known" \in request.options /\ "skip" \notin request.options => Balanced(result.content)

(* What a tier that runs may report on this request.                        *)
Diagnoses(tier) ==
  {IF o.reason = "none" THEN "parse-broken" ELSE o.reason :
     o \in {p \in RunTier(tier, request) : p.reason # "none" \/ ~Validates(request, p.content)}}

(* A refusal gives the reason of the tier it names, and says that a tier   *)
(* was unavailable only if no tier of the applier's own came to another    *)
(* diagnosis (applier.ts recordFailure).                                   *)
RefusalIsDiagnosis ==
  result.done /\ ~result.ok =>
    LET ran == ToSet(request.tiers) \ (IF "provider" \in request.options THEN {} ELSE {"fast-apply"})
    IN  /\ ran # {} => result.tier \in ran /\ result.reason \in Diagnoses(result.tier)
        /\ result.reason = "tier-unavailable" =>
             \A tier \in ran \ {"fast-apply"} : Diagnoses(tier) = {"tier-unavailable"}

(* Claims of the source that its code does not keep.                        *)

(* match.ts:8: ambiguity is always reported.  Broken when two places        *)
(* overlap, for the exact scan goes on past the first.                      *)
AmbiguityIsReported ==
  AppliedOne /\ Only.search # <<>> /\ Only.occurrence = 0 =>
    \A at \in 0 .. Len(request.original) :
      At.strategy = "exact" /\ OccursAt(request.original, Only.search, at) => at = At.start

(* match.ts:163: the indentation of the lines of the block relative to each *)
(* other matches exactly.  Broken by a line to the left of the first.       *)
RelativeIndentMatches ==
  AppliedOne /\ At.strategy = "indentation-tolerant" =>
    \A k \in DOMAIN Found :
      ~IsBlank(Quoted[k]) =>
        LeadingWhitespace(Found[k]) + At.searchIndent = LeadingWhitespace(Quoted[k]) + At.foundIndent

(* match.ts:8 and 163: a place the block was quoted from, all of it shifted *)
(* as one, is not passed over for another.  Broken by a block with a line to *)
(* the left of its first: where it would fit it is not found, and another   *)
(* place, of another shape, is edited.                                      *)
MeantPlaceIsTaken ==
  AppliedOne /\ At.strategy = "indentation-tolerant" => ReadFrom(At.strategy) \subseteq {At.line}

(* match.ts:328: no replacement is inserted with the wrong indentation.     *)
(* Broken by a line quoted without its indent, which the exact strategy     *)
(* finds in the middle of the file's line.                                  *)
PlacedOnItsIndent ==
  LET replaced == IndexLines(request.original)[At.line]
      written  == Lines(Only.replace)
      quoted   == LeadingWhitespace(Quoted[1])
  IN AppliedOne /\ Only.search # <<>> /\ At.strategy # "anchored"
     /\ IsBlank(SubSeq(replaced.text, 1, At.start - replaced.start))
     /\ (\A k \in DOMAIN written : ~IsBlank(written[k]) /\ LeadingWhitespace(written[k]) = quoted) =>
       \A k \in DOMAIN written :
         LeadingWhitespace(Lines(result.content)[At.line + k - 1]) = LeadingWhitespace(replaced.text)

(* match.ts:130: the caller controls whether the newline is replaced.       *)
(* Broken by a block that ends in one, found by any strategy but the exact: *)
(* the replacement's own line break is added to the file's.                 *)
NoLineAppears ==
  AppliedOne /\ Only.search # <<>> /\ At.strategy # "anchored" /\ At.end < Len(request.original) =>
    Len(Lines(result.content)) + Len(Lines(Only.search))
      = Len(Lines(request.original)) + Len(Lines(Only.replace))

(* types.ts:73: a location is an offset into the original text.  Broken for *)
(* the second block of an edit, which is located in what the first made.    *)
LocationsAreInTheOriginal ==
  result.ok => \A k \in DOMAIN result.locations : result.locations[k].end <= Len(request.original)

=============================================================================
