------------------------------- MODULE EditReview -------------------------------
(***************************************************************************)
(* Review after the write: the engine edits a file on disk, the extension  *)
(* keeps what it applied, and a revert computes the inverse from the text   *)
(* in the editor and asks VS Code to apply it (apps/vscode/src/edits/       *)
(* review.ts, locate.ts; controller.ts pairs the events).                   *)
(*                                                                         *)
(* One file, on screen.  The engine writes it whenever it likes; VS Code    *)
(* reloads an unmodified document some time later; the user types, saves,   *)
(* accepts and reverts.  A revert waits for VS Code between its plan and    *)
(* the edit.  VS Code is external: it declines an edit whose ranges overlap *)
(* or whose document has changed since, and may decline any other.          *)
(***************************************************************************)
EXTENDS EditMatch

CONSTANTS
  Files,      (* Contents of the file at the start.                        *)
  Proposals,  (* The block lists the engine may apply.                     *)
  Rewrites,   (* What a whole-file tier may write.                         *)
  Typed,      (* What the user may type; in no proposal.                   *)
  MaxWrites,  (* Bound: edits of the engine.                               *)
  MaxTyped,   (* Bound: insertions of the user.                            *)
  None        (* No plan.                                                  *)

VARIABLES
  disk,     (* The file.                                                   *)
  document, (* The text of the editor.                                     *)
  dirty,    (* The document has changes that are not saved.                *)
  loaded,   (* The file as the editor last read or wrote it.               *)
  entries,  (* The recorded edits, the oldest first.                       *)
  plan,     (* The revert VS Code has been asked for, or None.              *)
  notice,   (* What the last command told the user.                        *)
  writes,   (* Edits the engine has made.                                  *)
  typing,   (* Insertions the user has made.                               *)
  origin    (* History: the file when the first of entries was applied.    *)

vars == <<disk, document, dirty, loaded, entries, plan, notice, writes, typing, origin>>

Init ==
  /\ disk \in Files /\ document = disk /\ dirty = FALSE /\ loaded = disk
  /\ entries = <<>> /\ plan = None /\ notice = "none"
  /\ writes = 0 /\ typing = 0 /\ origin = disk

-----------------------------------------------------------------------------
(* locate.ts: where a replacement is now.                                  *)

(* countOccurrences goes on after the end of the last one it counted.       *)
countOccurrences(text, needle) == Len(ExactMatches(text, needle))

locateUnique(text, needle) ==
  LET reason == IF needle = <<>> THEN "not-derivable"
                ELSE IF countOccurrences(text, needle) = 0 THEN "not-found"
                ELSE IF countOccurrences(text, needle) > 1 THEN "ambiguous" ELSE "none"
  IN [ok |-> reason = "none", reason |-> reason,
      start |-> IF reason = "none" THEN ExactMatches(text, needle)[1].start ELSE 0]

Operation(text, block) ==
  LET at == locateUnique(text, block.replace).start
  IN [start |-> at, end |-> at + Len(block.replace), original |-> block.search]

(* Two of the operations take the same text.                                *)
overlaps(operations) ==
  \E i, j \in DOMAIN operations :
    i # j /\ operations[i].start < operations[j].end /\ operations[j].start < operations[i].end

Refused(reason) == [ok |-> FALSE, reason |-> reason, operations |-> <<>>]

(* The first block that cannot be located decides.                          *)
planRevert(text, entry) ==
  LET located == [k \in DOMAIN entry.blocks |-> locateUnique(text, entry.blocks[k].replace)]
      lost == SelectSeq(located, LAMBDA l : ~l.ok)
      operations == [k \in DOMAIN entry.blocks |-> Operation(text, entry.blocks[k])]
  IN IF entry.tier # "search-replace" THEN Refused("whole-file")
     ELSE IF entry.blocks = <<>> THEN Refused("not-derivable")
     ELSE IF lost # <<>> THEN Refused(lost[1].reason)
     ELSE IF overlaps(operations) THEN Refused("overlapping")
     ELSE [ok |-> TRUE, reason |-> "none", operations |-> operations]

-----------------------------------------------------------------------------
(* The engine.                                                             *)

Splice(text, start, end, put) == SubSeq(text, 1, start) \o put \o SubSeq(text, end + 1, Len(text))

(* One block after the other; a block that is nowhere, or at two places,     *)
(* refuses the edit.                                                        *)
ApplyBlock(text, block) ==
  LET found == FindMatch(text, block.search)
  IN IF text = None \/ Len(found) # 1 THEN None
     ELSE Splice(text, found[1].start, found[1].end, ReindentReplacement(block.replace, found[1]))

Applied(text, blocks) ==
  FoldLeft(LAMBDA acc, b : IF acc = None THEN None ELSE ApplyBlock(acc, b), text, blocks)

(* edit.proposed and edit.applied arrive after the write, and the applied    *)
(* edit is recorded with the proposal of its editId.                        *)
Record(text, tier, blocks) ==
  /\ writes < MaxWrites /\ text # None /\ text # disk
  /\ disk' = text /\ writes' = writes + 1
  /\ entries' = Append(entries, [tier |-> tier, blocks |-> blocks])
  /\ origin' = IF entries = <<>> THEN disk ELSE origin
  /\ UNCHANGED <<document, dirty, loaded, plan, notice, typing>>

EngineEdits ==
  \/ \E blocks \in Proposals : Record(Applied(disk, blocks), "search-replace", blocks)
  \/ \E text \in Rewrites : Record(text, "whole-file", <<>>)

(* A new turn forgets the edits of the last one.                            *)
TurnStarts ==
  /\ entries # <<>>
  /\ entries' = <<>> /\ notice' = "none"
  /\ UNCHANGED <<disk, document, dirty, loaded, plan, writes, typing, origin>>

-----------------------------------------------------------------------------
(* The editor.                                                             *)

Reload ==
  /\ ~dirty /\ document # disk
  /\ document' = disk /\ loaded' = disk
  /\ UNCHANGED <<disk, dirty, entries, plan, notice, writes, typing, origin>>

Types ==
  /\ typing < MaxTyped /\ dirty' = TRUE /\ typing' = typing + 1
  /\ \E at \in 0 .. Len(document), t \in Typed : document' = Splice(document, at, at, <<t>>)
  /\ UNCHANGED <<disk, loaded, entries, plan, notice, writes, origin>>

(* A file that was written since it was read is not saved over.             *)
Save ==
  /\ dirty /\ disk = loaded
  /\ dirty' = FALSE /\ disk' = document /\ loaded' = document
  /\ UNCHANGED <<document, entries, plan, notice, writes, typing, origin>>

-----------------------------------------------------------------------------
(* The commands.                                                           *)

Accept ==
  /\ entries # <<>>
  /\ entries' = <<>> /\ notice' = "accepted"
  /\ UNCHANGED <<disk, document, dirty, loaded, plan, writes, typing, origin>>

(* Slip of PlannedText: the plan is made from the file, not from the editor. *)
PlannedFile == disk

PlannedText == document

Plans == [k \in DOMAIN entries |-> planRevert(PlannedText, entries[k])]

(* Every entry is planned against the text as it is now; the first refusal   *)
(* is the answer, and leaves the entries where they are.                     *)
RevertStarts ==
  LET refusals == SelectSeq(Plans, LAMBDA p : ~p.ok)
  IN /\ entries # <<>> /\ plan = None
     /\ IF refusals # <<>>
        THEN notice' = refusals[1].reason /\ UNCHANGED plan
        ELSE /\ plan' = [on |-> document, of |-> entries,
                         operations |-> FlattenSeq([k \in DOMAIN entries |-> Plans[k].operations])]
             /\ notice' = "none"
     /\ UNCHANGED <<disk, document, dirty, loaded, entries, writes, typing, origin>>

(* The operations from the last place in the text to the first.             *)
Undone(text, operations) ==
  FoldLeft(LAMBDA acc, o : Splice(acc, o.start, o.end, o.original), text,
           SortSeq(operations, LAMBDA a, b : a.start > b.start))

(* VS Code applied the edit: every entry of the file is forgotten.           *)
RevertEnds ==
  /\ plan # None /\ document = plan.on /\ ~overlaps(plan.operations)
  /\ document' = Undone(document, plan.operations) /\ dirty' = TRUE
  /\ entries' = <<>> /\ plan' = None /\ notice' = "reverted"
  /\ UNCHANGED <<disk, loaded, writes, typing, origin>>

RevertDeclined ==
  /\ plan # None
  /\ plan' = None /\ notice' = "declined"
  /\ UNCHANGED <<disk, document, dirty, loaded, entries, writes, typing, origin>>

Commands == Accept \/ RevertStarts \/ RevertEnds \/ RevertDeclined

Next == EngineEdits \/ TurnStarts \/ Reload \/ Types \/ Save \/ Commands

Spec == Init /\ [][Next]_vars

-----------------------------------------------------------------------------
(* Properties.                                                             *)

Notices == {"none", "accepted", "reverted", "declined", "not-found", "ambiguous",
            "not-derivable", "whole-file", "overlapping"}

(* The types of the review.                                                *)
TypeOK ==
  /\ {dirty} \subseteq BOOLEAN /\ notice \in Notices
  /\ writes \in 0 .. MaxWrites /\ typing \in 0 .. MaxTyped
  /\ \A k \in DOMAIN entries : entries[k].tier \in {"search-replace", "whole-file"}
  /\ plan # None => plan.operations # <<>>

WordsOf(text, words) == SelectSeq(text, LAMBDA w : w \in words)

(* Whatever the user types between the engine's write, the reload, the plan *)
(* of a revert and the edit, a revert takes none of it away: no step of the *)
(* review removes a word the user typed or moves one past another.          *)
RevertLeavesWords == RevertEnds => WordsOf(document', Typed) = WordsOf(document, Typed)

UserWordsSurvive == [][RevertLeavesWords]_vars

(* An operation of a plan takes text that is, in the document it was made   *)
(* for, the replacement of a recorded block and that of no second place     *)
(* beyond it, so that no refusal for ambiguity is passed over.              *)
PlansAreUnique ==
  plan # None =>
    \A k \in DOMAIN plan.operations :
      LET o == plan.operations[k]
          taken == SubSeq(plan.on, o.start + 1, o.end)
      IN \A at \in o.end .. Len(plan.on) : ~OccursAt(plan.on, taken, at)

(* What a revert forgets it was planned for: an edit recorded while VS Code  *)
(* was asked is only lost when VS Code had not reloaded the file by then.    *)
RevertForgetsThePlanned ==
  RevertEnds /\ document = disk => ToSet(entries) \subseteq ToSet(plan.of)

ForgottenWasPlanned == [][RevertForgetsThePlanned]_vars

-----------------------------------------------------------------------------
(* Promises of the documentation the code does not keep; see README.md.    *)

(* locate.ts: "If `replace` occurs more than once, this module refuses."    *)
AmbiguityIsRefused ==
  plan # None =>
    \A k \in DOMAIN plan.operations :
      LET o == plan.operations[k]
          taken == SubSeq(plan.on, o.start + 1, o.end)
      IN \A at \in 0 .. Len(plan.on) : OccursAt(plan.on, taken, at) => at = o.start

(* locate.ts: "replacing the former with the latter restores the original":  *)
(* when nobody but the engine wrote, what a revert leaves is the file the    *)
(* recorded edits found.                                                    *)
UntouchedComesBack ==
  RevertEnds /\ typing = 0 /\ document = disk => document' = origin

RevertRestores == [][UntouchedComesBack]_vars

=============================================================================
