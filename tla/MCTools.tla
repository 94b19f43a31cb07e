-------------------------------- MODULE MCTools --------------------------------
(***************************************************************************)
(* What a tool's output becomes on its way to the model, what the model's   *)
(* edit becomes on its way to the file, and the files themselves: one that  *)
(* the edit and write tools change, and a chat's session file.  The parts   *)
(* share no state and are checked side by side: a behaviour is one of one   *)
(* part, chosen at its start; the variables of the others are None          *)
(* throughout.                                                              *)
(***************************************************************************)
EXTENDS EditMatch

CONSTANTS
  None,
  p1, Settings, MaxRolls, WholeChat, BrokenChat,  (* The chats.             *)
  e1, e2, e3, w1, s1, k1, k2,                     (* Calls, saves, commands. *)
  InTurn, AtOnce, ByCommand                       (* Who changes the file.   *)

VARIABLES
  part,
  store, bytes, handed, open, calls, last,
  request, next, attempted, failure, validation, result,
  chat, files, made, asked, told, begun,
  pc, seen, temp, fd, names, data, file, saved, clock, alive, invoked, exit

-----------------------------------------------------------------------------
(* Tool results, the byte limits scaled down together: every text of up to  *)
(* four lines of four lengths, once; and texts that are whole, cut by the   *)
(* tool, and cut by both, four calls in a row.                              *)

Once == INSTANCE ToolResults WITH
          MarkerBytes <- 2, NoteBytes <- 3, MaxResultBytes <- 32, ToolBytes <- 24,
          StatusBytes <- 2, LabelBytes <- 2, StampBytes <- 3, LineLimit <- 4, TokenBudget <- 8,
          Texts <- UNION {[1 .. n -> {1, 4, 9, 30}] : n \in 1 .. 4},
          Failures <- {<<>>, <<6>>, <<9, 9>>}, Images <- {5, 40},
          MaxEntries <- 2, MaxHeld <- 60, MaxCalls <- 1

InARow == INSTANCE ToolResults WITH
            MarkerBytes <- 2, NoteBytes <- 3, MaxResultBytes <- 32, ToolBytes <- 24,
            StatusBytes <- 2, LabelBytes <- 2, StampBytes <- 3, LineLimit <- 4, TokenBudget <- 8,
            Texts <- {<<4, 4>>, <<9, 9, 9>>, <<9, 4, 9, 9>>, <<4, 4, 4, 4, 4>>, <<30, 30>>},
            Failures <- {<<>>, <<9, 9, 9>>}, Images <- {12},
            MaxEntries <- 2, MaxHeld <- 60, MaxCalls <- 4

-----------------------------------------------------------------------------
(* Edits.  Lines are two words on several indents, two words in one line     *)
(* with a single and with a double gap, an empty line and an elision.       *)

A0 == <<"a">>
A1 == <<SP, "a">>
A2 == <<SP, SP, "a">>
B0 == <<"b">>
B1 == <<SP, "b">>
AB == <<SP, "a", SP, "b">>
AGapB  == <<SP, "a", SP, SP, "b">>
Elided == <<SP, Elision>>

Text(lines) == FlattenSeq(Joined(lines))

(* The texts of up to n of the given lines.                                 *)
TextsUpTo(lines, n) == {Text(t) : t \in UNION {[1 .. k -> lines] : k \in 1 .. n}}

NoText == <<"no text">>

(* A block that is looked for in every file of up to three lines.           *)
Quoting == INSTANCE EditApplier WITH
  Originals <- TextsUpTo({A1, A2, B1, AB}, 3) \cup TextsUpTo({<<>>, A1, B1}, 3),
  Searches <- TextsUpTo({A0, A1, B0, B1, AGapB}, 2) \cup {t \o <<NL>> : t \in {A0, A1, A2}}
              \cup {Text(<<f, Elided, l>>) : f \in {A0, A1}, l \in {B1, AB}},
  Replacements <- {<<>>, B1, Text(<<<<SP, "c">>, <<SP, SP, "c">>>>), <<SP, "c", NL>>},
  Occurrences <- {0}, Wholes <- {NoText}, TierLists <- {<<"search-replace", "whole-file">>},
  Options <- {{"known"}}, MaxEdits <- 1, MaxWhole <- 4

(* Texts whose brackets may be left open, under every list of tiers.        *)
Tiers == {"search-replace", "whole-file", "fast-apply"}
Trying == INSTANCE EditApplier WITH
  Originals <- {<<"{", "a", "}">>, <<"{", "a", NL, "a", "}">>, <<"b">>},
  Searches <- {<<>>, <<"a">>, <<"a", "}">>, <<"{">>}, Replacements <- {<<>>, <<"a">>, <<"}">>},
  Occurrences <- {0, 2},
  Wholes <- {NoText, <<"b">>, <<"{", "b">>, <<"b", NL, "b", NL, "b">>},
  TierLists <- {t \in UNION {[1 .. k -> Tiers] : k \in 0 .. 3} :
                  \A i, j \in DOMAIN t : t[i] = t[j] => i = j},
  Options <- {{}, {"known"}, {"known", "grammar"}, {"known", "provider"},
              {"known", "grammar", "provider"}, {"known", "skip", "provider"}},
  MaxEdits <- 1, MaxWhole <- 4

-----------------------------------------------------------------------------
(* The chats of one person, over the session files p describes.             *)
Chats(p) == INSTANCE ChatSessions WITH
              Procs <- {p1}, MaxSessions <- p.sessions, MaxTurns <- p.turns, Faults <- p.faults

(* One chat after another over three sessions, killed between two writes at *)
(* any time; and over two of them, killed or out of space within one.        *)
KilledBetween == [sessions |-> 3, turns |-> 3, faults |-> {}]
KilledWithin  == [sessions |-> 2, turns |-> 2, faults |-> {"torn", "disk"}]

(* The file under the calls, commands and saves p describes.                *)
Files(p) == INSTANCE FileEdits WITH
              Edits <- p.edits, Writes <- p.writes, Saves <- p.saves, MaxClock <- p.clock,
              SharedMs <- p.sharedMs, OneSession <- p.oneSession,
              Commands <- p.commands, Invocations <- p.invocations, FullDisk <- p.fullDisk

(* Three edits of one session with a person saving meanwhile; and calls of  *)
(* several sessions at once that take different milliseconds.                *)
ThreeEdits ==
  [edits |-> {e1, e2, e3}, writes |-> {}, saves |-> {s1}, clock |-> 1,
   sharedMs |-> TRUE, oneSession |-> TRUE,
   commands |-> {}, invocations |-> {}, fullDisk |-> FALSE]
ThreeCalls ==
  [edits |-> {e1, e2}, writes |-> {w1}, saves |-> {s1}, clock |-> 2,
   sharedMs |-> FALSE, oneSession |-> FALSE,
   commands |-> {}, invocations |-> {}, fullDisk |-> FALSE]

(* Two runs of adze apply and a person saving; every way of naming the file  *)
(* and the edits on the command line.                                       *)
CommandLines ==
  [file : {"readable"}, inline : {{"search", "replace"}}, edits : {"none"}, dryRun : BOOLEAN]
  \cup [file : {"readable"}, inline : {{}}, edits : {"none", "fine", "malformed"}, dryRun : {FALSE}]
  \cup [file : {"readable"}, inline : {{"search"}, {"search", "replace", "bad occurrence"}},
        edits : {"none"}, dryRun : {FALSE}]
  \cup [file : {"readable"}, inline : {{"search", "replace"}}, edits : {"fine"}, dryRun : {FALSE}]
  \cup [file : {"unreadable"}, inline : {{}}, edits : {"fine"}, dryRun : {FALSE}]
TwoCommands ==
  [edits |-> {}, writes |-> {}, saves |-> {s1}, clock |-> 0,
   sharedMs |-> FALSE, oneSession |-> FALSE,
   commands |-> {k1, k2}, invocations |-> CommandLines, fullDisk |-> TRUE]

-----------------------------------------------------------------------------
ASSUME ConstantsAreLegal ==
  /\ Once!MarkerAssumption /\ Once!LimitsAssumption
  /\ InARow!MarkerAssumption /\ InARow!LimitsAssumption
  /\ Quoting!RequestAssumption /\ Trying!RequestAssumption
  /\ Chats(WholeChat)!BoundsAssumption /\ Chats(BrokenChat)!BoundsAssumption
  /\ Files(InTurn)!CallsAssumption /\ InTurn.oneSession /\ InTurn.commands = {}
  /\ Files(AtOnce)!CallsAssumption /\ Files(AtOnce)!Apart /\ AtOnce.commands = {}
  /\ Files(ByCommand)!CallsAssumption /\ Files(ByCommand)!Apart

resultVars == <<store, bytes, handed, open, calls, last>>
editVars   == <<request, next, attempted, failure, validation, result>>
chatVars   == <<chat, files, made, asked, told, begun>>
fileVars   == <<pc, seen, temp, fd, names, data, file, saved, clock, alive, invoked, exit>>
vars       == <<part, resultVars, editVars, chatVars, fileVars>>

NoResults ==
  /\ store = None /\ bytes = None /\ handed = None
  /\ open = None /\ calls = None /\ last = None
NoEdits ==
  /\ request = None /\ next = None /\ attempted = None
  /\ failure = None /\ validation = None /\ result = None
NoChats ==
  /\ chat = None /\ files = None /\ made = None
  /\ asked = None /\ told = None /\ begun = None
NoFile ==
  /\ pc = None /\ seen = None /\ temp = None /\ fd = None /\ names = None
  /\ data = None /\ file = None /\ saved = None /\ clock = None /\ alive = None
  /\ invoked = None /\ exit = None

Init ==
  \/ part = "once" /\ Once!Init /\ NoEdits /\ NoChats /\ NoFile
  \/ part = "inARow" /\ InARow!Init /\ NoEdits /\ NoChats /\ NoFile
  \/ part = "quoting" /\ Quoting!Init /\ NoResults /\ NoChats /\ NoFile
  \/ part = "trying" /\ Trying!Init /\ NoResults /\ NoChats /\ NoFile
  \/ part = "chats" /\ Chats(WholeChat)!Init /\ NoResults /\ NoEdits /\ NoFile
  \/ part = "broken" /\ Chats(BrokenChat)!Init /\ NoResults /\ NoEdits /\ NoFile
  \/ part = "inTurn" /\ Files(InTurn)!Init /\ NoResults /\ NoEdits /\ NoChats
  \/ part = "atOnce" /\ Files(AtOnce)!Init /\ NoResults /\ NoEdits /\ NoChats
  \/ part = "byCommand" /\ Files(ByCommand)!Init /\ NoResults /\ NoEdits /\ NoChats

Next ==
  \/ part = "once" /\ Once!Next /\ UNCHANGED <<part, editVars, chatVars, fileVars>>
  \/ part = "inARow" /\ InARow!Next /\ UNCHANGED <<part, editVars, chatVars, fileVars>>
  \/ part = "quoting" /\ Quoting!Next /\ UNCHANGED <<part, resultVars, chatVars, fileVars>>
  \/ part = "trying" /\ Trying!Next /\ UNCHANGED <<part, resultVars, chatVars, fileVars>>
  \/ part = "chats" /\ Chats(WholeChat)!Next /\ UNCHANGED <<part, resultVars, editVars, fileVars>>
  \/ part = "broken" /\ Chats(BrokenChat)!Next /\ UNCHANGED <<part, resultVars, editVars, fileVars>>
  \/ part = "inTurn" /\ Files(InTurn)!Next /\ UNCHANGED <<part, resultVars, editVars, chatVars>>
  \/ part = "atOnce" /\ Files(AtOnce)!Next /\ UNCHANGED <<part, resultVars, editVars, chatVars>>
  \/ part = "byCommand" /\ Files(ByCommand)!Next /\ UNCHANGED <<part, resultVars, editVars, chatVars>>

Spec == Init /\ [][Next]_vars

-----------------------------------------------------------------------------
(* The type invariants of ToolResults, EditApplier, ChatSessions, FileEdits. *)
TypesHold ==
  /\ part = "inARow" => InARow!TypeOK
  /\ part = "trying" => Trying!TypeOK
  /\ part = "chats" => Chats(WholeChat)!TypeOK
  /\ part = "inTurn" => Files(InTurn)!TypeOK
  /\ part = "byCommand" => Files(ByCommand)!TypeOK

(* However a result is cut on its way, the cut is flagged and paid for out   *)
(* of the budget, a command keeps both its ends, and the pages of a file     *)
(* follow on each other without a gap; and the continuation store holds the  *)
(* newest texts it handed tokens out for, no more than its limits allow, and *)
(* each token is redeemed for its own whole text, all variables within their *)
(* types (packages/core/src/truncate.ts, tools).                             *)
CutsAreAccounted ==
  /\ TypesHold
  /\ part = "once" =>
       /\ Once!CutIsFlagged /\ Once!OneBlockWithinCap
       /\ Once!CommandKeepsBothEnds /\ Once!PagesAdvance
  /\ part = "inARow" =>
       InARow!HeldWithinLimits /\ InARow!NewestAreHeld /\ InARow!FreshTokenRedeems

(* What a tolerant match replaces carries the words that were quoted, the   *)
(* file reads so, to the same tolerance, at no other place, and the          *)
(* replacement keeps its shape (packages/apply/src/match.ts, applier.ts).    *)
MatchIsFaithful ==
  part = "quoting" =>
    Quoting!FoundIsWhatWasQuoted /\ Quoting!NoSecondPlace /\ Quoting!ShapeIsKept

(* What any tier hands back for writing parses, and a refusal gives the     *)
(* diagnosis of the tier it names, not that of one that could not run       *)
(* (applyEdit of packages/apply/src/applier.ts).                             *)
TiersEndWell == part = "trying" => Trying!AppliedParses /\ Trying!RefusalIsDiagnosis

(* What a completed saveSession put into a session's file is there whenever *)
(* nobody is writing it, however the chats ended, cleared, forked or failed *)
(* since, unless a save of that very session broke off; and what a resume or *)
(* a fork makes, even after a save that broke off, is a conversation the     *)
(* engine could have led, with a header that claims no fewer turns than the  *)
(* file holds (packages/cli/src/sessions/store.ts and commands/chat.ts).     *)
SavedTurnsSurvive ==
  /\ part = "chats" =>
       Chats(WholeChat)!SavedTurnsSurvive /\ Chats(WholeChat)!ConversationsInOrder /\ Chats(WholeChat)!TurnsAreCounted
  /\ part = "broken" =>
       Chats(BrokenChat)!SavedTurnsSurvive /\ Chats(BrokenChat)!ConversationsInOrder /\ Chats(BrokenChat)!TurnsAreCounted

(* In one session an edit reported as applied stays in the file, and with   *)
(* it whatever a person saved while the approval was pending                *)
(* (packages/core/src/tools/edit.ts); and whoever writes, fails or crashes,  *)
(* the path leads to a whole text, a call that reports a failure has changed *)
(* nothing, and no temporary file stays (writeFile of packages/core/src/fs.ts); *)
(* and adze apply exits with 0 only when its edit is in the file, and leaves *)
(* that broken only by a write that broke off (packages/cli/src/commands/apply.ts). *)
DoneEditsStay ==
  /\ part = "inTurn" => Files(InTurn)!DoneEditsStay
  /\ part = "atOnce" => Files(AtOnce)!FileIsWhole /\ Files(AtOnce)!FailureWritesNothing /\ Files(AtOnce)!NoTempStays
  /\ part = "byCommand" => Files(ByCommand)!ExitTellsTheEdit /\ Files(ByCommand)!OnlyAWriteBreaks

=============================================================================
