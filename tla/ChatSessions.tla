----------------------------- MODULE ChatSessions -----------------------------
(***************************************************************************)
(* `adze chat' and the session files it keeps in .adze/sessions            *)
(* (packages/cli/src/commands/chat.ts and sessions/store.ts, over Session  *)
(* and ContextAssembler of @adze/core).                                    *)
(*                                                                         *)
(* Processes are chats in terminals of one workspace.  A chat reads one    *)
(* line at a time and finishes with it before it reads the next; processes *)
(* share nothing but the files.  Saving a session truncates its file and   *)
(* then writes it from the start, and a chat that is interrupted (it has   *)
(* no signal handler) is gone between any two of its steps.                 *)
(***************************************************************************)
EXTENDS Integers, Sequences, FiniteSets

CONSTANTS
  Procs,       (* The chat processes.                                         *)
  Settings,    (* Model, sandbox, approvals, instructions of an invocation.   *)
  MaxSessions, (* Bound: sessions created.                                    *)
  MaxTurns,    (* Bound: turns submitted.                                     *)
  MaxRolls,    (* Bound: compactions of one session.                          *)
  Faults       (* "torn": a chat may be killed, "disk": the disk may be full, *)
               (* while a file is written.                                    *)

BoundsAssumption ==
  /\ MaxSessions \in Nat \ {0} /\ MaxTurns \in Nat /\ MaxRolls \in Nat
  /\ Settings # {} /\ Faults \subseteq {"torn", "disk"}

Ids == 1 .. MaxSessions
TurnIds == 1 .. MaxTurns

(* A line of a session file: the header, a message, or a broken piece.       *)
Message == [kind: {"user", "assistant"}, turn: TurnIds] \cup [kind: {"summary"}]
Header  == [kind: {"header"}, turns: Nat, rolls: Nat, settings: Settings]
Torn    == [kind |-> "torn"]
Line    == Message \cup Header \cup {Torn}

VARIABLES
  chat,   (* chat[p]: the engine session, PersistedState and place of p.      *)
  files,  (* files[id]: the lines of <id>.jsonl; no lines for no file.        *)
  made,   (* Sessions created so far.                                         *)
  asked,  (* Turns submitted so far.                                          *)
  told,   (* History variable: the turns a completed save put into id, less   *)
          (* those a /compact replaced, and all if a save of id broke off      *)
          (* since.                                                           *)
  begun   (* History variable: the settings session id was created with.      *)

vars == <<chat, files, made, asked, told, begun>>

(* "saving" is saveSession before its file is opened, "writing" after.       *)
Points == {"off", "prompt", "turn", "saving", "writing"}
Chat == [pc: Points, id: Ids \cup {0}, history: Seq(Message), turns: Nat,
         rolls: Nat, opened: Nat, epoch: Nat, settings: Settings]

User(t) == [kind |-> "user", turn |-> t]
Assistant(t) == [kind |-> "assistant", turn |-> t]
Summary == [kind |-> "summary"]

Prompts(h) == {i \in DOMAIN h : h[i].kind = "user"}
TurnsOf(h) == {h[i].turn : i \in Prompts(h)}

(* loadSession: the header first, and lines that parse.  What it calls a     *)
(* round-trip check compares nothing.                                        *)
Readable(lines) ==
  /\ lines # <<>> /\ lines[1].kind = "header"
  /\ \A i \in DOMAIN lines : lines[i].kind # "torn"

-----------------------------------------------------------------------------
(* History arithmetic.                                                     *)

CountTurns(h) == Cardinality(Prompts(h))

(* The position of the k-th prompt of h.                                     *)
Prompt(h, k) == CHOOSE i \in Prompts(h) : Cardinality({j \in Prompts(h) : j <= i}) = k

(* sliceHistoryByTurns: up to the prompt that starts turn n + 1.             *)
SliceHistoryByTurns(h, n) ==
  IF n <= 0 \/ CountTurns(h) <= n THEN h ELSE SubSeq(h, 1, Prompt(h, n + 1) - 1)

-----------------------------------------------------------------------------
Off == [pc |-> "off", id |-> 0, history |-> <<>>, turns |-> 0, rolls |-> 0,
        opened |-> 0, epoch |-> 0, settings |-> CHOOSE s \in Settings : TRUE]

Init ==
  /\ chat = [p \in Procs |-> Off]
  /\ files = [id \in Ids |-> <<>>]
  /\ made = 0 /\ asked = 0
  /\ told = [id \in Ids |-> {}]
  /\ begun = [id \in Ids |-> CHOOSE s \in Settings : TRUE]

(* sessionCreate: a fresh engine session, and from here a file under its id. *)
Create(p, state) ==
  /\ made < MaxSessions
  /\ made' = made + 1
  /\ begun' = [begun EXCEPT ![made + 1] = state.settings]
  /\ chat' = [chat EXCEPT ![p] = [state EXCEPT !.pc = "saving", !.id = made + 1,
                                    !.rolls = 0, !.opened = 0, !.epoch = 0]]

(* `adze chat'.                                                              *)
Start(p) ==
  /\ chat[p].pc = "off"
  /\ \E s \in Settings : Create(p, [Off EXCEPT !.settings = s])
  /\ UNCHANGED <<files, asked, told>>

(* `adze chat --resume id', with the settings of this invocation.            *)
Resume(p, id) ==
  LET lines == files[id] IN
  /\ chat[p].pc = "off"
  /\ Readable(lines)
  /\ \E s \in Settings :
       chat' = [chat EXCEPT ![p] =
         [Off EXCEPT !.pc = "saving", !.id = id, !.history = Tail(lines),
                     !.turns = lines[1].turns, !.rolls = lines[1].rolls,
                     !.opened = lines[1].rolls, !.settings = s]]
  /\ UNCHANGED <<files, made, asked, told, begun>>

(* A prompt is submitted.                                                    *)
Submit(p) ==
  /\ chat[p].pc = "prompt"
  /\ asked < MaxTurns
  /\ asked' = asked + 1
  /\ chat' = [chat EXCEPT ![p].pc = "turn", ![p].history = Append(@, User(asked + 1))]
  /\ UNCHANGED <<files, made, told, begun>>

(* The turn ended, well or not, and its outcome is recorded.                 *)
TurnEnds(p) ==
  /\ chat[p].pc = "turn"
  /\ chat' = [chat EXCEPT ![p].pc = "saving", ![p].turns = @ + 1,
                          ![p].history = Append(@, Assistant(@[Len(@)].turn))]
  /\ UNCHANGED <<files, made, asked, told, begun>>

(* awaitTurn rejected: nothing is counted or saved.  A turn that was refused *)
(* left no message, one that broke down leaves its prompt.                   *)
TurnRejects(p) ==
  /\ chat[p].pc = "turn"
  /\ \E dropped \in {0, 1} :
       chat' = [chat EXCEPT ![p].pc = "prompt", ![p].history = SubSeq(@, 1, Len(@) - dropped)]
  /\ UNCHANGED <<files, made, asked, told, begun>>

-----------------------------------------------------------------------------
(* Slash commands.                                                         *)

(* /clear: the session is closed and another one begun.                      *)
Clear(p) ==
  /\ chat[p].pc = "prompt"
  /\ Create(p, [Off EXCEPT !.settings = chat[p].settings])
  /\ UNCHANGED <<files, asked, told>>

(* /compact: Session.compact replaces the history and the roll is recorded.   *)
(* The assembler is not asked to roll, and reconcile sees no change.         *)
Compact(p) ==
  /\ chat[p].pc = "prompt" /\ chat[p].history # <<>> /\ chat[p].rolls < MaxRolls
  /\ chat' = [chat EXCEPT ![p].pc = "saving", ![p].history = <<Summary>>, ![p].rolls = @ + 1]
  /\ told' = [told EXCEPT ![chat[p].id] = @ \ TurnsOf(chat[p].history)]
  /\ UNCHANGED <<files, made, asked, begun>>

(* Slip of Fork: the branch is saved under the id of the session it left.    *)
ForkInPlace(p, n) ==
  LET h == chat[p].history
      wanted == IF n = 0 THEN CountTurns(h) ELSE n
  IN
  /\ chat[p].pc = "prompt" /\ h # <<>>
  /\ chat' = [chat EXCEPT ![p].pc = "saving", ![p].history = SliceHistoryByTurns(h, wanted),
               ![p].turns = IF wanted < CountTurns(h) THEN wanted ELSE CountTurns(h)]
  /\ UNCHANGED <<files, asked, told, made, begun>>

(* /fork n, or /fork for n = 0: a new session with the first n turns.        *)
Fork(p, n) ==
  LET h == chat[p].history
      wanted == IF n = 0 THEN CountTurns(h) ELSE n
  IN
  /\ chat[p].pc = "prompt" /\ h # <<>>
  /\ Create(p, [chat[p] EXCEPT !.history = SliceHistoryByTurns(h, wanted),
               !.turns = IF wanted < CountTurns(h) THEN wanted ELSE CountTurns(h)])
  /\ UNCHANGED <<files, asked, told>>

(* /exit, or the end of the input.                                           *)
Exit(p) ==
  /\ chat[p].pc = "prompt"
  /\ chat' = [chat EXCEPT ![p] = Off]
  /\ UNCHANGED <<files, made, asked, told, begun>>

-----------------------------------------------------------------------------
(* saveSession.                                                            *)

HeaderFor(c) ==
  [kind |-> "header", turns |-> c.turns, rolls |-> c.rolls, settings |-> c.settings]

Content(p) == <<HeaderFor(chat[p])>> \o chat[p].history

(* writeFile opened the file, which empties it.                              *)
Truncate(p) ==
  /\ chat[p].pc = "saving"
  /\ files' = [files EXCEPT ![chat[p].id] = <<>>]
  /\ chat' = [chat EXCEPT ![p].pc = "writing"]
  /\ UNCHANGED <<made, asked, told, begun>>

(* Text written from the start of a file that another process has filled     *)
(* since leaves the end of what is longer.                                   *)
WriteOver(old, new) == new \o SubSeq(old, Len(new) + 1, Len(old))

(* The lines were written and the chat prompts again.                        *)
Write(p) ==
  LET id == chat[p].id IN
  /\ chat[p].pc = "writing"
  /\ files' = [files EXCEPT ![id] = WriteOver(@, Content(p))]
  /\ told' = [told EXCEPT ![id] = @ \cup TurnsOf(chat[p].history)]
  /\ chat' = [chat EXCEPT ![p].pc = "prompt"]
  /\ UNCHANGED <<made, asked, begun>>

(* What a write that does not finish leaves: some lines and perhaps a piece. *)
Parts(p) ==
  {SubSeq(Content(p), 1, k) : k \in 0 .. Len(chat[p].history)}
    \cup {Append(SubSeq(Content(p), 1, k), Torn) : k \in 0 .. Len(chat[p].history)}

(* The disk is full: the failure is reported and the chat goes on.           *)
WriteFails(p) ==
  /\ chat[p].pc = "writing" /\ "disk" \in Faults
  /\ \E part \in Parts(p) :
       files' = [files EXCEPT ![chat[p].id] = WriteOver(@, part)]
  /\ told' = [told EXCEPT ![chat[p].id] = {}]
  /\ chat' = [chat EXCEPT ![p].pc = "prompt"]
  /\ UNCHANGED <<made, asked, begun>>

(* The process is interrupted.                                               *)
Killed(p) ==
  /\ chat[p].pc \in {"prompt", "turn", "saving"}
  /\ chat' = [chat EXCEPT ![p] = Off]
  /\ UNCHANGED <<files, made, asked, told, begun>>

KilledInWrite(p) ==
  /\ chat[p].pc = "writing" /\ "torn" \in Faults
  /\ \E part \in Parts(p) :
       files' = [files EXCEPT ![chat[p].id] = WriteOver(@, part)]
  /\ told' = [told EXCEPT ![chat[p].id] = {}]
  /\ chat' = [chat EXCEPT ![p] = Off]
  /\ UNCHANGED <<made, asked, begun>>

(* handleSlash: the commands that change the session; the others only print, *)
(* or write files that are no session's.                                    *)
handleSlash(p) ==
  \/ Clear(p)
  \/ Compact(p)
  \/ \E n \in 0 .. MaxTurns : Fork(p, n)
  \/ Exit(p)

(* Nobody has to start a chat.                                               *)
Idle == (\A p \in Procs : chat[p].pc = "off") /\ UNCHANGED vars

Next ==
  \/ Idle
  \/ \E p \in Procs :
       \/ Start(p) \/ (\E id \in Ids : Resume(p, id))
       \/ Submit(p) \/ TurnEnds(p) \/ TurnRejects(p)
       \/ handleSlash(p)
       \/ Truncate(p) \/ Write(p) \/ WriteFails(p) \/ Killed(p) \/ KilledInWrite(p)

Spec == Init /\ [][Next]_vars

-----------------------------------------------------------------------------
(* Properties.                                                             *)

(* A type invariant.                                                       *)
TypeOK ==
  /\ chat \in [Procs -> Chat]
  /\ files \in [Ids -> Seq(Line)]
  /\ made \in 0 .. MaxSessions /\ asked \in 0 .. MaxTurns
  /\ told \in [Ids -> SUBSET TurnIds]
  /\ begun \in [Ids -> Settings]

(* What a completed save put into a session's file is there whenever nobody  *)
(* is writing it, unless a save of that very session broke off since: the    *)
(* file can be resumed and no turn has gone from it, however the chats ended, *)
(* cleared, forked or failed and whatever became of other sessions' saves.   *)
SavedTurnsSurvive ==
  \A id \in Ids :
    told[id] # {} /\ (\A p \in Procs : chat[p].id = id => chat[p].pc # "writing") =>
      Readable(files[id]) /\ told[id] \subseteq TurnsOf(files[id])

(* In every live or saved conversation prompts come in the order they were   *)
(* submitted, none twice, and a reply follows its own prompt: what a resume  *)
(* or a fork makes is a conversation the engine itself could have led.       *)
InOrder(h) ==
  /\ \A i, j \in Prompts(h) : i < j => h[i].turn < h[j].turn
  /\ \A i \in DOMAIN h : h[i].kind = "assistant" => i > 1 /\ h[i - 1] = User(h[i].turn)

ConversationsInOrder ==
  /\ \A p \in Procs : InOrder(chat[p].history)
  /\ \A id \in Ids : Readable(files[id]) => InOrder(Tail(files[id]))

(* The turns a header claims are no fewer than the answered turns its file   *)
(* holds, after any sequence of resumes, compactions and forks; a compacted  *)
(* history holds fewer.                                                      *)
Replies(h) == {i \in DOMAIN h : h[i].kind = "assistant"}
TurnsAreCounted ==
  \A id \in Ids : Readable(files[id]) =>
    files[id][1].turns >= Cardinality(Replies(files[id]))

(* A session is resumed with the settings it was created with.               *)
ResumeKeepsSettings ==
  \A p \in Procs : chat[p].pc # "off" => chat[p].settings = begun[chat[p].id]

(* Every compaction a chat records as a roll has rolled the engine's epoch.  *)
RecordedRollsHappened == \A p \in Procs : chat[p].rolls - chat[p].opened <= chat[p].epoch

(* store.ts:126: the file is written "atomically enough for a CLI".  What a  *)
(* save leaves, finished or not, can be loaded.                             *)
SavesAreAtomic ==
  [][\A p \in Procs : chat[p].pc = "writing" /\ chat'[p].pc # "writing" => Readable(files'[chat[p].id])]_vars

-----------------------------------------------------------------------------
(* The inductive invariant, for chats that take turns at a session's file.   *)

(* A session has an id, and may have a file, from its creation on.           *)
IdsAreMade ==
  /\ \A p \in Procs : chat[p].pc # "off" => chat[p].id \in 1 .. made
  /\ \A id \in Ids : id > made => files[id] = <<>> /\ told[id] = {}

(* A file holds a header and then messages, or the broken rest of them.      *)
Saved(lines) ==
  \A i \in DOMAIN lines : lines[i] \in (IF i = 1 THEN Header ELSE Message) \cup {Torn}
FilesAreSaves ==
  /\ \A id \in Ids : Saved(files[id])
  /\ \A p \in Procs : chat[p].pc = "writing" => files[chat[p].id] = <<>>

(* A conversation of turns that were submitted, as many of them answered as  *)
(* count says.                                                               *)
Conversation(h, count) ==
  /\ InOrder(h)
  /\ \A i \in Prompts(h) : h[i].turn <= asked
  /\ count >= Cardinality(Replies(h))
ConversationsAreReal ==
  /\ \A p \in Procs : Conversation(chat[p].history, chat[p].turns)
  /\ \A id \in Ids : Readable(files[id]) => Conversation(Tail(files[id]), files[id][1].turns)

PromptIsLast == \A p \in Procs : chat[p].pc = "turn" => Len(chat[p].history) \in Prompts(chat[p].history)

(* What a file was told is in the conversation of the chat that has it, the  *)
(* prompt it may drop not counted, and in the file when that is at rest.     *)
ToldIsHeld ==
  /\ SavedTurnsSurvive
  /\ \A p \in Procs : chat[p].pc # "off" =>
       \A t \in told[chat[p].id] : \E i \in Prompts(chat[p].history) :
         chat[p].history[i].turn = t /\ (chat[p].pc = "turn" => i < Len(chat[p].history))

ChatInv ==
  TypeOK /\ IdsAreMade /\ FilesAreSaves /\ ConversationsAreReal /\ PromptIsLast /\ ToldIsHeld

=============================================================================
