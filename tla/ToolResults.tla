------------------------------ MODULE ToolResults ------------------------------
(***************************************************************************)
(* What becomes of a tool's output on its way to the model: the tool cuts  *)
(* it (bash, an MCP server's tools) or picks a window of it (read), the    *)
(* dispatcher cuts it again and may retain the full text behind a          *)
(* continuation token, and the loop turns the result into a message        *)
(* (packages/core/src/truncate.ts, dispatch.ts, turn.ts, test-feedback.ts, *)
(* tools/shell.ts, tools/files.ts, packages/mcp/src/content.ts).           *)
(*                                                                         *)
(* A session dispatches one call at a time, its subagents' included, so a  *)
(* call is one step here; what may happen between calls is another call or *)
(* the close of the session.                                               *)
(***************************************************************************)
EXTENDS Integers, Sequences, FiniteSetsExt, SequencesExt

CONSTANTS
  MarkerBytes,     (* Length of the elision marker.                        *)
  NoteBytes,       (* Length of the note on omitted images.                *)
  Texts,           (* Outputs and files: sequences of line lengths.        *)
  Failures,        (* The failure lines pulled to the front, or <<>>.      *)
  Images,          (* Sizes of the images an MCP tool may return.          *)
  MaxResultBytes,  (* limits.maxResultBytes: 32 KiB by default.            *)
  ToolBytes,       (* What bash and MCP cut to themselves: 24 KiB.         *)
  StatusBytes,     (* Length of a command's status block.                  *)
  LabelBytes,      (* Length of "output:" and of a window's header.        *)
  StampBytes,      (* Length of a line's number and tab in a window.       *)
  LineLimit,       (* Lines a window holds at most.                        *)
  TokenBudget,     (* Estimated tokens a window holds at most.             *)
  MaxEntries,      (* Entries of the store.                                *)
  MaxHeld,         (* Bytes of the store: 8 MiB by default.                *)
  MaxCalls         (* Bound: tool calls in one behaviour.                  *)

MarkerAssumption == MarkerBytes \in Nat /\ NoteBytes \in Nat
LimitsAssumption ==
  /\ Texts \subseteq Seq(Nat \ {0}) /\ <<>> \notin Texts
  /\ Failures \subseteq Seq(Nat) /\ Images \subseteq Nat
  /\ {MaxResultBytes, ToolBytes, StatusBytes, LabelBytes, StampBytes, MaxHeld, MaxCalls} \subseteq Nat
  /\ {LineLimit, TokenBudget, MaxEntries} \subseteq Nat \ {0}

-----------------------------------------------------------------------------
(* Where a result is cut (packages/core/src/truncate.ts).  A text is its    *)
(* lines, and a line is the number it has in what the tool produced and     *)
(* its length in bytes; number 0 is text the engine wrote or a piece of a   *)
(* line.  Text is ASCII here: a cut inside a longer UTF-8 sequence, which   *)
(* Buffer.toString replaces by U+FFFD, is not modelled.                     *)

Line   == [id: Nat, size: Nat]
Wrote(size) == [id |-> 0, size |-> size]
Marker == Wrote(MarkerBytes)
Blank  == <<Wrote(0)>>

(* Ends(t)[i]: the bytes of t up to line i and the break after it.          *)
Ends(t) ==
  LET end[i \in 0 .. Len(t)] == IF i = 0 THEN 0 ELSE end[i - 1] + t[i].size + 1
  IN  end

Bytes(t) == Ends(t)[Len(t)] - 1

Shown(t) == {t[i].id : i \in DOMAIN t} \ {0}

(* The whole lines in the first budget bytes, or a piece of the first.      *)
TakeHead(t, budget) ==
  LET breaks == {i \in 1 .. Len(t) - 1 : 1 < Ends(t)[i] /\ Ends(t)[i] <= budget} IN
  IF budget <= 0 THEN Blank
  ELSE IF breaks = {} THEN <<Wrote(budget)>>
  ELSE SubSeq(t, 1, Max(breaks))

(* The whole lines after the first break of the last budget bytes, or a    *)
(* piece of the last line.                                                 *)
TakeTail(t, budget) ==
  LET breaks == {i \in 1 .. Len(t) - 1 :
                   Bytes(t) - budget < Ends(t)[i] /\ Ends(t)[i] < Bytes(t)} IN
  IF budget <= 0 THEN Blank
  ELSE IF breaks = {} THEN <<Wrote(budget)>>
  ELSE SubSeq(t, Min(breaks) + 1, Len(t))

Room(max) == Max({0, max - (MarkerBytes + 2)})

(* The share of the end: all of it, none, or two thirds.                    *)
TailRoom(max, bias) ==
  CASE bias = "head" -> 0
    [] bias = "tail" -> Room(max)
    [] bias = "both" -> (Room(max) * 2) \div 3

(* What is left of a text that is over its budget.                          *)
Cut(t, max, bias) ==
  TakeHead(t, Room(max) - TailRoom(max, bias)) \o <<Marker>> \o TakeTail(t, TailRoom(max, bias))

TruncateText(t, max, bias) == IF Bytes(t) <= max THEN t ELSE Cut(t, max, bias)

-----------------------------------------------------------------------------
(* The blocks of a result share one budget, in order.                       *)

Block == [kind: {"text", "image"}, text: Seq(Line)]
Text(t) == [kind |-> "text", text |-> t]

ContentBytes(content) == FoldLeft(LAMBDA sum, b : sum + Bytes(b.text), 0, content)

(* One block of the loop of truncateContent.                                *)
Share(acc, block, bias) ==
  LET fits == Bytes(block.text) <= acc.left
      kept == IF block.kind = "text" THEN TruncateText(block.text, acc.left, bias) ELSE block.text
  IN IF block.kind = "image" /\ ~fits THEN [acc EXCEPT !.dropped = TRUE, !.cut = TRUE]
     ELSE IF acc.left <= 0 /\ block.kind = "text" THEN [acc EXCEPT !.cut = TRUE]
     ELSE [acc EXCEPT !.out = Append(@, [block EXCEPT !.text = kept]),
                      !.left = @ - Bytes(kept), !.cut = @ \/ ~fits]

(* What a result is cut to, and whether anything was cut.                   *)
TruncateContent(content, max, bias) ==
  IF ContentBytes(content) <= max THEN [content |-> content, cut |-> FALSE]
  ELSE LET start == [out |-> <<>>, left |-> max, cut |-> FALSE, dropped |-> FALSE]
           shared == FoldLeft(LAMBDA acc, b : Share(acc, b, bias), start, content)
           note == IF shared.dropped THEN <<Text(<<Wrote(NoteBytes)>>)>> ELSE <<>>
       IN [content |-> shared.out \o note, cut |-> shared.cut]

-----------------------------------------------------------------------------
VARIABLES
  store,   (* ContinuationStore.entries, oldest first.                     *)
  bytes,   (* ContinuationStore.bytes.                                     *)
  handed,  (* handed[k]: the text the k-th token was issued for.           *)
  open,    (* The session has not been closed.                             *)
  calls,   (* Tool calls so far.                                           *)
  last     (* The last call: what it was and what became of its result.    *)

vars == <<store, bytes, handed, open, calls, last>>

Numbered(t) == [i \in DOMAIN t |-> [id |-> i, size |-> t[i]]]
Size(t)     == Bytes(Numbered(t))

NoCall ==
  [tool |-> "none", text |-> <<>>, from |-> 0, next |-> 0, raw |-> <<>>, toolCut |-> FALSE,
   shown |-> <<>>, flagged |-> FALSE, token |-> 0, message |-> <<>>]

Init ==
  /\ store = <<>> /\ bytes = 0 /\ handed = <<>>
  /\ open = TRUE /\ calls = 0 /\ last = NoCall

-----------------------------------------------------------------------------
(* The store.                                                               *)

Total(s) == FoldLeft(LAMBDA sum, e : sum + Size(e.text), 0, s)

(* How many of the oldest entries evict deletes.                            *)
Kept(s, held) ==
  Min({k \in 0 .. Len(s) :
         Len(s) - k <= MaxEntries /\ held - Total(SubSeq(s, 1, k)) <= MaxHeld})

(* Slip of Retain: the bytes of an evicted entry stay on the account. *)
RetainLeaky(s) ==
  LET drop == Kept(s, bytes + Size(s[Len(s)].text)) IN
  /\ store' = SubSeq(s, drop + 1, Len(s))
  /\ bytes' = bytes + Size(s[Len(s)].text)

(* The last entry of s was just set: account for it and evict.              *)
Retain(s) ==
  LET held == bytes + Size(s[Len(s)].text)
      drop == Kept(s, held)
  IN /\ store' = SubSeq(s, drop + 1, Len(s))
     /\ bytes' = held - Total(SubSeq(s, 1, drop))

(* The store takes a text that fits it at all.                              *)
Holdable(t) == Size(t) <= MaxHeld

-----------------------------------------------------------------------------
(* dispatchToolCall once the tool returned, and the message of the loop.    *)

(* Only the content travels: the flag and the token stay in the event.      *)
toolMessage(raw, shown) == shown

(* A token needs a cut by the dispatcher and a text from the tool.          *)
Offered(call, cut) == cut /\ call.toolCut

Return(call) ==
  LET r     == TruncateContent(call.raw, MaxResultBytes, "both")
      taken == Offered(call, r.cut) /\ Holdable(call.text)
  IN /\ calls < MaxCalls
     /\ calls' = calls + 1
     /\ IF taken
          THEN /\ handed' = Append(handed, call.text)
               /\ Retain(Append(store, [token |-> Len(handed) + 1, text |-> call.text]))
          ELSE UNCHANGED <<store, bytes, handed>>
     /\ last' = [call EXCEPT !.shown = r.content, !.flagged = r.cut,
                             !.token = IF taken THEN Len(handed) + 1 ELSE 0,
                             !.message = toolMessage(call.raw, r.content)]
     /\ UNCHANGED open

(* bash: a status block, the failure lines and an excerpt of the output.    *)
RunCommand(t, failures) ==
  LET output  == Numbered(t)
      excerpt == TruncateText(output, ToolBytes, "both")
      front   == IF failures = <<>> THEN <<>>
                 ELSE <<Text([i \in DOMAIN failures |-> Wrote(failures[i])])>>
  IN Return([NoCall EXCEPT !.tool = "bash", !.text = t, !.toolCut = excerpt # output,
               !.raw = <<Text(<<Wrote(StatusBytes)>>)>> \o front
                         \o <<Text(<<Wrote(LabelBytes)>> \o excerpt)>>])

(* A tool of an MCP server: its images, and the end of its text.            *)
CallServer(t, images) ==
  LET text == Numbered(t)
      kept == TruncateText(text, ToolBytes, "tail")
  IN Return([NoCall EXCEPT !.tool = "mcp", !.text = t, !.toolCut = kept # text,
               !.raw = [i \in DOMAIN images |->
                          [kind |-> "image", text |-> <<Wrote(images[i])>>]]
                       \o <<Text(kept)>>])

-----------------------------------------------------------------------------
(* read: a window of a file, or of a text behind a token.                   *)

Cost(size) == ((size + 3) \div 4) + 1

(* The tokens of lines from .. to.                                          *)
Costs(t, from, to) == FoldLeft(LAMBDA sum, size : sum + Cost(size), 0, SubSeq(t, from, to))

(* The last line of the window from a line: at least that line itself.      *)
WindowEnd(t, from) ==
  Max({from} \cup
      {k \in from .. Len(t) : k - from < LineLimit /\ Costs(t, from, k) <= TokenBudget})

Window(t, from) ==
  LET to     == WindowEnd(t, from)
      header == <<Wrote(LabelBytes), Wrote(0)>>
  IN [NoCall EXCEPT !.text = t, !.from = from, !.next = to + 1,
        !.raw = <<Text(header \o [i \in 1 .. to - from + 1 |->
                   [id |-> from + i - 1, size |-> t[from + i - 1] + StampBytes]])>>]

Read(t, from) == Return([Window(t, from) EXCEPT !.tool = "read"])

(* An unknown token is answered with a note, and nothing else happens.      *)
Redeem(k, from) ==
  IF \E i \in DOMAIN store : store[i].token = k
    THEN Return([Window(handed[k], from) EXCEPT !.tool = "redeem"])
    ELSE Return([NoCall EXCEPT !.tool = "unknown", !.raw = <<Text(<<Wrote(NoteBytes)>>)>>])

(* sessionClose clears the store; a call in flight may still come back.      *)
Close ==
  /\ open
  /\ open' = FALSE
  /\ store' = <<>> /\ bytes' = 0
  /\ UNCHANGED <<handed, calls, last>>

Next ==
  \/ \E t \in Texts, failures \in Failures : RunCommand(t, failures)
  \/ \E t \in Texts : \E images \in {<<>>} \cup {<<i>> : i \in Images} : CallServer(t, images)
  \/ \E t \in Texts : \E from \in DOMAIN t : Read(t, from)
  \/ \E k \in DOMAIN handed : \E from \in DOMAIN handed[k] : Redeem(k, from)
  \/ Close

Spec == Init /\ [][Next]_vars

-----------------------------------------------------------------------------
(* Properties.                                                             *)

Lines(content) == UNION {Shown(content[i].text) : i \in DOMAIN content}

(* Types.                                                                  *)
TypeOK ==
  /\ store \in Seq([token: Nat, text: Texts]) /\ bytes \in Nat
  /\ handed \in Seq(Texts)
  /\ open \in BOOLEAN /\ calls \in 0 .. MaxCalls
  /\ last.tool \in {"none", "bash", "mcp", "read", "redeem", "unknown"}

(* The store's account is what it holds, and neither limit is passed.       *)
HeldWithinLimits == bytes = Total(store) /\ Len(store) <= MaxEntries /\ bytes <= MaxHeld

(* What is held is the newest that was handed out, in order: nothing is     *)
(* evicted while something older stays, and no token names another's text.  *)
NewestAreHeld ==
  \A i \in DOMAIN store :
    /\ store[i].token = Len(handed) - Len(store) + i
    /\ store[i].text = handed[store[i].token]

(* A token just handed out can be redeemed, for all the tool produced.      *)
FreshTokenRedeems ==
  last.token # 0 /\ open => \E i \in DOMAIN store :
    store[i].token = last.token /\ store[i].text = last.text

(* A result is flagged exactly when the model sees less than the tool       *)
(* returned.                                                               *)
CutIsFlagged == last.flagged <=> last.message # last.raw

(* A result of one block is within its cap even with the marker: the        *)
(* engine's, and for an MCP tool the one it was configured with.            *)
OneBlockWithinCap ==
  LET cap == IF last.tool = "mcp" THEN Min({ToolBytes, MaxResultBytes}) ELSE MaxResultBytes
  IN Len(last.raw) = 1 /\ cap >= MarkerBytes + 2 => ContentBytes(last.message) <= cap

(* However long a command's output is, its first and its last line reach    *)
(* the model whole if the halves of the budget hold them and the blocks in  *)
(* front leave the output its room.                                        *)
CommandKeepsBothEnds ==
  LET front == ContentBytes(SubSeq(last.raw, 1, Len(last.raw) - 1))
      t     == last.text
      tail  == TailRoom(ToolBytes, "both")
  IN last.tool = "bash" /\ front + LabelBytes + 1 + ToolBytes <= MaxResultBytes =>
       /\ t[1] + 1 <= Room(ToolBytes) - tail => 1 \in Lines(last.message)
       /\ t[Len(t)] + 1 <= tail => Len(t) \in Lines(last.message)

(* A window the dispatcher did not cut shows exactly the lines up to the    *)
(* next offset it names, and that offset is further on.                     *)
PagesAdvance ==
  last.tool \in {"read", "redeem"} =>
    /\ last.next > last.from
    /\ ~last.flagged => Lines(last.message) = last.from .. last.next - 1

-----------------------------------------------------------------------------
(* Promises of the documentation the code does not keep; see README.md.    *)

(* truncate.ts of @adze/core: a token is always redeemable.                 *)
TokenStaysRedeemable ==
  open => \A k \in DOMAIN handed : \E i \in DOMAIN store : store[i].token = k

(* types.ts of @adze/core: what a tool returns as a window onto something  *)
(* larger is registered and comes with a token (if the store can hold it). *)
CutIsContinuable == last.toolCut /\ Holdable(last.text) => last.token # 0

(* primitives.ts of @adze/protocol: a truncated result comes with a way to  *)
(* ask for more.  What the model has of a token is the message.             *)
TokenReachesModel ==
  last.token # 0 => \E i \in DOMAIN last.message : last.message[i].kind = "token"

(* truncate.ts of @adze/core: file reads are cut from the tail.             *)
ReadsCutFromTheTail ==
  last.tool = "read" => \A k \in Lines(last.message) : last.from .. k \subseteq Lines(last.message)

(* types.ts of @adze/core: a hard cap on the bytes of a tool's result.      *)
HardCap == ContentBytes(last.message) <= MaxResultBytes

=============================================================================
