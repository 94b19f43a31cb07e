-------------------------------- MODULE Chunking --------------------------------
(***************************************************************************)
(* How a file is cut into the pieces that retrieval ranks: on the borders  *)
(* of its symbols while they fit a budget, and between lines where they do *)
(* not (packages/retrieval/src/chunk.ts, text.ts).                         *)
(*                                                                         *)
(* A file is the sequence of the lengths of its lines, 0 for a blank one.  *)
(* An index is twice the line it is in, or that and one for the second     *)
(* half, so that symbols may share a line, contain each other or cross; a  *)
(* symbol may run past the end of the file.                                *)
(***************************************************************************)
EXTENDS Integers, FiniteSetsExt, SequencesExt

MAX_NESTING_DEPTH == 8

LineOf(index)   == index \div 2
StartLine(s)    == LineOf(s.start)
EndLine(s)      == LineOf(s.end)

(* Four characters to a token; the lines of a text are joined by a break.   *)
estimateTokens(length) == (length + 3) \div 4
TextLength(lines, from, to) ==
  FoldLeft(LAMBDA sum, size : sum + size + 1, -1, SubSeq(lines, from, to))
Tokens(lines, from, to) == IF to < from THEN 0 ELSE estimateTokens(TextLength(lines, from, to))

(* Of a range of lines, those that the file has.                            *)
Clamped(lines, from, to) == <<Max({1, from}), Min({to, Len(lines)})>>

isNestedIn(child, parent) ==
  /\ child.start >= parent.start /\ child.end <= parent.end
  /\ child.start > parent.start \/ child.end < parent.end

(* The outermost of some symbols, in source order; equals keep their order.  *)
Outermost(symbols) ==
  LET outer == {i \in DOMAIN symbols : ~\E j \in DOMAIN symbols : isNestedIn(symbols[i], symbols[j])}
      order == SetToSortSeq(outer, LAMBDA i, j : \/ symbols[i].start < symbols[j].start
                                                 \/ symbols[i].start = symbols[j].start /\ i < j)
  IN  [k \in DOMAIN order |-> symbols[order[k]]]

topLevelSymbols(symbols) == Outermost(symbols)
directChildren(parent, symbols) == Outermost(SelectSeq(symbols, LAMBDA s : isNestedIn(s, parent)))

-----------------------------------------------------------------------------
(* The chunks of one call; options are [max, min, spans].                   *)

Chunk(kind, symbol, part, lines, from, to) ==
  [kind |-> kind, symbol |-> symbol, part |-> part, from |-> from, to |-> to,
   tokens |-> Tokens(lines, from, to)]

NoSymbol == [start |-> 0, end |-> 0]
Whole    == <<1, 1>>

(* What is beyond the file is cut off, and blank text is no chunk.          *)
pushChunk(lines, from, to, kind, symbol, part) ==
  LET range == Clamped(lines, from, to)
  IN  IF \E i \in range[1] .. range[2] : lines[i] > 0
        THEN <<Chunk(kind, symbol, part, lines, range[1], range[2])>> ELSE <<>>

(* Ranges of as many lines as the budget takes, at least one to each.       *)
CutByLines(lines, from, to, max) ==
  LET last == Min({to, Len(lines)})
      cost(line) == estimateTokens(lines[line]) + 1
      step(acc, line) ==
        IF acc.tokens > 0 /\ acc.tokens + cost(line) > max
          THEN [ranges |-> Append(acc.ranges, <<acc.from, line - 1>>), from |-> line, tokens |-> cost(line)]
          ELSE [acc EXCEPT !.tokens = @ + cost(line)]
      done == FoldLeft(step, [ranges |-> <<>>, from |-> from, tokens |-> 0],
                       [k \in 1 .. Max({0, last - from + 1}) |-> from + k - 1])
  IN  Append(done.ranges, <<done.from, to>>)

emitSpan(lines, from, to, options) ==
  LET ranges == CutByLines(lines, from, to, options.max)
  IN  IF ~options.spans \/ to < from THEN <<>>
      ELSE FlattenSeq([k \in DOMAIN ranges |->
             pushChunk(lines, ranges[k][1], ranges[k][2], "span", NoSymbol, Whole)])

emitSymbolParts(lines, symbol, options) ==
  LET ranges == CutByLines(lines, StartLine(symbol), EndLine(symbol), options.max)
  IN  FlattenSeq([k \in DOMAIN ranges |->
        pushChunk(lines, ranges[k][1], ranges[k][2], "symbol-part", symbol, <<k, Len(ranges)>>)])

(* Symbols in order, each in its pieces, with the code before each; and      *)
(* where the code after the last one begins.                                *)
Walk(lines, inside, pieces, from, options) ==
  FoldLeft(LAMBDA acc, k :
             [out |-> acc.out
                \o emitSpan(lines, acc.cursor, StartLine(inside[k]) - 1, options) \o pieces[k],
              cursor |-> Max({acc.cursor, EndLine(inside[k]) + 1})],
           [out |-> <<>>, cursor |-> from], [k \in DOMAIN inside |-> k])

RECURSIVE emitSymbol(_, _, _, _, _)
emitSymbol(lines, symbol, symbols, options, depth) ==
  LET from == StartLine(symbol)
      to   == EndLine(symbol)
      held == Clamped(lines, from, to)
      children == IF depth < MAX_NESTING_DEPTH THEN directChildren(symbol, symbols) ELSE <<>>
      pieces == [k \in DOMAIN children |-> emitSymbol(lines, children[k], symbols, options, depth + 1)]
      walked == Walk(lines, children, pieces, from, options)
  IN  IF Tokens(lines, held[1], held[2]) <= options.max
        THEN pushChunk(lines, from, to, "symbol", symbol, Whole)
      ELSE IF children = <<>> THEN emitSymbolParts(lines, symbol, options)
      ELSE walked.out \o emitSpan(lines, walked.cursor, to, options)

(* A small span joins the span right before it.                             *)
mergeSmallSpans(lines, chunks, options) ==
  FoldLeft(LAMBDA out, c :
             LET p == Last(out)
             IN  IF out # <<>> /\ c.kind = "span" /\ c.tokens < options.min
                      /\ p.kind = "span" /\ p.to + 1 = c.from /\ p.tokens + c.tokens <= options.max
                   THEN Front(out) \o <<Chunk("span", NoSymbol, Whole, lines, p.from, c.to)>>
                   ELSE Append(out, c),
           <<>>, chunks)

chunkFile(lines, symbols, options) ==
  LET tops == topLevelSymbols(symbols)
      pieces == [k \in DOMAIN tops |-> emitSymbol(lines, tops[k], symbols, options, 0)]
      walked == Walk(lines, tops, pieces, 1, options)
  IN  mergeSmallSpans(lines, walked.out \o emitSpan(lines, walked.cursor, Len(lines), options), options)

-----------------------------------------------------------------------------
(* Properties, of the chunks that chunkFile cuts a file into.                *)

ShareALine(a, b) == StartLine(a) <= EndLine(b) /\ StartLine(b) <= EndLine(a)
Apart(symbols) ==
  \A i, j \in DOMAIN symbols :
    i # j /\ ShareALine(symbols[i], symbols[j])
      => isNestedIn(symbols[i], symbols[j]) \/ isNestedIn(symbols[j], symbols[i])
Holds(chunk, line) == chunk.from <= line /\ line <= chunk.to

(* Whatever the symbols are, no line with text is lost, and each chunk is   *)
(* within the file (chunk.test.ts:92, chunk.ts:89-93).                       *)
NoLineIsLost(lines, symbols, options, chunks) ==
  /\ options.spans => \A l \in DOMAIN lines : lines[l] > 0 => \E i \in DOMAIN chunks : Holds(chunks[i], l)
  /\ \A i \in DOMAIN chunks : 1 <= chunks[i].from /\ chunks[i].from <= chunks[i].to /\ chunks[i].to <= Len(lines)

(* Where no two symbols share a line without one being inside the other, no *)
(* line is told twice, and the chunks are in order (chunk.test.ts:92).       *)
NoLineIsTwice(lines, symbols, options, chunks) ==
  Apart(symbols) => \A i, j \in DOMAIN chunks : i < j => chunks[i].to < chunks[j].from

(* A chunk that says it is a symbol is all of it that the file has, and     *)
(* fits; one that says it is a part is of a symbol that does not; and no    *)
(* span has a line of a symbol that was kept whole next to it, so the end   *)
(* of one function never stands with the start of the next (chunk.ts:4-18). *)
SymbolsAreKept(lines, symbols, options, chunks) ==
  LET budget(s) == Tokens(lines, Clamped(lines, StartLine(s), EndLine(s))[1], Clamped(lines, StartLine(s), EndLine(s))[2])
  IN  \A i \in DOMAIN chunks :
        LET c == chunks[i] IN
        /\ c.kind = "symbol" =>
             <<c.from, c.to>> = Clamped(lines, StartLine(c.symbol), EndLine(c.symbol)) /\ c.tokens <= options.max
        /\ c.kind = "symbol-part" => budget(c.symbol) > options.max
        /\ c.kind = "span" /\ Apart(symbols) =>
             \A k \in DOMAIN symbols :
               budget(symbols[k]) <= options.max => ~\E l \in c.from .. c.to : StartLine(symbols[k]) <= l /\ l <= EndLine(symbols[k])

(* A chunk of several lines exceeds the budget by a token at most, and only *)
(* a merged span does (chunk.test.ts:197).                                   *)
BudgetHolds(lines, symbols, options, chunks) ==
  \A i \in DOMAIN chunks :
    chunks[i].to > chunks[i].from =>
      chunks[i].tokens <= options.max + (IF chunks[i].kind = "span" /\ options.min > 0 THEN 1 ELSE 0)

-----------------------------------------------------------------------------
(* Promises the code does not keep; see README.md.                          *)

(* types.ts:294 "Token ceiling per chunk"; chunk.test.ts:197 "respects the  *)
(* budget for every chunk that has more than one line to give": two spans   *)
(* are merged by the sum of their estimates, without the break between.     *)
CeilingIsKept(lines, symbols, options, chunks) ==
  \A i \in DOMAIN chunks : chunks[i].to > chunks[i].from => chunks[i].tokens <= options.max

(* chunk.test.ts:92 "covers every line of the file exactly once": broken by  *)
(* symbols that share a line.                                               *)
EveryLineOnce(lines, symbols, options, chunks) ==
  \A l \in DOMAIN lines : Cardinality({i \in DOMAIN chunks : Holds(chunks[i], l)}) <= 1

=============================================================================
