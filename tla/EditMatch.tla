------------------------------- MODULE EditMatch -------------------------------
(***************************************************************************)
(* Where a search block is found in a file (packages/apply/src/match.ts).  *)
(* A text is a sequence of tokens: line breaks, single spaces, elision     *)
(* markers and words, a word standing for any run of other characters.     *)
(* Two words that follow each other are one longer word of the source.     *)
(* Offsets are 0-based and exclusive at the end, as they are in the code.  *)
(* Line breaks are \n: the \r of a \r\n, which indexLines takes off a line  *)
(* and a splice leaves where it is, is not modelled.                       *)
(***************************************************************************)
EXTENDS Naturals, Sequences, FiniteSetsExt, SequencesExt

NL == "nl"
SP == "sp"
Elision == "..."

Spaces(n) == [i \in 1 .. n |-> SP]

(* The tokens of s at the positions in S, in order.                         *)
Pick(s, S) == LET at == SetToSortSeq(S, <) IN [k \in DOMAIN at |-> s[at[k]]]

(* The lines of a text with the offset each starts at.                      *)
Between(t, breaks) ==
  [k \in 1 .. Len(breaks) - 1 |->
     [start |-> breaks[k], text |-> SubSeq(t, breaks[k] + 1, breaks[k + 1] - 1)]]
IndexLines(t) ==
  Between(t, <<0>> \o SetToSortSeq({i \in DOMAIN t : t[i] = NL}, <) \o <<Len(t) + 1>>)

TextsOf(lines) == [k \in DOMAIN lines |-> lines[k].text]
Lines(t) == TextsOf(IndexLines(t))

LineNumberAt(t, offset) == 1 + Cardinality({i \in 1 .. offset : t[i] = NL})

IsBlank(line) == ToSet(line) \subseteq {SP}

(* The number of spaces a line begins with.                                 *)
LeadingWhitespace(line) ==
  Cardinality({i \in DOMAIN line : \A j \in 1 .. i : line[j] = SP})

TrimStart(line) == SubSeq(line, LeadingWhitespace(line) + 1, Len(line))
TrimEnd(line)   == Reverse(TrimStart(Reverse(line)))

(* Runs of spaces are one space, and none at either end.                    *)
Squeezed(t) == Pick(t, {i \in DOMAIN t : t[i] = SP => t[i - 1] # SP})
NormalizeWhitespace(line) == Squeezed(TrimEnd(TrimStart(line)))

(* The lines of a search block: the empty last one of several is no line.   *)
WithoutEmptyEnd(all) == IF Len(all) > 1 /\ Last(all) = <<>> THEN Front(all) ELSE all
NeedleLines(needle) == WithoutEmptyEnd(Lines(needle))

NoIndent == 99   (* foundIndent and searchIndent of the other strategies. *)

Match(start, end, line, strategy) ==
  [start |-> start, end |-> end, line |-> line, strategy |-> strategy,
   foundIndent |-> NoIndent, searchIndent |-> NoIndent]

-----------------------------------------------------------------------------
(* The four strategies.  The first looks for a text n in a text h, the      *)
(* others for the lines n of a block among the indexed lines h of a file.   *)

OccursAt(h, n, at) == at + Len(n) <= Len(h) /\ SubSeq(h, at + 1, at + Len(n)) = n

(* Byte-identical, at any offset; the scan goes on past a match it found.   *)
ExactMatches(h, n) ==
  FoldLeft(LAMBDA found, at :
             IF found = <<>> \/ at >= Last(found).end
             THEN Append(found, Match(at, at + Len(n), LineNumberAt(h, at), "exact")) ELSE found,
           <<>>, SetToSortSeq({at \in 0 .. Len(h) : OccursAt(h, n, at)}, <))

InOrder(matches) == SetToSortSeq(matches, LAMBDA a, b : a.start < b.start)

(* Whole lines from line i on, up to the end of the last one's text.        *)
LineMatch(h, i, count, strategy) ==
  Match(h[i].start, h[i + count - 1].start + Len(h[i + count - 1].text), i, strategy)

(* The lines at which the lines of n may begin in h.                        *)
Starts(h, n) == {i \in DOMAIN h : i + Len(n) - 1 <= Len(h)}

SameButForSpaces(a, b) ==
  \/ IsBlank(a) /\ IsBlank(b)
  \/ LeadingWhitespace(a) = LeadingWhitespace(b) /\ NormalizeWhitespace(a) = NormalizeWhitespace(b)

WhitespaceNormalizedMatches(h, n) ==
  InOrder({LineMatch(h, i, Len(n), "whitespace-normalized") :
             i \in {s \in Starts(h, n) : \A j \in DOMAIN n : SameButForSpaces(h[s + j - 1].text, n[j])}})

(* A line of the search block on the indent found in the file.              *)
Rebased(line, searchIndent, foundIndent) ==
  Spaces(foundIndent) \o IF LeadingWhitespace(line) >= searchIndent
                         THEN SubSeq(line, searchIndent + 1, Len(line))
                         ELSE TrimStart(line)

(* A match of the lines n from line i on, whose first line with any text is *)
(* the block's anchor and gives the two indents.                            *)
TolerantMatch(h, n, i, anchor) ==
  [LineMatch(h, i, Len(n), "indentation-tolerant") EXCEPT
     !.foundIndent = LeadingWhitespace(h[i + anchor - 1].text),
     !.searchIndent = LeadingWhitespace(n[anchor])]

FitsUnder(line, found, searchIndent, foundIndent) ==
  IF IsBlank(line) THEN IsBlank(found)
  ELSE TrimEnd(found) = TrimEnd(Rebased(line, searchIndent, foundIndent))

(* The same lines under another indent, that of the first that is not blank. *)
ShiftedPlaces(h, n) ==
  UNION {
    {TolerantMatch(h, n, i, anchor) :
       i \in {s \in Starts(h, n) :
               /\ ~IsBlank(h[s + anchor - 1].text)
               /\ \A j \in DOMAIN n :
                    FitsUnder(n[j], h[s + j - 1].text, LeadingWhitespace(n[anchor]),
                              LeadingWhitespace(h[s + anchor - 1].text))}} :
    anchor \in {j \in DOMAIN n : ~IsBlank(n[j]) /\ \A k \in 1 .. j - 1 : IsBlank(n[k])}}

(* Slip of IndentationTolerantMatches: the search stops at the first place. *)
FirstShiftedPlace(h, n) ==
  LET S == ShiftedPlaces(h, n) IN {m \in S : \A k \in S : m.start <= k.start}
FirstShiftedMatch(h, n) == InOrder(FirstShiftedPlace(h, n))

IndentationTolerantMatches(h, n) == InOrder(ShiftedPlaces(h, n))

IsElisionLine(line) == ~IsBlank(line) /\ TrimStart(line)[1] = Elision

Keyed(h, line) == {i \in DOMAIN h : NormalizeWhitespace(h[i].text) = NormalizeWhitespace(line)}

(* From the only start to the only end, if there is one of each in order.   *)
Spanned(h, starts, ends) ==
  IF Cardinality(starts) = 1 /\ Cardinality(ends) = 1 /\ Max(ends) > Max(starts)
  THEN <<LineMatch(h, Max(starts), Max(ends) - Max(starts) + 1, "anchored")>> ELSE <<>>

(* A first and a last line that each occur once, with an elision between.   *)
AnchoredMatches(h, n) ==
  IF /\ Len(n) >= 3
     /\ \E j \in 2 .. Len(n) - 1 : IsElisionLine(n[j])
     /\ ~IsBlank(n[1]) /\ ~IsBlank(Last(n))
  THEN Spanned(h, Keyed(h, n[1]), Keyed(h, Last(n))) ELSE <<>>

-----------------------------------------------------------------------------
Ladder(h, n) ==
  <<WhitespaceNormalizedMatches(h, n), IndentationTolerantMatches(h, n), AnchoredMatches(h, n)>>

FirstFound(ladder) ==
  IF \A k \in DOMAIN ladder : ladder[k] = <<>> THEN <<>>
  ELSE ladder[Min({k \in DOMAIN ladder : ladder[k] # <<>>})]

(* All matches of the first strategy that has any.                          *)
FindMatch(h, n) ==
  IF n = <<>> THEN <<>>
  ELSE FirstFound(<<ExactMatches(h, n)>> \o Ladder(IndexLines(h), NeedleLines(n)))

Joined(lines) == FoldLeft(LAMBDA acc, line : IF acc = <<>> THEN <<line>> ELSE acc \o <<<<NL>>, line>>, <<>>, lines)

(* The replacement on the indent of the place it goes to.                   *)
Reindented(lines, m) ==
  [k \in DOMAIN lines |->
     IF IsBlank(lines[k]) THEN lines[k] ELSE Rebased(lines[k], m.searchIndent, m.foundIndent)]
ReindentReplacement(r, m) ==
  IF m.foundIndent = m.searchIndent THEN r ELSE FlattenSeq(Joined(Reindented(Lines(r), m)))

=============================================================================
