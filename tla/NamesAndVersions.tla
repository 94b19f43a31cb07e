--------------------------- MODULE NamesAndVersions ---------------------------
(***************************************************************************)
(* How names and versions are read: the globs that filter hooks and select *)
(* files for context providers (packages/plugin-sdk/src/glob.ts), the names *)
(* under which the tools of MCP servers are offered (packages/mcp/src/      *)
(* naming.ts), which engine versions a plugin accepts (semver.ts), and on   *)
(* which protocol version a surface and an engine agree                     *)
(* (packages/protocol/src/version.ts).                                      *)
(***************************************************************************)
EXTENDS Integers, FiniteSetsExt, SequencesExt

(* Globs.  Patterns and paths are sequences of characters after toPosix,    *)
(* and classes list their members.  A pattern is translated from left to    *)
(* right into the items of a regular expression, and paths are matched      *)
(* against those.                                                           *)

Item(kind, chars) == [kind |-> kind, chars |-> chars]

(* Where the translation stands: the items so far, the next character, the  *)
(* open braces, and whether the pattern was refused.                        *)
Start == [items |-> <<>>, next |-> 1, depth |-> 0, refused |-> FALSE]
Refused(t) == [t EXCEPT !.refused = TRUE]
Emit(t, item, width) == [t EXCEPT !.items = Append(@, item), !.next = @ + width]

At(source, i) == IF i \in DOMAIN source THEN source[i] ELSE "end"

(* Two stars that are a whole segment take the slash with them, so that they *)
(* match no segment as well.                                                *)
translateStar(source, t) ==
  IF At(source, t.next + 1) # "*" THEN Emit(t, Item("run", {}), 1)
  ELSE IF (t.next = 1 \/ source[t.next - 1] = "/") /\ At(source, t.next + 2) = "/"
    THEN Emit(t, Item("segments", {}), 3)
    ELSE Emit(t, Item("deep", {}), 2)

translateClass(source, t) ==
  LET closes == {i \in DOMAIN source : i > t.next /\ source[i] = "]"}
      close  == Min(closes)
      body   == SubSeq(source, t.next + 1, close - 1)
  IN  IF closes = {} THEN Refused(t)
      ELSE IF body = <<>> THEN Refused(t)
      ELSE IF body[1] \in {"!", "^"}
        THEN Emit(t, Item("not", ToSet(Tail(body))), close + 1 - t.next)
        ELSE Emit(t, Item("one", ToSet(body)), close + 1 - t.next)

translateToken(source, t) ==
  LET c == source[t.next]
  IN  CASE c = "*" -> translateStar(source, t)
        [] c = "?" -> Emit(t, Item("not", {"/"}), 1)
        [] c = "[" -> translateClass(source, t)
        [] c = "{" -> [Emit(t, Item("open", {}), 1) EXCEPT !.depth = @ + 1]
        [] c = "}" -> IF t.depth = 0 THEN Refused(t)
                      ELSE [Emit(t, Item("close", {}), 1) EXCEPT !.depth = @ - 1]
        [] c = "," -> Emit(t, IF t.depth > 0 THEN Item("or", {}) ELSE Item("one", {","}), 1)
        [] OTHER   -> Emit(t, Item("one", {c}), 1)

(* The loop runs at most once per character.                                *)
translate(source) ==
  FoldLeft(LAMBDA t, i : IF t.refused \/ t.next > Len(source) THEN t ELSE translateToken(source, t),
           Start, source)

Compiles(source) == source # <<>> /\ ~translate(source).refused /\ translate(source).depth = 0

-----------------------------------------------------------------------------
(* The regular expression: groups are choices, the rest is a sequence.      *)

Depth(items, i) ==
  Cardinality({j \in 1..i : items[j].kind = "open"}) - Cardinality({j \in 1..(i - 1) : items[j].kind = "close"})

RECURSIVE Alternatives(_)
Alternatives(items) ==
  LET opens == {i \in DOMAIN items : items[i].kind = "open"}
      from  == Min(opens)
      to    == Min({i \in DOMAIN items : i > from /\ items[i].kind = "close" /\ Depth(items, i) = 1})
      cuts  == <<from>> \o SetToSortSeq({i \in from..to : items[i].kind = "or" /\ Depth(items, i) = 1}, <) \o <<to>>
  IN  IF opens = {} THEN {items}
      ELSE UNION {Alternatives(SubSeq(items, 1, from - 1) \o SubSeq(items, cuts[k] + 1, cuts[k + 1] - 1)
                               \o SubSeq(items, to + 1, Len(items))) : k \in 1..(Len(cuts) - 1)}

(* Where an item that starts after position p of a path may end.            *)
Ends(item, path, p) ==
  CASE item.kind = "one" -> {e \in {p + 1} \cap DOMAIN path : path[e] \in item.chars}
    [] item.kind = "not" -> {e \in {p + 1} \cap DOMAIN path : path[e] \notin item.chars}
    [] item.kind = "run" -> {e \in p..Len(path) : \A i \in (p + 1)..e : path[i] # "/"}
    [] item.kind = "deep" -> p..Len(path)
    [] item.kind = "segments" ->
         {p} \cup {e \in (p + 1)..Len(path) :
                     /\ path[e] = "/" /\ path[p + 1] # "/"
                     /\ \A i \in (p + 1)..(e - 1) : ~(path[i] = "/" /\ path[i + 1] = "/")}

FullMatch(items, path) ==
  Len(path) \in FoldLeft(LAMBDA at, item : UNION {Ends(item, path, p) : p \in at}, {0}, items)

Matches(source, path) == \E items \in Alternatives(translate(source).items) : FullMatch(items, path)

(* Several patterns are one filter that any of them satisfies, or none is.  *)
compileGlobSet(sources) == \A s \in sources : Compiles(s)
MatchesSet(sources, path) == \E s \in sources : Matches(s, path)

-----------------------------------------------------------------------------
(* Tool names.  A name is a sequence of characters; what a provider does    *)
(* not accept in the name of a tool is unsafe, whatever it is.              *)

Unsafe == "!"
MaxNameLength == 64
Prefix == <<"m", "c", "p">>
Scaffold == Prefix \o <<"_", "_", "_", "_">>

(* A run of unsafe characters becomes one underscore; underscores at the    *)
(* ends go, and what would be empty is an x.                                *)
sanitizeSegment(segment) ==
  LET heads    == SelectSeq([i \in DOMAIN segment |-> i],
                            LAMBDA i : segment[i] # Unsafe \/ At(segment, i - 1) # Unsafe)
      replaced == [k \in DOMAIN heads |-> IF segment[heads[k]] = Unsafe THEN "_" ELSE segment[heads[k]]]
      solid    == {k \in DOMAIN replaced : replaced[k] # "_"}
  IN  IF solid = {} THEN <<"x">> ELSE SubSeq(replaced, Min(solid), Max(solid))

UpTo(name, n) == SubSeq(name, 1, Min({n, Len(name)}))

(* The server's segment is shortened and the tool's kept whole, until there *)
(* is no room for the server at all: then the end of the tool's is kept.    *)
adzeToolName(server, tool) ==
  LET t      == sanitizeSegment(tool)
      budget == MaxNameLength - Len(Scaffold)
      room   == budget - Len(t)
  IN  IF room <= 0 THEN Scaffold \o SubSeq(t, Max({1, Len(t) - budget + 1}), Len(t))
      ELSE Prefix \o <<"_", "_">> \o UpTo(sanitizeSegment(server), room) \o <<"_", "_">> \o t

-----------------------------------------------------------------------------
(* Versions of plugins and engines.  A version is read already; a range is  *)
(* a sequence of alternatives, each a sequence of tokens that may be        *)
(* unreadable.                                                              *)

(* Alphanumeric identifiers of prereleases, in the order of their letters.   *)
Words == <<"alpha", "beta", "rc">>

Version(major, minor, patch, prerelease) ==
  [major |-> major, minor |-> minor, patch |-> patch, prerelease |-> prerelease]

Number(n) == [number |-> TRUE, value |-> n]
Word(w)   == [number |-> FALSE, value |-> CHOOSE i \in DOMAIN Words : Words[i] = w]

Sign(a, b) == IF a < b THEN -1 ELSE IF a > b THEN 1 ELSE 0

compareIdentifiers(left, right) ==
  IF left.number = right.number THEN Sign(left.value, right.value)
  ELSE IF left.number THEN -1 ELSE 1

(* A release has no identifiers and comes after all its prereleases.       *)
comparePrerelease(a, b) ==
  LET differ == {i \in DOMAIN a \cap DOMAIN b : a[i] # b[i]}
  IN  IF a = <<>> \/ b = <<>> THEN Sign(Len(b), Len(a))
      ELSE IF differ # {} THEN compareIdentifiers(a[Min(differ)], b[Min(differ)])
      ELSE Sign(Len(a), Len(b))

compareVersions(a, b) ==
  IF a.major # b.major THEN Sign(a.major, b.major)
  ELSE IF a.minor # b.minor THEN Sign(a.minor, b.minor)
  ELSE IF a.patch # b.patch THEN Sign(a.patch, b.patch)
  ELSE comparePrerelease(a.prerelease, b.prerelease)

-----------------------------------------------------------------------------
(* A token is an operator and a version; "-" and X-ranges are unreadable.   *)

Comparator(operator, version) == [operator |-> operator, version |-> version]

caretUpperBound(base) ==
  IF base.major > 0 THEN Version(base.major + 1, 0, 0, <<>>)
  ELSE IF base.minor > 0 THEN Version(0, base.minor + 1, 0, <<>>)
  ELSE Version(0, 0, base.patch + 1, <<>>)

tildeUpperBound(base) == Version(base.major, base.minor + 1, 0, <<>>)

desugar(token) ==
  IF token.operator \in {"^", "~"}
    THEN {Comparator(">=", token.version),
          Comparator("<", IF token.operator = "^" THEN caretUpperBound(token.version)
                          ELSE tildeUpperBound(token.version))}
    ELSE {token}

satisfiesComparator(version, comparator) ==
  LET order == compareVersions(version, comparator.version)
  IN  CASE comparator.operator = "<"  -> order < 0
        [] comparator.operator = "<=" -> order <= 0
        [] comparator.operator = ">"  -> order > 0
        [] comparator.operator = ">=" -> order >= 0
        [] comparator.operator = "="  -> order = 0

SameTriple(a, b) == a.major = b.major /\ a.minor = b.minor /\ a.patch = b.patch

alternativeHolds(version, comparators) ==
  /\ \A c \in comparators : satisfiesComparator(version, c)
  /\ \/ version.prerelease = <<>>
     \/ \E c \in comparators : c.version.prerelease # <<>> /\ SameTriple(version, c.version)

(* A star is only meaningful alone.                                         *)
Wildcard(alternative) == Len(alternative) = 1 /\ alternative[1].operator = "*"
Readable(alternative) ==
  /\ alternative # <<>>
  /\ Wildcard(alternative) \/ \A i \in DOMAIN alternative : alternative[i].operator \notin {"*", "unreadable"}

resolveAlternative(alternative) ==
  IF Wildcard(alternative) THEN {} ELSE UNION {desugar(t) : t \in ToSet(alternative)}

(* The alternatives are read in order, and a wildcard that accepts ends the *)
(* reading.                                                                 *)
evaluate(version, range) ==
  LET ends == {i \in DOMAIN range : \/ ~Readable(range[i])
                                    \/ Wildcard(range[i]) /\ version.prerelease = <<>>}
  IN  IF ends # {} THEN IF Readable(range[Min(ends)]) THEN "satisfied" ELSE "unparseable"
      ELSE IF \E i \in DOMAIN range :
                ~Wildcard(range[i]) /\ alternativeHolds(version, resolveAlternative(range[i]))
        THEN "satisfied" ELSE "unsatisfied"

-----------------------------------------------------------------------------
(* Protocol versions.  What a peer advertises is the text of a version:     *)
(* two texts may read as one version (1.1 and 01.1), and some read as none. *)

ParsedVersion(v) == v.form # "malformed"

NewerThan(a, b) == a.major > b.major \/ (a.major = b.major /\ a.minor > b.minor)

Agreed(version) == [ok |-> TRUE, version |-> version]
NotAgreed(why)  == [ok |-> FALSE, why |-> why]

(* The newest of the shared ones, the first in the client's order of those  *)
(* that are equally new; otherwise what the user is told to do.             *)
negotiateProtocolVersion(clientVersions, engineVersions) ==
  LET client == SelectSeq(clientVersions, ParsedVersion)
      engine == ToSet(SelectSeq(engineVersions, ParsedVersion))
      shared == SelectSeq(client, LAMBDA v : v \in engine)
      best   == {i \in DOMAIN shared : \A j \in DOMAIN shared : ~NewerThan(shared[j], shared[i])}
  IN  CASE client = <<>> -> NotAgreed(IF clientVersions = <<>> THEN "client is silent" ELSE "client is malformed")
        [] client # <<>> /\ engine = {} -> NotAgreed("engine is malformed")
        [] OTHER -> IF best # {} THEN Agreed(shared[Min(best)])
                    ELSE IF \E v \in ToSet(client), e \in engine : v.major = e.major
                      THEN NotAgreed("partial install") ELSE NotAgreed("a generation behind")

-----------------------------------------------------------------------------
(* Properties, of a pattern of three parts and a path.                      *)

Slashes(s) == Cardinality({i \in DOMAIN s : s[i] = "/"})

(* ** as a whole segment stands for any number of whole segments, none      *)
(* included, and what is around it for itself (glob.ts translateStar).       *)
SegmentsAreOptional(before, after, path) ==
  (before = <<>> \/ Last(before) = "/") /\ Compiles(before \o <<"*", "*", "/">> \o after) =>
    (Matches(before \o <<"*", "*", "/">> \o after, path)
       <=> \E i \in 0..Len(path), j \in 0..Len(path) :
             /\ i <= j
             /\ j > i => path[j] = "/" /\ path[i + 1] # "/"
                         /\ \A k \in (i + 1)..(j - 1) : ~(path[k] = "/" /\ path[k + 1] = "/")
             /\ Matches(before, SubSeq(path, 1, i)) /\ Matches(after, SubSeq(path, j + 1, Len(path))))

(* Braces are a choice: the group matches what the pattern with one of its  *)
(* members in its place does.  (Where the group touches stars the code takes *)
(* the brace for a part of their segment; these are left out.)               *)
Starry(s) == At(s, 1) = "*" \/ At(Reverse(s), 1) = "*"
BracesAreChoices(before, members, after, path) ==
  LET group == <<"{">> \o members[1] \o <<",">> \o members[2] \o <<"}">>
  IN  /\ Compiles(before \o group \o after)
      /\ ~Starry(before) /\ ~Starry(after) /\ \A i \in 1..2 : ~Starry(members[i])
      => (Matches(before \o group \o after, path)
            <=> \E i \in 1..2 : Matches(before \o members[i] \o after, path))

(* Only ** and negated classes cross a slash.                               *)
StarsStayInside(source, path) ==
  Compiles(source) /\ (\A i \in DOMAIN source : source[i] \notin {"[", "{"})
    /\ (\A i \in 1..(Len(source) - 1) : ~(source[i] = "*" /\ source[i + 1] = "*"))
    /\ Matches(source, path) => Slashes(path) = Slashes(source)

(* Whatever a server calls itself and its tools, the name is one a provider *)
(* takes, of a tool that is seen to be an MCP server's (naming.ts:10-13).   *)
NameIsAccepted(server, tool) ==
  LET name == adzeToolName(server, tool)
  IN  /\ Len(name) <= MaxNameLength /\ Unsafe \notin ToSet(name)
      /\ SubSeq(name, 1, 5) = Prefix \o <<"_", "_">> /\ Len(name) > Len(Scaffold)

(* Two tools of one server are told apart whenever their own segments are   *)
(* and fit: a long server name never makes them one (naming.ts:50-54).      *)
SiblingsDiffer(server, one, other) ==
  LET a == sanitizeSegment(one)  b == sanitizeSegment(other)
  IN  a # b /\ Max({Len(a), Len(b)}) <= MaxNameLength - Len(Scaffold) =>
        adzeToolName(server, one) # adzeToolName(server, other)

(* "or two different tools could map to the same Adze name" (naming.ts:38): *)
(* broken by names that differ in unsafe characters only; the registry      *)
(* throws on the second, and with it the session.                           *)
DifferentToolsDiffer(server, one, other) ==
  one # other => adzeToolName(server, one) # adzeToolName(server, other)

(* Properties of versions and ranges.                                       *)

(* Precedence is a total order in which a release follows its prereleases.  *)
PrecedenceIsAnOrder(a, b, c) ==
  /\ compareVersions(a, b) = 0 <=> a = b
  /\ compareVersions(a, b) = - compareVersions(b, a)
  /\ compareVersions(a, b) <= 0 /\ compareVersions(b, c) <= 0 => compareVersions(a, c) <= 0
  /\ SameTriple(a, b) /\ a.prerelease = <<>> /\ b.prerelease # <<>> => compareVersions(b, a) < 0

(* A caret keeps the first component that is not zero, and all before it.   *)
CaretIsCompatible(version, base) ==
  version.prerelease = <<>> =>
    (alternativeHolds(version, desugar(Comparator("^", base)))
       <=> /\ compareVersions(version, base) >= 0
           /\ version.major = base.major
           /\ base.major = 0 => version.minor = base.minor
           /\ base.major = 0 /\ base.minor = 0 => version.patch = base.patch)

(* A prerelease of the engine is accepted only where a prerelease of that   *)
(* very version is named, and no range that does not name one accepts it.   *)
PrereleaseIsAskedFor(version, range) ==
  version.prerelease # <<>> /\ evaluate(version, range) = "satisfied" =>
    \E i \in DOMAIN range, t \in UNION {ToSet(range[j]) : j \in DOMAIN range} :
      t \in ToSet(range[i]) /\ t.version.prerelease # <<>> /\ SameTriple(version, t.version)

(* semver.ts:12 and manifest.ts:588: a range that cannot be read is never    *)
(* satisfied.  Broken by a wildcard before what cannot be read.             *)
UnreadableIsRefused(version, range) ==
  (\E i \in DOMAIN range : ~Readable(range[i])) => evaluate(version, range) = "unparseable"

(* The peers agree on a version both advertised, as new as any other; from  *)
(* whichever side one asks, it is equally new; and they fail to agree only  *)
(* when nothing is shared (version.ts negotiateProtocolVersion).            *)
PeersAgree(client, engine) ==
  LET here == negotiateProtocolVersion(client, engine)
      there == negotiateProtocolVersion(engine, client)
      shared == {v \in ToSet(client) \cap ToSet(engine) : ParsedVersion(v)}
  IN  /\ here.ok <=> shared # {}
      /\ here.ok => /\ here.version \in shared /\ \A v \in shared : ~NewerThan(v, here.version)
                    /\ there.ok /\ ~NewerThan(here.version, there.version) /\ ~NewerThan(there.version, here.version)

=============================================================================
