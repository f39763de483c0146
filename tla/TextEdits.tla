------------------------------ MODULE TextEdits ------------------------------
(* How the edit tool finds the text it replaces (tool/edit.ts): a list of    *)
(* replacers, each looser than the ones before, proposes texts, and the      *)
(* first one that occurs in the file, once, is replaced.  A text is a        *)
(* sequence of words, spaces, newlines and newlines written as an escape.    *)
EXTENDS Integers, FiniteSets, SequencesExt

CONSTANTS
  Words,         \* whatever is no space, newline or escape
  SourceTexts,   \* contents of a file
  Finds,         \* oldStrings: empty, or with a word in them
  Replacements,  \* newStrings, without dollar signs
  MaxTextEdits   \* bound

VARIABLES
  source,        \* the file
  lastEdit,      \* the last call: what it was given, over which contents, its outcome
  textEdits

textVars == <<source, lastEdit, textEdits>>

NL == "newline"
SP == "space"
ESC == "\\n"
IsSpace(x) == x \in {NL, SP}

Tokens == Words \cup {NL, SP, ESC}
ASSUME TextAssumption ==
  /\ Words \cap {NL, SP, ESC} = {}
  /\ SourceTexts \subseteq Seq(Tokens) /\ Replacements \subseteq Seq(Tokens)
  /\ \A find \in Finds : find \in Seq(Tokens) /\ (find = <<>> \/ \E i \in DOMAIN find : find[i] \in Words)

Occurrences(t, s) == {i \in 1..(Len(t) - Len(s) + 1) : SubSeq(t, i, i + Len(s) - 1) = s}
OccursIn(s, t) == Occurrences(t, s) # {}

Cut(lines, x) == IF x = NL THEN Append(lines, <<>>) ELSE Append(Front(lines), Append(Last(lines), x))
Lines(t) ==
  LET cut[k \in 0..Len(t)] == IF k = 0 THEN <<<<>>>> ELSE Cut(cut[k - 1], t[k])
  IN cut[Len(t)]
Joined(lines) == FlattenSeq([i \in DOMAIN lines |-> IF i = 1 THEN lines[i] ELSE <<NL>> \o lines[i]])
Trim(t) ==
  LET solid == {i \in DOMAIN t : ~IsSpace(t[i])} IN
  IF solid = {} THEN <<>>
  ELSE SubSeq(t, CHOOSE i \in solid : \A j \in solid : i <= j, CHOOSE i \in solid : \A j \in solid : j <= i)
Trims(lines) == [i \in DOMAIN lines |-> Trim(lines[i])]
WithoutLastEmpty(lines) == IF lines[Len(lines)] = <<>> THEN SubSeq(lines, 1, Len(lines) - 1) ELSE lines

\* The texts of n lines.
Blocks(t, n) ==
  LET lines == Lines(t) IN
  [i \in 1..(IF Len(lines) < n THEN 0 ELSE Len(lines) - n + 1) |-> Joined(SubSeq(lines, i, i + n - 1))]
Those(s, places) == FlattenSeq([i \in DOMAIN s |-> IF i \in places THEN <<s[i]>> ELSE <<>>])
BlocksLike(t, n, Like(_)) == Those(Blocks(t, n), {i \in DOMAIN Blocks(t, n) : Like(Blocks(t, n)[i])})

-----------------------------------------------------------------------------
(* Replacers *)

SimpleReplacer(t, find) == <<find>>

LineTrimmedReplacer(t, find) ==
  LET search == WithoutLastEmpty(Lines(find)) IN
  BlocksLike(t, Len(search), LAMBDA b : Trims(Lines(b)) = Trims(search))

levenshtein(a, b) ==
  LET least(x, y, z) == CHOOSE v \in {x, y, z} : v <= x /\ v <= y /\ v <= z
      d[i \in 0..Len(a), j \in 0..Len(b)] ==
        IF i = 0 THEN j ELSE IF j = 0 THEN i
        ELSE least(d[i - 1, j] + 1, d[i, j - 1] + 1, d[i - 1, j - 1] + IF a[i] = b[j] THEN 0 ELSE 1)
  IN d[Len(a), Len(b)]

\* Lines are of at most Unit tokens that divide it: 1 is Unit.
Unit == 60
Similarity(a, b) ==
  LET longer == IF Len(a) > Len(b) THEN Len(a) ELSE Len(b)
  IN IF longer = 0 THEN 0 ELSE Unit - levenshtein(a, b) * (Unit \div longer)

\* The blocks from a line like the first one to the next line like the last
\* one, at least two lines below.
Anchored(lines, search) ==
  LET first == Trim(search[1])
      last == Trim(search[Len(search)])
      Ends(i) == {j \in (i + 2)..Len(lines) : Trim(lines[j]) = last}
      from == {i \in DOMAIN lines : Trim(lines[i]) = first /\ Ends(i) # {}}
      starts == Those([i \in DOMAIN lines |-> i], from)
  IN [k \in DOMAIN starts |-> <<starts[k], CHOOSE j \in Ends(starts[k]) : \A h \in Ends(starts[k]) : j <= h>>]
BlockOf(lines, span) == Joined(SubSeq(lines, span[1], span[2]))

\* The lines between the anchors, compared one by one.
Likeness(lines, search, span) ==
  LET size == span[2] - span[1] + 1
      n == (IF Len(search) < size THEN Len(search) ELSE size) - 2
      sum == FoldFunction(+, 0, [k \in 1..n |-> Similarity(Trim(lines[span[1] + k]), Trim(search[k + 1]))])
  IN IF n <= 0 THEN Unit ELSE sum \div n

\* The first of those most like it; a single candidate is taken whatever lies
\* between its anchors.
MostAlike(lines, search, spans) ==
  LET best[k \in DOMAIN spans] ==
        IF k = 1 THEN 1
        ELSE IF Likeness(lines, search, spans[k]) > Likeness(lines, search, spans[best[k - 1]]) THEN k ELSE best[k - 1]
  IN spans[best[Len(spans)]]
AnchoredBlock(lines, search, spans) ==
  IF spans = <<>> THEN <<>>
  ELSE LET best == MostAlike(lines, search, spans)
       IN IF Len(spans) = 1 \/ Likeness(lines, search, best) * 10 >= Unit * 3 THEN <<BlockOf(lines, best)>> ELSE <<>>
BlockAnchorReplacer(t, find) ==
  LET search == WithoutLastEmpty(Lines(find)) IN
  IF Len(Lines(find)) < 3 THEN <<>> ELSE AnchoredBlock(Lines(t), search, Anchored(Lines(t), search))

\* Runs of spaces and newlines are one space, none at the ends.
Put(text, x) ==
  IF ~IsSpace(x) THEN Append(text, x) ELSE IF text # <<>> /\ Last(text) = SP THEN text ELSE Append(text, SP)
Collapsed(t) ==
  LET c[k \in 0..Len(t)] == IF k = 0 THEN <<>> ELSE Put(c[k - 1], t[k])
  IN c[Len(t)]
Normalized(t) == Trim(Collapsed(t))

\* A line, or the first stretch of a line, or a block of lines.
Stretches(line, find) ==
  {s \in {SubSeq(line, i, j) : i, j \in DOMAIN line} : s # <<>> /\ s = Trim(s) /\ Normalized(s) = Normalized(find)}
Matched(line, find) ==
  IF Normalized(line) = Normalized(find) THEN <<line>>
  ELSE IF Stretches(line, find) = {} THEN <<>>
  ELSE LET start(s) == CHOOSE i \in Occurrences(line, s) : \A j \in Occurrences(line, s) : i <= j
       IN <<CHOOSE s \in Stretches(line, find) : \A r \in Stretches(line, find) : start(s) <= start(r)>>
WhitespaceNormalizedReplacer(t, find) ==
  LET n == Len(Lines(find)) IN
  FlattenSeq([i \in DOMAIN Lines(t) |-> Matched(Lines(t)[i], find)])
    \o IF n = 1 THEN <<>> ELSE BlocksLike(t, n, LAMBDA b : Normalized(b) = Normalized(find))

removeIndentation(t) ==
  LET lines == Lines(t)
      solid == {i \in DOMAIN lines : Trim(lines[i]) # <<>>}
      Indent(i) == CHOOSE n \in 0..Len(lines[i]) :
                     ~IsSpace(lines[i][n + 1]) /\ \A k \in 1..n : IsSpace(lines[i][k])
      least == CHOOSE n \in {Indent(i) : i \in solid} : \A i \in solid : n <= Indent(i)
  IN IF solid = {} THEN t
     ELSE Joined([i \in DOMAIN lines |-> IF i \in solid THEN SubSeq(lines[i], least + 1, Len(lines[i])) ELSE lines[i]])
IndentationFlexibleReplacer(t, find) ==
  BlocksLike(t, Len(Lines(find)), LAMBDA b : removeIndentation(b) = removeIndentation(find))

unescapeString(t) == [i \in DOMAIN t |-> IF t[i] = ESC THEN NL ELSE t[i]]
EscapeNormalizedReplacer(t, find) ==
  LET plain == unescapeString(find) IN
  (IF OccursIn(plain, t) THEN <<plain>> ELSE <<>>)
    \o BlocksLike(t, Len(Lines(plain)), LAMBDA b : unescapeString(b) = plain)

TrimmedBoundaryReplacer(t, find) ==
  IF Trim(find) = find THEN <<>>
  ELSE (IF OccursIn(Trim(find), t) THEN <<Trim(find)>> ELSE <<>>)
         \o BlocksLike(t, Len(Lines(find)), LAMBDA b : Trim(b) = Trim(find))

\* Of as many lines as oldString, half of those between the anchors the same.
ContextAwareReplacer(t, find) ==
  LET lines == Lines(t)
      search == WithoutLastEmpty(Lines(find))
      Inner(span) == {k \in 2..(Len(search) - 1) :
                        Trim(lines[span[1] + k - 1]) # <<>> \/ Trim(search[k]) # <<>>}
      Same(span) == {k \in Inner(span) : Trim(lines[span[1] + k - 1]) = Trim(search[k])}
      Reasonable(span) == /\ span[2] - span[1] + 1 = Len(search)
                          /\ Cardinality(Same(span)) * 2 >= Cardinality(Inner(span))
      all == Anchored(lines, search)
      spans == Those(all, {k \in DOMAIN all : Reasonable(all[k])})
  IN IF Len(Lines(find)) < 3 THEN <<>> ELSE [k \in DOMAIN spans |-> BlockOf(lines, spans[k])]

MultiOccurrenceReplacer(t, find) == IF OccursIn(find, t) THEN <<find>> ELSE <<>>

Proposals(t, find) ==
  SimpleReplacer(t, find) \o LineTrimmedReplacer(t, find) \o BlockAnchorReplacer(t, find)
    \o WhitespaceNormalizedReplacer(t, find) \o IndentationFlexibleReplacer(t, find)
    \o EscapeNormalizedReplacer(t, find) \o TrimmedBoundaryReplacer(t, find)
    \o ContextAwareReplacer(t, find) \o MultiOccurrenceReplacer(t, find)

-----------------------------------------------------------------------------
(* Replacing *)

\* Mutant: the first of several occurrences.
TakesAny(t, s, all) == OccursIn(s, t)

Takes(t, s, all) == IF all THEN OccursIn(s, t) ELSE Cardinality(Occurrences(t, s)) = 1

\* All occurrences from the left, none within another.
ReplaceEvery(t, s, new) ==
  LET r[i \in 1..(Len(t) + Len(s) + 1)] ==
        IF i > Len(t) THEN <<>>
        ELSE IF i \in Occurrences(t, s) THEN new \o r[i + Len(s)] ELSE <<t[i]>> \o r[i + 1]
  IN r[1]

\* The first proposal that is taken is replaced.
Replaced(t, found, new, all) ==
  LET taken == Those(found, {k \in DOMAIN found : Takes(t, found[k], all)})
      at == CHOOSE i \in Occurrences(t, taken[1]) : \A j \in Occurrences(t, taken[1]) : i <= j
  IN IF taken # <<>>
     THEN [outcome |-> "edited",
           text |-> IF all THEN ReplaceEvery(t, taken[1], new)
                    ELSE SubSeq(t, 1, at - 1) \o new \o SubSeq(t, at + Len(taken[1]), Len(t))]
     ELSE [outcome |-> IF found = <<>> THEN "not found" ELSE "ambiguous", text |-> t]
replace(t, old, new, all) ==
  LET proposed == Proposals(t, old)
  IN Replaced(t, Those(proposed, {k \in DOMAIN proposed : OccursIn(proposed[k], t)}), new, all)

NoEdit == [outcome |-> "none"]
TextInit == source \in SourceTexts /\ lastEdit = NoEdit /\ textEdits = 0

\* An empty oldString writes the whole file.
EditText(old, new, all) ==
  /\ textEdits < MaxTextEdits /\ textEdits' = textEdits + 1
  /\ \E result \in {IF old = new THEN [outcome |-> "same", text |-> source]
                     ELSE IF old = <<>> THEN [outcome |-> "written", text |-> new]
                     ELSE replace(source, old, new, all)} :
       /\ source' = result.text
       /\ lastEdit' = [outcome |-> result.outcome, before |-> source, old |-> old, new |-> new, all |-> all]

TextNext == \E old \in Finds, new \in Replacements, all \in BOOLEAN : EditText(old, new, all)

-----------------------------------------------------------------------------
(* A text that stands for oldString: the same but for spaces, newlines and   *)
(* their escapes; or, for three lines and more, one that begins and ends     *)
(* with the same lines.                                                      *)
Plain(t) == Normalized(unescapeString(t))
SameEnds(region, old) ==
  LET lines == Lines(region)
      search == WithoutLastEmpty(Lines(old))
  IN /\ Len(Lines(old)) >= 3 /\ Len(lines) >= 3
     /\ Trim(lines[1]) = Trim(search[1]) /\ Trim(lines[Len(lines)]) = Trim(search[Len(search)])
StandsFor(region, old) == Plain(region) = Plain(old) \/ SameEnds(region, old)

Regions(t) == {SubSeq(t, i, j) : i, j \in DOMAIN t} \ {<<>>}

\* An edit replaces one text that occurs once in the file and stands for
\* oldString, or all occurrences of one such text, and leaves the rest of the
\* file alone; it is oldString itself when that occurs as asked for.  A call
\* that fails changes nothing, and says "not found" only if neither oldString
\* nor lines that differ from it in spaces alone are there.
EditIsExact ==
  LET e == lastEdit IN
  /\ e.outcome = "edited" =>
       /\ \E region \in Regions(e.before) :
            /\ StandsFor(region, e.old)
            /\ source = ReplaceEvery(e.before, region, e.new)
            /\ e.all \/ Cardinality(Occurrences(e.before, region)) = 1
       /\ Takes(e.before, e.old, e.all) => source = ReplaceEvery(e.before, e.old, e.new)
  /\ e.outcome \in {"same", "not found", "ambiguous"} => source = e.before
  /\ e.outcome = "ambiguous" => ~e.all
  /\ e.outcome = "not found" =>
       ~OccursIn(e.old, e.before)
         /\ \A b \in ToSet(Blocks(e.before, Len(Lines(e.old)))) : Normalized(b) # Normalized(e.old)

\* tool/edit.txt:9: the edit fails if oldString is found several times in
\* the file, with an error that asks for more context.
SeveralOccurrencesFail ==
  LET e == lastEdit IN
  e.outcome # "none" /\ e.old \notin {<<>>, e.new} /\ ~e.all /\ Cardinality(Occurrences(e.before, e.old)) > 1
    => e.outcome = "ambiguous"
=============================================================================
