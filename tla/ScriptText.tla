----------------------------- MODULE ScriptText -----------------------------
(***************************************************************************)
(* The text of saved scripts: line patches, bounded diffs                  *)
(* (source-line-patches.ts) and the pages in which a script is read        *)
(* (rhino-script-workspace.ts get).  A text is a sequence of characters,   *)
(* of which only the newline matters.                                      *)
(***************************************************************************)
EXTENDS Naturals, FiniteSets, Sequences, SequencesExt

CONSTANTS NL, PageLines, PageChars
TextAssumption == PageLines \in Nat \ {0} /\ PageChars \in Nat \ {0}

(* Lines. *)
SplitLines(text) ==
    LET cuts == <<0>> \o SetToSortSeq({i \in DOMAIN text : text[i] = NL}, LAMBDA i, j : i < j)
                \o <<Len(text) + 1>>
    IN  [k \in 1 .. Len(cuts) - 1 |-> SubSeq(text, cuts[k] + 1, cuts[k + 1] - 1)]
EndsWithNewline(text) == text # <<>> /\ Last(text) = NL
\* A trailing newline ends the last line, it does not begin another one.
sourceLines(text) ==
    IF text = <<>> THEN <<>> ELSE SplitLines(IF EndsWithNewline(text) THEN Front(text) ELSE text)
JoinLines(lines) ==
    FlattenSeq([i \in DOMAIN lines |-> IF i = 1 THEN lines[1] ELSE <<NL>> \o lines[i]])

(* Patches: an insertion after a line, or lines that replace a span. *)
Insertion(after, new) == [start |-> after, end |-> after, insert |-> TRUE, lines |-> new]
Replacement(first, last, new) == [start |-> first - 1, end |-> last, insert |-> FALSE, lines |-> new]
Overlap(a, b) ==
    CASE a.insert /\ b.insert -> a.start = b.start
      [] a.insert /\ ~b.insert -> b.start <= a.start /\ a.start < b.end
      [] ~a.insert /\ b.insert -> a.start <= b.start /\ b.start < a.end
      [] OTHER -> a.start < b.end /\ b.start < a.end
\* All spans are of the text before the patches, and no two overlap.
Applicable(text, patches) ==
    /\ \A i \in DOMAIN patches :
         /\ patches[i].end <= Len(sourceLines(text))
         /\ patches[i].insert \/ patches[i].start < patches[i].end
    /\ \A i, j \in DOMAIN patches : i < j => ~Overlap(patches[i], patches[j])
\* From the end of the text to its start: a patch never moves the span of another.
Order(patches) == SortSeq(patches, LAMBDA a, b : a.start > b.start)
Splice(lines, p) == SubSeq(lines, 1, p.start) \o p.lines \o SubSeq(lines, p.end + 1, Len(lines))
\* Only a text that ended with a newline does so again.
applySourcePatches_LosesEmptyLine(text, patches) ==
    LET lines == FoldLeft(Splice, sourceLines(text), Order(patches)) IN
      JoinLines(lines) \o IF lines # <<>> /\ EndsWithNewline(text) THEN <<NL>> ELSE <<>>
\* A last line that is empty needs a newline of its own.
applySourcePatches(text, patches) ==
    LET lines == FoldLeft(Splice, sourceLines(text), Order(patches))
        final == lines # <<>> /\ (EndsWithNewline(text) \/ Last(lines) = <<>>)
    IN  JoinLines(lines) \o IF final THEN <<NL>> ELSE <<>>

\* What patches mean: each gap between the lines holds what is inserted there,
\* each span that is replaced its new lines, every other line stays.
Patched(lines, patches) ==
    LET At(g) == SelectSeq(patches, LAMBDA p : p.start = g)
        Covered(i) == \E k \in DOMAIN patches :
                        ~patches[k].insert /\ patches[k].start < i /\ i <= patches[k].end
    IN  FlattenSeq([i \in 1 .. Len(lines) + 1 |->
            FlattenSeq([k \in DOMAIN At(i - 1) |-> At(i - 1)[k].lines])
            \o IF i <= Len(lines) /\ ~Covered(i) THEN <<lines[i]>> ELSE <<>>])

(* boundedDiff: one hunk between the lines both texts begin and end with. *)
CommonPrefix(a, b) ==
    CHOOSE n \in 0..Len(a) :
        /\ n <= Len(b) /\ SubSeq(a, 1, n) = SubSeq(b, 1, n)
        /\ n < Len(a) /\ n < Len(b) => a[n + 1] # b[n + 1]
boundedDiff(before, after) ==
    LET a == sourceLines(before)  b == sourceLines(after)
        start == CommonPrefix(a, b)
        tail == CommonPrefix(Reverse(SubSeq(a, start + 1, Len(a))), Reverse(SubSeq(b, start + 1, Len(b))))
    IN  [start |-> start, removed |-> SubSeq(a, start + 1, Len(a) - tail),
         added |-> SubSeq(b, start + 1, Len(b) - tail),
         newline |-> EndsWithNewline(before) # EndsWithNewline(after)]

(* Pages. *)
\* Complete lines from the first on, at most PageLines and PageChars of them.
Selected(lines, first) ==
    LET end == IF Len(lines) < first + PageLines - 1 THEN Len(lines) ELSE first + PageLines - 1
        Chars(n) == Len(FlattenSeq(SubSeq(lines, first, n)))
    IN  {n \in first..end : Chars(n) <= PageChars}
\* get: where a page begins, what it shows, and where the next one begins.
Page(lines, first, offset) ==
    LET selected == Selected(lines, first)
        long == selected = {} /\ lines # <<>>
        upto == offset + PageChars
        more == long /\ upto < Len(lines[first])
        completed == IF selected # {} THEN first + Cardinality(selected) - 1
                     ELSE IF long /\ ~more THEN first ELSE first - 1
    IN  [shown |-> IF long THEN SubSeq(lines[first], offset + 1, IF more THEN upto ELSE Len(lines[first]))
                   ELSE FlattenSeq(SubSeq(lines, first, completed)),
         next |-> IF more THEN <<first, upto>>
                  ELSE IF completed >= first /\ completed < Len(lines) THEN <<completed + 1, 0>>
                  ELSE <<>>]
-----------------------------------------------------------------------------
\* Patched text has the lines its patches mean, whatever their order and wherever
\* the text ends, so that the line numbers of the next patch are right.
PatchesMeanLines(text, patches) ==
    Applicable(text, patches) =>
        sourceLines(applySourcePatches(text, patches)) = Patched(sourceLines(text), patches)
\* A diff leads from one text to the other.
DiffLeadsOn(before, after) ==
    LET a == sourceLines(before)  d == boundedDiff(before, after)
    IN  sourceLines(after) =
          SubSeq(a, 1, d.start) \o d.added \o SubSeq(a, d.start + Len(d.removed) + 1, Len(a))
=============================================================================
