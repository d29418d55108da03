------------------------------- MODULE SpecText -------------------------------
(***************************************************************************)
(* A spec file as the fixing rules see it: a sequence of cells.  An edit   *)
(* replaces the cells start+1..end; a suggestion is a set of edits of one  *)
(* applicability.  Four rules that edit are modelled, chosen because their *)
(* edits overlap, need several rounds or depend on the profile.            *)
(***************************************************************************)
EXTENDS Integers, Sequences, FiniteSets, SequencesExt

CONSTANTS
  Blanks,          \* whether trailing-whitespace is turned on
  MaxIterations    \* rounds of the fix loop

ASSUME SpecTextAssumption == Blanks \in BOOLEAN /\ MaxIterations \in Nat \ {0}

\* A letter, a blank, a line end, %ifarch, %clean, another section's header,
\* the # of a comment and a percent sign.
Cell == {"w", "s", "n", "I", "C", "H", "h", "p"}

Families == {"fedora", "suse", "unknown"}

\* usize::MAX: after every offset.
UsizeMax == 1000
-----------------------------------------------------------------------------
\* The parser's view: lines, words, sections.

StartsLine(t, i) == i \in 1..Len(t) /\ (i = 1 \/ t[i - 1] = "n")

\* The line that starts at i reaches to LineEnd, the line end left out.
LineEnd(t, i) ==
  LET ends == {j \in i..Len(t) : t[j] = "n"}
  IN IF ends = {} THEN Len(t) ELSE Min(ends) - 1

Starts(t) == {i \in 1..Len(t) : StartsLine(t, i)}

Headers(t) == {i \in Starts(t) : t[i] \in {"C", "H"}}

\* Lines that are items of their own, not the text of a section.
PreambleLines(t) ==
  LET headers == Headers(t) IN {i \in Starts(t) : \A k \in headers : i < k}

\* A section reaches to the next header.
SectionEnd(t, i) ==
  LET later == {k \in Headers(t) : k > i}
  IN IF later = {} THEN Len(t) ELSE Min(later) - 1

\* Maximal runs of cells that are not blank, within i..j.
WordsIn(t, i, j) ==
  LET firsts == {a \in i..j : t[a] # "s" /\ (a = i \/ t[a - 1] = "s")}
      lasts == {b \in i..j : t[b] # "s" /\ (b = j \/ t[b + 1] = "s")}
  IN {<<a, Min({b \in lasts : b >= a})>> : a \in firsts}

SameWord(t, v, w) == SubSeq(t, v[1], v[2]) = SubSeq(t, w[1], w[2])

ArchWords(t, i) == {w \in WordsIn(t, i, LineEnd(t, i)) : w[1] # i}

\* Words of the list that some earlier word of it equals.
Repeats(t, i) ==
  LET words == ArchWords(t, i)
  IN {w \in words : \E v \in words : v[1] < w[1] /\ SameWord(t, v, w)}

\* How many percent signs end at i.
PercentRun(t, i) ==
  CHOOSE n \in 0..i : /\ \A k \in i - n + 1..i : t[k] = "p"
                      /\ n = i \/ t[i - n] # "p"

\* A percent sign that is not half of a %%.
Standalone(t, i) ==
  t[i] = "p" /\ PercentRun(t, i) % 2 = 1 /\ (i = Len(t) \/ t[i + 1] # "p")
-----------------------------------------------------------------------------
\* The rules.

Machine(edits) == [app |-> "machine", edits |-> edits]
Manual == [app |-> "manual", edits |-> {}]
Drop(i, j) == [start |-> i - 1, end |-> j, text |-> <<>>]

\* deprecated-clean-section: fires on every profile, drops the section where
\* %clean is known to be obsolete, or where the family is not known.
CleanSuggestions(t, family) ==
  {IF family \in {"fedora", "unknown"}
     THEN Machine({Drop(i, SectionEnd(t, i))}) ELSE Manual :
     i \in {k \in Headers(t) : t[k] = "C"}}

\* duplicate-arch-in-list: whichever repetition is reported, the second
\* occurrence goes, with the blank before it.
ArchSuggestions(t) ==
  UNION {
    {LET same == {v \in ArchWords(t, i) : SameWord(t, v, w)}
         second == CHOOSE v \in same :
                     Cardinality({u \in same : u[1] < v[1]}) = 1
     IN Machine({Drop(second[1] - 1, second[2])}) : w \in Repeats(t, i)} :
    i \in {k \in PreambleLines(t) : t[k] = "I"}}

\* trailing-whitespace: a line that is all blank is left alone.
BlankSuggestions(t) ==
  LET trailing == {b \in 2..Len(t) :
                     /\ t[b] = "s" /\ t[b - 1] \notin {"s", "n"}
                     /\ \A k \in b..LineEnd(t, b) : t[k] = "s"}
  IN IF Blanks THEN {Machine({Drop(b, LineEnd(t, b))}) : b \in trailing} ELSE {}

\* macro-in-hash-comment: one suggestion of several insertions.
CommentSuggestions(t) ==
  {Machine({[start |-> k - 1, end |-> k - 1, text |-> <<"p">>] :
             k \in {j \in i..LineEnd(t, i) : Standalone(t, j)}}) :
     i \in {k \in PreambleLines(t) :
              /\ t[k] = "h"
              /\ \E j \in k..LineEnd(t, k) - 1 : Standalone(t, j) /\ t[j + 1] = "w"}}

Rules == {"clean", "arch", "blank", "comment"}

\* What one rule finds.
Findings(rule, t, family) ==
  CASE rule = "clean" -> CleanSuggestions(t, family)
    [] rule = "arch" -> ArchSuggestions(t)
    [] rule = "blank" -> BlankSuggestions(t)
    [] OTHER -> CommentSuggestions(t)

\* LintSession::run under the profile's family.
Diagnostics(t, family) == UNION {Findings(rule, t, family) : rule \in Rules}
-----------------------------------------------------------------------------
\* The fixer.

Rank(app) == CASE app = "machine" -> 0 [] app = "maybe" -> 1 [] OTHER -> 2

\* FixLevel::Safe.
Applicable(s) == s.app = "machine"

\* What collect_edits sorts by: the last first.
Before(a, b) ==
  \/ a.edit.start > b.edit.start
  \/ a.edit.start = b.edit.start /\ Rank(a.app) < Rank(b.app)
  \/ a.edit.start = b.edit.start /\ a.app = b.app /\ a.edit.end < b.edit.end

\* Mutant: overlaps are not looked for.
AcceptAny(acc, c) == [last |-> c.edit.start, edits |-> Append(acc.edits, c.edit)]

\* Adjacent edits both pass.
Accept(acc, c) ==
  IF c.edit.end > acc.last THEN acc
  ELSE [last |-> c.edit.start, edits |-> Append(acc.edits, c.edit)]

CollectEdits(diags) ==
  LET candidates == UNION {{[app |-> s.app, edit |-> e] : e \in s.edits} :
                             s \in {d \in diags : Applicable(d)}}
  IN FoldLeft(Accept, [last |-> UsizeMax, edits |-> <<>>],
              [k \in 1..Cardinality(candidates) |->
                 CHOOSE c \in candidates :
                   Cardinality({d \in candidates : Before(d, c)}) = k - 1]).edits

ApplyEdit(acc, e) ==
  IF e.end > Len(acc.text) \/ e.start > e.end THEN acc
  ELSE [text |-> SubSeq(acc.text, 1, e.start) \o e.text
                   \o SubSeq(acc.text, e.end + 1, Len(acc.text)),
        applied |-> acc.applied + 1]

ApplyEdits(t, edits) == FoldLeft(ApplyEdit, [text |-> t, applied |-> 0], edits)
-----------------------------------------------------------------------------
\* What no rule may change, whatever the order and the overlaps of the edits:
\* all but %clean sections, repeated words of an arch list, the number of
\* blanks, and the doubling of percent signs in comments.
Essential(t) ==
  LET cleaned == UNION {k..SectionEnd(t, k) : k \in {h \in Headers(t) : t[h] = "C"}}
      items == PreambleLines(t)
      repeated == UNION {UNION {w[1] - 1..w[2] : w \in Repeats(t, k)} :
                           k \in {l \in items : t[l] = "I"}}
      comments == UNION {k..LineEnd(t, k) : k \in {l \in items : t[l] = "h"}}
  IN {i \in 1..Len(t) :
        /\ i \notin cleaned \cup repeated
        /\ t[i] = "s" => i < Len(t) /\ t[i + 1] \notin {"s", "n"}
        /\ t[i] = "p" /\ i \in comments => PercentRun(t, i) % 2 = 1}

Essence(t) ==
  LET kept == Essential(t)
  IN FoldLeft(LAMBDA acc, i : IF i \in kept THEN Append(acc, t[i]) ELSE acc,
              <<>>, [i \in 1..Len(t) |-> i])

CleanHeaders(t) == Cardinality({i \in Headers(t) : t[i] = "C"})
=============================================================================
