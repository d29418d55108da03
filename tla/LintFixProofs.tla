---------------------------- MODULE LintFixProofs ----------------------------
(***************************************************************************)
(* What the fixer does to a text, for every text: a rule's edits lie       *)
(* within it; those collected run backwards and do not overlap; applied    *)
(* one by one, none is refused, and where there is none the text is as it  *)
(* was.  What a batch command guarantees, whatever the files hold and      *)
(* however long the command line is, needs of the fixer only that the      *)
(* edits collected all apply and that a round is a function of the text.   *)
(* The last parts show that the edits of a round, each made for the text   *)
(* as it was, leave the essence of what the edits before them left, and    *)
(* so that the loop changes only what its rules are about.                 *)
(***************************************************************************)
EXTENDS LintFix, SequenceTheorems, FiniteSetTheorems, WellFoundedInduction, TLAPS

-----------------------------------------------------------------------------
(* Least and greatest elements.                                            *)

\* A nonempty set of naturals has a least element.
LEMMA NatLeast ==
  ASSUME NEW T, T \subseteq Nat, T # {}
  PROVE  \E x \in T : \A y \in T : x <= y
<1>1. IsWellFoundedOn(OpToRel(<, Nat), Nat)
  BY NatLessThanWellFounded
<1>2. PICK x \in T : \A y \in T : ~(<<y, x>> \in OpToRel(<, Nat))
  BY <1>1, WFMin
<1>3. \A y \in T : ~(y < x)
  BY <1>2 DEF OpToRel
<1>. QED BY <1>3

\* Min of a nonempty set of naturals is its least element.
LEMMA MinIn ==
  ASSUME NEW T, T \subseteq Nat, T # {}
  PROVE  Min(T) \in T /\ \A y \in T : Min(T) <= y
<1>. DEFINE Least(x) == x \in T /\ \A y \in T : x <= y
<1>1. \E x : Least(x)
  BY NatLeast
<1>2. Least(CHOOSE x : Least(x))
  BY <1>1, Zenon
<1>3. Min(T) = CHOOSE x : Least(x)
  BY DEF Min
<1>4. Least(Min(T))
  <2>. HIDE DEF Least
  <2>. QED BY <1>2, <1>3, Zenon
<1>. QED BY <1>4

\* Max of a nonempty set of indices is its greatest.
LEMMA MaxIn ==
  ASSUME NEW n \in Nat, NEW T, T \subseteq 1..n, T # {}
  PROVE  Max(T) \in T /\ \A y \in T : Max(T) >= y
<1>. DEFINE Left == {n - y : y \in T}
<1>0. \A y \in T : y \in 1..n /\ n - y \in Nat
  OBVIOUS
<1>1. Left \subseteq Nat /\ Left # {}
  BY <1>0
<1>2. PICK x \in Left : \A y \in Left : x <= y
  BY <1>1, NatLeast
<1>3. PICK m \in T : x = n - m
  BY <1>2
<1>4. \A y \in T : n - m <= n - y
  BY <1>2, <1>3
<1>5. \A y \in T : m >= y
  BY <1>4
<1>. QED BY <1>5 DEF Max

\* What holds of 0, and of k + 1 where it holds of k, holds of every k up to n.
LEMMA UpTo ==
  ASSUME NEW n \in Nat, NEW T, 0 \in T, \A k \in 0..n : k \in T /\ k < n => k + 1 \in T
  PROVE  \A k \in 0..n : k \in T
<1>. DEFINE Out == {k \in 0..n : k \notin T}
<1>. SUFFICES ASSUME Out # {} PROVE FALSE
  OBVIOUS
<1>1. PICK x \in Out : \A y \in Out : x <= y
  <2>1. Out \subseteq Nat
    OBVIOUS
  <2>. HIDE DEF Out
  <2>. QED BY <2>1, NatLeast
<1>2. x - 1 \in 0..n /\ x - 1 < n
  BY <1>1
<1>3. x - 1 \in T
  BY <1>1, <1>2
<1>4. x - 1 + 1 = x
  BY <1>1
<1>. QED BY <1>1, <1>2, <1>3, <1>4
-----------------------------------------------------------------------------
(* Lines, sections and words.                                              *)

\* A line ends at its last cell, or before its first one where it is empty.
LEMMA LineEndIn ==
  ASSUME NEW t \in Seq(Cell), NEW i \in 1..Len(t)
  PROVE  LineEnd(t, i) \in i - 1..Len(t)
<1>. DEFINE ends == {j \in i..Len(t) : t[j] = "n"}
<1>1. Len(t) \in Nat
  BY LenProperties
<1>2. ends # {} => Min(ends) \in ends
  <2>1. ends \subseteq Nat
    BY <1>1
  <2>. HIDE DEF ends
  <2>. QED BY <2>1, MinIn
<1>3. LineEnd(t, i) = IF ends = {} THEN Len(t) ELSE Min(ends) - 1
  BY DEF LineEnd
<1>4. ends # {} => Min(ends) \in i..Len(t)
  BY <1>2
<1>. HIDE DEF ends
<1>. QED BY <1>1, <1>3, <1>4

\* A section ends at or after its header.
LEMMA SectionEndIn ==
  ASSUME NEW t \in Seq(Cell), NEW i \in 1..Len(t)
  PROVE  SectionEnd(t, i) \in i..Len(t)
<1>. DEFINE later == {k \in Headers(t) : k > i}
<1>1. Len(t) \in Nat
  BY LenProperties
<1>2. Headers(t) \subseteq 1..Len(t)
  BY DEF Headers, Starts
<1>3. later # {} => Min(later) \in i + 1..Len(t)
  <2>1. later \subseteq Nat /\ \A k \in later : k \in i + 1..Len(t)
    BY <1>1, <1>2
  <2>. HIDE DEF later
  <2>. QED BY <1>1, <2>1, MinIn
<1>. HIDE DEF later
<1>4. SectionEnd(t, i) = IF later = {} THEN Len(t) ELSE Min(later) - 1
  BY DEF SectionEnd, later
<1>. QED BY <1>1, <1>3, <1>4

\* A word has an end, and its first cell tells which word it is.
LEMMA WordsWithin ==
  ASSUME NEW t \in Seq(Cell), NEW i \in 1..Len(t), NEW j \in i - 1..Len(t)
  PROVE  /\ \A w \in WordsIn(t, i, j) : w[1] \in i..j /\ w[2] \in w[1]..j
         /\ \A v, w \in WordsIn(t, i, j) : v[1] = w[1] => v = w
<1>. DEFINE firsts == {a \in i..j : t[a] # "s" /\ (a = i \/ t[a - 1] = "s")}
            lasts == {b \in i..j : t[b] # "s" /\ (b = j \/ t[b + 1] = "s")}
            Ends(a) == {b \in lasts : b >= a}
<1>1. Len(t) \in Nat
  BY LenProperties
<1>2. ASSUME NEW a \in firsts PROVE Ends(a) # {}
  <2>. DEFINE Stops == {b \in a..j : b = j \/ t[b + 1] = "s"}
  <2>1. Stops \subseteq Nat /\ j \in Stops
    BY <1>1, <1>2
  <2>2. PICK b \in Stops : \A y \in Stops : b <= y
    <3>. HIDE DEF Stops
    <3>. QED BY <2>1, NatLeast
  <2>3. t[b] # "s"
    <3>1. CASE b = a
      BY <1>2, <3>1
    <3>2. CASE b # a
      <4>1. b - 1 \in a..j /\ b - 1 < b /\ b - 1 + 1 = b
        BY <1>1, <1>2, <2>2, <3>2
      <4>2. b - 1 \notin Stops
        BY <2>2, <4>1
      <4>. QED BY <4>1, <4>2
    <3>. QED BY <3>1, <3>2
  <2>4. b \in lasts /\ b >= a
    BY <1>1, <1>2, <2>2, <2>3
  <2>. QED BY <2>4
<1>3. ASSUME NEW a \in firsts PROVE a \in i..j /\ Min(Ends(a)) \in a..j
  <2>1. Ends(a) \subseteq Nat
    BY <1>1
  <2>2. Min(Ends(a)) \in Ends(a)
    <3>1. Ends(a) # {}
      BY <1>2
    <3>. HIDE DEF Ends
    <3>. QED BY <2>1, <3>1, MinIn
  <2>. QED BY <1>1, <2>2
<1>4. WordsIn(t, i, j) = {<<a, Min(Ends(a))>> : a \in firsts}
  BY DEF WordsIn
<1>. HIDE DEF firsts, Ends
<1>. QED BY <1>3, <1>4

\* Of the words that equal a repeated one, one is the second.
LEMMA SecondWord ==
  ASSUME NEW t \in Seq(Cell), NEW i \in 1..Len(t), NEW w \in Repeats(t, i)
  PROVE  LET same == {v \in ArchWords(t, i) : SameWord(t, v, w)}
         IN  \E v \in same : Cardinality({u \in same : u[1] < v[1]}) = 1
<1>. DEFINE same == {v \in ArchWords(t, i) : SameWord(t, v, w)}
            Firsts == {v[1] : v \in same}
<1>1. Len(t) \in Nat /\ LineEnd(t, i) \in i - 1..Len(t)
  BY LenProperties, LineEndIn
<1>2. \A v \in same : v[1] \in i..LineEnd(t, i)
  BY <1>1, WordsWithin DEF ArchWords
<1>3. \A u, v \in same : u[1] = v[1] => u = v
  BY <1>1, WordsWithin DEF ArchWords
<1>4. w \in same
  BY DEF Repeats, SameWord
<1>5. PICK v0 \in same : v0[1] < w[1]
  BY DEF Repeats
<1>. HIDE DEF same
<1>6. Firsts \subseteq Nat /\ Firsts # {}
  BY <1>1, <1>2, <1>4
<1>7. PICK a \in Firsts : \A y \in Firsts : a <= y
  BY <1>6, NatLeast
<1>8. PICK first \in same : a = first[1]
  BY <1>7
<1>9. \A v \in same : first[1] <= v[1] /\ v[1] \in Nat
  BY <1>1, <1>2, <1>7, <1>8
<1>. DEFINE Others == {v[1] : v \in same \ {first}}
<1>10. w # first
  BY <1>4, <1>5, <1>9
<1>11. Others \subseteq Nat /\ Others # {}
  BY <1>4, <1>9, <1>10
<1>12. PICK b \in Others : \A y \in Others : b <= y
  BY <1>11, NatLeast
<1>13. PICK second \in same \ {first} : b = second[1]
  BY <1>12
<1>14. {u \in same : u[1] < second[1]} = {first}
  <2>1. first[1] < second[1]
    BY <1>3, <1>8, <1>9, <1>13
  <2>2. \A u \in same : u # first => ~(u[1] < second[1])
    <3>. SUFFICES ASSUME NEW u \in same, u # first PROVE second[1] <= u[1]
      BY <1>9, <1>13
    <3>1. u[1] \in Others
      OBVIOUS
    <3>. QED BY <1>12, <1>13, <3>1
  <2>. QED BY <1>8, <2>1, <2>2
<1>15. Cardinality({u \in same : u[1] < second[1]}) = 1
  BY <1>14, FS_Singleton
<1>. QED BY <1>15 DEF same
-----------------------------------------------------------------------------
(* The rules.                                                              *)

\* What a rule may ask for in a text of n cells: cells of it dropped, or a
\* percent sign put in.
EditsIn(n) ==
  {e \in [start : 0..n, end : 0..n, text : {<<>>, <<"p">>}] :
     /\ e.text = <<>> => e.start < e.end
     /\ e.text = <<"p">> => e.start = e.end}

SuggestionsIn(n) == [app : {"machine", "manual"}, edits : SUBSET EditsIn(n)]

\* Dropping cells of a text is an edit of that text.
LEMMA DropIn ==
  ASSUME NEW n \in Nat, NEW i \in 1..n, NEW j \in i..n
  PROVE  Machine({Drop(i, j)}) \in SuggestionsIn(n)
<1>1. Drop(i, j) \in EditsIn(n)
  <2>1. i - 1 \in 0..n /\ j \in 0..n /\ i - 1 < j
    OBVIOUS
  <2>2. <<"p">> # <<>>
    OBVIOUS
  <2>. QED BY <2>1, <2>2 DEF Drop, EditsIn
<1>. QED BY <1>1 DEF Machine, SuggestionsIn

\* The %clean rule asks for the section at most.
LEMMA CleanIn ==
  ASSUME NEW t \in Seq(Cell), NEW kin
  PROVE  CleanSuggestions(t, kin) \subseteq SuggestionsIn(Len(t))
<1>. SUFFICES ASSUME NEW i \in {k \in Headers(t) : t[k] = "C"}
              PROVE  /\ Machine({Drop(i, SectionEnd(t, i))}) \in SuggestionsIn(Len(t))
                     /\ Manual \in SuggestionsIn(Len(t))
  BY DEF CleanSuggestions
<1>1. Len(t) \in Nat /\ i \in 1..Len(t)
  BY LenProperties DEF Headers, Starts
<1>2. SectionEnd(t, i) \in i..Len(t)
  BY <1>1, SectionEndIn
<1>3. Machine({Drop(i, SectionEnd(t, i))}) \in SuggestionsIn(Len(t))
  BY <1>1, <1>2, DropIn
<1>. QED BY <1>3 DEF Manual, SuggestionsIn

\* The word that goes is the second of its kind, so a cell goes before it.
LEMMA ArchIn ==
  ASSUME NEW t \in Seq(Cell)
  PROVE  ArchSuggestions(t) \subseteq SuggestionsIn(Len(t))
<1>1. Len(t) \in Nat
  BY LenProperties
<1>. DEFINE Lists == {k \in PreambleLines(t) : t[k] = "I"}
            Cut(i, w) == LET same == {v \in ArchWords(t, i) : SameWord(t, v, w)}
                             second == CHOOSE v \in same :
                                         Cardinality({u \in same : u[1] < v[1]}) = 1
                         IN  Machine({Drop(second[1] - 1, second[2])})
<1>2. ASSUME NEW i \in Lists, NEW w \in Repeats(t, i)
      PROVE  Cut(i, w) \in SuggestionsIn(Len(t))
  <2>. DEFINE same == {v \in ArchWords(t, i) : SameWord(t, v, w)}
              IsSecond(v) == Cardinality({u \in same : u[1] < v[1]}) = 1
              second == CHOOSE v \in same : IsSecond(v)
  <2>1. i \in 1..Len(t)
    BY <1>2 DEF PreambleLines, Starts
  <2>2. LineEnd(t, i) \in i - 1..Len(t)
    BY <2>1, LineEndIn
  <2>3. \E v \in same : IsSecond(v)
    BY <1>2, <2>1, SecondWord
  <2>4. second \in same
    <3>. HIDE DEF same, IsSecond
    <3>. QED BY <2>3
  <2>5. second \in WordsIn(t, i, LineEnd(t, i)) /\ second[1] # i
    <3>. HIDE DEF second
    <3>. QED BY <2>4 DEF ArchWords
  <2>. HIDE DEF second
  <2>6. second[1] \in i..LineEnd(t, i) /\ second[2] \in second[1]..LineEnd(t, i)
    BY <2>1, <2>2, <2>5, WordsWithin
  <2>7. second[1] - 1 \in 1..Len(t) /\ second[2] \in second[1] - 1..Len(t)
    BY <1>1, <2>1, <2>2, <2>5, <2>6
  <2>8. Machine({Drop(second[1] - 1, second[2])}) \in SuggestionsIn(Len(t))
    BY <1>1, <2>7, DropIn
  <2>. QED BY <2>8 DEF second
<1>3. ArchSuggestions(t) = UNION {{Cut(i, w) : w \in Repeats(t, i)} : i \in Lists}
  BY DEF ArchSuggestions
<1>. HIDE DEF Lists, Cut
<1>. QED BY <1>2, <1>3

\* The trailing-blank rule drops cells of one line.
LEMMA BlankIn ==
  ASSUME NEW t \in Seq(Cell)
  PROVE  BlankSuggestions(t) \subseteq SuggestionsIn(Len(t))
<1>1. Len(t) \in Nat
  BY LenProperties
<1>2. ASSUME NEW b \in 2..Len(t), t[b] = "s"
      PROVE  Machine({Drop(b, LineEnd(t, b))}) \in SuggestionsIn(Len(t))
  <2>. DEFINE ends == {j \in b..Len(t) : t[j] = "n"}
  <2>1. LineEnd(t, b) \in b - 1..Len(t)
    BY <1>1, LineEndIn
  <2>2. ends # {} => Min(ends) # b
    <3>1. ends \subseteq Nat
      BY <1>1
    <3>2. ends # {} => Min(ends) \in ends
      <4>. HIDE DEF ends
      <4>. QED BY <3>1, MinIn
    <3>. QED BY <1>2, <3>2
  <2>3. LineEnd(t, b) = IF ends = {} THEN Len(t) ELSE Min(ends) - 1
    BY DEF LineEnd
  <2>. HIDE DEF ends
  <2>4. LineEnd(t, b) # b - 1
    <3>1. CASE ends = {}
      BY <1>1, <2>3, <3>1
    <3>2. CASE ends # {}
      <4>1. LineEnd(t, b) = Min(ends) - 1 /\ Min(ends) # b
        BY <2>2, <2>3, <3>2
      <4>2. Min(ends) \in Nat
        <5>1. ends \subseteq Nat
          BY <1>1 DEF ends
        <5>. QED BY <3>2, <5>1, MinIn
      <4>. QED BY <4>1, <4>2
    <3>. QED BY <3>1, <3>2
  <2>5. b \in 1..Len(t) /\ LineEnd(t, b) \in b..Len(t)
    BY <1>1, <2>1, <2>4
  <2>. QED BY <1>1, <2>5, DropIn
<1>. QED BY <1>2 DEF BlankSuggestions

\* The comment rule puts percent signs within the preamble.
LEMMA CommentIn ==
  ASSUME NEW t \in Seq(Cell)
  PROVE  CommentSuggestions(t) \subseteq SuggestionsIn(Len(t))
<1>1. Len(t) \in Nat
  BY LenProperties
<1>2. ASSUME NEW i \in PreambleLines(t)
      PROVE  Machine({[start |-> k - 1, end |-> k - 1, text |-> <<"p">>] :
                        k \in {j \in i..LineEnd(t, i) : Standalone(t, j)}}) \in SuggestionsIn(Len(t))
  <2>1. i \in 1..Len(t)
    BY <1>2 DEF PreambleLines, Starts
  <2>2. LineEnd(t, i) \in i - 1..Len(t)
    BY <2>1, LineEndIn
  <2>3. ASSUME NEW k \in i..LineEnd(t, i)
        PROVE  [start |-> k - 1, end |-> k - 1, text |-> <<"p">>] \in EditsIn(Len(t))
    <3>1. k - 1 \in 0..Len(t)
      BY <1>1, <2>1, <2>2, <2>3
    <3>2. <<"p">> # <<>>
      OBVIOUS
    <3>. QED BY <3>1, <3>2 DEF EditsIn
  <2>4. {[start |-> k - 1, end |-> k - 1, text |-> <<"p">>] :
           k \in {j \in i..LineEnd(t, i) : Standalone(t, j)}} \subseteq EditsIn(Len(t))
    BY <2>3
  <2>. QED BY <2>4 DEF Machine, SuggestionsIn
<1>. QED BY <1>2 DEF CommentSuggestions

\* A session runs all the rules.
LEMMA DiagnosticsAre ==
  ASSUME NEW t, NEW kin
  PROVE  Diagnostics(t, kin) = CleanSuggestions(t, kin) \cup ArchSuggestions(t)
                                 \cup BlankSuggestions(t) \cup CommentSuggestions(t)
<1>1. /\ Findings("clean", t, kin) = CleanSuggestions(t, kin)
      /\ Findings("arch", t, kin) = ArchSuggestions(t)
      /\ Findings("blank", t, kin) = BlankSuggestions(t)
      /\ Findings("comment", t, kin) = CommentSuggestions(t)
  BY DEF Findings
<1>. QED BY <1>1 DEF Diagnostics, Rules

\* Whatever the family, an edit a rule asks for lies within the text.
LEMMA DiagnosticsIn ==
  ASSUME NEW t \in Seq(Cell), NEW kin
  PROVE  Diagnostics(t, kin) \subseteq SuggestionsIn(Len(t))
BY CleanIn, ArchIn, BlankIn, CommentIn, DiagnosticsAre
-----------------------------------------------------------------------------
(* What is sorted.                                                         *)

Candidates(n) == [app : {"machine"}, edit : EditsIn(n)]

\* Two edits of one range are the same edit.
LEMMA RangeTells ==
  ASSUME NEW n \in Nat, NEW a \in Candidates(n), NEW b \in Candidates(n),
         a.edit.start = b.edit.start, a.edit.end = b.edit.end
  PROVE  a = b
<1>1. a.edit \in EditsIn(n) /\ b.edit \in EditsIn(n) /\ a.app = b.app
  BY DEF Candidates
<1>2. /\ a.edit \in [start : 0..n, end : 0..n, text : {<<>>, <<"p">>}]
      /\ b.edit \in [start : 0..n, end : 0..n, text : {<<>>, <<"p">>}]
  BY <1>1 DEF EditsIn
<1>3. a.edit.text = b.edit.text
  BY <1>1, <1>2 DEF EditsIn
<1>4. a.edit = b.edit
  BY <1>2, <1>3
<1>. QED BY <1>1, <1>4 DEF Candidates

\* The edits on offer are finitely many.
LEMMA CandidatesFinite ==
  ASSUME NEW n \in Nat, NEW C, C \subseteq Candidates(n)
  PROVE  IsFiniteSet(C)
<1>. DEFINE Ranges == (0..n) \X (0..n)
            f == [c \in C |-> <<c.edit.start, c.edit.end>>]
<1>1. IsFiniteSet(Ranges)
  <2>1. IsFiniteSet(0..n)
    BY FS_Interval
  <2>. QED BY <2>1, FS_Product
<1>2. \A c \in C : c.edit.start \in 0..n /\ c.edit.end \in 0..n
  BY DEF Candidates, EditsIn
<1>3. f \in [C -> Ranges]
  BY <1>2
<1>4. \A a, b \in C : f[a] = f[b] => a = b
  BY RangeTells
<1>5. f \in Injection(C, Ranges)
  <2>. HIDE DEF f, Ranges
  <2>. QED BY <1>3, <1>4 DEF Injection, IsInjective
<1>. QED BY <1>1, <1>5, FS_Injection

\* The order of the collector, where all is of one applicability.
Later(a, b) ==
  \/ a.edit.start > b.edit.start
  \/ a.edit.start = b.edit.start /\ a.edit.end < b.edit.end

\* On candidates that is the order the edits are sorted in.
LEMMA BeforeIs ==
  ASSUME NEW n \in Nat, NEW a \in Candidates(n), NEW b \in Candidates(n)
  PROVE  a.edit.start \in 0..n /\ a.edit.end \in 0..n /\ (Before(a, b) <=> Later(a, b))
<1>1. a.edit \in EditsIn(n) /\ a.app = "machine" /\ b.app = "machine"
  BY DEF Candidates
<1>2. a.edit.start \in 0..n /\ a.edit.end \in 0..n
  BY <1>1 DEF EditsIn
<1>3. Rank(a.app) = 0 /\ Rank(b.app) = 0
  BY <1>1 DEF Rank
<1>4. Before(a, b) <=> Later(a, b)
  BY <1>1, <1>3 DEF Before, Later
<1>. QED BY <1>2, <1>4

\* Every place of the sorted sequence has a candidate.
LEMMA Ranked ==
  ASSUME NEW n \in Nat, NEW C, C \subseteq Candidates(n), NEW k \in 1..Cardinality(C)
  PROVE  \E c \in C : Cardinality({d \in C : Before(d, c)}) = k - 1
<1>. DEFINE Below(c) == {d \in C : Before(d, c)}
            N == Cardinality(C)
            rank == [c \in C |-> Cardinality(Below(c))]
<1>1. IsFiniteSet(C) /\ N \in Nat
  BY CandidatesFinite, FS_CardinalityType
<1>2. \A c \in C : c.edit.start \in Nat /\ c.edit.end \in Nat
  BY BeforeIs
<1>3. \A c, d \in C : Before(c, d) <=> Later(c, d)
  BY BeforeIs
<1>4. \A c \in C : ~Before(c, c)
  BY <1>2, <1>3 DEF Later
<1>5. \A b, c, d \in C : Before(b, c) /\ Before(c, d) => Before(b, d)
  BY <1>2, <1>3 DEF Later
<1>6. \A c, d \in C : c = d \/ Before(c, d) \/ Before(d, c)
  <2>1. \A c, d \in C : c.edit.start = d.edit.start /\ c.edit.end = d.edit.end => c = d
    BY RangeTells
  <2>. QED BY <1>2, <1>3, <2>1 DEF Later
<1>7. \A c \in C : IsFiniteSet(Below(c)) /\ Cardinality(Below(c)) \in Nat
  BY <1>1, FS_Subset, FS_CardinalityType
<1>. HIDE DEF N
<1>8. ASSUME NEW c \in C PROVE Cardinality(Below(c)) \in 0..N - 1
  <2>1. Below(c) \subseteq C \ {c}
    BY <1>4
  <2>2. IsFiniteSet(C \ {c}) /\ Cardinality(C \ {c}) = N - 1
    BY <1>1, FS_RemoveElement DEF N
  <2>3. Cardinality(Below(c)) <= N - 1
    BY <2>1, <2>2, FS_Subset
  <2>4. Cardinality(Below(c)) \in Nat
    BY <1>7
  <2>. HIDE DEF Below
  <2>. QED BY <1>1, <2>3, <2>4
<1>9. ASSUME NEW c \in C, NEW d \in C, Before(c, d)
      PROVE  Cardinality(Below(c)) < Cardinality(Below(d))
  <2>1. Below(c) \cup {c} \subseteq Below(d) /\ c \notin Below(c)
    BY <1>4, <1>5, <1>9
  <2>2. Cardinality(Below(c) \cup {c}) = Cardinality(Below(c)) + 1
    BY <1>7, <2>1, FS_AddElement
  <2>3. Cardinality(Below(c) \cup {c}) <= Cardinality(Below(d))
    BY <1>7, <2>1, FS_Subset
  <2>. HIDE DEF Below
  <2>. QED BY <1>7, <2>2, <2>3
<1>10. rank \in [C -> 0..N - 1]
  BY <1>8
<1>11. \A c, d \in C : rank[c] = rank[d] => c = d
  <2>. SUFFICES ASSUME NEW c \in C, NEW d \in C, Before(c, d) PROVE rank[c] # rank[d]
    BY <1>6
  <2>1. Cardinality(Below(c)) \in Nat /\ Cardinality(Below(d)) \in Nat
    BY <1>7
  <2>2. Cardinality(Below(c)) # Cardinality(Below(d))
    <3>. HIDE DEF Below
    <3>. QED BY <1>9, <2>1
  <2>. QED BY <2>2
<1>12. rank \in Injection(C, 0..N - 1)
  <2>. HIDE DEF rank
  <2>. QED BY <1>10, <1>11 DEF Injection, IsInjective
<1>13. IsFiniteSet(0..N - 1) /\ Cardinality(0..N - 1) = N
  BY <1>1, FS_Interval
<1>14. rank \in Surjection(C, 0..N - 1)
  <2>. HIDE DEF rank
  <2>. QED BY <1>12, <1>13, FS_Injection DEF N
<1>15. k - 1 \in 0..N - 1
  BY <1>1 DEF N
<1>16. \E c \in C : rank[c] = k - 1
  <2>. HIDE DEF rank
  <2>. QED BY <1>14, <1>15 DEF Surjection
<1>. QED BY <1>16
-----------------------------------------------------------------------------
(* Folds, one step at a time.                                              *)

\* What a fold of F over the first n entries of a sequence computes.
FoldedBy(g, n, base, F) ==
  \A s \in SUBSET (1..n) : g[s] = IF s = {} THEN base ELSE F[<<g[s \ {Max(s)}], Max(s)>>]

\* A fold of the first n entries of a sequence has a value: the function its
\* definition chooses exists.
LEMMA FoldExists ==
  ASSUME NEW n \in Nat, NEW V, NEW base \in V, NEW F \in [V \X (1..n) -> V]
  PROVE  \E g \in [SUBSET (1..n) -> V] : FoldedBy(g, n, base, F)
<1>. DEFINE Folds(m, g) ==
              \A s \in SUBSET (1..m) :
                g[s] = IF s = {} THEN base ELSE F[<<g[s \ {Max(s)}], Max(s)>>]
            T == {m \in 0..n : \E g \in [SUBSET (1..m) -> V] : Folds(m, g)}
<1>1. 0 \in T
  <2>. DEFINE g == [s \in SUBSET (1..0) |-> base]
  <2>1. \A s \in SUBSET (1..0) : s = {}
    OBVIOUS
  <2>2. g \in [SUBSET (1..0) -> V] /\ Folds(0, g)
    BY <2>1
  <2>3. 0 \in 0..n
    OBVIOUS
  <2>. HIDE DEF g, Folds
  <2>. QED BY <2>2, <2>3
<1>2. ASSUME NEW m \in 0..n, m \in T, m < n PROVE m + 1 \in T
  <2>1. PICK g \in [SUBSET (1..m) -> V] : Folds(m, g)
    BY <1>2
  <2>. DEFINE h == [s \in SUBSET (1..m + 1) |->
                      IF m + 1 \in s THEN F[<<g[s \ {m + 1}], m + 1>>] ELSE g[s]]
  <2>2. \A s \in SUBSET (1..m + 1) : s \ {m + 1} \in SUBSET (1..m)
    OBVIOUS
  <2>3. \A s \in SUBSET (1..m + 1) : m + 1 \notin s => s \in SUBSET (1..m)
    OBVIOUS
  <2>4. m + 1 \in 1..n
    BY <1>2
  <2>5. h \in [SUBSET (1..m + 1) -> V]
    BY <2>2, <2>3, <2>4
  <2>6. ASSUME NEW s \in SUBSET (1..m + 1), s # {}
        PROVE  h[s] = F[<<h[s \ {Max(s)}], Max(s)>>]
    <3>1. Max(s) \in s /\ \A y \in s : Max(s) >= y
      <4>1. m + 1 \in Nat /\ s \subseteq 1..m + 1
        OBVIOUS
      <4>. QED BY <2>6, <4>1, MaxIn
    <3>4. Max(s) \in 1..m + 1
      BY <3>1
    <3>2. CASE m + 1 \in s
      <4>1. Max(s) = m + 1
        <5>1. Max(s) >= m + 1
          BY <3>1, <3>2
        <5>. QED BY <3>4, <5>1
      <4>2. m + 1 \notin s \ {m + 1} /\ s \ {m + 1} \in SUBSET (1..m + 1)
        OBVIOUS
      <4>3. h[s \ {m + 1}] = g[s \ {m + 1}]
        BY <4>2
      <4>4. h[s] = F[<<g[s \ {m + 1}], m + 1>>]
        BY <3>2
      <4>. HIDE DEF h
      <4>. QED BY <4>1, <4>3, <4>4
    <3>3. CASE m + 1 \notin s
      <4>1. s \in SUBSET (1..m) /\ s \ {Max(s)} \in SUBSET (1..m + 1)
        BY <2>3, <3>3
      <4>2. h[s] = g[s] /\ h[s \ {Max(s)}] = g[s \ {Max(s)}]
        BY <3>3, <4>1
      <4>3. g[s] = F[<<g[s \ {Max(s)}], Max(s)>>]
        BY <2>1, <2>6, <4>1
      <4>. HIDE DEF h
      <4>. QED BY <4>2, <4>3
    <3>. QED BY <3>2, <3>3
  <2>7. h[{}] = base
    <3>1. {} \in SUBSET (1..m + 1) /\ {} \in SUBSET (1..m) /\ m + 1 \notin {}
      OBVIOUS
    <3>2. h[{}] = g[{}]
      BY <3>1
    <3>. QED BY <2>1, <3>1, <3>2
  <2>8. Folds(m + 1, h)
    <3>. HIDE DEF h
    <3>. QED BY <2>6, <2>7
  <2>9. m + 1 \in 0..n
    BY <1>2
  <2>. HIDE DEF h, Folds
  <2>. QED BY <2>5, <2>8, <2>9
<1>3. n \in T
  <2>. HIDE DEF T
  <2>1. \A k \in 0..n : k \in T
    BY <1>1, <1>2, UpTo
  <2>. QED BY <2>1
<1>4. \E g \in [SUBSET (1..n) -> V] : Folds(n, g)
  <2>. HIDE DEF Folds
  <2>. QED BY <1>3
<1>. QED BY <1>4 DEF FoldedBy

\* The sets a fold goes through, from the last entry down to none.
LEMMA Downward ==
  ASSUME NEW k \in Nat, k # 0
  PROVE  Max(1..k) = k /\ 1..k # {} /\ (1..k) \ {k} = 1..(k - 1)
<1>1. k \in 1..k /\ 1..k # {} /\ (1..k) \ {k} = 1..(k - 1)
  OBVIOUS
<1>2. Max(1..k) \in 1..k /\ \A y \in 1..k : Max(1..k) >= y
  BY <1>1, MaxIn
<1>3. PICK x : x = Max(1..k)
  OBVIOUS
<1>4. x \in 1..k /\ x >= k
  BY <1>1, <1>2, <1>3
<1>5. x = k
  BY <1>4
<1>. QED BY <1>1, <1>3, <1>5

\* One edit applied to a text gives a text, no longer counted if refused.
LEMMA ApplyOne ==
  ASSUME NEW m \in Nat, NEW e \in EditsIn(m),
         NEW acc \in [text : Seq(Cell), applied : Nat]
  PROVE  ApplyEdit(acc, e) \in [text : Seq(Cell), applied : Nat]
<1>1. e.start \in 0..m /\ e.end \in 0..m /\ (e.text = <<>> \/ e.text = <<"p">>)
  BY DEF EditsIn
<1>2. acc.text \in Seq(Cell) /\ Len(acc.text) \in Nat /\ acc.applied \in Nat
  BY LenProperties
<1>3. \A i \in 1..Len(acc.text) : acc.text[i] \in Cell
  BY <1>2, ElementOfSeq
<1>4. CASE e.end > Len(acc.text) \/ e.start > e.end
  BY <1>4 DEF ApplyEdit
<1>5. CASE ~(e.end > Len(acc.text) \/ e.start > e.end)
  <2>1. SubSeq(acc.text, 1, e.start) \in Seq(Cell)
    <3>1. \A i \in 1..e.start : acc.text[i] \in Cell
      BY <1>1, <1>2, <1>3, <1>5
    <3>. QED BY <1>1, <3>1, SubSeqProperties
  <2>2. SubSeq(acc.text, e.end + 1, Len(acc.text)) \in Seq(Cell)
    <3>1. \A i \in e.end + 1..Len(acc.text) : acc.text[i] \in Cell
      BY <1>1, <1>2, <1>3
    <3>2. e.end + 1 \in Int /\ Len(acc.text) \in Int
      BY <1>1, <1>2
    <3>. QED BY <3>1, <3>2, SubSeqProperties
  <2>3. e.text \in Seq(Cell)
    <3>1. "p" \in Cell
      BY DEF Cell
    <3>2. <<>> \in Seq(Cell) /\ Append(<<>>, "p") \in Seq(Cell)
      BY <3>1, EmptySeq, AppendProperties
    <3>3. <<"p">> = Append(<<>>, "p")
      OBVIOUS
    <3>. QED BY <1>1, <3>2, <3>3
  <2>4. SubSeq(acc.text, 1, e.start) \o e.text \o SubSeq(acc.text, e.end + 1, Len(acc.text)) \in Seq(Cell)
    BY <2>1, <2>2, <2>3, ConcatProperties
  <2>. QED BY <1>2, <1>5, <2>4 DEF ApplyEdit
<1>. QED BY <1>4, <1>5

\* apply_edits, unfolded.
LEMMA ApplySteps ==
  ASSUME NEW t \in Seq(Cell), NEW m \in Nat, NEW edits \in Seq(EditsIn(m))
  PROVE  \E h : /\ h[0] = [text |-> t, applied |-> 0]
                /\ \A k \in 1..Len(edits) : h[k] = ApplyEdit(h[k - 1], edits[k])
                /\ ApplyEdits(t, edits) = h[Len(edits)]
<1>. DEFINE n == Len(edits)
            V == [text : Seq(Cell), applied : Nat]
            base == [text |-> t, applied |-> 0]
            F == [p \in V \X (1..n) |-> ApplyEdit(p[1], edits[p[2]])]
            Step(g, s) == IF s = {} THEN base ELSE ApplyEdit(g[s \ {Max(s)}], edits[Max(s)])
            iter[s \in SUBSET DOMAIN edits] ==
              IF s = {} THEN base ELSE ApplyEdit(iter[s \ {Max(s)}], edits[Max(s)])
<1>1. n \in Nat /\ DOMAIN edits = 1..n /\ \A k \in 1..n : edits[k] \in EditsIn(m)
  BY LenProperties, ElementOfSeq
<1>2. base \in V
  BY EmptySeq
<1>3. \A acc \in V, k \in 1..n : ApplyEdit(acc, edits[k]) \in V
  BY <1>1, ApplyOne
<1>4. \E g : g = [s \in SUBSET DOMAIN edits |-> Step(g, s)]
  <2>1. F \in [V \X (1..n) -> V]
    <3>. HIDE DEF V, n
    <3>. QED BY <1>3
  <2>2. PICK g \in [SUBSET (1..n) -> V] : FoldedBy(g, n, base, F)
    <3>. HIDE DEF F, V, base, n
    <3>. QED BY <1>1, <1>2, <2>1, FoldExists
  <2>3. ASSUME NEW s \in SUBSET (1..n), s # {}
        PROVE  F[<<g[s \ {Max(s)}], Max(s)>>] = ApplyEdit(g[s \ {Max(s)}], edits[Max(s)])
    <3>1. Max(s) \in 1..n
      <4>. HIDE DEF n
      <4>. QED BY <1>1, <2>3, MaxIn
    <3>2. g[s \ {Max(s)}] \in V
      OBVIOUS
    <3>3. <<g[s \ {Max(s)}], Max(s)>> \in V \X (1..n)
      <4>. HIDE DEF V, n
      <4>. QED BY <3>1, <3>2
    <3>. HIDE DEF V, n
    <3>. QED BY <3>3
  <2>4. g = [s \in SUBSET (1..n) |-> Step(g, s)]
    <3>. HIDE DEF F, V, base, n
    <3>. QED BY <2>2, <2>3 DEF FoldedBy
  <2>. HIDE DEF Step
  <2>. QED BY <1>1, <2>4
<1>5. iter = [s \in SUBSET DOMAIN edits |-> Step(iter, s)]
  BY <1>4, Zenon
<1>6. ApplyEdits(t, edits) = iter[DOMAIN edits]
  BY DEF ApplyEdits, FoldLeft, MapThenFoldSet
<1>. DEFINE h == [k \in 0..n |-> iter[1..k]]
<1>. HIDE DEF iter
<1>7. h[0] = base
  <2>1. 1..0 = {} /\ {} \in SUBSET DOMAIN edits /\ 0 \in 0..n
    BY <1>1
  <2>2. iter[{}] = base
    <3>. HIDE DEF base
    <3>. QED BY <1>5, <2>1
  <2>. HIDE DEF base
  <2>. QED BY <2>1, <2>2
<1>8. ASSUME NEW k \in 1..n PROVE h[k] = ApplyEdit(h[k - 1], edits[k])
  <2>1. k \in Nat /\ k # 0 /\ k \in 0..n /\ k - 1 \in 0..n
    BY <1>1
  <2>2. Max(1..k) = k /\ 1..k # {} /\ (1..k) \ {k} = 1..(k - 1)
    BY <2>1, Downward
  <2>3. (1..k) \in SUBSET DOMAIN edits
    BY <1>1
  <2>4. iter[1..k] = Step(iter, 1..k)
    <3>. HIDE DEF Step
    <3>. QED BY <1>5, <2>3
  <2>5. iter[1..k] = ApplyEdit(iter[1..(k - 1)], edits[k])
    BY <2>2, <2>4
  <2>6. h[k] = iter[1..k] /\ h[k - 1] = iter[1..(k - 1)]
    BY <2>1
  <2>. HIDE DEF h
  <2>. QED BY <2>5, <2>6
<1>9. h[n] = iter[DOMAIN edits]
  <2>1. n \in 0..n
    BY <1>1
  <2>. QED BY <1>1, <2>1
<1>. HIDE DEF h, base
<1>. QED BY <1>6, <1>7, <1>8, <1>9 DEF base

\* Accepting a candidate keeps the state of the walk a state.
LEMMA AcceptOne ==
  ASSUME NEW m \in Nat, NEW c \in Candidates(m),
         NEW acc \in [last : Nat, edits : Seq(EditsIn(m))]
  PROVE  Accept(acc, c) \in [last : Nat, edits : Seq(EditsIn(m))]
<1>1. c.edit \in EditsIn(m) /\ c.edit.start \in Nat
  BY DEF Candidates, EditsIn
<1>2. Append(acc.edits, c.edit) \in Seq(EditsIn(m))
  BY <1>1, AppendProperties
<1>. QED BY <1>1, <1>2 DEF Accept

\* The walk over the sorted edits, unfolded.
LEMMA AcceptSteps ==
  ASSUME NEW m \in Nat, NEW sorted \in Seq(Candidates(m))
  PROVE  \E h : /\ h[0] = [last |-> UsizeMax, edits |-> <<>>]
                /\ \A k \in 1..Len(sorted) : h[k] = Accept(h[k - 1], sorted[k])
                /\ FoldLeft(Accept, [last |-> UsizeMax, edits |-> <<>>], sorted) = h[Len(sorted)]
<1>. DEFINE n == Len(sorted)
            V == [last : Nat, edits : Seq(EditsIn(m))]
            base == [last |-> UsizeMax, edits |-> <<>>]
            F == [p \in V \X (1..n) |-> Accept(p[1], sorted[p[2]])]
            Step(g, s) == IF s = {} THEN base ELSE Accept(g[s \ {Max(s)}], sorted[Max(s)])
            iter[s \in SUBSET DOMAIN sorted] ==
              IF s = {} THEN base ELSE Accept(iter[s \ {Max(s)}], sorted[Max(s)])
<1>1. n \in Nat /\ DOMAIN sorted = 1..n /\ \A k \in 1..n : sorted[k] \in Candidates(m)
  BY LenProperties, ElementOfSeq
<1>2. base \in V
  BY EmptySeq DEF UsizeMax
<1>3. \A acc \in V, k \in 1..n : Accept(acc, sorted[k]) \in V
  BY <1>1, AcceptOne
<1>4. \E g : g = [s \in SUBSET DOMAIN sorted |-> Step(g, s)]
  <2>1. F \in [V \X (1..n) -> V]
    <3>. HIDE DEF V, n
    <3>. QED BY <1>3
  <2>2. PICK g \in [SUBSET (1..n) -> V] : FoldedBy(g, n, base, F)
    <3>. HIDE DEF F, V, base, n
    <3>. QED BY <1>1, <1>2, <2>1, FoldExists
  <2>3. ASSUME NEW s \in SUBSET (1..n), s # {}
        PROVE  F[<<g[s \ {Max(s)}], Max(s)>>] = Accept(g[s \ {Max(s)}], sorted[Max(s)])
    <3>1. Max(s) \in 1..n
      <4>. HIDE DEF n
      <4>. QED BY <1>1, <2>3, MaxIn
    <3>2. g[s \ {Max(s)}] \in V
      OBVIOUS
    <3>3. <<g[s \ {Max(s)}], Max(s)>> \in V \X (1..n)
      <4>. HIDE DEF V, n
      <4>. QED BY <3>1, <3>2
    <3>. HIDE DEF V, n
    <3>. QED BY <3>3
  <2>4. g = [s \in SUBSET (1..n) |-> Step(g, s)]
    <3>. HIDE DEF F, V, base, n
    <3>. QED BY <2>2, <2>3 DEF FoldedBy
  <2>. HIDE DEF Step
  <2>. QED BY <1>1, <2>4
<1>5. iter = [s \in SUBSET DOMAIN sorted |-> Step(iter, s)]
  BY <1>4, Zenon
<1>6. FoldLeft(Accept, [last |-> UsizeMax, edits |-> <<>>], sorted) = iter[DOMAIN sorted]
  BY DEF FoldLeft, MapThenFoldSet
<1>. DEFINE h == [k \in 0..n |-> iter[1..k]]
<1>. HIDE DEF iter
<1>7. h[0] = base
  <2>1. 1..0 = {} /\ {} \in SUBSET DOMAIN sorted /\ 0 \in 0..n
    BY <1>1
  <2>2. iter[{}] = base
    <3>. HIDE DEF base
    <3>. QED BY <1>5, <2>1
  <2>. HIDE DEF base
  <2>. QED BY <2>1, <2>2
<1>8. ASSUME NEW k \in 1..n PROVE h[k] = Accept(h[k - 1], sorted[k])
  <2>1. k \in Nat /\ k # 0 /\ k \in 0..n /\ k - 1 \in 0..n
    BY <1>1
  <2>2. Max(1..k) = k /\ 1..k # {} /\ (1..k) \ {k} = 1..(k - 1)
    BY <2>1, Downward
  <2>3. (1..k) \in SUBSET DOMAIN sorted
    BY <1>1
  <2>4. iter[1..k] = Step(iter, 1..k)
    <3>. HIDE DEF Step
    <3>. QED BY <1>5, <2>3
  <2>5. iter[1..k] = Accept(iter[1..(k - 1)], sorted[k])
    BY <2>2, <2>4
  <2>6. h[k] = iter[1..k] /\ h[k - 1] = iter[1..(k - 1)]
    BY <2>1
  <2>. HIDE DEF h
  <2>. QED BY <2>5, <2>6
<1>9. h[n] = iter[DOMAIN sorted]
  <2>1. n \in 0..n
    BY <1>1
  <2>. QED BY <1>1, <2>1
<1>. HIDE DEF h, base
<1>. QED BY <1>6, <1>7, <1>8, <1>9 DEF base

-----------------------------------------------------------------------------
(* What is collected, and what is applied.                                 *)

\* Edits to apply one after the other: each ends where the one before it
\* begins, or earlier.
Backwards(edits) == \A k \in 1..Len(edits) - 1 : edits[k + 1].end <= edits[k].start

\* collect_edits: "drop any edit whose range overlaps an already-accepted one".
LEMMA AcceptedBackwards ==
  ASSUME NEW m \in Nat, NEW sorted \in Seq(Candidates(m))
  PROVE  LET edits == FoldLeft(Accept, [last |-> UsizeMax, edits |-> <<>>], sorted).edits
         IN  edits \in Seq(EditsIn(m)) /\ Backwards(edits)
<1>. DEFINE n == Len(sorted)
            V == [last : Nat, edits : Seq(EditsIn(m))]
            Good(acc) == /\ acc \in V /\ Backwards(acc.edits)
                         /\ acc.edits # <<>> => acc.last = acc.edits[Len(acc.edits)].start
<1>1. n \in Nat /\ \A k \in 1..n : sorted[k] \in Candidates(m)
  BY LenProperties, ElementOfSeq
<1>2. PICK h : /\ h[0] = [last |-> UsizeMax, edits |-> <<>>]
               /\ \A k \in 1..n : h[k] = Accept(h[k - 1], sorted[k])
               /\ FoldLeft(Accept, [last |-> UsizeMax, edits |-> <<>>], sorted) = h[n]
  BY AcceptSteps
<1>8. \A k \in 1..n : h[k] = Accept(h[k - 1], sorted[k])
  BY <1>2
<1>3. Good(h[0])
  <2>1. <<>> \in Seq(EditsIn(m)) /\ Len(<<>>) = 0
    BY EmptySeq
  <2>. QED BY <1>2, <2>1 DEF Backwards, UsizeMax
<1>4. ASSUME NEW acc, Good(acc), NEW c \in Candidates(m) PROVE Good(Accept(acc, c))
  <2>1. Accept(acc, c) \in V
    BY <1>4, AcceptOne
  <2>2. CASE c.edit.end > acc.last
    BY <1>4, <2>2 DEF Accept
  <2>3. CASE ~(c.edit.end > acc.last)
    <3>. DEFINE l == Len(acc.edits)
                new == Append(acc.edits, c.edit)
    <3>1. acc.edits \in Seq(EditsIn(m)) /\ c.edit \in EditsIn(m) /\ acc.last \in Nat
      BY <1>4 DEF Candidates
    <3>2. l \in Nat /\ c.edit.end \in Nat
      BY <3>1, LenProperties DEF EditsIn
    <3>3. /\ new \in Seq(EditsIn(m)) /\ new # <<>> /\ Len(new) = l + 1
          /\ \A k \in 1..l : new[k] = acc.edits[k]
          /\ new[l + 1] = c.edit
      BY <3>1, AppendProperties
    <3>4. Accept(acc, c) = [last |-> c.edit.start, edits |-> new]
      BY <2>3 DEF Accept
    <3>5. c.edit.end <= acc.last
      BY <2>3, <3>1, <3>2
    <3>. HIDE DEF new
    <3>6. Backwards(new)
      <4>. SUFFICES ASSUME NEW k \in 1..l PROVE new[k + 1].end <= new[k].start
        BY <3>2, <3>3 DEF Backwards
      <4>1. CASE k < l
        <5>1. k \in 1..l - 1 /\ k + 1 \in 1..l
          BY <3>2, <4>1
        <5>2. acc.edits[k + 1].end <= acc.edits[k].start
          BY <1>4, <5>1 DEF Backwards
        <5>. QED BY <3>3, <5>1, <5>2
      <4>2. CASE k = l
        <5>1. acc.edits # <<>>
          BY <3>1, <4>2, EmptySeq
        <5>2. acc.last = acc.edits[l].start
          BY <1>4, <5>1
        <5>. QED BY <3>3, <3>5, <4>2, <5>2
      <4>. QED BY <3>2, <4>1, <4>2
    <3>. QED BY <2>1, <3>3, <3>4, <3>6
  <2>. QED BY <2>2, <2>3
<1>. DEFINE T == {k \in 0..n : Good(h[k])}
<1>5. 0 \in T
  <2>1. 0 \in 0..n
    BY <1>1
  <2>. HIDE DEF Good
  <2>. QED BY <1>3, <2>1
<1>6. ASSUME NEW k \in 0..n, k \in T, k < n PROVE k + 1 \in T
  <2>1. k + 1 \in 1..n /\ k + 1 \in 0..n /\ k + 1 - 1 = k
    BY <1>1, <1>6
  <2>2. h[k + 1] = Accept(h[k + 1 - 1], sorted[k + 1]) /\ sorted[k + 1] \in Candidates(m)
    <3>. HIDE DEF n
    <3>. QED BY <1>1, <1>8, <2>1
  <2>. HIDE DEF Good
  <2>. QED BY <1>4, <1>6, <2>1, <2>2
<1>7. Good(h[n])
  <2>1. \A k \in 0..n : k \in T
    <3>. HIDE DEF T, n
    <3>. QED BY <1>1, <1>5, <1>6, UpTo
  <2>2. n \in 0..n
    BY <1>1
  <2>. HIDE DEF Good
  <2>. QED BY <2>1, <2>2
<1>. QED BY <1>2, <1>7

\* The length of a text put together from two.
LEMMA ConcatLen ==
  ASSUME NEW S, NEW a \in Seq(S), NEW b \in Seq(S)
  PROVE  a \o b \in Seq(S) /\ Len(a \o b) = Len(a) + Len(b) /\ Len(b) \in Nat
BY ConcatProperties, LenProperties

\* What is collected from a text's own diagnostics fits it, and runs backwards.
THEOREM CollectedEdits ==
  ASSUME NEW t \in Seq(Cell), NEW kin
  PROVE  LET edits == CollectEdits(Diagnostics(t, kin))
         IN  edits \in Seq(EditsIn(Len(t))) /\ Backwards(edits)
<1>. DEFINE n == Len(t)
            diags == Diagnostics(t, kin)
            C == UNION {{[app |-> s.app, edit |-> e] : e \in s.edits} :
                          s \in {d \in diags : Applicable(d)}}
            At(k) == CHOOSE c \in C : Cardinality({d \in C : Before(d, c)}) = k - 1
            sorted == [k \in 1..Cardinality(C) |-> At(k)]
<1>1. n \in Nat /\ diags \subseteq SuggestionsIn(n)
  BY LenProperties, DiagnosticsIn
<1>2. C \subseteq Candidates(n)
  <2>. SUFFICES ASSUME NEW s \in diags, Applicable(s), NEW e \in s.edits
                PROVE  [app |-> s.app, edit |-> e] \in Candidates(n)
    OBVIOUS
  <2>1. s.app = "machine" /\ e \in EditsIn(n)
    BY <1>1 DEF SuggestionsIn, Applicable
  <2>. QED BY <2>1 DEF Candidates
<1>3. Cardinality(C) \in Nat
  <2>. HIDE DEF C, n
  <2>. QED BY <1>1, <1>2, CandidatesFinite, FS_CardinalityType
<1>4. CollectEdits(diags) = FoldLeft(Accept, [last |-> UsizeMax, edits |-> <<>>], sorted).edits
  BY DEF CollectEdits
<1>. HIDE DEF C, n, diags
<1>5. ASSUME NEW k \in 1..Cardinality(C) PROVE At(k) \in Candidates(n)
  <2>1. \E c \in C : Cardinality({d \in C : Before(d, c)}) = k - 1
    BY <1>1, <1>2, Ranked
  <2>2. At(k) \in C
    BY <2>1, Zenon
  <2>. HIDE DEF At
  <2>. QED BY <1>2, <2>2
<1>6. sorted \in Seq(Candidates(n))
  <2>. HIDE DEF At
  <2>. QED BY <1>3, <1>5, IsASeq
<1>. HIDE DEF sorted
<1>7. LET edits == FoldLeft(Accept, [last |-> UsizeMax, edits |-> <<>>], sorted).edits
      IN  edits \in Seq(EditsIn(n)) /\ Backwards(edits)
  BY <1>1, <1>6, AcceptedBackwards
<1>8. CollectEdits(diags) \in Seq(EditsIn(n)) /\ Backwards(CollectEdits(diags))
  BY <1>4, <1>7, Zenon
<1>. QED BY <1>8 DEF n, diags

\* apply_edits refuses none of them: each is still within what the others left,
\* and where there is none the text is the one it was.
THEOREM EveryEditApplied ==
  ASSUME NEW t \in Seq(Cell), NEW edits \in Seq(EditsIn(Len(t))), Backwards(edits)
  PROVE  LET result == ApplyEdits(t, edits)
         IN  /\ result.text \in Seq(Cell)
             /\ result.applied = Len(edits)
             /\ edits = <<>> => result.text = t
<1>. DEFINE n == Len(edits)
            V == [text : Seq(Cell), applied : Nat]
            Reach(k) == IF k = 0 THEN Len(t) ELSE edits[k].start
<1>1. Len(t) \in Nat /\ n \in Nat
  BY LenProperties
<1>2. \A k \in 1..n : edits[k] \in EditsIn(Len(t))
  BY ElementOfSeq
<1>3. PICK h : /\ h[0] = [text |-> t, applied |-> 0]
               /\ \A k \in 1..n : h[k] = ApplyEdit(h[k - 1], edits[k])
               /\ ApplyEdits(t, edits) = h[n]
  BY <1>1, ApplySteps
<1>. DEFINE Good(k) == h[k] \in V /\ h[k].applied = k /\ Len(h[k].text) >= Reach(k)
            T == {k \in 0..n : Good(k)}
<1>4. 0 \in T
  <2>1. 0 \in 0..n
    BY <1>1
  <2>2. h[0] \in V /\ h[0].applied = 0 /\ Len(h[0].text) >= Len(t)
    BY <1>1, <1>3
  <2>. QED BY <2>1, <2>2
<1>5. ASSUME NEW k \in 0..n, Good(k), k < n PROVE Good(k + 1)
  <2>. DEFINE e == edits[k + 1]
              text == h[k].text
  <2>1. k + 1 \in 1..n /\ k + 1 - 1 = k /\ k + 1 # 0
    BY <1>1, <1>5
  <2>2. h[k + 1] = ApplyEdit(h[k], e)
    BY <1>3, <2>1
  <2>3. e \in EditsIn(Len(t))
    BY <1>2, <2>1
  <2>4. /\ e.start \in Nat /\ e.end \in Nat /\ e.end <= Len(t) /\ e.start <= e.end
        /\ e.text = <<>> \/ e.text = <<"p">>
    BY <1>1, <2>3 DEF EditsIn
  <2>5. text \in Seq(Cell) /\ Len(text) \in Nat
    BY <1>5, LenProperties
  <2>6. e.end <= Reach(k)
    <3>1. CASE k = 0
      BY <2>4, <3>1
    <3>2. CASE k # 0
      <4>1. k \in 1..n - 1
        BY <1>1, <1>5, <3>2
      <4>. QED BY <3>2, <4>1 DEF Backwards
    <3>. QED BY <3>1, <3>2
  <2>7. Reach(k) \in Nat
    <3>1. CASE k = 0
      BY <1>1, <3>1
    <3>2. CASE k # 0
      <4>1. k \in 1..n
        BY <3>2
      <4>. QED BY <1>2, <3>2, <4>1 DEF EditsIn
    <3>. QED BY <3>1, <3>2
  <2>8. e.end <= Len(text)
    <3>. HIDE DEF Reach, e
    <3>. QED BY <1>5, <2>4, <2>5, <2>6, <2>7
  <2>9. h[k + 1] \in V
    <3>. HIDE DEF e
    <3>. QED BY <1>1, <1>5, <2>2, <2>3, ApplyOne
  <2>. HIDE DEF e
  <2>10. h[k + 1] = [text |-> SubSeq(text, 1, e.start) \o e.text
                                 \o SubSeq(text, e.end + 1, Len(text)),
                     applied |-> h[k].applied + 1]
    BY <2>2, <2>4, <2>5, <2>8 DEF ApplyEdit
  <2>11. SubSeq(text, 1, e.start) \in Seq(Cell) /\ Len(SubSeq(text, 1, e.start)) = e.start
    <3>1. \A i \in 1..e.start : text[i] \in Cell
      BY <2>4, <2>5, <2>8, ElementOfSeq
    <3>. QED BY <2>4, <3>1, SubSeqProperties
  <2>12. SubSeq(text, e.end + 1, Len(text)) \in Seq(Cell)
    <3>1. \A i \in e.end + 1..Len(text) : text[i] \in Cell
      BY <2>4, <2>5, ElementOfSeq
    <3>2. e.end + 1 \in Int /\ Len(text) \in Int
      BY <2>4, <2>5
    <3>. QED BY <3>1, <3>2, SubSeqProperties
  <2>13. e.text \in Seq(Cell)
    <3>1. "p" \in Cell
      BY DEF Cell
    <3>2. <<>> \in Seq(Cell) /\ Append(<<>>, "p") \in Seq(Cell)
      BY <3>1, EmptySeq, AppendProperties
    <3>3. <<"p">> = Append(<<>>, "p")
      OBVIOUS
    <3>. QED BY <2>4, <3>2, <3>3
  <2>. DEFINE a == SubSeq(text, 1, e.start)
              b == SubSeq(text, e.end + 1, Len(text))
  <2>14. Len(a \o e.text \o b) >= e.start
    <3>. HIDE DEF a, b, text
    <3>1. a \in Seq(Cell) /\ b \in Seq(Cell) /\ Len(a) = e.start
      BY <2>11, <2>12 DEF a, b
    <3>2. /\ a \o e.text \in Seq(Cell) /\ Len(e.text) \in Nat
          /\ Len(a \o e.text) = Len(a) + Len(e.text)
      BY <2>13, <3>1, ConcatLen
    <3>3. /\ Len((a \o e.text) \o b) = Len(a \o e.text) + Len(b) /\ Len(b) \in Nat
      BY <3>1, <3>2, ConcatLen
    <3>. QED BY <2>4, <3>1, <3>2, <3>3
  <2>15. h[k + 1].applied = k + 1 /\ Len(h[k + 1].text) >= e.start
    <3>1. h[k].applied = k
      BY <1>5
    <3>2. h[k + 1] = [text |-> a \o e.text \o b, applied |-> h[k].applied + 1]
      BY <2>10
    <3>. HIDE DEF a, b
    <3>. QED BY <2>14, <3>1, <3>2
  <2>16. Reach(k + 1) = e.start
    BY <2>1 DEF e
  <2>. HIDE DEF Reach
  <2>. QED BY <2>9, <2>15, <2>16
<1>. HIDE DEF Good
<1>6. n \in T
  <2>1. \A k \in 0..n : k \in T /\ k < n => k + 1 \in T
    <3>. SUFFICES ASSUME NEW k \in 0..n, k \in T, k < n PROVE k + 1 \in T
      OBVIOUS
    <3>1. k + 1 \in 0..n
      BY <1>1
    <3>2. Good(k + 1)
      BY <1>5
    <3>. QED BY <3>1, <3>2
  <2>2. n \in 0..n
    BY <1>1
  <2>3. \A k \in 0..n : k \in T
    <3>. HIDE DEF T, n
    <3>. QED BY <1>1, <1>4, <2>1, UpTo
  <2>. QED BY <2>2, <2>3
<1>7. ApplyEdits(t, edits).text \in Seq(Cell) /\ ApplyEdits(t, edits).applied = n
  BY <1>3, <1>6 DEF Good
<1>8. edits = <<>> => ApplyEdits(t, edits).text = t
  <2>1. edits = <<>> => n = 0
    BY EmptySeq
  <2>. QED BY <1>3, <2>1
<1>. QED BY <1>7, <1>8
-----------------------------------------------------------------------------
(* The batch commands.                                                     *)

\* Where the command is with the source at hand.
Writing == {"write", "sync", "rename", "sync_dir"}
Busy == {"fix", "format", "fixed", "profile", "report"} \cup Writing

Pcs == {"start", "next", "done", "dead"} \cup Busy

Flags == profiled \in BOOLEAN /\ failed \in BOOLEAN /\ deny \in BOOLEAN

TypeOK ==
  /\ Flags
  /\ command \in Commands /\ batch \in Seq(Files \cup {Stdin}) /\ family \in Families
  /\ denied \in SUBSET Rules
  /\ pc \in Pcs /\ pos \in 1..Len(batch) + 1
  /\ reported \subseteq 1..Len(batch)
  /\ DOMAIN disk = Files /\ DOMAIN durable = Files /\ DOMAIN whole = Files
  /\ disk = [f \in Files |-> disk[f]] /\ durable = [f \in Files |-> durable[f]]
  /\ whole = [f \in Files |-> whole[f]]

\* Which step a command can be at: format reports nothing, and only format and
\* fix write, files only.
Course ==
  /\ pc \in Busy => pos \in 1..Len(batch)
  /\ pc \in Writing => command \in {"fix", "format"} /\ Source \in Files
  /\ pc \in {"fix", "fixed"} => command = "fix"
  /\ pc = "format" => command = "format"
  /\ pc \in {"profile", "report"} => command # "format"
  /\ pc = "start" => pos = 1 /\ reported = {}
  /\ pc \notin {"start", "done"} => DOMAIN contents = 1..Len(batch)

\* The temporary file holds a text handed to the write, synced before it is
\* renamed.
Staged ==
  /\ pc \in {"sync", "rename"} => temp.text \in whole[Source]
  /\ pc = "rename" => temp.synced
  /\ temp = [text |-> temp.text, synced |-> temp.synced]

\* While nothing failed, every source passed is reported; format reports none.
Tally ==
  /\ command # "format" /\ ~failed /\ pc # "dead" => reported = 1..pos - 1
  /\ reported \subseteq 1..pos - 1 /\ (command = "format" => reported = {})
  /\ pc = "done" /\ ~failed => pos = Len(batch) + 1

\* Whatever gates was seen when it was reported, and nothing else was.
Clean == deny <=> \E i \in reported : Gates(i)

BatchInv == TypeOK /\ Course /\ Staged /\ DiskWhole /\ Tally /\ Clean
-----------------------------------------------------------------------------
(* The frames.                                                             *)

\* It holds before anything is read.
LEMMA InitBatch == Init => BatchInv
<1>. SUFFICES ASSUME Init PROVE BatchInv
  OBVIOUS
<1>1. batch \in Seq(Files \cup {Stdin})
  BY LintFixAssumption DEF Init
<1>2. Len(batch) \in Nat
  BY <1>1, LenProperties
<1>3. TypeOK
  <2>1. Flags
    BY DEF Init, Flags
  <2>2. command \in Commands /\ family \in Families /\ denied \in SUBSET Rules /\ pc \in Pcs
    BY LintFixAssumption DEF Init, Pcs
  <2>3. pos \in 1..Len(batch) + 1 /\ reported \subseteq 1..Len(batch)
    BY <1>2 DEF Init
  <2>4. disk = [f \in Files |-> disk[f]] /\ durable = disk /\ whole = [f \in Files |-> {disk[f]}]
    BY DEF Init
  <2>. HIDE DEF Flags
  <2>. QED BY <1>1, <2>1, <2>2, <2>3, <2>4 DEF TypeOK
<1>4. Course /\ Staged /\ Tally /\ Clean
  BY <1>2 DEF Init, Course, Staged, Tally, Clean, Busy, Writing, NoTemp
<1>5. DiskWhole
  BY DEF Init, DiskWhole
<1>. QED BY <1>3, <1>4, <1>5 DEF BatchInv

\* The command line is never changed.
LEMMA SettingsStay == [Next]_vars => UNCHANGED settings
<1>. SUFFICES ASSUME [Next]_vars PROVE UNCHANGED settings
  OBVIOUS
<1>1. CASE ReadSources
  BY <1>1 DEF ReadSources
<1>2. CASE ReadFails
  BY <1>2 DEF ReadFails
<1>3. CASE LoadConfig
  BY <1>3 DEF LoadConfig
<1>4. CASE LoadFails
  BY <1>4 DEF LoadFails, Fail
<1>5. CASE Finish
  BY <1>5 DEF Finish
<1>6. CASE FixRound
  BY <1>6 DEF FixRound
<1>7. CASE FixSaturates
  BY <1>7 DEF FixSaturates
<1>8. CASE NothingFixed
  BY <1>8 DEF NothingFixed
<1>9. CASE PrintFixed
  BY <1>9 DEF PrintFixed
<1>10. CASE PrintFails
  BY <1>10 DEF PrintFails, Fail
<1>11. CASE FormatSame
  BY <1>11 DEF FormatSame
<1>12. CASE FormatStdin
  BY <1>12 DEF FormatStdin, Fail
<1>13. CASE FormatChanged
  BY <1>13 DEF FormatChanged
<1>14. CASE WriteFixed
  BY <1>14 DEF WriteFixed
<1>15. CASE Stage
  BY <1>15 DEF Stage
<1>16. CASE Sync
  BY <1>16 DEF Sync
<1>17. CASE Rename
  BY <1>17 DEF Rename
<1>18. CASE SyncDir
  BY <1>18 DEF SyncDir
<1>19. CASE WriteFails
  BY <1>19 DEF WriteFails, Fail
<1>20. CASE Resolve
  BY <1>20 DEF Resolve
<1>21. CASE ResolveFails
  BY <1>21 DEF ResolveFails, Fail
<1>22. CASE Report
  BY <1>22 DEF Report
<1>23. CASE \E f \in Files, text \in Saves : EditorSaves(f, text)
  BY <1>23 DEF EditorSaves
<1>24. CASE PowerLoss
  BY <1>24 DEF PowerLoss
<1>25. CASE UNCHANGED vars
  BY <1>25 DEF vars
<1>. QED BY <1>1, <1>2, <1>3, <1>4, <1>5, <1>6, <1>7, <1>8, <1>9, <1>10, <1>11, <1>12, <1>13, <1>14, <1>15, <1>16, <1>17, <1>18, <1>19, <1>20, <1>21, <1>22, <1>23, <1>24, <1>25 DEF Next, Command
-----------------------------------------------------------------------------
\* The flags stay flags.
LEMMA FlagsStep == ASSUME Flags, [Next]_vars PROVE Flags'
<1>1. CASE ReadSources
  BY <1>1 DEF ReadSources, settings, verdict, files, history, Flags
<1>2. CASE ReadFails
  BY <1>2 DEF ReadFails, settings, verdict, files, history, Flags
<1>3. CASE LoadConfig
  BY <1>3 DEF LoadConfig, settings, verdict, files, history, Flags
<1>4. CASE LoadFails
  BY <1>4 DEF LoadFails, Fail, NextSource, settings, verdict, files, history, Flags
<1>5. CASE Finish
  BY <1>5 DEF Finish, settings, verdict, files, history, Flags
<1>6. CASE FixRound
  BY <1>6 DEF FixRound, Round, settings, verdict, files, history, Flags
<1>7. CASE FixSaturates
  BY <1>7 DEF FixSaturates, settings, verdict, files, history, Flags
<1>8. CASE NothingFixed
  BY <1>8 DEF NothingFixed, settings, verdict, files, history, Flags
<1>9. CASE PrintFixed
  BY <1>9 DEF PrintFixed, settings, verdict, files, history, Flags
<1>10. CASE PrintFails
  BY <1>10 DEF PrintFails, Fail, NextSource, settings, verdict, files, history, Flags
<1>11. CASE FormatSame
  BY <1>11 DEF FormatSame, NextSource, settings, verdict, files, history, Flags
<1>12. CASE FormatStdin
  BY <1>12 DEF FormatStdin, Fail, NextSource, settings, verdict, files, history, Flags
<1>13. CASE FormatChanged
  BY <1>13 DEF FormatChanged, settings, verdict, files, history, Flags
<1>14. CASE WriteFixed
  BY <1>14 DEF WriteFixed, settings, verdict, files, history, Flags
<1>15. CASE Stage
  BY <1>15 DEF Stage, settings, verdict, files, history, Flags
<1>16. CASE Sync
  BY <1>16 DEF Sync, settings, verdict, files, history, Flags
<1>17. CASE Rename
  BY <1>17 DEF Rename, settings, verdict, files, history, Flags
<1>18. CASE SyncDir
  BY <1>18 DEF SyncDir, NextSource, settings, verdict, files, history, Flags
<1>19. CASE WriteFails
  BY <1>19 DEF WriteFails, Fail, NextSource, settings, verdict, files, history, Flags
<1>20. CASE Resolve
  BY <1>20 DEF Resolve, settings, verdict, files, history, Flags
<1>21. CASE ResolveFails
  BY <1>21 DEF ResolveFails, Fail, NextSource, settings, verdict, files, history, Flags
<1>22. CASE Report
  BY <1>22 DEF Report, NextSource, settings, verdict, files, history, Flags
<1>23. CASE \E f \in Files, text \in Saves : EditorSaves(f, text)
  BY <1>23 DEF EditorSaves, settings, verdict, files, history, Flags
<1>24. CASE PowerLoss
  BY <1>24 DEF PowerLoss, settings, verdict, files, history, Flags
<1>25. CASE UNCHANGED vars
  BY <1>25 DEF vars, settings, verdict, files, history, Flags
<1>. QED BY <1>1, <1>2, <1>3, <1>4, <1>5, <1>6, <1>7, <1>8, <1>9, <1>10, <1>11, <1>12, <1>13, <1>14, <1>15, <1>16, <1>17, <1>18, <1>19, <1>20, <1>21, <1>22, <1>23, <1>24, <1>25 DEF Next, Command

\* No step leaves the command line, the counters or the file names behind.
LEMMA TypeStep ==
  ASSUME TypeOK, Course, [Next]_vars
  PROVE  TypeOK'
<1>. DEFINE Bounds == /\ pc' \in Pcs /\ pos' \in 1..Len(batch) + 1
                      /\ reported' \subseteq 1..Len(batch)
            Tables == /\ DOMAIN disk' = Files /\ DOMAIN durable' = Files /\ DOMAIN whole' = Files
                      /\ disk' = [f \in Files |-> disk'[f]]
                      /\ durable' = [f \in Files |-> durable'[f]]
                      /\ whole' = [f \in Files |-> whole'[f]]
<1>1. Len(batch) \in Nat /\ pos \in 1..Len(batch) + 1 /\ reported \subseteq 1..Len(batch)
  BY LenProperties DEF TypeOK
<1>2. Bounds
<2>1. CASE ReadSources
  BY <1>1, <2>1 DEF ReadSources, settings, verdict, files, history, TypeOK, Course, Pcs, Busy, Writing, Commands
<2>2. CASE ReadFails
  BY <1>1, <2>2 DEF ReadFails, settings, verdict, files, history, TypeOK, Course, Pcs, Busy, Writing, Commands
<2>3. CASE LoadConfig
  BY <1>1, <2>3 DEF LoadConfig, settings, verdict, files, history, TypeOK, Course, Pcs, Busy, Writing, Commands
<2>4. CASE LoadFails
  BY <1>1, <2>4 DEF LoadFails, Fail, NextSource, settings, verdict, files, history, TypeOK, Course, Pcs, Busy, Writing, Commands
<2>5. CASE Finish
  BY <1>1, <2>5 DEF Finish, settings, verdict, files, history, TypeOK, Course, Pcs, Busy, Writing, Commands
<2>6. CASE FixRound
  BY <1>1, <2>6 DEF FixRound, Round, settings, verdict, files, history, TypeOK, Course, Pcs, Busy, Writing, Commands
<2>7. CASE FixSaturates
  BY <1>1, <2>7 DEF FixSaturates, settings, verdict, files, history, TypeOK, Course, Pcs, Busy, Writing, Commands
<2>8. CASE NothingFixed
  BY <1>1, <2>8 DEF NothingFixed, settings, verdict, files, history, TypeOK, Course, Pcs, Busy, Writing, Commands
<2>9. CASE PrintFixed
  BY <1>1, <2>9 DEF PrintFixed, settings, verdict, files, history, TypeOK, Course, Pcs, Busy, Writing, Commands
<2>10. CASE PrintFails
  BY <1>1, <2>10 DEF PrintFails, Fail, NextSource, settings, verdict, files, history, TypeOK, Course, Pcs, Busy, Writing, Commands
<2>11. CASE FormatSame
  BY <1>1, <2>11 DEF FormatSame, NextSource, settings, verdict, files, history, TypeOK, Course, Pcs, Busy, Writing, Commands
<2>12. CASE FormatStdin
  BY <1>1, <2>12 DEF FormatStdin, Fail, NextSource, settings, verdict, files, history, TypeOK, Course, Pcs, Busy, Writing, Commands
<2>13. CASE FormatChanged
  BY <1>1, <2>13 DEF FormatChanged, settings, verdict, files, history, TypeOK, Course, Pcs, Busy, Writing, Commands
<2>14. CASE WriteFixed
  BY <1>1, <2>14 DEF WriteFixed, settings, verdict, files, history, TypeOK, Course, Pcs, Busy, Writing, Commands
<2>15. CASE Stage
  BY <1>1, <2>15 DEF Stage, settings, verdict, files, history, TypeOK, Course, Pcs, Busy, Writing, Commands
<2>16. CASE Sync
  BY <1>1, <2>16 DEF Sync, settings, verdict, files, history, TypeOK, Course, Pcs, Busy, Writing, Commands
<2>17. CASE Rename
  BY <1>1, <2>17 DEF Rename, settings, verdict, files, history, TypeOK, Course, Pcs, Busy, Writing, Commands
<2>18. CASE SyncDir
  BY <1>1, <2>18 DEF SyncDir, NextSource, settings, verdict, files, history, TypeOK, Course, Pcs, Busy, Writing, Commands
<2>19. CASE WriteFails
  BY <1>1, <2>19 DEF WriteFails, Fail, NextSource, settings, verdict, files, history, TypeOK, Course, Pcs, Busy, Writing, Commands
<2>20. CASE Resolve
  BY <1>1, <2>20 DEF Resolve, settings, verdict, files, history, TypeOK, Course, Pcs, Busy, Writing, Commands
<2>21. CASE ResolveFails
  BY <1>1, <2>21 DEF ResolveFails, Fail, NextSource, settings, verdict, files, history, TypeOK, Course, Pcs, Busy, Writing, Commands
<2>22. CASE Report
  BY <1>1, <2>22 DEF Report, NextSource, settings, verdict, files, history, TypeOK, Course, Pcs, Busy, Writing, Commands
<2>23. CASE \E f \in Files, text \in Saves : EditorSaves(f, text)
  BY <1>1, <2>23 DEF EditorSaves, settings, verdict, files, history, TypeOK, Course, Pcs, Busy, Writing, Commands
<2>24. CASE PowerLoss
  BY <1>1, <2>24 DEF PowerLoss, settings, verdict, files, history, TypeOK, Course, Pcs, Busy, Writing, Commands
<2>25. CASE UNCHANGED vars
  BY <1>1, <2>25 DEF vars, settings, verdict, files, history, TypeOK, Course, Pcs, Busy, Writing, Commands
<2>. QED BY <2>1, <2>2, <2>3, <2>4, <2>5, <2>6, <2>7, <2>8, <2>9, <2>10, <2>11, <2>12, <2>13, <2>14, <2>15, <2>16, <2>17, <2>18, <2>19, <2>20, <2>21, <2>22, <2>23, <2>24, <2>25 DEF Next, Command
<1>3. Tables
<2>1. CASE ReadSources
  BY <2>1 DEF ReadSources, settings, verdict, files, history, TypeOK
<2>2. CASE ReadFails
  BY <2>2 DEF ReadFails, settings, verdict, files, history, TypeOK
<2>3. CASE LoadConfig
  BY <2>3 DEF LoadConfig, settings, verdict, files, history, TypeOK
<2>4. CASE LoadFails
  BY <2>4 DEF LoadFails, Fail, NextSource, settings, verdict, files, history, TypeOK
<2>5. CASE Finish
  BY <2>5 DEF Finish, settings, verdict, files, history, TypeOK
<2>6. CASE FixRound
  BY <2>6 DEF FixRound, Round, settings, verdict, files, history, TypeOK
<2>7. CASE FixSaturates
  BY <2>7 DEF FixSaturates, settings, verdict, files, history, TypeOK
<2>8. CASE NothingFixed
  BY <2>8 DEF NothingFixed, settings, verdict, files, history, TypeOK
<2>9. CASE PrintFixed
  BY <2>9 DEF PrintFixed, settings, verdict, files, history, TypeOK
<2>10. CASE PrintFails
  BY <2>10 DEF PrintFails, Fail, NextSource, settings, verdict, files, history, TypeOK
<2>11. CASE FormatSame
  BY <2>11 DEF FormatSame, NextSource, settings, verdict, files, history, TypeOK
<2>12. CASE FormatStdin
  BY <2>12 DEF FormatStdin, Fail, NextSource, settings, verdict, files, history, TypeOK
<2>13. CASE FormatChanged
  BY <2>13 DEF FormatChanged, settings, verdict, files, history, TypeOK
<2>14. CASE WriteFixed
  BY <2>14 DEF WriteFixed, settings, verdict, files, history, TypeOK
<2>15. CASE Stage
  BY <2>15 DEF Stage, settings, verdict, files, history, TypeOK
<2>16. CASE Sync
  BY <2>16 DEF Sync, settings, verdict, files, history, TypeOK
<2>17. CASE Rename
  BY <2>17 DEF Rename, settings, verdict, files, history, TypeOK
<2>18. CASE SyncDir
  BY <2>18 DEF SyncDir, NextSource, settings, verdict, files, history, TypeOK
<2>19. CASE WriteFails
  BY <2>19 DEF WriteFails, Fail, NextSource, settings, verdict, files, history, TypeOK
<2>20. CASE Resolve
  BY <2>20 DEF Resolve, settings, verdict, files, history, TypeOK
<2>21. CASE ResolveFails
  BY <2>21 DEF ResolveFails, Fail, NextSource, settings, verdict, files, history, TypeOK
<2>22. CASE Report
  BY <2>22 DEF Report, NextSource, settings, verdict, files, history, TypeOK
<2>23. CASE \E f \in Files, text \in Saves : EditorSaves(f, text)
  BY <2>23 DEF EditorSaves, settings, verdict, files, history, TypeOK
<2>24. CASE PowerLoss
  BY <2>24 DEF PowerLoss, settings, verdict, files, history, TypeOK
<2>25. CASE UNCHANGED vars
  BY <2>25 DEF vars, settings, verdict, files, history, TypeOK
<2>. QED BY <2>1, <2>2, <2>3, <2>4, <2>5, <2>6, <2>7, <2>8, <2>9, <2>10, <2>11, <2>12, <2>13, <2>14, <2>15, <2>16, <2>17, <2>18, <2>19, <2>20, <2>21, <2>22, <2>23, <2>24, <2>25 DEF Next, Command
<1>4. Flags' /\ UNCHANGED settings
  BY FlagsStep, SettingsStay DEF TypeOK
<1>. QED BY <1>2, <1>3, <1>4 DEF TypeOK, settings

\* Every step is taken by a command that takes it, at a source of its line.
LEMMA CourseStep ==
  ASSUME TypeOK, Course, [Next]_vars
  PROVE  Course'
<1>1. Len(batch) \in Nat /\ pos \in 1..Len(batch) + 1
  BY LenProperties DEF TypeOK
<1>2. pos \in 1..Len(batch) => Source \in Files \cup {Stdin}
  BY ElementOfSeq DEF TypeOK, Source
<1>3. \A v : DOMAIN contents = 1..Len(batch) => DOMAIN [contents EXCEPT ![pos] = v] = 1..Len(batch)
  OBVIOUS
<1>. QED
<2>1. CASE ReadSources
  BY <1>1, <1>2, <1>3, <2>1 DEF ReadSources, settings, verdict, files, history, Course, Busy, Writing, Source, IsStdin
<2>2. CASE ReadFails
  BY <1>1, <1>2, <1>3, <2>2 DEF ReadFails, settings, verdict, files, history, Course, Busy, Writing, Source, IsStdin
<2>3. CASE LoadConfig
  BY <1>1, <1>2, <1>3, <2>3 DEF LoadConfig, settings, verdict, files, history, Course, Busy, Writing, Source, IsStdin
<2>4. CASE LoadFails
  BY <1>1, <1>2, <1>3, <2>4 DEF LoadFails, Fail, NextSource, settings, verdict, files, history, Course, Busy, Writing, Source, IsStdin
<2>5. CASE Finish
  BY <1>1, <1>2, <1>3, <2>5 DEF Finish, settings, verdict, files, history, Course, Busy, Writing, Source, IsStdin
<2>6. CASE FixRound
  BY <1>1, <1>2, <1>3, <2>6 DEF FixRound, Round, settings, verdict, files, history, Course, Busy, Writing, Source, IsStdin
<2>7. CASE FixSaturates
  BY <1>1, <1>2, <1>3, <2>7 DEF FixSaturates, settings, verdict, files, history, Course, Busy, Writing, Source, IsStdin
<2>8. CASE NothingFixed
  BY <1>1, <1>2, <1>3, <2>8 DEF NothingFixed, settings, verdict, files, history, Course, Busy, Writing, Source, IsStdin
<2>9. CASE PrintFixed
  BY <1>1, <1>2, <1>3, <2>9 DEF PrintFixed, settings, verdict, files, history, Course, Busy, Writing, Source, IsStdin
<2>10. CASE PrintFails
  BY <1>1, <1>2, <1>3, <2>10 DEF PrintFails, Fail, NextSource, settings, verdict, files, history, Course, Busy, Writing, Source, IsStdin
<2>11. CASE FormatSame
  BY <1>1, <1>2, <1>3, <2>11 DEF FormatSame, NextSource, settings, verdict, files, history, Course, Busy, Writing, Source, IsStdin
<2>12. CASE FormatStdin
  BY <1>1, <1>2, <1>3, <2>12 DEF FormatStdin, Fail, NextSource, settings, verdict, files, history, Course, Busy, Writing, Source, IsStdin
<2>13. CASE FormatChanged
  BY <1>1, <1>2, <1>3, <2>13 DEF FormatChanged, settings, verdict, files, history, Course, Busy, Writing, Source, IsStdin
<2>14. CASE WriteFixed
  BY <1>1, <1>2, <1>3, <2>14 DEF WriteFixed, settings, verdict, files, history, Course, Busy, Writing, Source, IsStdin
<2>15. CASE Stage
  BY <1>1, <1>2, <1>3, <2>15 DEF Stage, settings, verdict, files, history, Course, Busy, Writing, Source, IsStdin
<2>16. CASE Sync
  BY <1>1, <1>2, <1>3, <2>16 DEF Sync, settings, verdict, files, history, Course, Busy, Writing, Source, IsStdin
<2>17. CASE Rename
  BY <1>1, <1>2, <1>3, <2>17 DEF Rename, settings, verdict, files, history, Course, Busy, Writing, Source, IsStdin
<2>18. CASE SyncDir
  BY <1>1, <1>2, <1>3, <2>18 DEF SyncDir, NextSource, settings, verdict, files, history, Course, Busy, Writing, Source, IsStdin
<2>19. CASE WriteFails
  BY <1>1, <1>2, <1>3, <2>19 DEF WriteFails, Fail, NextSource, settings, verdict, files, history, Course, Busy, Writing, Source, IsStdin
<2>20. CASE Resolve
  BY <1>1, <1>2, <1>3, <2>20 DEF Resolve, settings, verdict, files, history, Course, Busy, Writing, Source, IsStdin
<2>21. CASE ResolveFails
  BY <1>1, <1>2, <1>3, <2>21 DEF ResolveFails, Fail, NextSource, settings, verdict, files, history, Course, Busy, Writing, Source, IsStdin
<2>22. CASE Report
  BY <1>1, <1>2, <1>3, <2>22 DEF Report, NextSource, settings, verdict, files, history, Course, Busy, Writing, Source, IsStdin
<2>23. CASE \E f \in Files, text \in Saves : EditorSaves(f, text)
  BY <1>1, <1>2, <1>3, <2>23 DEF EditorSaves, settings, verdict, files, history, Course, Busy, Writing, Source, IsStdin
<2>24. CASE PowerLoss
  BY <1>1, <1>2, <1>3, <2>24 DEF PowerLoss, settings, verdict, files, history, Course, Busy, Writing, Source, IsStdin
<2>25. CASE UNCHANGED vars
  BY <1>1, <1>2, <1>3, <2>25 DEF vars, settings, verdict, files, history, Course, Busy, Writing, Source, IsStdin
<2>. QED BY <2>1, <2>2, <2>3, <2>4, <2>5, <2>6, <2>7, <2>8, <2>9, <2>10, <2>11, <2>12, <2>13, <2>14, <2>15, <2>16, <2>17, <2>18, <2>19, <2>20, <2>21, <2>22, <2>23, <2>24, <2>25 DEF Next, Command
\* What the temporary file holds was handed to the write.
LEMMA StagedStep ==
  ASSUME TypeOK, Course, Staged, [Next]_vars
  PROVE  Staged'
<1>1. pc \in Writing => Source \in Files /\ DOMAIN whole = Files
  BY DEF Course, TypeOK
<1>. QED
<2>1. CASE ReadSources
  BY <1>1, <2>1 DEF ReadSources, settings, verdict, files, history, Staged, Writing, Source, NoTemp, TypeOK
<2>2. CASE ReadFails
  BY <1>1, <2>2 DEF ReadFails, settings, verdict, files, history, Staged, Writing, Source, NoTemp, TypeOK
<2>3. CASE LoadConfig
  BY <1>1, <2>3 DEF LoadConfig, settings, verdict, files, history, Staged, Writing, Source, NoTemp, TypeOK
<2>4. CASE LoadFails
  BY <1>1, <2>4 DEF LoadFails, Fail, NextSource, settings, verdict, files, history, Staged, Writing, Source, NoTemp, TypeOK
<2>5. CASE Finish
  BY <1>1, <2>5 DEF Finish, settings, verdict, files, history, Staged, Writing, Source, NoTemp, TypeOK
<2>6. CASE FixRound
  BY <1>1, <2>6 DEF FixRound, Round, settings, verdict, files, history, Staged, Writing, Source, NoTemp, TypeOK
<2>7. CASE FixSaturates
  BY <1>1, <2>7 DEF FixSaturates, settings, verdict, files, history, Staged, Writing, Source, NoTemp, TypeOK
<2>8. CASE NothingFixed
  BY <1>1, <2>8 DEF NothingFixed, settings, verdict, files, history, Staged, Writing, Source, NoTemp, TypeOK
<2>9. CASE PrintFixed
  BY <1>1, <2>9 DEF PrintFixed, settings, verdict, files, history, Staged, Writing, Source, NoTemp, TypeOK
<2>10. CASE PrintFails
  BY <1>1, <2>10 DEF PrintFails, Fail, NextSource, settings, verdict, files, history, Staged, Writing, Source, NoTemp, TypeOK
<2>11. CASE FormatSame
  BY <1>1, <2>11 DEF FormatSame, NextSource, settings, verdict, files, history, Staged, Writing, Source, NoTemp, TypeOK
<2>12. CASE FormatStdin
  BY <1>1, <2>12 DEF FormatStdin, Fail, NextSource, settings, verdict, files, history, Staged, Writing, Source, NoTemp, TypeOK
<2>13. CASE FormatChanged
  BY <1>1, <2>13 DEF FormatChanged, settings, verdict, files, history, Staged, Writing, Source, NoTemp, TypeOK
<2>14. CASE WriteFixed
  BY <1>1, <2>14 DEF WriteFixed, settings, verdict, files, history, Staged, Writing, Source, NoTemp, TypeOK
<2>15. CASE Stage
  BY <1>1, <2>15 DEF Stage, settings, verdict, files, history, Staged, Writing, Source, NoTemp, TypeOK
<2>16. CASE Sync
  BY <1>1, <2>16 DEF Sync, settings, verdict, files, history, Staged, Writing, Source, NoTemp, TypeOK
<2>17. CASE Rename
  BY <1>1, <2>17 DEF Rename, settings, verdict, files, history, Staged, Writing, Source, NoTemp, TypeOK
<2>18. CASE SyncDir
  BY <1>1, <2>18 DEF SyncDir, NextSource, settings, verdict, files, history, Staged, Writing, Source, NoTemp, TypeOK
<2>19. CASE WriteFails
  BY <1>1, <2>19 DEF WriteFails, Fail, NextSource, settings, verdict, files, history, Staged, Writing, Source, NoTemp, TypeOK
<2>20. CASE Resolve
  BY <1>1, <2>20 DEF Resolve, settings, verdict, files, history, Staged, Writing, Source, NoTemp, TypeOK
<2>21. CASE ResolveFails
  BY <1>1, <2>21 DEF ResolveFails, Fail, NextSource, settings, verdict, files, history, Staged, Writing, Source, NoTemp, TypeOK
<2>22. CASE Report
  BY <1>1, <2>22 DEF Report, NextSource, settings, verdict, files, history, Staged, Writing, Source, NoTemp, TypeOK
<2>23. CASE \E f \in Files, text \in Saves : EditorSaves(f, text)
  BY <1>1, <2>23 DEF EditorSaves, settings, verdict, files, history, Staged, Writing, Source, NoTemp, TypeOK
<2>24. CASE PowerLoss
  BY <1>1, <2>24 DEF PowerLoss, settings, verdict, files, history, Staged, Writing, Source, NoTemp, TypeOK
<2>25. CASE UNCHANGED vars
  BY <1>1, <2>25 DEF vars, settings, verdict, files, history, Staged, Writing, Source, NoTemp, TypeOK
<2>. QED BY <2>1, <2>2, <2>3, <2>4, <2>5, <2>6, <2>7, <2>8, <2>9, <2>10, <2>11, <2>12, <2>13, <2>14, <2>15, <2>16, <2>17, <2>18, <2>19, <2>20, <2>21, <2>22, <2>23, <2>24, <2>25 DEF Next, Command

\* No name ever points to a text nobody wrote as a whole.
LEMMA WholeStep ==
  ASSUME TypeOK, Course, Staged, DiskWhole, [Next]_vars
  PROVE  DiskWhole'
<1>1. pc \in Writing => Source \in Files
  BY DEF Course
<1>2. DOMAIN disk = Files /\ DOMAIN durable = Files /\ DOMAIN whole = Files
  BY DEF TypeOK
<1>3. \A f \in Files : disk[f] \in whole[f] /\ durable[f] \in whole[f]
  BY DEF DiskWhole
<1>. SUFFICES \A f \in Files : disk'[f] \in whole'[f] /\ durable'[f] \in whole'[f]
  BY DEF DiskWhole
<1>. QED
<2>1. CASE ReadSources
  BY <1>1, <1>2, <1>3, <2>1 DEF ReadSources, settings, verdict, files, history, Staged, Writing
<2>2. CASE ReadFails
  BY <1>1, <1>2, <1>3, <2>2 DEF ReadFails, settings, verdict, files, history, Staged, Writing
<2>3. CASE LoadConfig
  BY <1>1, <1>2, <1>3, <2>3 DEF LoadConfig, settings, verdict, files, history, Staged, Writing
<2>4. CASE LoadFails
  BY <1>1, <1>2, <1>3, <2>4 DEF LoadFails, Fail, NextSource, settings, verdict, files, history, Staged, Writing
<2>5. CASE Finish
  BY <1>1, <1>2, <1>3, <2>5 DEF Finish, settings, verdict, files, history, Staged, Writing
<2>6. CASE FixRound
  BY <1>1, <1>2, <1>3, <2>6 DEF FixRound, Round, settings, verdict, files, history, Staged, Writing
<2>7. CASE FixSaturates
  BY <1>1, <1>2, <1>3, <2>7 DEF FixSaturates, settings, verdict, files, history, Staged, Writing
<2>8. CASE NothingFixed
  BY <1>1, <1>2, <1>3, <2>8 DEF NothingFixed, settings, verdict, files, history, Staged, Writing
<2>9. CASE PrintFixed
  BY <1>1, <1>2, <1>3, <2>9 DEF PrintFixed, settings, verdict, files, history, Staged, Writing
<2>10. CASE PrintFails
  BY <1>1, <1>2, <1>3, <2>10 DEF PrintFails, Fail, NextSource, settings, verdict, files, history, Staged, Writing
<2>11. CASE FormatSame
  BY <1>1, <1>2, <1>3, <2>11 DEF FormatSame, NextSource, settings, verdict, files, history, Staged, Writing
<2>12. CASE FormatStdin
  BY <1>1, <1>2, <1>3, <2>12 DEF FormatStdin, Fail, NextSource, settings, verdict, files, history, Staged, Writing
<2>13. CASE FormatChanged
  BY <1>1, <1>2, <1>3, <2>13 DEF FormatChanged, settings, verdict, files, history, Staged, Writing
<2>14. CASE WriteFixed
  BY <1>1, <1>2, <1>3, <2>14 DEF WriteFixed, settings, verdict, files, history, Staged, Writing
<2>15. CASE Stage
  BY <1>1, <1>2, <1>3, <2>15 DEF Stage, settings, verdict, files, history, Staged, Writing
<2>16. CASE Sync
  BY <1>1, <1>2, <1>3, <2>16 DEF Sync, settings, verdict, files, history, Staged, Writing
<2>17. CASE Rename
  BY <1>1, <1>2, <1>3, <2>17 DEF Rename, settings, verdict, files, history, Staged, Writing
<2>18. CASE SyncDir
  BY <1>1, <1>2, <1>3, <2>18 DEF SyncDir, NextSource, settings, verdict, files, history, Staged, Writing
<2>19. CASE WriteFails
  BY <1>1, <1>2, <1>3, <2>19 DEF WriteFails, Fail, NextSource, settings, verdict, files, history, Staged, Writing
<2>20. CASE Resolve
  BY <1>1, <1>2, <1>3, <2>20 DEF Resolve, settings, verdict, files, history, Staged, Writing
<2>21. CASE ResolveFails
  BY <1>1, <1>2, <1>3, <2>21 DEF ResolveFails, Fail, NextSource, settings, verdict, files, history, Staged, Writing
<2>22. CASE Report
  BY <1>1, <1>2, <1>3, <2>22 DEF Report, NextSource, settings, verdict, files, history, Staged, Writing
<2>23. CASE \E f \in Files, text \in Saves : EditorSaves(f, text)
  BY <1>1, <1>2, <1>3, <2>23 DEF EditorSaves, settings, verdict, files, history, Staged, Writing
<2>24. CASE PowerLoss
  BY <1>1, <1>2, <1>3, <2>24 DEF PowerLoss, settings, verdict, files, history, Staged, Writing
<2>25. CASE UNCHANGED vars
  BY <1>1, <1>2, <1>3, <2>25 DEF vars, settings, verdict, files, history, Staged, Writing
<2>. QED BY <2>1, <2>2, <2>3, <2>4, <2>5, <2>6, <2>7, <2>8, <2>9, <2>10, <2>11, <2>12, <2>13, <2>14, <2>15, <2>16, <2>17, <2>18, <2>19, <2>20, <2>21, <2>22, <2>23, <2>24, <2>25 DEF Next, Command

\* Nothing is passed over.
LEMMA TallyStep ==
  ASSUME TypeOK, Course, Tally, [Next]_vars
  PROVE  Tally'
<1>1. Len(batch) \in Nat /\ pos \in 1..Len(batch) + 1
  BY LenProperties DEF TypeOK
<1>2. UNCHANGED settings
  BY SettingsStay
<1>. QED
<2>1. CASE ReadSources
  BY <1>1, <1>2, <2>1 DEF ReadSources, settings, verdict, files, history, Tally, Course, Busy, Writing
<2>2. CASE ReadFails
  BY <1>1, <1>2, <2>2 DEF ReadFails, settings, verdict, files, history, Tally, Course, Busy, Writing
<2>3. CASE LoadConfig
  BY <1>1, <1>2, <2>3 DEF LoadConfig, settings, verdict, files, history, Tally, Course, Busy, Writing
<2>4. CASE LoadFails
  BY <1>1, <1>2, <2>4 DEF LoadFails, Fail, NextSource, settings, verdict, files, history, Tally, Course, Busy, Writing
<2>5. CASE Finish
  BY <1>1, <1>2, <2>5 DEF Finish, settings, verdict, files, history, Tally, Course, Busy, Writing
<2>6. CASE FixRound
  BY <1>1, <1>2, <2>6 DEF FixRound, Round, settings, verdict, files, history, Tally, Course, Busy, Writing
<2>7. CASE FixSaturates
  BY <1>1, <1>2, <2>7 DEF FixSaturates, settings, verdict, files, history, Tally, Course, Busy, Writing
<2>8. CASE NothingFixed
  BY <1>1, <1>2, <2>8 DEF NothingFixed, settings, verdict, files, history, Tally, Course, Busy, Writing
<2>9. CASE PrintFixed
  BY <1>1, <1>2, <2>9 DEF PrintFixed, settings, verdict, files, history, Tally, Course, Busy, Writing
<2>10. CASE PrintFails
  BY <1>1, <1>2, <2>10 DEF PrintFails, Fail, NextSource, settings, verdict, files, history, Tally, Course, Busy, Writing
<2>11. CASE FormatSame
  BY <1>1, <1>2, <2>11 DEF FormatSame, NextSource, settings, verdict, files, history, Tally, Course, Busy, Writing
<2>12. CASE FormatStdin
  BY <1>1, <1>2, <2>12 DEF FormatStdin, Fail, NextSource, settings, verdict, files, history, Tally, Course, Busy, Writing
<2>13. CASE FormatChanged
  BY <1>1, <1>2, <2>13 DEF FormatChanged, settings, verdict, files, history, Tally, Course, Busy, Writing
<2>14. CASE WriteFixed
  BY <1>1, <1>2, <2>14 DEF WriteFixed, settings, verdict, files, history, Tally, Course, Busy, Writing
<2>15. CASE Stage
  BY <1>1, <1>2, <2>15 DEF Stage, settings, verdict, files, history, Tally, Course, Busy, Writing
<2>16. CASE Sync
  BY <1>1, <1>2, <2>16 DEF Sync, settings, verdict, files, history, Tally, Course, Busy, Writing
<2>17. CASE Rename
  BY <1>1, <1>2, <2>17 DEF Rename, settings, verdict, files, history, Tally, Course, Busy, Writing
<2>18. CASE SyncDir
  BY <1>1, <1>2, <2>18 DEF SyncDir, NextSource, settings, verdict, files, history, Tally, Course, Busy, Writing
<2>19. CASE WriteFails
  BY <1>1, <1>2, <2>19 DEF WriteFails, Fail, NextSource, settings, verdict, files, history, Tally, Course, Busy, Writing
<2>20. CASE Resolve
  BY <1>1, <1>2, <2>20 DEF Resolve, settings, verdict, files, history, Tally, Course, Busy, Writing
<2>21. CASE ResolveFails
  BY <1>1, <1>2, <2>21 DEF ResolveFails, Fail, NextSource, settings, verdict, files, history, Tally, Course, Busy, Writing
<2>22. CASE Report
  BY <1>1, <1>2, <2>22 DEF Report, NextSource, settings, Tally, Course, Busy, Writing
<2>23. CASE \E f \in Files, text \in Saves : EditorSaves(f, text)
  BY <1>1, <1>2, <2>23 DEF EditorSaves, settings, verdict, files, history, Tally, Course, Busy, Writing
<2>24. CASE PowerLoss
  BY <1>1, <1>2, <2>24 DEF PowerLoss, settings, verdict, files, history, Tally, Course, Busy, Writing
<2>25. CASE UNCHANGED vars
  BY <1>1, <1>2, <2>25 DEF vars, settings, verdict, files, history, Tally, Course, Busy, Writing
<2>. QED BY <2>1, <2>2, <2>3, <2>4, <2>5, <2>6, <2>7, <2>8, <2>9, <2>10, <2>11, <2>12, <2>13, <2>14, <2>15, <2>16, <2>17, <2>18, <2>19, <2>20, <2>21, <2>22, <2>23, <2>24, <2>25 DEF Next, Command

\* What was reported is left alone: only the source at hand changes.
LEMMA CleanStep ==
  ASSUME TypeOK, Course, Tally, Clean, [Next]_vars
  PROVE  Clean'
<1>1. Len(batch) \in Nat /\ pos \in 1..Len(batch) + 1
  BY LenProperties DEF TypeOK
<1>2. UNCHANGED <<command, family, denied>>
  BY SettingsStay DEF settings
<1>0. \A i : contents'[i] = contents[i] => (Gates(i)' <=> Gates(i))
  BY <1>2 DEF Gates
<1>3. CASE Report
  <2>1. reported' = reported \cup {pos} /\ contents' = contents
    BY <1>3 DEF Report
  <2>2. deny' <=> deny \/ Gates(pos)
    <3>1. DeniedFindings # {} <=> \E rule \in denied : Findings(rule, contents[pos], family) # {}
      BY DEF DeniedFindings, Text
    <3>. QED BY <1>3, <3>1 DEF Report, WouldReformat, Gates, Text
  <2>3. \A i : Gates(i)' <=> Gates(i)
    BY <1>0, <2>1
  <2>. QED BY <2>1, <2>2, <2>3 DEF Clean
<1>4. CASE ReadSources
  BY <1>4 DEF ReadSources, Clean, Course, verdict
<1>5. CASE FixRound \/ FormatChanged
  <2>1. PICK v : contents' = [contents EXCEPT ![pos] = v]
    BY <1>5 DEF FixRound, Round, FormatChanged
  <2>2. reported' = reported /\ deny' = deny /\ DOMAIN contents = 1..Len(batch)
    BY <1>5 DEF FixRound, FormatChanged, verdict, Course
  <2>3. \A i \in reported : i \in 1..Len(batch) /\ i # pos
    BY <1>1 DEF Tally, TypeOK
  <2>4. \A i \in reported : contents'[i] = contents[i]
    BY <2>1, <2>2, <2>3
  <2>5. \A i \in reported : Gates(i)' <=> Gates(i)
    BY <1>0, <2>4
  <2>. QED BY <2>2, <2>5 DEF Clean
<1>6. ASSUME UNCHANGED <<contents, deny, reported>> PROVE Clean'
  <2>1. \A i : Gates(i)' <=> Gates(i)
    BY <1>0, <1>6
  <2>. QED BY <1>6, <2>1 DEF Clean
<1>7. \/ Report \/ ReadSources \/ FixRound \/ FormatChanged
      \/ UNCHANGED <<contents, deny, reported>>
<2>1. CASE ReadFails
  BY <2>1 DEF ReadFails, settings, verdict, files, history
<2>2. CASE LoadConfig
  BY <2>2 DEF LoadConfig, settings, verdict, files, history
<2>3. CASE LoadFails
  BY <2>3 DEF LoadFails, Fail, NextSource, settings, verdict, files, history
<2>4. CASE Finish
  BY <2>4 DEF Finish, settings, verdict, files, history
<2>5. CASE FixSaturates
  BY <2>5 DEF FixSaturates, settings, verdict, files, history
<2>6. CASE NothingFixed
  BY <2>6 DEF NothingFixed, settings, verdict, files, history
<2>7. CASE PrintFixed
  BY <2>7 DEF PrintFixed, settings, verdict, files, history
<2>8. CASE PrintFails
  BY <2>8 DEF PrintFails, Fail, NextSource, settings, verdict, files, history
<2>9. CASE FormatSame
  BY <2>9 DEF FormatSame, NextSource, settings, verdict, files, history
<2>10. CASE FormatStdin
  BY <2>10 DEF FormatStdin, Fail, NextSource, settings, verdict, files, history
<2>11. CASE WriteFixed
  BY <2>11 DEF WriteFixed, settings, verdict, files, history
<2>12. CASE Stage
  BY <2>12 DEF Stage, settings, verdict, files, history
<2>13. CASE Sync
  BY <2>13 DEF Sync, settings, verdict, files, history
<2>14. CASE Rename
  BY <2>14 DEF Rename, settings, verdict, files, history
<2>15. CASE SyncDir
  BY <2>15 DEF SyncDir, NextSource, settings, verdict, files, history
<2>16. CASE WriteFails
  BY <2>16 DEF WriteFails, Fail, NextSource, settings, verdict, files, history
<2>17. CASE Resolve
  BY <2>17 DEF Resolve, settings, verdict, files, history
<2>18. CASE ResolveFails
  BY <2>18 DEF ResolveFails, Fail, NextSource, settings, verdict, files, history
<2>19. CASE \E f \in Files, text \in Saves : EditorSaves(f, text)
  BY <2>19 DEF EditorSaves, settings, verdict, files, history
<2>20. CASE PowerLoss
  BY <2>20 DEF PowerLoss, settings, verdict, files, history
<2>21. CASE UNCHANGED vars
  BY <2>21 DEF vars, settings, verdict, files, history
<2>. QED BY <2>1, <2>2, <2>3, <2>4, <2>5, <2>6, <2>7, <2>8, <2>9, <2>10, <2>11, <2>12, <2>13, <2>14, <2>15, <2>16, <2>17, <2>18, <2>19, <2>20, <2>21 DEF Next, Command
<1>. QED BY <1>3, <1>4, <1>5, <1>6, <1>7
-----------------------------------------------------------------------------
\* A step keeps it.
LEMMA BatchStep == BatchInv /\ [Next]_vars => BatchInv'
BY TypeStep, CourseStep, StagedStep, WholeStep, TallyStep, CleanStep DEF BatchInv

\* The inductive invariant of the control and of what was ever written.
THEOREM BatchInvariant == Spec => []BatchInv
<1>. QED BY InitBatch, BatchStep, PTL DEF Spec

\* The command never leaves its command line, whatever fails.
THEOREM TypeCorrect == Spec => []TypeOK
<1>1. BatchInv => TypeOK BY DEF BatchInv
<1>. QED BY <1>1, BatchInvariant, PTL

\* A crash leaves an old text or a new one, never half of one.
THEOREM NoTornFile == Spec => []DiskWhole
<1>1. BatchInv => DiskWhole BY DEF BatchInv
<1>. QED BY <1>1, BatchInvariant, PTL

\* An exit code that promises something keeps it: 0 and 1 that every source was
\* reported, 1 that one of them has a denied finding left or, under check, would
\* be formatted otherwise, 0 that none has and none would.  Warnings do not count.
THEOREM ExitTellsTruth == Spec => []ExitHonest
<1>1. BatchInv => ExitHonest
  <2>. SUFFICES ASSUME BatchInv, pc = "done", command # "format", ExitCode # 2
                PROVE  /\ reported = 1..Len(batch)
                       /\ ExitCode = 1 <=> \E i \in reported : Gates(i)
    BY DEF ExitHonest
  <2>1. ~failed
    BY DEF ExitCode
  <2>2. reported = 1..pos - 1 /\ pos = Len(batch) + 1
    BY <2>1 DEF BatchInv, Tally
  <2>3. Len(batch) \in Nat
    BY LenProperties DEF BatchInv, TypeOK
  <2>4. ExitCode = 1 <=> deny
    BY <2>1 DEF ExitCode
  <2>5. deny <=> \E i \in reported : Gates(i)
    BY DEF BatchInv, Clean
  <2>. QED BY <2>2, <2>3, <2>4, <2>5
<1>. QED BY <1>1, BatchInvariant, PTL
-----------------------------------------------------------------------------
(* The fix loop.                                                           *)

\* A round as a function of the text and the report so far.
RoundOf(s) ==
  LET edits == CollectEdits(Diagnostics(s.text, "unknown"))
      result == ApplyEdits(s.text, edits)
  IN [text |-> result.text,
      report |-> [applied |-> s.report.applied + result.applied,
                  iterations |-> s.report.iterations + IF edits = <<>> THEN 0 ELSE 1,
                  converged |-> edits = <<>> \/ result.applied = 0]]

Stops(s) == s.report.converged \/ ~(s.report.iterations < MaxIterations)

\* k rounds of the loop over the text t.
Rounds(t, h, k) ==
  /\ h[0] = [text |-> t, report |-> NoReport]
  /\ \A j \in 0..k - 1 : ~Stops(h[j]) /\ h[j + 1] = RoundOf(h[j])

\* What the loop over t comes through, and what it ends with.
Within(t, s) == \E k \in Nat : \E h : Rounds(t, h, k) /\ h[k] = s
Fixes(t, u, n) == \E s : Within(t, s) /\ Stops(s) /\ s.text = u /\ s.report.applied = n

\* The loop begins with the text as read.
LEMMA LoopStarts == ASSUME NEW t PROVE Within(t, [text |-> t, report |-> NoReport])
<1>. DEFINE h == [j \in {0} |-> [text |-> t, report |-> NoReport]]
<1>1. Rounds(t, h, 0)
  BY DEF Rounds
<1>2. h[0] = [text |-> t, report |-> NoReport]
  OBVIOUS
<1>. HIDE DEF h
<1>. QED BY <1>1, <1>2 DEF Within

\* A loop that has not ended goes on by a round.
LEMMA LoopGoesOn ==
  ASSUME NEW t, NEW s, Within(t, s), ~Stops(s)
  PROVE  Within(t, RoundOf(s))
<1>1. PICK k \in Nat : \E h : Rounds(t, h, k) /\ h[k] = s
  BY DEF Within
<1>2. PICK h : Rounds(t, h, k) /\ h[k] = s
  BY <1>1
<1>. DEFINE g == [j \in 0..k + 1 |-> IF j = k + 1 THEN RoundOf(s) ELSE h[j]]
<1>3. g[k + 1] = RoundOf(s) /\ g[0] = h[0] /\ \A j \in 0..k : g[j] = h[j]
  OBVIOUS
<1>. HIDE DEF g
<1>4. ASSUME NEW j \in 0..k + 1 - 1 PROVE ~Stops(g[j]) /\ g[j + 1] = RoundOf(g[j])
  <2>1. CASE j = k
    BY <1>2, <1>3, <2>1
  <2>2. CASE j # k
    <3>1. j \in 0..k - 1 /\ j \in 0..k /\ j + 1 \in 0..k
      BY <2>2
    <3>2. ~Stops(h[j]) /\ h[j + 1] = RoundOf(h[j])
      BY <1>2, <3>1 DEF Rounds
    <3>. QED BY <1>3, <3>1, <3>2
  <2>. QED BY <2>1, <2>2
<1>5. Rounds(t, g, k + 1)
  BY <1>2, <1>3, <1>4 DEF Rounds
<1>6. k + 1 \in Nat
  OBVIOUS
<1>. QED BY <1>3, <1>5, <1>6 DEF Within

\* The longer of two runs of the loop over one text passes the shorter, which
\* therefore cannot have ended before.
LEMMA LoopAgrees ==
  ASSUME NEW t, NEW k \in Nat, NEW l \in Nat, NEW g, NEW h,
         Rounds(t, g, k), Rounds(t, h, l), k <= l, Stops(g[k])
  PROVE  g[k] = h[l]
<1>. DEFINE T == {j \in 0..k : g[j] = h[j]}
<1>1. 0 \in T
  BY DEF Rounds
<1>2. ASSUME NEW j \in 0..k, j \in T, j < k PROVE j + 1 \in T
  <2>1. j \in 0..k - 1 /\ j \in 0..l - 1 /\ j + 1 \in 0..k
    BY <1>2
  <2>2. g[j + 1] = RoundOf(g[j]) /\ h[j + 1] = RoundOf(h[j])
    BY <2>1 DEF Rounds
  <2>. QED BY <1>2, <2>1, <2>2
<1>3. g[k] = h[k]
  <2>1. \A j \in 0..k : j \in T
    <3>. HIDE DEF T
    <3>. QED BY <1>1, <1>2, UpTo
  <2>2. k \in 0..k
    OBVIOUS
  <2>. QED BY <2>1, <2>2
<1>4. k = l
  <2>. SUFFICES ASSUME k < l PROVE FALSE
    OBVIOUS
  <2>1. k \in 0..l - 1
    OBVIOUS
  <2>. QED BY <1>3, <2>1 DEF Rounds
<1>. QED BY <1>3, <1>4

\* The same text is always fixed the same way.
LEMMA FixesOneWay ==
  ASSUME NEW t, NEW u, NEW v, NEW m, NEW n, Fixes(t, u, m), Fixes(t, v, n)
  PROVE  u = v /\ m = n
<1>1. PICK r : Within(t, r) /\ Stops(r) /\ r.text = u /\ r.report.applied = m
  BY DEF Fixes
<1>2. PICK s : Within(t, s) /\ Stops(s) /\ s.text = v /\ s.report.applied = n
  BY DEF Fixes
<1>3. PICK k \in Nat : \E h : Rounds(t, h, k) /\ h[k] = r
  BY <1>1 DEF Within
<1>4. PICK g : Rounds(t, g, k) /\ g[k] = r
  BY <1>3
<1>5. PICK l \in Nat : \E h : Rounds(t, h, l) /\ h[l] = s
  BY <1>2 DEF Within
<1>6. PICK h : Rounds(t, h, l) /\ h[l] = s
  BY <1>5
<1>7. k <= l \/ l <= k
  OBVIOUS
<1>8. g[k] = h[l]
  BY <1>1, <1>2, <1>4, <1>6, <1>7, LoopAgrees
<1>. QED BY <1>1, <1>2, <1>4, <1>6, <1>8
-----------------------------------------------------------------------------
(* What was read, what the loop made of it, and what the disk holds.       *)

Sources == 1..Len(batch)

\* All was read at once, and what is ahead of the command is as it was read;
\* what --fix works on is a text.
Reading ==
  /\ pc = "start" => \A f \in Files : disk[f] \in Seq(Cell)
  /\ pc \notin {"start", "done"} => DOMAIN read = Sources
  /\ DOMAIN read \subseteq Sources /\ reported \subseteq DOMAIN read
  /\ \A i, j \in DOMAIN read : batch[i] = batch[j] /\ batch[i] # Stdin => read[i] = read[j]
  /\ \A i \in DOMAIN read :
       pos < i \/ (pos = i /\ pc \in {"next", "format"}) \/ command \in {"lint", "check"}
         => contents[i] = read[i]
  /\ command = "fix" => \A i \in DOMAIN read : contents[i] \in Seq(Cell)
  /\ pc \in {"start", "next"} => report = NoReport

\* The loop at hand has come so far.
Looping ==
  /\ pc \in {"fix", "fixed"} =>
       /\ Within(read[pos], [text |-> contents[pos], report |-> report])
       /\ report.applied \in Nat /\ report.iterations \in 0..MaxIterations
       /\ report.applied = 0 => contents[pos] = read[pos]
  /\ pc = "fix" => ~report.converged
  /\ pc = "fixed" => Stops([text |-> contents[pos], report |-> report])

\* A fix that says it converged has nothing left to do.
ConvergedIsDone == pc = "fixed" /\ report.converged => CollectEdits(FixDiagnostics) = <<>>

\* A source whose fix is over holds what the loop makes of it.
Outcomes ==
  command = "fix" =>
    /\ pc \in Writing => \E n : n # 0 /\ Fixes(read[pos], contents[pos], n)
    /\ pc \in {"profile", "report"} => \E n : Fixes(read[pos], contents[pos], n)
    /\ \A i \in reported : \E n : Fixes(read[i], contents[i], n)

\* A file nobody saved holds what was read of it, or what the loop made of that.
OnDisk ==
  command # "format" /\ pc # "dead" =>
    \A i \in DOMAIN read : batch[i] \notin overtaken \cup {Stdin} =>
      \/ disk[batch[i]] = read[i]
      \/ command = "fix" /\ \E n : n # 0 /\ Fixes(read[i], disk[batch[i]], n)

\* From the rename on, the disk holds the source at hand as the command has it.
Held ==
  /\ pc \in {"sync", "rename"} => temp.text = contents[pos]
  /\ command # "format" /\ pc \in {"sync_dir", "profile", "report"}
       /\ Source \notin overtaken \cup {Stdin} => disk[Source] = contents[pos]

FitInv == Reading /\ Looping /\ ConvergedIsDone /\ Outcomes /\ OnDisk /\ Held /\ ReportFitsDisk

\* What a round adds: it converges exactly where it applies nothing, and then
\* there is nothing to apply.
LEMMA RoundData ==
  ASSUME NEW s, s.text \in Seq(Cell), s.report.iterations \in Nat
  PROVE  LET r == RoundOf(s)
         IN  /\ r.text \in Seq(Cell)
             /\ \E d \in Nat : /\ r.report.applied = s.report.applied + d
                               /\ d = 0 => r.text = s.text
             /\ r.report.iterations = s.report.iterations \/ r.report.iterations = s.report.iterations + 1
             /\ r.report.converged => CollectEdits(Diagnostics(r.text, "unknown")) = <<>>
<1>. DEFINE edits == CollectEdits(Diagnostics(s.text, "unknown"))
            result == ApplyEdits(s.text, edits)
            r == RoundOf(s)
<1>1. edits \in Seq(EditsIn(Len(s.text))) /\ Backwards(edits)
  BY CollectedEdits
<1>2. Len(edits) \in Nat /\ (Len(edits) = 0 => edits = <<>>)
  BY <1>1, LenProperties, EmptySeq
<1>. HIDE DEF edits
<1>3. /\ result.text \in Seq(Cell) /\ result.applied = Len(edits)
      /\ edits = <<>> => result.text = s.text
  BY <1>1, EveryEditApplied
<1>. HIDE DEF result
<1>4. /\ r.text = result.text /\ r.report.applied = s.report.applied + result.applied
      /\ r.report.iterations = s.report.iterations + IF edits = <<>> THEN 0 ELSE 1
  BY DEF RoundOf, edits, result
<1>5. r.report.converged => edits = <<>> \/ result.applied = 0
  BY Zenon DEF RoundOf, edits, result
<1>. HIDE DEF r
<1>6. r.report.converged => edits = <<>>
  BY <1>2, <1>3, <1>5
<1>7. r.report.converged => CollectEdits(Diagnostics(r.text, "unknown")) = <<>>
  BY <1>3, <1>4, <1>6 DEF edits
<1>8. \E d \in Nat : /\ r.report.applied = s.report.applied + d
                     /\ d = 0 => r.text = s.text
  <2>1. r.report.applied = s.report.applied + Len(edits) /\ (Len(edits) = 0 => r.text = s.text)
    BY <1>2, <1>3, <1>4
  <2>. QED BY <1>2, <2>1
<1>9. r.report.iterations = s.report.iterations \/ r.report.iterations = s.report.iterations + 1
  <2>1. CASE edits # <<>>
    BY <1>4, <2>1
  <2>2. CASE edits = <<>>
    BY <1>4, <2>2
  <2>. QED BY <2>1, <2>2
<1>10. r.text \in Seq(Cell)
  BY <1>3, <1>4
<1>. QED BY <1>7, <1>8, <1>9, <1>10, Zenon DEF r

\* A round of the model is a round of the loop.
LEMMA RoundSteps ==
  ASSUME TypeOK, Course, pc = "fix", Round
  PROVE  LET s == [text |-> contents[pos], report |-> report]
         IN  /\ pos \in Sources
             /\ contents' = [contents EXCEPT ![pos] = RoundOf(s).text]
             /\ contents'[pos] = RoundOf(s).text
             /\ report' = RoundOf(s).report
             /\ [text |-> contents'[pos], report |-> report'] = RoundOf(s)
             /\ pc' = IF report'.converged THEN "fixed" ELSE "fix"
<1>. DEFINE s == [text |-> contents[pos], report |-> report]
            edits == CollectEdits(Diagnostics(s.text, "unknown"))
            result == ApplyEdits(s.text, edits)
            stuck == edits = <<>> \/ result.applied = 0
            rep == [applied |-> s.report.applied + result.applied,
                    iterations |-> s.report.iterations + IF edits = <<>> THEN 0 ELSE 1,
                    converged |-> stuck]
<1>1. pos \in Sources /\ DOMAIN contents = Sources
  BY DEF Course, Busy, Sources
<1>2. s.text = Text /\ s.report = report
  BY DEF Text
<1>3. RoundOf(s) = [text |-> result.text, report |-> rep]
  BY Zenon DEF RoundOf
<1>4. /\ contents' = [contents EXCEPT ![pos] = result.text]
      /\ report' = rep
      /\ pc' = IF stuck THEN "fixed" ELSE "fix"
  <2>. HIDE DEF s
  <2>. QED BY <1>2, Zenon DEF Round, FixDiagnostics
<1>5. rep.converged = stuck
  BY Zenon
<1>. HIDE DEF s, stuck, rep, result
<1>6. RoundOf(s).text = result.text /\ RoundOf(s).report = rep
  BY <1>3
<1>7. contents'[pos] = result.text
  BY <1>1, <1>4
<1>8. [text |-> contents'[pos], report |-> report'] = RoundOf(s)
  BY <1>3, <1>4, <1>7
<1>9. pc' = IF report'.converged THEN "fixed" ELSE "fix"
  BY <1>4, <1>5
<1>. QED BY <1>1, <1>4, <1>6, <1>7, <1>8, <1>9, Zenon DEF s

\* It holds before anything is read.
LEMMA InitFit == Init => FitInv
<1>. SUFFICES ASSUME Init PROVE FitInv
  OBVIOUS
<1>1. \A f \in Files : disk[f] \in Seq(Cell)
  BY LintFixAssumption DEF Init
<1>2. DOMAIN read = {} /\ pc = "start" /\ reported = {} /\ report = NoReport
  BY DEF Init
<1>3. Reading
  BY <1>1, <1>2 DEF Reading
<1>. QED BY <1>2, <1>3 DEF FitInv, Looping, ConvergedIsDone, Outcomes, OnDisk, Held, ReportFitsDisk,
                     Writing

\* What is ahead is as it was read, and what is read is a text.
LEMMA ReadingStep ==
  ASSUME BatchInv, BatchInv', FitInv, [Next]_vars
  PROVE  Reading'
<1>1. Len(batch) \in Nat /\ pos \in 1..Len(batch) + 1
  BY LenProperties DEF BatchInv, TypeOK
<1>2. UNCHANGED settings
  BY SettingsStay
<1>3. CASE ReadSources
  <2>1. PICK piped \in Saves :
          contents' = [i \in 1..Len(batch) |-> IF batch[i] = Stdin THEN piped ELSE disk[batch[i]]]
    BY <1>3 DEF ReadSources
  <2>2. read' = contents' /\ report = report' /\ reported' = {}
    BY <1>3 DEF ReadSources, BatchInv, Course, verdict
  <2>3. piped \in Seq(Cell)
    BY LintFixAssumption
  <2>4. \A i \in Sources : batch[i] \in Files \cup {Stdin}
    BY ElementOfSeq DEF BatchInv, TypeOK, Sources
  <2>5. \A i \in Sources : contents'[i] \in Seq(Cell)
    <3>1. \A f \in Files : disk[f] \in Seq(Cell)
      BY <1>3 DEF ReadSources, FitInv, Reading
    <3>. QED BY <2>1, <2>3, <2>4, <3>1 DEF Sources
  <2>6. \A i, j \in Sources : batch[i] = batch[j] => contents'[i] = contents'[j]
    BY <2>1 DEF Sources
  <2>7. DOMAIN contents' = Sources /\ Sources' = Sources
    BY <1>2, <2>1 DEF Sources, settings
  <2>8. pc' = "next" /\ report = NoReport
    BY <1>3 DEF ReadSources, FitInv, Reading
  <2>. QED BY <1>2, <2>2, <2>5, <2>6, <2>7, <2>8 DEF Reading, settings
<1>4. CASE FixRound
  <2>. DEFINE s == [text |-> contents[pos], report |-> report]
  <2>1. /\ pos \in Sources /\ contents' = [contents EXCEPT ![pos] = RoundOf(s).text]
        /\ contents'[pos] = RoundOf(s).text
    BY <1>4, RoundSteps DEF FixRound, BatchInv
  <2>2. /\ pc = "fix" /\ command = "fix" /\ DOMAIN read = Sources /\ DOMAIN contents = Sources
    BY <1>4 DEF FixRound, FitInv, Reading, BatchInv, Course, Sources
  <2>3. contents[pos] \in Seq(Cell) /\ report.iterations \in Nat
    <3>1. report.iterations \in 0..MaxIterations /\ MaxIterations \in Nat
      BY <2>2, SpecTextAssumption DEF FitInv, Looping
    <3>. QED BY <2>1, <2>2, <3>1 DEF FitInv, Reading
  <2>4. RoundOf(s).text \in Seq(Cell)
    BY <2>3, RoundData
  <2>. HIDE DEF s
  <2>5. /\ pc' \in {"fix", "fixed"} /\ UNCHANGED <<command, pos, batch, read, reported>>
    BY <1>4 DEF FixRound, Round, settings, history, verdict
  <2>6. \A i \in Sources : i # pos => contents'[i] = contents[i]
    BY <2>1, <2>2
  <2>. QED BY <1>1, <2>1, <2>2, <2>4, <2>5, <2>6 DEF FitInv, Reading, Sources
<1>5. CASE FormatChanged
  <2>1. /\ DOMAIN read = Sources /\ DOMAIN contents = Sources /\ command = "format"
    BY <1>5 DEF FormatChanged, FitInv, Reading, BatchInv, Course, Sources
  <2>2. \A i \in Sources : i # pos => contents'[i] = contents[i]
    BY <1>5, <2>1 DEF FormatChanged
  <2>3. pc' = "write" /\ UNCHANGED <<command, pos, batch, read, reported>>
    BY <1>5 DEF FormatChanged, settings, history, verdict
  <2>. QED BY <1>1, <2>1, <2>2, <2>3 DEF FitInv, Reading, Sources
<1>6. CASE Report
  <2>1. /\ UNCHANGED <<command, batch, read, contents>> /\ pc = "report" /\ pc' = "next"
        /\ pos' = pos + 1 /\ report' = NoReport /\ reported' = reported \cup {pos}
    BY <1>6 DEF Report, NextSource, settings, history
  <2>2. pos \in Sources
    BY <1>6 DEF Report, BatchInv, Course, Busy, Sources
  <2>. QED BY <1>1, <2>1, <2>2 DEF FitInv, Reading, Sources
<1>7. CASE ReadSources \/ FixRound \/ FormatChanged \/ Report
  BY <1>3, <1>4, <1>5, <1>6, <1>7
<1>8. ASSUME ~(ReadSources \/ FixRound \/ FormatChanged \/ Report) PROVE Reading'
<2>1. CASE ReadFails
  BY <1>1, <1>2, <1>8, <2>1 DEF ReadFails, settings, verdict, files, history, FitInv, Reading, Sources
<2>2. CASE LoadConfig
  BY <1>1, <1>2, <1>8, <2>2 DEF LoadConfig, settings, verdict, files, history, FitInv, Reading, Sources
<2>3. CASE LoadFails
  BY <1>1, <1>2, <1>8, <2>3 DEF LoadFails, Fail, NextSource, settings, verdict, files, history, FitInv, Reading, Sources
<2>4. CASE Finish
  BY <1>1, <1>2, <1>8, <2>4 DEF Finish, settings, verdict, files, history, FitInv, Reading, Sources
<2>5. CASE FixSaturates
  BY <1>1, <1>2, <1>8, <2>5 DEF FixSaturates, settings, verdict, files, history, FitInv, Reading, Sources
<2>6. CASE NothingFixed
  BY <1>1, <1>2, <1>8, <2>6 DEF NothingFixed, settings, verdict, files, history, FitInv, Reading, Sources
<2>7. CASE PrintFixed
  BY <1>1, <1>2, <1>8, <2>7 DEF PrintFixed, settings, verdict, files, history, FitInv, Reading, Sources
<2>8. CASE PrintFails
  BY <1>1, <1>2, <1>8, <2>8 DEF PrintFails, Fail, NextSource, settings, verdict, files, history, FitInv, Reading, Sources
<2>9. CASE FormatSame
  BY <1>1, <1>2, <1>8, <2>9 DEF FormatSame, NextSource, settings, verdict, files, history, FitInv, Reading, Sources
<2>10. CASE FormatStdin
  BY <1>1, <1>2, <1>8, <2>10 DEF FormatStdin, Fail, NextSource, settings, verdict, files, history, FitInv, Reading, Sources
<2>11. CASE WriteFixed
  BY <1>1, <1>2, <1>8, <2>11 DEF WriteFixed, settings, verdict, files, history, FitInv, Reading, Sources
<2>12. CASE Stage
  BY <1>1, <1>2, <1>8, <2>12 DEF Stage, settings, verdict, files, history, FitInv, Reading, Sources
<2>13. CASE Sync
  BY <1>1, <1>2, <1>8, <2>13 DEF Sync, settings, verdict, files, history, FitInv, Reading, Sources
<2>14. CASE Rename
  BY <1>1, <1>2, <1>8, <2>14 DEF Rename, settings, verdict, files, history, FitInv, Reading, Sources
<2>15. CASE SyncDir
  BY <1>1, <1>2, <1>8, <2>15 DEF SyncDir, NextSource, settings, verdict, files, history, FitInv, Reading, Sources
<2>16. CASE WriteFails
  BY <1>1, <1>2, <1>8, <2>16 DEF WriteFails, Fail, NextSource, settings, verdict, files, history, FitInv, Reading, Sources
<2>17. CASE Resolve
  BY <1>1, <1>2, <1>8, <2>17 DEF Resolve, settings, verdict, files, history, FitInv, Reading, Sources
<2>18. CASE ResolveFails
  BY <1>1, <1>2, <1>8, <2>18 DEF ResolveFails, Fail, NextSource, settings, verdict, files, history, FitInv, Reading, Sources
<2>19. CASE \E f \in Files, text \in Saves : EditorSaves(f, text)
  <3>1. PICK f \in Files, text \in Saves : EditorSaves(f, text)
    BY <2>19
  <3>2. disk' = [disk EXCEPT ![f] = text] /\ DOMAIN disk = Files /\ text \in Seq(Cell)
    BY <3>1, LintFixAssumption DEF EditorSaves, BatchInv, TypeOK
  <3>3. (\A g \in Files : disk[g] \in Seq(Cell)) => \A g \in Files : disk'[g] \in Seq(Cell)
    BY <3>2
  <3>4. UNCHANGED <<settings, pc, pos, contents, report, reported, read>>
    BY <3>1 DEF EditorSaves, verdict
  <3>. QED BY <3>3, <3>4 DEF settings, FitInv, Reading, Sources
<2>20. CASE PowerLoss
  BY <1>1, <1>2, <1>8, <2>20 DEF PowerLoss, settings, verdict, files, history, FitInv, Reading, Sources
<2>21. CASE UNCHANGED vars
  BY <1>1, <1>2, <1>8, <2>21 DEF vars, settings, verdict, files, history, FitInv, Reading, Sources
<2>. QED BY <1>8, <2>1, <2>2, <2>3, <2>4, <2>5, <2>6, <2>7, <2>8, <2>9, <2>10, <2>11, <2>12, <2>13, <2>14, <2>15, <2>16, <2>17, <2>18, <2>19, <2>20, <2>21 DEF Next, Command
<1>. QED BY <1>7, <1>8

\* Only these steps enter or go round the loop; an editor may save meanwhile.
LEMMA LoopMoves ==
  ASSUME [Next]_vars
  PROVE  \/ LoadConfig \/ FixRound \/ FixSaturates
         \/ pc' \notin {"fix", "fixed"} \/ UNCHANGED <<pc, pos, contents, report, read>>
<1>1. CASE ReadSources
  BY <1>1 DEF ReadSources, settings, verdict, files, history
<1>2. CASE ReadFails
  BY <1>2 DEF ReadFails, settings, verdict, files, history
<1>3. CASE LoadFails
  BY <1>3 DEF LoadFails, Fail, NextSource, settings, verdict, files, history
<1>4. CASE Finish
  BY <1>4 DEF Finish, settings, verdict, files, history
<1>5. CASE NothingFixed
  BY <1>5 DEF NothingFixed, settings, verdict, files, history
<1>6. CASE PrintFixed
  BY <1>6 DEF PrintFixed, settings, verdict, files, history
<1>7. CASE PrintFails
  BY <1>7 DEF PrintFails, Fail, NextSource, settings, verdict, files, history
<1>8. CASE FormatSame
  BY <1>8 DEF FormatSame, NextSource, settings, verdict, files, history
<1>9. CASE FormatStdin
  BY <1>9 DEF FormatStdin, Fail, NextSource, settings, verdict, files, history
<1>10. CASE FormatChanged
  BY <1>10 DEF FormatChanged, settings, verdict, files, history
<1>11. CASE WriteFixed
  BY <1>11 DEF WriteFixed, settings, verdict, files, history
<1>12. CASE Stage
  BY <1>12 DEF Stage, settings, verdict, files, history
<1>13. CASE Sync
  BY <1>13 DEF Sync, settings, verdict, files, history
<1>14. CASE Rename
  BY <1>14 DEF Rename, settings, verdict, files, history
<1>15. CASE SyncDir
  BY <1>15 DEF SyncDir, NextSource, settings, verdict, files, history
<1>16. CASE WriteFails
  BY <1>16 DEF WriteFails, Fail, NextSource, settings, verdict, files, history
<1>17. CASE Resolve
  BY <1>17 DEF Resolve, settings, verdict, files, history
<1>18. CASE ResolveFails
  BY <1>18 DEF ResolveFails, Fail, NextSource, settings, verdict, files, history
<1>19. CASE Report
  BY <1>19 DEF Report, NextSource, settings, verdict, files, history
<1>20. CASE \E f \in Files, text \in Saves : EditorSaves(f, text)
  BY <1>20 DEF EditorSaves, settings, verdict, files, history
<1>21. CASE PowerLoss
  BY <1>21 DEF PowerLoss, settings, verdict, files, history
<1>22. CASE UNCHANGED vars
  BY <1>22 DEF vars, settings, verdict, files, history
<1>. QED BY <1>1, <1>2, <1>3, <1>4, <1>5, <1>6, <1>7, <1>8, <1>9, <1>10, <1>11, <1>12, <1>13, <1>14, <1>15, <1>16, <1>17, <1>18, <1>19, <1>20, <1>21, <1>22 DEF Next, Command

\* A round takes the loop one round on; the loop at hand starts afresh.
LEMMA LoopingStep ==
  ASSUME BatchInv, BatchInv', FitInv, [Next]_vars
  PROVE  Looping' /\ ConvergedIsDone'
<1>1. pc \in {"next", "fix", "fixed", "format"} /\ pos \in 1..Len(batch) => pos \in DOMAIN read
  BY DEF FitInv, Reading, Sources
<1>2. MaxIterations \in Nat
  BY SpecTextAssumption
<1>3. CASE LoadConfig
  <2>1. /\ UNCHANGED <<pos, contents, report, read>> /\ pc = "next" /\ pc' # "fixed"
        /\ report = NoReport /\ pos <= Len(batch)
    BY <1>3 DEF LoadConfig, FitInv, Reading, history
  <2>2. pos \in 1..Len(batch)
    BY <2>1, LenProperties DEF BatchInv, TypeOK
  <2>3. contents[pos] = read[pos]
    BY <1>1, <2>1, <2>2 DEF FitInv, Reading
  <2>4. Within(read[pos], [text |-> contents[pos], report |-> report])
    BY <2>1, <2>3, LoopStarts
  <2>5. report.applied = 0 /\ report.iterations = 0 /\ ~report.converged
    BY <2>1 DEF NoReport
  <2>. QED BY <1>2, <2>1, <2>3, <2>4, <2>5 DEF Looping, ConvergedIsDone
<1>4. CASE FixRound
  <2>. DEFINE s == [text |-> contents[pos], report |-> report]
              r == RoundOf(s)
  <2>1. /\ pos \in Sources
        /\ contents'[pos] = RoundOf(s).text /\ report' = RoundOf(s).report
        /\ [text |-> contents'[pos], report |-> report'] = RoundOf(s)
        /\ pc' = IF report'.converged THEN "fixed" ELSE "fix"
    BY <1>4, RoundSteps DEF FixRound, BatchInv
  <2>2. /\ pc = "fix" /\ command = "fix" /\ DOMAIN read = Sources
        /\ report.iterations < MaxIterations /\ UNCHANGED <<pos, read>>
    BY <1>4 DEF FixRound, FitInv, Reading, BatchInv, Course, history
  <2>3. /\ contents[pos] \in Seq(Cell) /\ report.iterations \in Nat
        /\ Within(read[pos], s) /\ ~report.converged
        /\ report.applied \in Nat /\ (report.applied = 0 => contents[pos] = read[pos])
    BY <1>2, <2>1, <2>2 DEF FitInv, Reading, Looping
  <2>4. s.text = contents[pos] /\ s.report = report
    OBVIOUS
  <2>. HIDE DEF s
  <2>5. ~Stops(s)
    BY <2>2, <2>3, <2>4 DEF Stops
  <2>6. Within(read[pos], r)
    BY <2>3, <2>5, LoopGoesOn
  <2>7. /\ \E d \in Nat : r.report.applied = s.report.applied + d /\ (d = 0 => r.text = s.text)
        /\ r.report.iterations = s.report.iterations \/ r.report.iterations = s.report.iterations + 1
        /\ r.report.converged => CollectEdits(Diagnostics(r.text, "unknown")) = <<>>
    BY <2>3, <2>4, RoundData
  <2>. HIDE DEF r
  <2>8. r.report.applied \in Nat /\ (r.report.applied = 0 => r.text = read[pos])
    BY <2>3, <2>4, <2>7
  <2>9. r.report.iterations \in 0..MaxIterations
    BY <1>2, <2>2, <2>3, <2>4, <2>7
  <2>10. r.report.converged => Stops(r)
    BY DEF Stops
  <2>11. /\ report' = r.report /\ contents'[pos] = r.text /\ pos' = pos /\ read' = read
         /\ [text |-> contents'[pos], report |-> report'] = r
    BY <2>1, <2>2 DEF r
  <2>12. /\ pc' = "fixed" => r.report.converged
         /\ pc' = "fix" => ~r.report.converged
    BY <2>1, <2>11
  <2>13. ConvergedIsDone'
    BY <2>7, <2>11, <2>12, Zenon DEF ConvergedIsDone, FixDiagnostics, Text
  <2>14. Looping'
    BY <2>6, <2>8, <2>9, <2>10, <2>11, <2>12 DEF Looping
  <2>. QED BY <2>13, <2>14
<1>5. CASE FixSaturates
  <2>1. /\ pc = "fix" /\ report.iterations = MaxIterations
        /\ UNCHANGED <<pos, contents, report, read>>
    BY <1>5 DEF FixSaturates, history
  <2>2. ~report.converged
    BY <2>1 DEF FitInv, Looping
  <2>3. Stops([text |-> contents[pos], report |-> report])
    BY <1>2, <2>1 DEF Stops
  <2>. QED BY <2>1, <2>2, <2>3 DEF FitInv, Looping, ConvergedIsDone
<1>6. CASE LoadConfig \/ FixRound \/ FixSaturates
  BY <1>3, <1>4, <1>5, <1>6
<1>7. ASSUME \/ pc' \notin {"fix", "fixed"}
             \/ UNCHANGED <<pc, pos, contents, report, read>>
      PROVE  Looping' /\ ConvergedIsDone'
  BY <1>7 DEF FitInv, Looping, ConvergedIsDone, FixDiagnostics, Text
<1>8. \/ LoadConfig \/ FixRound \/ FixSaturates
      \/ pc' \notin {"fix", "fixed"} \/ UNCHANGED <<pc, pos, contents, report, read>>
  BY LoopMoves
<1>. QED BY <1>6, <1>7, <1>8

\* When the loop is over, this is what it made of the source.
LEMMA LoopOver ==
  ASSUME FitInv, pc = "fixed"
  PROVE  Fixes(read[pos], contents[pos], report.applied)
<1>. DEFINE s == [text |-> contents[pos], report |-> report]
<1>1. Within(read[pos], s) /\ Stops(s)
  BY DEF FitInv, Looping
<1>2. s.text = contents[pos] /\ s.report.applied = report.applied
  OBVIOUS
<1>. HIDE DEF s
<1>. QED BY <1>1, <1>2 DEF Fixes

\* An outcome, once reached, stays.
LEMMA OutcomesStep ==
  ASSUME BatchInv, FitInv, [Next]_vars
  PROVE  Outcomes'
<1>1. UNCHANGED settings /\ Len(batch) \in Nat
  BY SettingsStay, LenProperties DEF BatchInv, TypeOK
<1>2. \A i \in reported : i # pos /\ i \in Sources
  BY <1>1 DEF BatchInv, Tally, TypeOK, Sources
<1>3. CASE ReadSources
  BY <1>1, <1>3 DEF ReadSources, BatchInv, Course, Outcomes, Writing, verdict
<1>4. CASE FixRound
  <2>1. /\ contents' = [contents EXCEPT ![pos] = RoundOf([text |-> contents[pos], report |-> report]).text]
        /\ DOMAIN contents = Sources /\ pc = "fix"
    BY <1>4, RoundSteps DEF FixRound, BatchInv, Course, Sources
  <2>2. \A i \in reported : contents'[i] = contents[i]
    BY <1>2, <2>1
  <2>3. pc' \in {"fix", "fixed"} /\ reported' = reported /\ read' = read
    BY <1>4 DEF FixRound, Round, verdict, history
  <2>. QED BY <1>1, <2>2, <2>3 DEF settings, FitInv, Outcomes, Writing
<1>5. CASE FormatChanged
  <2>1. command = "format"
    BY <1>5 DEF FormatChanged, BatchInv, Course
  <2>. QED BY <1>1, <2>1 DEF settings, Outcomes
<1>6. CASE NothingFixed \/ PrintFixed \/ WriteFixed
  <2>1. /\ pc = "fixed" /\ UNCHANGED <<pos, contents, read, reported>>
        /\ pc' \in Writing => report.applied # 0
        /\ report.applied \in Nat
    BY <1>6 DEF NothingFixed, PrintFixed, WriteFixed, verdict, history, Writing, FitInv, Looping
  <2>2. Fixes(read[pos], contents[pos], report.applied)
    BY <2>1, LoopOver
  <2>. QED BY <1>1, <2>1, <2>2 DEF settings, FitInv, Outcomes
<1>7. CASE LoadConfig
  <2>1. /\ UNCHANGED <<pos, contents, read, reported>>
        /\ command = "fix" => pc' = "fix"
    BY <1>7 DEF LoadConfig, verdict, history
  <2>. QED BY <1>1, <2>1 DEF settings, FitInv, Outcomes, Writing
<1>8. CASE Report
  <2>1. /\ pc = "report" /\ pc' = "next" /\ UNCHANGED <<contents, read>>
        /\ reported' = reported \cup {pos}
    BY <1>8 DEF Report, NextSource, history
  <2>. QED BY <1>1, <2>1 DEF settings, FitInv, Outcomes, Writing
<1>9. ASSUME /\ UNCHANGED <<contents, read, reported>>
             /\ \/ pc' \notin Writing \cup {"profile", "report"}
                \/ UNCHANGED pos /\ pc \in Writing
                \/ UNCHANGED pos /\ pc \in {"profile", "report"} /\ pc' \notin Writing
      PROVE  Outcomes'
  BY <1>1, <1>9 DEF settings, FitInv, Outcomes
<1>10. CASE \/ ReadSources \/ FixRound \/ FormatChanged \/ NothingFixed \/ PrintFixed \/ WriteFixed
            \/ LoadConfig \/ Report
  BY <1>3, <1>4, <1>5, <1>6, <1>7, <1>8, <1>10
<1>11. \/ ReadSources \/ FixRound \/ FormatChanged \/ NothingFixed \/ PrintFixed \/ WriteFixed
       \/ LoadConfig \/ Report
       \/ /\ UNCHANGED <<contents, read, reported>>
          /\ \/ pc' \notin Writing \cup {"profile", "report"}
             \/ UNCHANGED pos /\ pc \in Writing
             \/ UNCHANGED pos /\ pc \in {"profile", "report"} /\ pc' \notin Writing
<2>1. CASE ReadFails
  BY <2>1 DEF ReadFails, settings, verdict, files, history, Writing
<2>2. CASE LoadFails
  BY <2>2 DEF LoadFails, Fail, NextSource, settings, verdict, files, history, Writing
<2>3. CASE Finish
  BY <2>3 DEF Finish, settings, verdict, files, history, Writing
<2>4. CASE FixSaturates
  BY <2>4 DEF FixSaturates, settings, verdict, files, history, Writing
<2>5. CASE PrintFails
  BY <2>5 DEF PrintFails, Fail, NextSource, settings, verdict, files, history, Writing
<2>6. CASE FormatSame
  BY <2>6 DEF FormatSame, NextSource, settings, verdict, files, history, Writing
<2>7. CASE FormatStdin
  BY <2>7 DEF FormatStdin, Fail, NextSource, settings, verdict, files, history, Writing
<2>8. CASE Stage
  BY <2>8 DEF Stage, settings, verdict, files, history, Writing
<2>9. CASE Sync
  BY <2>9 DEF Sync, settings, verdict, files, history, Writing
<2>10. CASE Rename
  BY <2>10 DEF Rename, settings, verdict, files, history, Writing
<2>11. CASE SyncDir
  BY <2>11 DEF SyncDir, NextSource, settings, verdict, files, history, Writing
<2>12. CASE WriteFails
  BY <2>12 DEF WriteFails, Fail, NextSource, settings, verdict, files, history, Writing
<2>13. CASE Resolve
  BY <2>13 DEF Resolve, settings, verdict, files, history, Writing
<2>14. CASE ResolveFails
  BY <2>14 DEF ResolveFails, Fail, NextSource, settings, verdict, files, history, Writing
<2>15. CASE \E f \in Files, text \in Saves : EditorSaves(f, text)
  BY <2>15 DEF EditorSaves, settings, verdict, files, history, Writing
<2>16. CASE PowerLoss
  BY <2>16 DEF PowerLoss, settings, verdict, files, history, Writing
<2>17. CASE UNCHANGED vars
  BY <2>17 DEF vars, settings, verdict, files, history, Writing
<2>. QED BY <2>1, <2>2, <2>3, <2>4, <2>5, <2>6, <2>7, <2>8, <2>9, <2>10, <2>11, <2>12, <2>13, <2>14, <2>15, <2>16, <2>17 DEF Next, Command
<1>. QED BY <1>9, <1>10, <1>11

\* A file nobody saved is written by the command alone, and with what the loop
\* makes of what was read.
LEMMA OnDiskStep ==
  ASSUME BatchInv, FitInv, [Next]_vars
  PROVE  OnDisk'
<1>1. UNCHANGED settings /\ DOMAIN disk = Files
  BY SettingsStay DEF BatchInv, TypeOK
<1>2. CASE ReadSources
  <2>1. PICK piped \in Saves :
          contents' = [i \in 1..Len(batch) |-> IF batch[i] = Stdin THEN piped ELSE disk[batch[i]]]
    BY <1>2 DEF ReadSources
  <2>2. read' = contents' /\ disk' = disk
    BY <1>2 DEF ReadSources, files
  <2>. QED BY <1>1, <2>1, <2>2 DEF settings, OnDisk
<1>3. CASE Rename
  <2>1. /\ disk' = [disk EXCEPT ![Source] = temp.text] /\ pc = "rename"
        /\ UNCHANGED <<read, overtaken>>
    BY <1>3 DEF Rename, history
  <2>2. /\ command \in {"fix", "format"} /\ Source \in Files /\ pos \in DOMAIN read
        /\ temp.text = contents[pos]
    BY <2>1 DEF BatchInv, Course, Busy, Writing, FitInv, Reading, Held, Sources
  <2>3. CASE command = "format"
    BY <1>1, <2>3 DEF settings, OnDisk
  <2>4. CASE command = "fix"
    <3>1. PICK n : n # 0 /\ Fixes(read[pos], contents[pos], n)
      BY <2>1, <2>4 DEF FitInv, Outcomes, Writing
    <3>2. ASSUME NEW i \in DOMAIN read, batch[i] \notin overtaken \cup {Stdin}
          PROVE  disk'[batch[i]] = read[i] \/ \E m : m # 0 /\ Fixes(read[i], disk'[batch[i]], m)
      <4>1. CASE batch[i] = Source
        <5>1. disk'[batch[i]] = contents[pos]
          BY <1>1, <2>1, <2>2, <4>1
        <5>2. read[i] = read[pos]
          BY <2>2, <3>2, <4>1 DEF FitInv, Reading, Source
        <5>. QED BY <3>1, <5>1, <5>2
      <4>2. CASE batch[i] # Source
        <5>1. disk'[batch[i]] = disk[batch[i]]
          BY <2>1, <1>1, <4>2, <3>2 DEF FitInv, Reading, BatchInv, TypeOK
        <5>2. disk[batch[i]] = read[i] \/ \E m : m # 0 /\ Fixes(read[i], disk[batch[i]], m)
          BY <2>1, <2>4, <3>2 DEF FitInv, OnDisk
        <5>. QED BY <5>1, <5>2
      <4>. QED BY <4>1, <4>2
    <3>. QED BY <1>1, <2>1, <2>4, <3>2 DEF settings, OnDisk
  <2>. QED BY <2>2, <2>3, <2>4
<1>4. CASE \E f \in Files, text \in Saves : EditorSaves(f, text)
  <2>1. PICK f \in Files, text \in Saves : EditorSaves(f, text)
    BY <1>4
  <2>2. /\ disk' = [disk EXCEPT ![f] = text] /\ overtaken' = overtaken \cup {f}
        /\ UNCHANGED <<pc, read>>
    BY <2>1 DEF EditorSaves
  <2>3. \A i \in DOMAIN read : batch[i] \in Files \cup {Stdin}
    BY ElementOfSeq DEF FitInv, Reading, Sources, BatchInv, TypeOK
  <2>4. \A i \in DOMAIN read : batch[i] \notin overtaken' \cup {Stdin} =>
          disk'[batch[i]] = disk[batch[i]] /\ batch[i] \notin overtaken \cup {Stdin}
    BY <1>1, <2>2, <2>3
  <2>. QED BY <1>1, <2>2, <2>4 DEF settings, FitInv, OnDisk
<1>5. CASE PowerLoss
  BY <1>5 DEF PowerLoss, OnDisk
<1>6. ASSUME UNCHANGED <<disk, read, overtaken>>, pc' = "dead" \/ pc # "dead" \/ pc' = pc
      PROVE  OnDisk'
  BY <1>1, <1>6 DEF settings, FitInv, OnDisk
<1>7. CASE ReadSources \/ Rename \/ PowerLoss \/ \E f \in Files, text \in Saves : EditorSaves(f, text)
  BY <1>2, <1>3, <1>4, <1>5, <1>7
<1>8. \/ ReadSources \/ Rename \/ PowerLoss \/ \E f \in Files, text \in Saves : EditorSaves(f, text)
      \/ UNCHANGED <<disk, read, overtaken>> /\ (pc # "dead" \/ pc' = pc)
<2>1. CASE ReadFails
  BY <2>1 DEF ReadFails, settings, verdict, files, history
<2>2. CASE LoadConfig
  BY <2>2 DEF LoadConfig, settings, verdict, files, history
<2>3. CASE LoadFails
  BY <2>3 DEF LoadFails, Fail, NextSource, settings, verdict, files, history
<2>4. CASE Finish
  BY <2>4 DEF Finish, settings, verdict, files, history
<2>5. CASE FixRound
  BY <2>5 DEF FixRound, Round, settings, verdict, files, history
<2>6. CASE FixSaturates
  BY <2>6 DEF FixSaturates, settings, verdict, files, history
<2>7. CASE NothingFixed
  BY <2>7 DEF NothingFixed, settings, verdict, files, history
<2>8. CASE PrintFixed
  BY <2>8 DEF PrintFixed, settings, verdict, files, history
<2>9. CASE PrintFails
  BY <2>9 DEF PrintFails, Fail, NextSource, settings, verdict, files, history
<2>10. CASE FormatSame
  BY <2>10 DEF FormatSame, NextSource, settings, verdict, files, history
<2>11. CASE FormatStdin
  BY <2>11 DEF FormatStdin, Fail, NextSource, settings, verdict, files, history
<2>12. CASE FormatChanged
  BY <2>12 DEF FormatChanged, settings, verdict, files, history
<2>13. CASE WriteFixed
  BY <2>13 DEF WriteFixed, settings, verdict, files, history
<2>14. CASE Stage
  BY <2>14 DEF Stage, settings, verdict, files, history
<2>15. CASE Sync
  BY <2>15 DEF Sync, settings, verdict, files, history
<2>16. CASE SyncDir
  BY <2>16 DEF SyncDir, NextSource, settings, verdict, files, history
<2>17. CASE WriteFails
  BY <2>17 DEF WriteFails, Fail, NextSource, settings, verdict, files, history
<2>18. CASE Resolve
  BY <2>18 DEF Resolve, settings, verdict, files, history
<2>19. CASE ResolveFails
  BY <2>19 DEF ResolveFails, Fail, NextSource, settings, verdict, files, history
<2>20. CASE Report
  BY <2>20 DEF Report, NextSource, settings, verdict, files, history
<2>21. CASE \E f \in Files, text \in Saves : EditorSaves(f, text)
  BY <2>21 DEF EditorSaves, settings, verdict, files, history
<2>22. CASE PowerLoss
  BY <2>22 DEF PowerLoss, settings, verdict, files, history
<2>23. CASE UNCHANGED vars
  BY <2>23 DEF vars, settings, verdict, files, history
<2>. QED BY <2>1, <2>2, <2>3, <2>4, <2>5, <2>6, <2>7, <2>8, <2>9, <2>10, <2>11, <2>12, <2>13, <2>14, <2>15, <2>16, <2>17, <2>18, <2>19, <2>20, <2>21, <2>22, <2>23 DEF Next, Command
<1>. QED BY <1>6, <1>7, <1>8

\* The source at hand is on the disk as the command has it, written or not.
LEMMA HeldStep ==
  ASSUME BatchInv, FitInv, [Next]_vars
  PROVE  Held'
<1>1. UNCHANGED settings /\ DOMAIN disk = Files
  BY SettingsStay DEF BatchInv, TypeOK
<1>2. CASE Stage
  BY <1>2 DEF Stage, Held, Text
<1>3. CASE Sync
  BY <1>3 DEF Sync, FitInv, Held, BatchInv, Staged
<1>4. CASE Rename
  <2>1. /\ disk' = [disk EXCEPT ![Source] = temp.text] /\ pc = "rename" /\ pc' = "sync_dir"
        /\ UNCHANGED <<pos, contents>>
    BY <1>4 DEF Rename
  <2>2. Source \in Files /\ temp.text = contents[pos]
    BY <2>1 DEF BatchInv, Course, Writing, FitInv, Held
  <2>. QED BY <1>1, <2>1, <2>2 DEF Held, Source, settings
<1>5. CASE SyncDir
  BY <1>1, <1>5 DEF SyncDir, NextSource, FitInv, Held, Source, settings, history
<1>6. CASE NothingFixed
  <2>1. /\ pc = "fixed" /\ pc' = "profile" /\ report.applied = 0
        /\ UNCHANGED <<pos, contents, read, disk, overtaken>>
    BY <1>6 DEF NothingFixed, files, history
  <2>2. contents[pos] = read[pos] /\ Fixes(read[pos], contents[pos], 0)
    BY <2>1, LoopOver DEF FitInv, Looping
  <2>3. pos \in DOMAIN read
    BY <2>1 DEF BatchInv, Course, Busy, FitInv, Reading, Sources
  <2>4. ASSUME Source \notin overtaken \cup {Stdin}, command # "format" PROVE disk[Source] = contents[pos]
    <3>1. CASE disk[Source] = read[pos]
      BY <2>2, <3>1
    <3>2. CASE \E n : n # 0 /\ Fixes(read[pos], disk[Source], n)
      BY <2>2, <3>2, FixesOneWay
    <3>. QED BY <2>1, <2>3, <2>4, <3>1, <3>2 DEF FitInv, OnDisk, Source
  <2>. QED BY <1>1, <2>1, <2>4 DEF Held, Source, settings
<1>7. CASE PrintFixed
  <2>1. Source = Stdin /\ UNCHANGED pos /\ pc' = "profile"
    BY <1>7 DEF PrintFixed, IsStdin
  <2>. QED BY <1>1, <2>1 DEF Held, Source, settings
<1>8. CASE LoadConfig
  <2>1. /\ pc = "next" /\ pc' \in {"fix", "format", "profile"}
        /\ pc' = "profile" => command \in {"lint", "check"}
        /\ UNCHANGED <<pos, contents, read, disk, overtaken>> /\ pos <= Len(batch)
    BY <1>8 DEF LoadConfig, files, history, BatchInv, TypeOK, Commands
  <2>2. pos \in DOMAIN read
    BY <2>1, LenProperties DEF BatchInv, TypeOK, FitInv, Reading, Sources
  <2>3. contents[pos] = read[pos]
    BY <2>1, <2>2 DEF FitInv, Reading
  <2>4. command \in {"lint", "check"} /\ Source \notin overtaken \cup {Stdin} => disk[Source] = read[pos]
    BY <2>1, <2>2 DEF FitInv, OnDisk, Source
  <2>. QED BY <1>1, <2>1, <2>3, <2>4 DEF Held, Source, settings
<1>9. CASE \E f \in Files, text \in Saves : EditorSaves(f, text)
  <2>1. PICK f \in Files, text \in Saves : EditorSaves(f, text)
    BY <1>9
  <2>2. /\ disk' = [disk EXCEPT ![f] = text] /\ overtaken' = overtaken \cup {f}
        /\ UNCHANGED <<pc, pos, contents, temp>>
    BY <2>1 DEF EditorSaves
  <2>3. Source \notin overtaken' => disk'[Source] = disk[Source] /\ Source \notin overtaken
    <3>1. Source # f => [disk EXCEPT ![f] = text][Source] = disk[Source] \/ Source \notin Files
      BY <1>1
    <3>2. pc \in {"sync_dir", "profile", "report"} => Source \in Files \cup {Stdin}
      BY ElementOfSeq DEF BatchInv, Course, Busy, Writing, TypeOK, Source
    <3>. QED BY <2>2, <3>1, <3>2
  <2>. QED BY <1>1, <2>2, <2>3 DEF FitInv, Held, Source, settings
<1>10. CASE Resolve
  BY <1>1, <1>10 DEF Resolve, FitInv, Held, Source, settings, files, history
<1>11. CASE UNCHANGED vars
  BY <1>11 DEF vars, FitInv, Held, Source, settings, files, history
<1>12. ASSUME pc' \notin {"sync", "rename", "sync_dir", "profile", "report"} PROVE Held'
  BY <1>12 DEF Held
<1>13. CASE Stage \/ Sync \/ Rename \/ SyncDir \/ NothingFixed \/ PrintFixed \/ LoadConfig \/ Resolve
  BY <1>2, <1>3, <1>4, <1>5, <1>6, <1>7, <1>8, <1>10, <1>13
<1>14. \/ Stage \/ Sync \/ Rename \/ SyncDir \/ NothingFixed \/ PrintFixed \/ LoadConfig \/ Resolve
       \/ UNCHANGED vars \/ \E f \in Files, text \in Saves : EditorSaves(f, text)
       \/ pc' \notin {"sync", "rename", "sync_dir", "profile", "report"}
<2>1. CASE ReadSources
  BY <2>1 DEF ReadSources, settings, verdict, files, history
<2>2. CASE ReadFails
  BY <2>2 DEF ReadFails, settings, verdict, files, history
<2>3. CASE LoadFails
  BY <2>3 DEF LoadFails, Fail, NextSource, settings, verdict, files, history
<2>4. CASE Finish
  BY <2>4 DEF Finish, settings, verdict, files, history
<2>5. CASE FixRound
  BY <2>5 DEF FixRound, Round, settings, verdict, files, history
<2>6. CASE FixSaturates
  BY <2>6 DEF FixSaturates, settings, verdict, files, history
<2>7. CASE PrintFails
  BY <2>7 DEF PrintFails, Fail, NextSource, settings, verdict, files, history
<2>8. CASE FormatSame
  BY <2>8 DEF FormatSame, NextSource, settings, verdict, files, history
<2>9. CASE FormatStdin
  BY <2>9 DEF FormatStdin, Fail, NextSource, settings, verdict, files, history
<2>10. CASE FormatChanged
  BY <2>10 DEF FormatChanged, settings, verdict, files, history
<2>11. CASE WriteFixed
  BY <2>11 DEF WriteFixed, settings, verdict, files, history
<2>12. CASE WriteFails
  BY <2>12 DEF WriteFails, Fail, NextSource, settings, verdict, files, history
<2>13. CASE ResolveFails
  BY <2>13 DEF ResolveFails, Fail, NextSource, settings, verdict, files, history
<2>14. CASE Report
  BY <2>14 DEF Report, NextSource, settings, verdict, files, history
<2>15. CASE \E f \in Files, text \in Saves : EditorSaves(f, text)
  BY <2>15 DEF EditorSaves, settings, verdict, files, history
<2>16. CASE PowerLoss
  BY <2>16 DEF PowerLoss, settings, verdict, files, history
<2>17. CASE UNCHANGED vars
  BY <2>17 DEF vars, settings, verdict, files, history
<2>. QED BY <2>1, <2>2, <2>3, <2>4, <2>5, <2>6, <2>7, <2>8, <2>9, <2>10, <2>11, <2>12, <2>13, <2>14, <2>15, <2>16, <2>17 DEF Next, Command
<1>. QED BY <1>9, <1>11, <1>12, <1>13, <1>14

\* What was reported of a file nobody saved is still what the file holds: the
\* one write that could change it, of the same file named twice, writes what
\* the first one wrote.
LEMMA FitsStep ==
  ASSUME BatchInv, FitInv, [Next]_vars
  PROVE  ReportFitsDisk'
<1>1. UNCHANGED settings /\ DOMAIN disk = Files /\ Len(batch) \in Nat
  BY SettingsStay, LenProperties DEF BatchInv, TypeOK
<1>2. \A i \in reported : i # pos /\ i \in Sources /\ i \in DOMAIN read
  BY <1>1 DEF BatchInv, Tally, TypeOK, FitInv, Reading, Sources
<1>3. CASE ReadSources
  BY <1>1, <1>3 DEF ReadSources, BatchInv, Course, ReportFitsDisk, verdict
<1>4. CASE FixRound
  <2>1. /\ contents' = [contents EXCEPT ![pos] = RoundOf([text |-> contents[pos], report |-> report]).text]
        /\ DOMAIN contents = Sources /\ pc = "fix"
    BY <1>4, RoundSteps DEF FixRound, BatchInv, Course, Sources
  <2>2. \A i \in reported : contents'[i] = contents[i]
    BY <1>2, <2>1
  <2>3. UNCHANGED <<reported, disk, overtaken>>
    BY <1>4 DEF FixRound, verdict, files, history
  <2>. QED BY <1>1, <2>1, <2>2, <2>3 DEF settings, FitInv, ReportFitsDisk
<1>5. CASE FormatChanged
  <2>1. command = "format" /\ UNCHANGED reported
    BY <1>5 DEF FormatChanged, BatchInv, Course, verdict
  <2>. QED BY <2>1 DEF BatchInv, Tally, ReportFitsDisk
<1>6. CASE Rename
  <2>1. /\ disk' = [disk EXCEPT ![Source] = temp.text] /\ pc = "rename"
        /\ UNCHANGED <<pos, contents, read, reported, overtaken>>
    BY <1>6 DEF Rename, verdict, history
  <2>2. /\ command \in {"fix", "format"} /\ Source \in Files /\ pos \in DOMAIN read
        /\ temp.text = contents[pos]
    BY <2>1 DEF BatchInv, Course, Busy, Writing, FitInv, Reading, Held, Sources
  <2>3. CASE command = "format"
    BY <2>1, <2>3 DEF BatchInv, Tally, ReportFitsDisk
  <2>4. CASE command = "fix"
    <3>1. PICK n : Fixes(read[pos], contents[pos], n)
      BY <2>1, <2>4 DEF FitInv, Outcomes, Writing
    <3>2. ASSUME NEW i \in reported, batch[i] \notin overtaken \cup {Stdin}
          PROVE  disk'[batch[i]] = contents[i]
      <4>1. CASE batch[i] = Source
        <5>1. disk'[batch[i]] = contents[pos]
          BY <1>1, <2>1, <2>2, <4>1
        <5>2. read[i] = read[pos]
          BY <1>2, <2>2, <3>2, <4>1 DEF FitInv, Reading, Source
        <5>3. PICK m : Fixes(read[i], contents[i], m)
          BY <2>4, <3>2 DEF FitInv, Outcomes
        <5>. QED BY <3>1, <5>1, <5>2, <5>3, FixesOneWay
      <4>2. CASE batch[i] # Source
        <5>1. disk[batch[i]] = contents[i]
          BY <2>1, <3>2 DEF FitInv, ReportFitsDisk
        <5>2. batch[i] \in Files
          BY <1>2, <3>2, ElementOfSeq DEF BatchInv, TypeOK, Sources
        <5>. QED BY <1>1, <2>1, <4>2, <5>1, <5>2
      <4>. QED BY <4>1, <4>2
    <3>. QED BY <1>1, <2>1, <3>2 DEF settings, ReportFitsDisk
  <2>. QED BY <2>2, <2>3, <2>4
<1>7. CASE Report
  <2>1. /\ pc = "report" /\ UNCHANGED <<contents, disk, overtaken>>
        /\ reported' = reported \cup {pos} /\ command # "format"
    BY <1>7 DEF Report, NextSource, files, history, BatchInv, Course
  <2>2. Source \notin overtaken \cup {Stdin} => disk[Source] = contents[pos]
    BY <2>1 DEF FitInv, Held
  <2>. QED BY <1>1, <2>1, <2>2 DEF settings, FitInv, ReportFitsDisk, Source
<1>8. CASE \E f \in Files, text \in Saves : EditorSaves(f, text)
  <2>1. PICK f \in Files, text \in Saves : EditorSaves(f, text)
    BY <1>8
  <2>2. /\ disk' = [disk EXCEPT ![f] = text] /\ overtaken' = overtaken \cup {f}
        /\ UNCHANGED <<pc, contents, reported>>
    BY <2>1 DEF EditorSaves, verdict
  <2>3. \A i \in reported : batch[i] \in Files \cup {Stdin}
    BY <1>2, ElementOfSeq DEF Sources, BatchInv, TypeOK
  <2>4. \A i \in reported : batch[i] \notin overtaken' \cup {Stdin} =>
          disk'[batch[i]] = disk[batch[i]] /\ batch[i] \notin overtaken \cup {Stdin}
    BY <1>1, <2>2, <2>3
  <2>. QED BY <1>1, <2>2, <2>4 DEF settings, FitInv, ReportFitsDisk
<1>9. CASE PowerLoss
  BY <1>9 DEF PowerLoss, ReportFitsDisk
<1>10. ASSUME UNCHANGED <<disk, contents, reported, overtaken>>, pc # "dead" \/ pc' = pc
       PROVE  ReportFitsDisk'
  BY <1>1, <1>10 DEF settings, FitInv, ReportFitsDisk
<1>11. CASE \/ ReadSources \/ FixRound \/ FormatChanged \/ Rename \/ Report \/ PowerLoss
            \/ \E f \in Files, text \in Saves : EditorSaves(f, text)
  BY <1>3, <1>4, <1>5, <1>6, <1>7, <1>8, <1>9, <1>11
<1>12. \/ ReadSources \/ FixRound \/ FormatChanged \/ Rename \/ Report \/ PowerLoss
       \/ \E f \in Files, text \in Saves : EditorSaves(f, text)
       \/ UNCHANGED <<disk, contents, reported, overtaken>> /\ (pc # "dead" \/ pc' = pc)
<2>1. CASE ReadFails
  BY <2>1 DEF ReadFails, settings, verdict, files, history
<2>2. CASE LoadConfig
  BY <2>2 DEF LoadConfig, settings, verdict, files, history
<2>3. CASE LoadFails
  BY <2>3 DEF LoadFails, Fail, NextSource, settings, verdict, files, history
<2>4. CASE Finish
  BY <2>4 DEF Finish, settings, verdict, files, history
<2>5. CASE FixSaturates
  BY <2>5 DEF FixSaturates, settings, verdict, files, history
<2>6. CASE NothingFixed
  BY <2>6 DEF NothingFixed, settings, verdict, files, history
<2>7. CASE PrintFixed
  BY <2>7 DEF PrintFixed, settings, verdict, files, history
<2>8. CASE PrintFails
  BY <2>8 DEF PrintFails, Fail, NextSource, settings, verdict, files, history
<2>9. CASE FormatSame
  BY <2>9 DEF FormatSame, NextSource, settings, verdict, files, history
<2>10. CASE FormatStdin
  BY <2>10 DEF FormatStdin, Fail, NextSource, settings, verdict, files, history
<2>11. CASE WriteFixed
  BY <2>11 DEF WriteFixed, settings, verdict, files, history
<2>12. CASE Stage
  BY <2>12 DEF Stage, settings, verdict, files, history
<2>13. CASE Sync
  BY <2>13 DEF Sync, settings, verdict, files, history
<2>14. CASE SyncDir
  BY <2>14 DEF SyncDir, NextSource, settings, verdict, files, history
<2>15. CASE WriteFails
  BY <2>15 DEF WriteFails, Fail, NextSource, settings, verdict, files, history
<2>16. CASE Resolve
  BY <2>16 DEF Resolve, settings, verdict, files, history
<2>17. CASE ResolveFails
  BY <2>17 DEF ResolveFails, Fail, NextSource, settings, verdict, files, history
<2>18. CASE \E f \in Files, text \in Saves : EditorSaves(f, text)
  BY <2>18 DEF EditorSaves, settings, verdict, files, history
<2>19. CASE PowerLoss
  BY <2>19 DEF PowerLoss, settings, verdict, files, history
<2>20. CASE UNCHANGED vars
  BY <2>20 DEF vars, settings, verdict, files, history
<2>. QED BY <2>1, <2>2, <2>3, <2>4, <2>5, <2>6, <2>7, <2>8, <2>9, <2>10, <2>11, <2>12, <2>13, <2>14, <2>15, <2>16, <2>17, <2>18, <2>19, <2>20 DEF Next, Command
<1>. QED BY <1>10, <1>11, <1>12

\* A step keeps what is known of the texts and the disk.
LEMMA FitStep == BatchInv /\ FitInv /\ [Next]_vars => FitInv'
<1>. SUFFICES ASSUME BatchInv, FitInv, [Next]_vars PROVE FitInv'
  OBVIOUS
<1>0. BatchInv'
  BY BatchStep
<1>1. Reading'
  BY <1>0, ReadingStep
<1>2. Looping' /\ ConvergedIsDone'
  BY <1>0, LoopingStep
<1>3. Outcomes' /\ OnDisk' /\ Held' /\ ReportFitsDisk'
  BY OutcomesStep, OnDiskStep, HeldStep, FitsStep
<1>. QED BY <1>1, <1>2, <1>3 DEF FitInv

\* The inductive invariant of the texts and the disk.
THEOREM FitInvariant == Spec => []FitInv
<1>1. Init => FitInv
  BY InitFit
<1>2. BatchInv /\ FitInv /\ [Next]_vars => FitInv'
  BY FitStep
<1>. QED BY <1>1, <1>2, BatchInvariant, PTL DEF Spec

\* What `lint --fix` and `check` report of a source is reported of the text its
\* file holds: of a source whose fix was not written nothing is reported, and
\* one named twice is fixed the same way each time.
THEOREM ReportTellsDisk == Spec => []ReportFitsDisk
<1>1. FitInv => ReportFitsDisk
  BY DEF FitInv
<1>. QED BY <1>1, FitInvariant, PTL

\* The second half of FixSound: a fix that says it converged has no edit left
\* to apply, because apply_edits refuses none of those it is given.
THEOREM ConvergedMeansDone == Spec => []ConvergedIsDone
<1>1. FitInv => ConvergedIsDone
  BY DEF FitInv
<1>. QED BY <1>1, FitInvariant, PTL
-----------------------------------------------------------------------------
(* What of a text is essential, position by position.                      *)

\* Cell j is on the line that starts at i.
OnLine(t, i, j) == /\ i \in 1..Len(t) /\ j \in i..Len(t)
                   /\ \A k \in i..j : t[k] # "n"

\* Header k is the last one before cell i.
Under(t, k, i) == /\ k \in Headers(t) /\ i \in k..Len(t)
                  /\ \A h \in Headers(t) : ~(k < h /\ h <= i)

\* An item that begins with cell c.
Item(t, i, c) == i \in PreambleLines(t) /\ t[i] = c

\* Cells a..b are a word of the line that starts at i, not its first.
Word(t, i, a, b) ==
  /\ a \in 1..Len(t) /\ b \in a..Len(t) /\ i < a /\ OnLine(t, i, b)
  /\ \A k \in a..b : t[k] # "s"
  /\ t[a - 1] = "s" /\ (b = Len(t) \/ t[b + 1] \in {"s", "n"})

\* Words a..b and c..d are the same.
Alike(t, a, b, c, d) == d - c = b - a /\ \A x \in 0..b - a : t[a + x] = t[c + x]

\* The word a..b was on the line before.
Again(t, i, a, b) ==
  Word(t, i, a, b) /\ \E c, d \in 1..Len(t) : c < a /\ Word(t, i, c, d) /\ Alike(t, a, b, c, d)

\* Why a cell is not essential.
Cleaned(t, j) == \E k \in 1..Len(t) : Under(t, k, j) /\ t[k] = "C"
Repeated(t, j) ==
  \E i, a, b \in 1..Len(t) : Item(t, i, "I") /\ Again(t, i, a, b) /\ a - 1 <= j /\ j <= b
Trailing(t, j) == t[j] = "s" /\ (j = Len(t) \/ t[j + 1] \in {"s", "n"})
Comment(t, j) == \E i \in 1..Len(t) : Item(t, i, "h") /\ OnLine(t, i, j)
Doubled(t, j) == t[j] = "p" /\ Comment(t, j) /\ PercentRun(t, j) % 2 # 1

Kept(t, j) == ~Cleaned(t, j) /\ ~Repeated(t, j) /\ ~Trailing(t, j) /\ ~Doubled(t, j)

\* Where a line ends.
LEMMA OnLineIs ==
  ASSUME NEW t \in Seq(Cell), NEW i \in 1..Len(t), NEW j
  PROVE  j \in i..LineEnd(t, i) <=> OnLine(t, i, j)
<1>. DEFINE ends == {k \in i..Len(t) : t[k] = "n"}
<1>1. Len(t) \in Nat
  BY LenProperties
<1>2. LineEnd(t, i) = IF ends = {} THEN Len(t) ELSE Min(ends) - 1
  BY DEF LineEnd
<1>3. CASE ends = {}
  BY <1>1, <1>2, <1>3 DEF OnLine
<1>4. CASE ends # {}
  <2>1. ends \subseteq Nat
    BY <1>1
  <2>2. Min(ends) \in ends /\ \A k \in ends : Min(ends) <= k
    <3>. HIDE DEF ends
    <3>. QED BY <1>4, <2>1, MinIn
  <2>3. PICK m : m = Min(ends)
    OBVIOUS
  <2>4. m \in i..Len(t) /\ t[m] = "n" /\ \A k \in i..Len(t) : t[k] = "n" => m <= k
    BY <2>2, <2>3
  <2>5. LineEnd(t, i) = m - 1
    BY <1>2, <1>4, <2>3
  <2>. HIDE DEF ends
  <2>. QED BY <1>1, <2>4, <2>5 DEF OnLine
<1>. QED BY <1>3, <1>4

\* Where a section ends.
LEMMA UnderIs ==
  ASSUME NEW t \in Seq(Cell), NEW k \in Headers(t), NEW j
  PROVE  j \in k..SectionEnd(t, k) <=> Under(t, k, j)
<1>. DEFINE later == {h \in Headers(t) : h > k}
<1>1. Len(t) \in Nat /\ Headers(t) \subseteq 1..Len(t)
  BY LenProperties DEF Headers, Starts
<1>2. SectionEnd(t, k) = IF later = {} THEN Len(t) ELSE Min(later) - 1
  BY DEF SectionEnd
<1>3. CASE later = {}
  <2>1. \A h \in Headers(t) : h <= k
    BY <1>1, <1>3
  <2>. QED BY <1>1, <1>2, <1>3, <2>1 DEF Under
<1>4. CASE later # {}
  <2>1. later \subseteq Nat
    BY <1>1
  <2>2. Min(later) \in later /\ \A h \in later : Min(later) <= h
    <3>. HIDE DEF later
    <3>. QED BY <1>4, <2>1, MinIn
  <2>3. PICK m : m = Min(later)
    OBVIOUS
  <2>4. m \in Headers(t) /\ m > k /\ \A h \in Headers(t) : h > k => m <= h
    BY <2>2, <2>3
  <2>5. SectionEnd(t, k) = m - 1
    BY <1>2, <1>4, <2>3
  <2>. HIDE DEF later
  <2>. QED BY <1>1, <2>4, <2>5 DEF Under
<1>. QED BY <1>3, <1>4

\* The words of a list.
LEMMA WordIs ==
  ASSUME NEW t \in Seq(Cell), NEW i \in 1..Len(t)
  PROVE  /\ \A a, b \in 1..Len(t) : <<a, b>> \in ArchWords(t, i) <=> Word(t, i, a, b)
         /\ \A w \in ArchWords(t, i) : \E a, b \in 1..Len(t) : w = <<a, b>>
<1>. DEFINE e == LineEnd(t, i)
            firsts == {a \in i..e : t[a] # "s" /\ (a = i \/ t[a - 1] = "s")}
            lasts == {b \in i..e : t[b] # "s" /\ (b = e \/ t[b + 1] = "s")}
            Ends(a) == {b \in lasts : b >= a}
<1>1. Len(t) \in Nat /\ e \in i - 1..Len(t)
  BY LenProperties, LineEndIn
<1>2. \A j : j \in i..e <=> OnLine(t, i, j)
  BY OnLineIs
<1>3. ArchWords(t, i) = {w \in {<<a, Min(Ends(a))>> : a \in firsts} : w[1] # i}
  BY DEF ArchWords, WordsIn
<1>. HIDE DEF e
<1>4. ASSUME NEW a \in firsts
      PROVE  /\ Min(Ends(a)) \in a..e
             /\ \A b \in a..e : b = Min(Ends(a)) <=> /\ \A k \in a..b : t[k] # "s"
                                                     /\ b = e \/ t[b + 1] = "s"
  <2>1. Ends(a) # {}
    <3>. DEFINE Breaks == {b \in a..e : b = e \/ t[b + 1] = "s"}
    <3>1. Breaks \subseteq Nat /\ e \in Breaks
      BY <1>1
    <3>2. PICK x \in Breaks : \A y \in Breaks : x <= y
      <4>. HIDE DEF Breaks
      <4>. QED BY <3>1, NatLeast
    <3>3. t[x] # "s"
      <4>1. CASE x = a
        BY <4>1
      <4>2. CASE x # a
        <5>1. x - 1 \in a..e /\ x - 1 + 1 = x
          BY <1>1, <4>2
        <5>2. ~(x <= x - 1)
          BY <1>1
        <5>. QED BY <3>2, <5>1, <5>2
      <4>. QED BY <4>1, <4>2
    <3>4. x \in i..e /\ x >= a /\ (x = e \/ t[x + 1] = "s")
      BY <1>1, <3>2
    <3>5. x \in Ends(a)
      BY <3>3, <3>4
    <3>. HIDE DEF Ends
    <3>. QED BY <3>5
  <2>2. Ends(a) \subseteq Nat
    BY <1>1
  <2>3. Min(Ends(a)) \in Ends(a) /\ \A y \in Ends(a) : Min(Ends(a)) <= y
    <3>. HIDE DEF Ends
    <3>. QED BY <2>1, <2>2, MinIn
  <2>4. PICK m : m = Min(Ends(a))
    OBVIOUS
  <2>5. /\ m \in a..e /\ t[m] # "s" /\ (m = e \/ t[m + 1] = "s")
        /\ \A y \in i..e : t[y] # "s" /\ (y = e \/ t[y + 1] = "s") /\ y >= a => m <= y
    BY <1>1, <2>3, <2>4
  <2>6. ASSUME NEW z \in a..m, t[z] = "s" PROVE FALSE
    <3>. DEFINE Blank == {x \in a..m : t[x] = "s"}
    <3>1. Blank \subseteq Nat /\ z \in Blank
      BY <1>1, <2>6
    <3>2. PICK x \in Blank : \A y \in Blank : x <= y
      <4>. HIDE DEF Blank
      <4>. QED BY <3>1, NatLeast
    <3>3. x # a /\ x # m
      BY <2>5, <3>2
    <3>4. x - 1 \in a..m /\ x - 1 \in i..e /\ x - 1 >= a /\ x - 1 + 1 = x /\ ~(x <= x - 1) /\ ~(m <= x - 1)
      BY <1>1, <2>5, <3>2, <3>3
    <3>5. t[x - 1] # "s"
      BY <3>2, <3>4
    <3>. QED BY <2>5, <3>2, <3>4, <3>5
  <2>7. ASSUME NEW b \in a..e, \A k \in a..b : t[k] # "s", b = e \/ t[b + 1] = "s" PROVE b = m
    <3>1. b \in i..e /\ t[b] # "s" /\ b >= a
      BY <1>1, <2>7
    <3>2. m <= b
      BY <2>5, <2>7, <3>1
    <3>3. CASE m < b
      <4>1. m + 1 \in a..b /\ m # e
        BY <1>1, <2>5, <3>3
      <4>. QED BY <2>5, <2>7, <4>1
    <3>. QED BY <1>1, <2>5, <3>2, <3>3
  <2>. HIDE DEF Ends, firsts
  <2>. QED BY <2>4, <2>5, <2>6, <2>7
<1>5. ASSUME NEW a \in 1..Len(t), NEW b \in 1..Len(t)
      PROVE  <<a, b>> \in ArchWords(t, i) <=> Word(t, i, a, b)
  <2>1. <<a, b>> \in ArchWords(t, i) <=> a \in firsts /\ b = Min(Ends(a)) /\ a # i
    <3>. HIDE DEF firsts, Ends
    <3>. QED BY <1>3
  <2>2. ASSUME a \in firsts, b = Min(Ends(a)), a # i PROVE Word(t, i, a, b)
    <3>1. b \in a..e /\ (\A k \in a..b : t[k] # "s") /\ (b = e \/ t[b + 1] = "s")
      <4>. HIDE DEF firsts, Ends
      <4>. QED BY <1>4, <2>2
    <3>2. a \in i..e /\ t[a - 1] = "s" /\ i < a
      BY <1>1, <2>2
    <3>3. OnLine(t, i, b)
      BY <1>1, <1>2, <3>1, <3>2
    <3>4. b = Len(t) \/ t[b + 1] \in {"s", "n"}
      <4>1. CASE b = e /\ b # Len(t)
        <5>1. ~OnLine(t, i, b + 1)
          BY <1>1, <1>2, <3>1, <3>2, <4>1
        <5>. QED BY <1>1, <3>1, <3>2, <3>3, <4>1, <5>1 DEF OnLine
      <4>. QED BY <3>1, <4>1
    <3>. QED BY <1>1, <3>1, <3>2, <3>3, <3>4 DEF Word
  <2>3. ASSUME Word(t, i, a, b) PROVE a \in firsts /\ b = Min(Ends(a)) /\ a # i
    <3>1. b \in i..e /\ b \in a..e /\ a \in i..e
      BY <1>1, <1>2, <2>3 DEF Word, OnLine
    <3>2. t[a] # "s" /\ a # i /\ t[a - 1] = "s"
      BY <3>1, <2>3 DEF Word
    <3>3. a \in firsts
      BY <3>1, <3>2
    <3>4. b = e \/ t[b + 1] = "s"
      <4>1. CASE b # e
        <5>1. OnLine(t, i, b + 1)
          BY <1>1, <1>2, <3>1, <4>1
        <5>. QED BY <1>1, <2>3, <3>1, <5>1 DEF OnLine, Word
      <4>. QED BY <4>1
    <3>. HIDE DEF firsts, Ends
    <3>. QED BY <1>4, <2>3, <3>1, <3>2, <3>3, <3>4 DEF Word
  <2>. QED BY <2>1, <2>2, <2>3
<1>6. ASSUME NEW w \in ArchWords(t, i) PROVE \E a, b \in 1..Len(t) : w = <<a, b>>
  <2>1. PICK a \in firsts : w = <<a, Min(Ends(a))>>
    <3>. HIDE DEF firsts, Ends
    <3>. QED BY <1>3
  <2>2. a \in i..e
    OBVIOUS
  <2>3. Min(Ends(a)) \in a..e
    <3>. HIDE DEF firsts, Ends
    <3>. QED BY <1>4
  <2>. HIDE DEF firsts, Ends
  <2>. QED BY <1>1, <2>1, <2>2, <2>3
<1>. HIDE DEF firsts, Ends
<1>. QED BY <1>5, <1>6

\* The repetitions of a list.
LEMMA AgainIs ==
  ASSUME NEW t \in Seq(Cell), NEW i \in 1..Len(t)
  PROVE  /\ \A a, b \in 1..Len(t) : <<a, b>> \in Repeats(t, i) <=> Again(t, i, a, b)
         /\ \A w \in Repeats(t, i) : \E a, b \in 1..Len(t) : w = <<a, b>>
<1>1. Len(t) \in Nat
  BY LenProperties
<1>2. /\ \A a, b \in 1..Len(t) : <<a, b>> \in ArchWords(t, i) <=> Word(t, i, a, b)
      /\ \A w \in ArchWords(t, i) : \E a, b \in 1..Len(t) : w = <<a, b>>
  BY WordIs
<1>3. ASSUME NEW a \in 1..Len(t), NEW b \in a..Len(t), NEW c \in 1..Len(t), NEW d \in c..Len(t)
      PROVE  SameWord(t, <<c, d>>, <<a, b>>) <=> Alike(t, a, b, c, d)
  <2>1. /\ Len(SubSeq(t, a, b)) = b - a + 1 /\ Len(SubSeq(t, c, d)) = d - c + 1
        /\ \A x \in 1..b - a + 1 : SubSeq(t, a, b)[x] = t[a + x - 1]
        /\ \A x \in 1..d - c + 1 : SubSeq(t, c, d)[x] = t[c + x - 1]
        /\ SubSeq(t, a, b) \in Seq(Cell) /\ SubSeq(t, c, d) \in Seq(Cell)
    <3>1. \A x \in 1..Len(t) : t[x] \in Cell
      BY ElementOfSeq
    <3>2. \A x \in a..b : t[x] \in Cell
      BY <1>1, <3>1
    <3>3. \A x \in c..d : t[x] \in Cell
      BY <1>1, <3>1
    <3>. QED BY <1>1, <3>2, <3>3, SubSeqProperties
  <2>2. ASSUME SubSeq(t, c, d) = SubSeq(t, a, b) PROVE Alike(t, a, b, c, d)
    <3>1. d - c = b - a
      BY <1>1, <2>1, <2>2
    <3>2. ASSUME NEW x \in 0..b - a PROVE t[a + x] = t[c + x]
      <4>1. x + 1 \in 1..b - a + 1 /\ x + 1 \in 1..d - c + 1 /\ a + (x + 1) - 1 = a + x /\ c + (x + 1) - 1 = c + x
        BY <1>1, <3>1
      <4>. QED BY <2>1, <2>2, <4>1
    <3>. QED BY <3>1, <3>2 DEF Alike
  <2>3. ASSUME Alike(t, a, b, c, d) PROVE SubSeq(t, c, d) = SubSeq(t, a, b)
    <3>1. Len(SubSeq(t, a, b)) = Len(SubSeq(t, c, d)) /\ d - c = b - a
      BY <1>1, <2>1, <2>3 DEF Alike
    <3>2. ASSUME NEW x \in 1..b - a + 1 PROVE SubSeq(t, a, b)[x] = SubSeq(t, c, d)[x]
      <4>1. x - 1 \in 0..b - a /\ x \in 1..d - c + 1 /\ a + (x - 1) = a + x - 1 /\ c + (x - 1) = c + x - 1
        BY <1>1, <3>1
      <4>2. t[a + (x - 1)] = t[c + (x - 1)]
        BY <2>3, <4>1 DEF Alike
      <4>. QED BY <2>1, <4>1, <4>2
    <3>. QED BY <2>1, <3>1, <3>2, SeqEqual
  <2>. QED BY <2>2, <2>3 DEF SameWord
<1>4. ASSUME NEW a \in 1..Len(t), NEW b \in 1..Len(t)
      PROVE  <<a, b>> \in Repeats(t, i) <=> Again(t, i, a, b)
  <2>1. ASSUME <<a, b>> \in Repeats(t, i) PROVE Again(t, i, a, b)
    <3>1. <<a, b>> \in ArchWords(t, i)
      BY <2>1 DEF Repeats
    <3>2. PICK v \in ArchWords(t, i) : v[1] < a /\ SameWord(t, v, <<a, b>>)
      BY <2>1 DEF Repeats
    <3>3. PICK c, d \in 1..Len(t) : v = <<c, d>>
      BY <1>2
    <3>4. Word(t, i, a, b) /\ Word(t, i, c, d) /\ c < a
      BY <1>2, <3>1, <3>2, <3>3
    <3>5. b \in a..Len(t) /\ d \in c..Len(t)
      BY <3>4 DEF Word
    <3>6. Alike(t, a, b, c, d)
      BY <1>3, <3>2, <3>3, <3>5
    <3>. QED BY <3>4, <3>6 DEF Again
  <2>2. ASSUME Again(t, i, a, b) PROVE <<a, b>> \in Repeats(t, i)
    <3>1. PICK c, d \in 1..Len(t) : c < a /\ Word(t, i, c, d) /\ Alike(t, a, b, c, d)
      BY <2>2 DEF Again
    <3>2. <<a, b>> \in ArchWords(t, i) /\ <<c, d>> \in ArchWords(t, i)
      BY <1>2, <2>2, <3>1 DEF Again
    <3>3. b \in a..Len(t) /\ d \in c..Len(t)
      BY <2>2, <3>1 DEF Word, Again
    <3>4. SameWord(t, <<c, d>>, <<a, b>>)
      BY <1>3, <3>1, <3>3
    <3>. QED BY <3>1, <3>2, <3>4 DEF Repeats
  <2>. QED BY <2>1, <2>2
<1>5. Repeats(t, i) \subseteq ArchWords(t, i)
  BY DEF Repeats
<1>. QED BY <1>2, <1>4, <1>5

\* How many percent signs end at a cell.
Run(t, i, n) == n \in 0..i /\ (\A k \in i - n + 1..i : t[k] = "p") /\ (n = i \/ t[i - n] # "p")

\* There is one such number.
LEMMA RunIs ==
  ASSUME NEW t, NEW i \in Nat
  PROVE  Run(t, i, PercentRun(t, i)) /\ \A n : Run(t, i, n) => n = PercentRun(t, i)
<1>. DEFINE Ends == {n \in 0..i : n = i \/ t[i - n] # "p"}
<1>1. Ends \subseteq Nat /\ i \in Ends
  OBVIOUS
<1>2. PICK m \in Ends : \A y \in Ends : m <= y
  <2>. HIDE DEF Ends
  <2>. QED BY <1>1, NatLeast
<1>3. ASSUME NEW k \in i - m + 1..i PROVE t[k] = "p"
  <2>1. i - k \in 0..i /\ i - (i - k) = k /\ ~(m <= i - k)
    BY <1>2
  <2>. QED BY <1>2, <2>1
<1>4. Run(t, i, m)
  BY <1>2, <1>3 DEF Run
<1>5. \E n \in 0..i : (\A k \in i - n + 1..i : t[k] = "p") /\ (n = i \/ t[i - n] # "p")
  BY <1>4 DEF Run
<1>6. Run(t, i, PercentRun(t, i))
  <2>1. LET n == PercentRun(t, i)
        IN  n \in 0..i /\ (\A k \in i - n + 1..i : t[k] = "p") /\ (n = i \/ t[i - n] # "p")
    BY <1>5, Zenon DEF PercentRun
  <2>. QED BY <2>1 DEF Run
<1>7. ASSUME NEW a, NEW b, Run(t, i, a), Run(t, i, b), a < b PROVE FALSE
  <2>1. a \in 0..i /\ b \in 0..i /\ a # i
    BY <1>7 DEF Run
  <2>2. i - a \in i - b + 1..i
    BY <1>7, <2>1
  <2>. QED BY <1>7, <2>1, <2>2 DEF Run
<1>8. ASSUME NEW n, Run(t, i, n) PROVE n = PercentRun(t, i)
  <2>1. n \in 0..i /\ PercentRun(t, i) \in 0..i
    BY <1>6, <1>8 DEF Run
  <2>. QED BY <1>6, <1>7, <1>8, <2>1
<1>. QED BY <1>6, <1>8

\* What is essential is what nothing speaks against.
LEMMA EssentialIs ==
  ASSUME NEW t \in Seq(Cell)
  PROVE  Essential(t) = {j \in 1..Len(t) : Kept(t, j)}
<1>. DEFINE items == PreambleLines(t)
            cleaned == UNION {k..SectionEnd(t, k) : k \in {h \in Headers(t) : t[h] = "C"}}
            repeated == UNION {UNION {w[1] - 1..w[2] : w \in Repeats(t, k)} :
                                 k \in {l \in items : t[l] = "I"}}
            comments == UNION {k..LineEnd(t, k) : k \in {l \in items : t[l] = "h"}}
<1>1. Len(t) \in Nat /\ Headers(t) \subseteq 1..Len(t) /\ items \subseteq 1..Len(t)
  BY LenProperties DEF Headers, Starts, PreambleLines
<1>. HIDE DEF items
<1>2. ASSUME NEW j \in 1..Len(t) PROVE j \in cleaned <=> Cleaned(t, j)
  <2>1. ASSUME NEW k \in Headers(t) PROVE j \in k..SectionEnd(t, k) <=> Under(t, k, j)
    BY UnderIs
  <2>2. \A k : Under(t, k, j) => k \in Headers(t)
    BY DEF Under
  <2>. QED BY <1>1, <2>1, <2>2 DEF Cleaned
<1>3. ASSUME NEW j \in 1..Len(t) PROVE j \in comments <=> Comment(t, j)
  <2>1. ASSUME NEW k \in 1..Len(t) PROVE j \in k..LineEnd(t, k) <=> OnLine(t, k, j)
    BY OnLineIs
  <2>. QED BY <1>1, <2>1 DEF Comment, Item, items
<1>4. ASSUME NEW j \in 1..Len(t) PROVE j \in repeated <=> Repeated(t, j)
  <2>1. ASSUME NEW i \in 1..Len(t), NEW w \in Repeats(t, i), j \in w[1] - 1..w[2]
        PROVE  \E a, b \in 1..Len(t) : Again(t, i, a, b) /\ a - 1 <= j /\ j <= b
    <3>1. PICK a, b \in 1..Len(t) : w = <<a, b>>
      BY AgainIs
    <3>2. Again(t, i, a, b)
      BY <3>1, AgainIs
    <3>3. a - 1 <= j /\ j <= b
      BY <2>1, <3>1
    <3>. QED BY <3>2, <3>3
  <2>2. ASSUME NEW i \in 1..Len(t), NEW a \in 1..Len(t), NEW b \in 1..Len(t), Again(t, i, a, b), a - 1 <= j, j <= b
        PROVE  \E w \in Repeats(t, i) : j \in w[1] - 1..w[2]
    <3>1. <<a, b>> \in Repeats(t, i)
      BY <2>2, AgainIs
    <3>2. j \in <<a, b>>[1] - 1..<<a, b>>[2]
      BY <1>1, <2>2
    <3>. QED BY <3>1, <3>2
  <2>3. ASSUME j \in repeated PROVE Repeated(t, j)
    <3>1. PICK i \in {l \in items : t[l] = "I"} : \E w \in Repeats(t, i) : j \in w[1] - 1..w[2]
      BY <2>3
    <3>2. i \in 1..Len(t) /\ Item(t, i, "I")
      BY <1>1, <3>1 DEF Item, items
    <3>. QED BY <2>1, <3>1, <3>2 DEF Repeated
  <2>4. ASSUME Repeated(t, j) PROVE j \in repeated
    <3>1. PICK i, a, b \in 1..Len(t) : Item(t, i, "I") /\ Again(t, i, a, b) /\ a - 1 <= j /\ j <= b
      BY <2>4 DEF Repeated
    <3>2. PICK w \in Repeats(t, i) : j \in w[1] - 1..w[2]
      BY <2>2, <3>1
    <3>3. i \in {l \in items : t[l] = "I"}
      BY <3>1 DEF Item, items
    <3>. QED BY <3>2, <3>3
  <2>. QED BY <2>3, <2>4
<1>5. Essential(t) = {j \in 1..Len(t) :
                        /\ j \notin cleaned \cup repeated
                        /\ t[j] = "s" => j < Len(t) /\ t[j + 1] \notin {"s", "n"}
                        /\ t[j] = "p" /\ j \in comments => PercentRun(t, j) % 2 = 1}
  BY Zenon DEF Essential, items
<1>6. ASSUME NEW j \in 1..Len(t)
      PROVE  /\ Trailing(t, j) <=> ~(t[j] = "s" => j < Len(t) /\ t[j + 1] \notin {"s", "n"})
             /\ Doubled(t, j) <=> ~(t[j] = "p" /\ j \in comments => PercentRun(t, j) % 2 = 1)
  <2>1. j < Len(t) <=> j # Len(t)
    BY <1>1
  <2>2. j \in comments <=> Comment(t, j)
    BY <1>3
  <2>. HIDE DEF comments
  <2>. QED BY <2>1, <2>2 DEF Trailing, Doubled
<1>. HIDE DEF cleaned, repeated, comments
<1>. QED BY <1>2, <1>4, <1>5, <1>6 DEF Kept

\* One cell more of the essence.
Gather(t, kept, acc, i) == IF i \in kept THEN Append(acc, t[i]) ELSE acc

\* The essence, cell by cell.
LEMMA EssenceSteps ==
  ASSUME NEW t \in Seq(Cell)
  PROVE  \E h : /\ h[0] = <<>>
                /\ \A k \in 1..Len(t) : h[k] = Gather(t, Essential(t), h[k - 1], k)
                /\ Essence(t) = h[Len(t)]
<1>. DEFINE n == Len(t)
            kept == Essential(t)
            cells == [i \in 1..n |-> i]
            V == Seq(Cell)
            F == [p \in V \X (1..n) |-> Gather(t, kept, p[1], p[2])]
            Step(g, s) == IF s = {} THEN <<>> ELSE Gather(t, kept, g[s \ {Max(s)}], cells[Max(s)])
            iter[s \in SUBSET DOMAIN cells] ==
              IF s = {} THEN <<>> ELSE Gather(t, kept, iter[s \ {Max(s)}], cells[Max(s)])
<1>1. n \in Nat /\ DOMAIN cells = 1..n /\ \A k \in 1..n : t[k] \in Cell /\ cells[k] = k
  BY LenProperties, ElementOfSeq
<1>2. <<>> \in V
  BY EmptySeq
<1>3. \A acc \in V, k \in 1..n : Gather(t, kept, acc, k) \in V
  <2>. HIDE DEF kept
  <2>. QED BY <1>1, AppendProperties DEF Gather
<1>. HIDE DEF kept, cells
<1>4. \E g : g = [s \in SUBSET DOMAIN cells |-> Step(g, s)]
  <2>1. F \in [V \X (1..n) -> V]
    <3>. HIDE DEF V, n
    <3>. QED BY <1>3
  <2>2. PICK g \in [SUBSET (1..n) -> V] : FoldedBy(g, n, <<>>, F)
    <3>. HIDE DEF F, V, n
    <3>. QED BY <1>1, <1>2, <2>1, FoldExists
  <2>3. ASSUME NEW s \in SUBSET (1..n), s # {}
        PROVE  F[<<g[s \ {Max(s)}], Max(s)>>] = Gather(t, kept, g[s \ {Max(s)}], cells[Max(s)])
    <3>1. Max(s) \in 1..n
      <4>. HIDE DEF n
      <4>. QED BY <1>1, <2>3, MaxIn
    <3>2. g[s \ {Max(s)}] \in V
      OBVIOUS
    <3>3. <<g[s \ {Max(s)}], Max(s)>> \in V \X (1..n) /\ cells[Max(s)] = Max(s)
      <4>. HIDE DEF V, n
      <4>. QED BY <1>1, <3>1, <3>2
    <3>. HIDE DEF V, n
    <3>. QED BY <3>3
  <2>4. g = [s \in SUBSET (1..n) |-> Step(g, s)]
    <3>. HIDE DEF F, V, n
    <3>. QED BY <2>2, <2>3 DEF FoldedBy
  <2>. HIDE DEF Step
  <2>. QED BY <1>1, <2>4
<1>5. iter = [s \in SUBSET DOMAIN cells |-> Step(iter, s)]
  BY <1>4, Zenon
<1>6. Essence(t) = iter[DOMAIN cells]
  BY DEF Essence, FoldLeft, MapThenFoldSet, Gather, kept, cells
<1>. DEFINE h == [k \in 0..n |-> iter[1..k]]
<1>. HIDE DEF iter
<1>7. h[0] = <<>>
  <2>1. 1..0 = {} /\ {} \in SUBSET DOMAIN cells /\ 0 \in 0..n
    BY <1>1
  <2>2. iter[{}] = <<>>
    BY <1>5, <2>1
  <2>. QED BY <2>1, <2>2
<1>8. ASSUME NEW k \in 1..n PROVE h[k] = Gather(t, kept, h[k - 1], k)
  <2>1. k \in Nat /\ k # 0 /\ k \in 0..n /\ k - 1 \in 0..n
    BY <1>1
  <2>2. Max(1..k) = k /\ 1..k # {} /\ (1..k) \ {k} = 1..(k - 1)
    BY <2>1, Downward
  <2>3. (1..k) \in SUBSET DOMAIN cells
    BY <1>1
  <2>4. iter[1..k] = Step(iter, 1..k)
    <3>. HIDE DEF Step
    <3>. QED BY <1>5, <2>3
  <2>5. iter[1..k] = Gather(t, kept, iter[1..(k - 1)], k)
    BY <1>1, <2>2, <2>4
  <2>6. h[k] = iter[1..k] /\ h[k - 1] = iter[1..(k - 1)]
    BY <2>1
  <2>. HIDE DEF h
  <2>. QED BY <2>5, <2>6
<1>9. h[n] = iter[DOMAIN cells]
  <2>1. n \in 0..n
    BY <1>1
  <2>. QED BY <1>1, <2>1
<1>. HIDE DEF h
<1>. QED BY <1>6, <1>7, <1>8, <1>9 DEF kept

-----------------------------------------------------------------------------
(* Two texts, one of which has some more cells than the other.             *)

\* s is t without its cells g + 1..h.
Without(t, s, g, h) ==
  /\ t \in Seq(Cell) /\ s \in Seq(Cell)
  /\ g \in 0..Len(t) /\ h \in g + 1..Len(t) /\ Len(s) = Len(t) - (h - g)
  /\ \A j \in 1..g : s[j] = t[j]
  /\ \A j \in h + 1..Len(t) : s[j - (h - g)] = t[j]

\* Where nothing essential was in the gap, and what was essential beside it
\* still is, the essence is the same.
LEMMA SameEssence ==
  ASSUME NEW t, NEW s, NEW g, NEW h, Without(t, s, g, h),
         \A j \in g + 1..h : j \notin Essential(t),
         \A j \in 1..g : j \in Essential(t) <=> j \in Essential(s),
         \A j \in h + 1..Len(t) : j \in Essential(t) <=> j - (h - g) \in Essential(s)
  PROVE  Essence(s) = Essence(t)
<1>. DEFINE n == Len(t)
            d == h - g
<1>1. /\ t \in Seq(Cell) /\ s \in Seq(Cell) /\ n \in Nat
      /\ g \in 0..n /\ h \in g + 1..n /\ Len(s) = n - d
  BY LenProperties DEF Without
<1>2. PICK a : /\ a[0] = <<>>
               /\ \A k \in 1..n : a[k] = Gather(t, Essential(t), a[k - 1], k)
               /\ Essence(t) = a[n]
  BY <1>1, EssenceSteps
<1>3. PICK b : /\ b[0] = <<>>
               /\ \A k \in 1..n - d : b[k] = Gather(s, Essential(s), b[k - 1], k)
               /\ Essence(s) = b[n - d]
  BY <1>1, EssenceSteps
<1>4. \A k \in 0..g : k \in {x \in 0..g : a[x] = b[x]}
  <2>. DEFINE T == {x \in 0..g : a[x] = b[x]}
  <2>1. 0 \in T
    BY <1>1, <1>2, <1>3
  <2>2. ASSUME NEW k \in 0..g, k \in T, k < g PROVE k + 1 \in T
    <3>1. k + 1 \in 1..n /\ k + 1 \in 1..n - d /\ k + 1 \in 1..g /\ k + 1 \in 0..g /\ k + 1 - 1 = k
      BY <1>1, <2>2
    <3>2. t[k + 1] = s[k + 1] /\ (k + 1 \in Essential(t) <=> k + 1 \in Essential(s))
      BY <3>1 DEF Without
    <3>3. a[k + 1] = Gather(t, Essential(t), a[k], k + 1) /\ b[k + 1] = Gather(s, Essential(s), b[k], k + 1)
      BY <1>2, <1>3, <3>1
    <3>. QED BY <2>2, <3>1, <3>2, <3>3 DEF Gather
  <2>. HIDE DEF T
  <2>3. g \in Nat
    BY <1>1
  <2>4. \A k \in 0..g : k \in T
    BY <2>1, <2>2, <2>3, UpTo
  <2>. QED BY <2>4 DEF T
<1>5. \A k \in 0..d : k \in {x \in 0..d : a[g + x] = a[g]}
  <2>. DEFINE T == {x \in 0..d : a[g + x] = a[g]}
  <2>1. 0 \in T
    BY <1>1
  <2>2. ASSUME NEW k \in 0..d, k \in T, k < d PROVE k + 1 \in T
    <3>1. g + (k + 1) \in 1..n /\ g + (k + 1) \in g + 1..h /\ k + 1 \in 0..d /\ g + (k + 1) - 1 = g + k
      BY <1>1, <2>2
    <3>2. g + (k + 1) \notin Essential(t)
      BY <3>1
    <3>3. a[g + (k + 1)] = Gather(t, Essential(t), a[g + k], g + (k + 1))
      <4>1. PICK x : x = g + (k + 1)
        OBVIOUS
      <4>2. x \in 1..n /\ x - 1 = g + k
        BY <1>1, <2>2, <4>1
      <4>3. a[x] = Gather(t, Essential(t), a[x - 1], x)
        BY <1>2, <4>2
      <4>. QED BY <4>1, <4>2, <4>3
    <3>. QED BY <2>2, <3>1, <3>2, <3>3 DEF Gather
  <2>. HIDE DEF T
  <2>3. d \in Nat
    BY <1>1
  <2>4. \A k \in 0..d : k \in T
    BY <2>1, <2>2, <2>3, UpTo
  <2>. QED BY <2>4 DEF T
<1>6. \A k \in 0..n - h : k \in {x \in 0..n - h : a[h + x] = b[g + x]}
  <2>. DEFINE T == {x \in 0..n - h : a[h + x] = b[g + x]}
  <2>1. 0 \in T
    <3>1. d \in 0..d /\ g \in 0..g /\ g + d = h /\ h + 0 = h /\ g + 0 = g /\ 0 \in 0..n - h
      BY <1>1
    <3>2. a[g + d] = a[g] /\ a[g] = b[g]
      BY <1>4, <1>5, <3>1
    <3>. QED BY <3>1, <3>2
  <2>2. ASSUME NEW k \in 0..n - h, k \in T, k < n - h PROVE k + 1 \in T
    <3>1. /\ h + (k + 1) \in 1..n /\ h + (k + 1) \in h + 1..n /\ h + (k + 1) - 1 = h + k
          /\ g + (k + 1) \in 1..n - d /\ g + (k + 1) - 1 = g + k /\ h + (k + 1) - d = g + (k + 1)
          /\ k + 1 \in 0..n - h
      BY <1>1, <2>2
    <3>6. PICK x : x = h + (k + 1)
      OBVIOUS
    <3>7. PICK y : y = g + (k + 1)
      OBVIOUS
    <3>8. x \in 1..n /\ x \in h + 1..n /\ y \in 1..n - d /\ x - 1 = h + k /\ y - 1 = g + k /\ x - (h - g) = y
      <4>1. n \in Nat /\ g \in 0..n /\ h \in g + 1..n /\ k \in 0..n - h /\ k < n - h
        BY <1>1, <2>2
      <4>2. x \in 1..n /\ x \in h + 1..n /\ x - 1 = h + k
        BY <3>6, <4>1
      <4>3. y \in 1..n - d /\ y - 1 = g + k
        BY <3>7, <4>1
      <4>4. x - (h - g) = y
        BY <3>6, <3>7, <4>1
      <4>. QED BY <4>2, <4>3, <4>4
    <3>2. x \in Essential(t) <=> y \in Essential(s)
      BY <3>8
    <3>3. t[x] = s[y]
      BY <3>8 DEF Without
    <3>4. a[x] = Gather(t, Essential(t), a[h + k], x)
      BY <1>2, <3>8
    <3>5. b[y] = Gather(s, Essential(s), b[g + k], y)
      BY <1>3, <3>8
    <3>9. a[x] = b[y]
      BY <2>2, <3>2, <3>3, <3>4, <3>5 DEF Gather
    <3>. QED BY <3>1, <3>6, <3>7, <3>9
  <2>. HIDE DEF T
  <2>3. n - h \in Nat
    BY <1>1
  <2>4. \A k \in 0..n - h : k \in T
    BY <2>1, <2>2, <2>3, UpTo
  <2>. QED BY <2>4 DEF T
<1>7. n - h \in 0..n - h /\ h + (n - h) = n /\ g + (n - h) = n - d
  BY <1>1
<1>8. a[n] = b[n - d]
  BY <1>6, <1>7
<1>. QED BY <1>2, <1>3, <1>8

-----------------------------------------------------------------------------
(* Texts that agree up to a place.                                         *)

\* t and s begin with the same g cells.
Agree(t, s, g) ==
  /\ t \in Seq(Cell) /\ s \in Seq(Cell)
  /\ g \in 0..Len(t) /\ g <= Len(s) /\ \A j \in 1..g : s[j] = t[j]

\* No word of an arch list reaches over the end of the first g cells.
Snug(t, g) ==
  \A i \in 1..g : Item(t, i, "I") /\ OnLine(t, i, g) => g = Len(t) \/ t[g + 1] \in {"s", "n"}

\* Lines and headers of the common part.
LEMMA PrefixLines ==
  ASSUME NEW t, NEW s, NEW g, Agree(t, s, g)
  PROVE  /\ Len(t) \in Nat /\ Len(s) \in Nat /\ Agree(s, t, g)
         /\ \A i \in 1..g : i \in Headers(t) <=> i \in Headers(s)
         /\ \A i \in 1..g : i \in PreambleLines(t) <=> i \in PreambleLines(s)
         /\ \A i, j \in 1..g : OnLine(t, i, j) <=> OnLine(s, i, j)
         /\ \A i \in 1..g : \A c : Item(t, i, c) <=> Item(s, i, c)
<1>1. Len(t) \in Nat /\ Len(s) \in Nat /\ g \in 0..Len(t) /\ g \in 0..Len(s)
  BY LenProperties DEF Agree
<1>2. \A j \in 1..g : s[j] = t[j]
  BY DEF Agree
<1>3. \A i \in 1..g : i \in Starts(t) <=> i \in Starts(s)
  <2>. SUFFICES ASSUME NEW i \in 1..g PROVE i \in Starts(t) <=> i \in Starts(s)
    OBVIOUS
  <2>1. i \in 1..Len(t) /\ i \in 1..Len(s) /\ (i # 1 => i - 1 \in 1..g)
    BY <1>1
  <2>2. i # 1 => s[i - 1] = t[i - 1]
    BY <1>2, <2>1
  <2>. QED BY <2>1, <2>2 DEF Starts, StartsLine
<1>4. \A i \in 1..g : i \in Headers(t) <=> i \in Headers(s)
  BY <1>2, <1>3 DEF Headers
<1>5. /\ \A k \in Headers(t) : k \in 1..Len(t)
      /\ \A k \in Headers(s) : k \in 1..Len(s)
  BY DEF Headers, Starts
<1>6. \A i \in 1..g : i \in PreambleLines(t) <=> i \in PreambleLines(s)
  <2>1. ASSUME NEW i \in 1..g, i \in PreambleLines(t) PROVE i \in PreambleLines(s)
    <3>1. \A k \in Headers(s) : i < k
      BY <1>1, <1>4, <1>5, <2>1 DEF PreambleLines
    <3>. QED BY <1>3, <2>1, <3>1 DEF PreambleLines
  <2>2. ASSUME NEW i \in 1..g, i \in PreambleLines(s) PROVE i \in PreambleLines(t)
    <3>1. \A k \in Headers(t) : i < k
      BY <1>1, <1>4, <1>5, <2>2 DEF PreambleLines
    <3>. QED BY <1>3, <2>2, <3>1 DEF PreambleLines
  <2>. QED BY <2>1, <2>2
<1>7. \A i, j \in 1..g : OnLine(t, i, j) <=> OnLine(s, i, j)
  <2>. SUFFICES ASSUME NEW i \in 1..g, NEW j \in 1..g PROVE OnLine(t, i, j) <=> OnLine(s, i, j)
    OBVIOUS
  <2>1. \A k \in i..j : k \in 1..g
    BY <1>1
  <2>2. \A k \in i..j : t[k] = s[k]
    BY <1>2, <2>1
  <2>3. i \in 1..Len(t) /\ i \in 1..Len(s) /\ (j \in i..Len(t) <=> j \in i..Len(s))
    BY <1>1
  <2>. QED BY <2>2, <2>3 DEF OnLine
<1>8. \A i \in 1..g : \A c : Item(t, i, c) <=> Item(s, i, c)
  BY <1>2, <1>6 DEF Item
<1>9. Agree(s, t, g)
  BY <1>1, <1>2 DEF Agree
<1>. QED BY <1>1, <1>4, <1>6, <1>7, <1>8, <1>9

\* What is cleaned in the one is cleaned in the other.
LEMMA PrefixCleaned ==
  ASSUME NEW t, NEW s, NEW g, Agree(t, s, g), NEW j \in 1..g, Cleaned(t, j)
  PROVE  Cleaned(s, j)
<1>1. Len(t) \in Nat /\ Len(s) \in Nat /\ g \in 0..Len(t) /\ g \in 0..Len(s)
  BY LenProperties DEF Agree
<1>2. PICK k \in 1..Len(t) : Under(t, k, j) /\ t[k] = "C"
  BY DEF Cleaned
<1>3. k \in 1..j /\ k \in 1..g /\ k \in 1..Len(s) /\ j \in k..Len(s)
  BY <1>1, <1>2 DEF Under
<1>4. k \in Headers(s) /\ s[k] = "C"
  BY <1>2, <1>3, PrefixLines DEF Under, Agree
<1>5. ASSUME NEW h \in Headers(s), k < h, h <= j PROVE FALSE
  <2>1. h \in 1..g
    BY <1>1, <1>5 DEF Headers, Starts
  <2>2. h \in Headers(t)
    BY <2>1, PrefixLines
  <2>. QED BY <1>2, <1>5, <2>2 DEF Under
<1>6. Under(s, k, j)
  BY <1>3, <1>4, <1>5 DEF Under
<1>. QED BY <1>3, <1>4, <1>6 DEF Cleaned

\* Comments reach as far, and percent signs run as long.
LEMMA PrefixDoubled ==
  ASSUME NEW t, NEW s, NEW g, Agree(t, s, g), NEW j \in 1..g
  PROVE  /\ Comment(t, j) <=> Comment(s, j)
         /\ PercentRun(t, j) = PercentRun(s, j)
         /\ Doubled(t, j) <=> Doubled(s, j)
<1>1. Len(t) \in Nat /\ Len(s) \in Nat /\ g \in 0..Len(t) /\ g \in 0..Len(s)
  BY LenProperties DEF Agree
<1>2. /\ \A i \in 1..g : \A c : Item(t, i, c) <=> Item(s, i, c)
      /\ \A i \in 1..g : OnLine(t, i, j) <=> OnLine(s, i, j)
  BY PrefixLines
<1>3. \A i : OnLine(t, i, j) \/ OnLine(s, i, j) => i \in 1..g
  BY <1>1 DEF OnLine
<1>4. Comment(t, j) <=> Comment(s, j)
  BY <1>1, <1>2, <1>3 DEF Comment
<1>5. PercentRun(t, j) = PercentRun(s, j)
  <2>1. j \in Nat
    BY <1>1
  <2>2. Run(t, j, PercentRun(t, j))
    BY <2>1, RunIs
  <2>3. PICK n : n = PercentRun(t, j)
    OBVIOUS
  <2>4. n \in 0..j /\ (\A k \in j - n + 1..j : t[k] = "p") /\ (n = j \/ t[j - n] # "p")
    BY <2>2, <2>3 DEF Run
  <2>5. \A k \in j - n + 1..j : s[k] = t[k]
    <3>1. \A k \in j - n + 1..j : k \in 1..g
      BY <1>1, <2>4
    <3>. QED BY <3>1 DEF Agree
  <2>6. n # j => s[j - n] = t[j - n]
    <3>1. n # j => j - n \in 1..g
      BY <1>1, <2>4
    <3>. QED BY <3>1 DEF Agree
  <2>7. Run(s, j, n)
    BY <2>4, <2>5, <2>6 DEF Run
  <2>. QED BY <2>1, <2>3, <2>7, RunIs
<1>6. t[j] = s[j]
  BY DEF Agree
<1>. QED BY <1>4, <1>5, <1>6 DEF Doubled

\* A word that begins in the common part is a word of the other text.
LEMMA PrefixWord ==
  ASSUME NEW t, NEW s, NEW g, Agree(t, s, g), Snug(t, g), Snug(s, g),
         NEW i \in 1..Len(t), NEW a \in 1..Len(t), NEW b \in 1..Len(t),
         Item(t, i, "I"), Word(t, i, a, b), a - 1 <= g
  PROVE  b <= g /\ b \in 1..Len(s) /\ i \in 1..g /\ Word(s, i, a, b)
<1>1. Len(t) \in Nat /\ Len(s) \in Nat /\ g \in 0..Len(t) /\ g \in 0..Len(s)
  BY LenProperties DEF Agree
<1>2. /\ i < a /\ b \in a..Len(t) /\ OnLine(t, i, b) /\ t[a - 1] = "s"
      /\ \A k \in a..b : t[k] # "s"
      /\ b = Len(t) \/ t[b + 1] \in {"s", "n"}
  BY DEF Word
<1>3. i \in 1..g /\ a - 1 \in i..g
  BY <1>1, <1>2
<1>4. ASSUME g < b PROVE FALSE
  <2>1. OnLine(t, i, g)
    BY <1>1, <1>2, <1>3, <1>4 DEF OnLine
  <2>2. g # Len(t) /\ g + 1 \in a..b /\ g + 1 \in i..b
    BY <1>1, <1>2, <1>3, <1>4
  <2>3. t[g + 1] \in {"s", "n"}
    BY <1>3, <2>1, <2>2 DEF Snug
  <2>4. t[g + 1] # "s" /\ t[g + 1] # "n"
    BY <1>2, <2>2 DEF OnLine
  <2>. QED BY <2>3, <2>4
<1>5. b \in a..g /\ a \in 1..g /\ b \in 1..g
  BY <1>1, <1>2, <1>4
<1>6. OnLine(s, i, b)
  BY <1>2, <1>3, <1>5, PrefixLines
<1>7. \A k \in a..b : s[k] # "s"
  <2>1. \A k \in a..b : k \in 1..g
    BY <1>1, <1>5
  <2>. QED BY <1>2, <2>1 DEF Agree
<1>8. s[a - 1] = "s"
  <2>1. a - 1 \in 1..g
    BY <1>1, <1>3
  <2>. QED BY <1>2, <2>1 DEF Agree
<1>9. b = Len(s) \/ s[b + 1] \in {"s", "n"}
  <2>1. CASE b = g
    BY <1>3, <1>6, <2>1, PrefixLines DEF Snug
  <2>2. CASE b # g
    <3>1. b + 1 \in 1..g /\ b # Len(t)
      BY <1>1, <1>5, <2>2
    <3>. QED BY <1>2, <3>1 DEF Agree
  <2>. QED BY <2>1, <2>2
<1>10. a \in 1..Len(s) /\ b \in a..Len(s) /\ b \in 1..Len(s) /\ b <= g
  BY <1>1, <1>5
<1>. QED BY <1>2, <1>3, <1>6, <1>7, <1>8, <1>9, <1>10 DEF Word

\* So is a repetition.
LEMMA PrefixAgain ==
  ASSUME NEW t, NEW s, NEW g, Agree(t, s, g), Snug(t, g), Snug(s, g),
         NEW i \in 1..Len(t), NEW a \in 1..Len(t), NEW b \in 1..Len(t),
         Item(t, i, "I"), Again(t, i, a, b), a - 1 <= g
  PROVE  /\ i \in 1..Len(s) /\ a \in 1..Len(s) /\ b \in 1..Len(s)
         /\ Item(s, i, "I") /\ Again(s, i, a, b)
<1>1. Len(t) \in Nat /\ Len(s) \in Nat /\ g \in 0..Len(t) /\ g \in 0..Len(s)
  BY LenProperties DEF Agree
<1>2. PICK c, d \in 1..Len(t) : c < a /\ Word(t, i, c, d) /\ Alike(t, a, b, c, d)
  BY DEF Again
<1>3. c - 1 <= g
  BY <1>1, <1>2
<1>4. b <= g /\ b \in 1..Len(s) /\ i \in 1..g /\ Word(s, i, a, b)
  BY PrefixWord DEF Again
<1>5. d <= g /\ d \in 1..Len(s) /\ Word(s, i, c, d)
  BY <1>2, <1>3, PrefixWord
<1>6. \A x \in 0..b - a : a + x \in 1..g /\ c + x \in 1..g
  BY <1>1, <1>2, <1>4, <1>5 DEF Alike
<1>7. Alike(s, a, b, c, d)
  <2>1. \A x \in 0..b - a : s[a + x] = t[a + x] /\ s[c + x] = t[c + x]
    BY <1>6 DEF Agree
  <2>. QED BY <1>2, <2>1 DEF Alike
<1>8. a \in 1..Len(s) /\ c \in 1..Len(s) /\ i \in 1..Len(s)
  BY <1>1, <1>2, <1>4 DEF Word
<1>9. Again(s, i, a, b)
  BY <1>2, <1>4, <1>5, <1>7, <1>8 DEF Again
<1>10. Item(s, i, "I")
  BY <1>4, PrefixLines
<1>. QED BY <1>4, <1>8, <1>9, <1>10

\* And a cell is repeated in the one where it is in the other.
LEMMA PrefixRepeated ==
  ASSUME NEW t, NEW s, NEW g, Agree(t, s, g), Snug(t, g), Snug(s, g),
         NEW j \in 1..g, Repeated(t, j)
  PROVE  Repeated(s, j)
<1>1. Len(t) \in Nat /\ g \in 0..Len(t)
  BY LenProperties DEF Agree
<1>2. PICK i, a, b \in 1..Len(t) : Item(t, i, "I") /\ Again(t, i, a, b) /\ a - 1 <= j /\ j <= b
  BY DEF Repeated
<1>3. a - 1 <= g
  BY <1>1, <1>2
<1>4. /\ i \in 1..Len(s) /\ a \in 1..Len(s) /\ b \in 1..Len(s)
      /\ Item(s, i, "I") /\ Again(s, i, a, b)
  BY <1>2, <1>3, PrefixAgain
<1>. QED BY <1>2, <1>4 DEF Repeated

\* The common part is essential in both alike.
LEMMA PrefixKept ==
  ASSUME NEW t, NEW s, NEW g, Agree(t, s, g), Snug(t, g), Snug(s, g),
         g # 0 => (Trailing(t, g) <=> Trailing(s, g)), NEW j \in 1..g
  PROVE  Kept(t, j) <=> Kept(s, j)
<1>1. Len(t) \in Nat /\ Len(s) \in Nat /\ g \in 0..Len(t) /\ g \in 0..Len(s) /\ Agree(s, t, g)
  BY LenProperties, PrefixLines DEF Agree
<1>2. Cleaned(t, j) <=> Cleaned(s, j)
  BY <1>1, PrefixCleaned
<1>3. Repeated(t, j) <=> Repeated(s, j)
  BY <1>1, PrefixRepeated
<1>4. Doubled(t, j) <=> Doubled(s, j)
  BY PrefixDoubled
<1>5. Trailing(t, j) <=> Trailing(s, j)
  <2>1. CASE j = g
    BY <1>1, <2>1
  <2>2. CASE j # g
    <3>1. j + 1 \in 1..g /\ j # Len(t) /\ j # Len(s)
      BY <1>1, <2>2
    <3>2. t[j] = s[j] /\ t[j + 1] = s[j + 1]
      BY <3>1 DEF Agree
    <3>. QED BY <3>1, <3>2 DEF Trailing
  <2>. QED BY <2>1, <2>2
<1>. QED BY <1>2, <1>3, <1>4, <1>5 DEF Kept

-----------------------------------------------------------------------------
(* Cells taken out within a line.                                          *)

\* Cells taken out of the middle of a line.
WithinLine(t, s, g, h) == Without(t, s, g, h) /\ g # 0 /\ \A k \in g..h : t[k] # "n"

\* The cells of the shorter text, seen from either side.
LEMMA WithoutIs ==
  ASSUME NEW t, NEW s, NEW g, NEW h, Without(t, s, g, h)
  PROVE  /\ Len(t) \in Nat /\ Len(s) \in Nat /\ g \in 0..Len(t) /\ h \in g + 1..Len(t)
         /\ Len(s) = Len(t) - (h - g)
         /\ Agree(t, s, g) /\ Agree(s, t, g)
         /\ \A j \in 1..g : s[j] = t[j]
         /\ \A j \in g + 1..Len(s) : j + (h - g) \in h + 1..Len(t) /\ s[j] = t[j + (h - g)]
         /\ \A j \in h + 1..Len(t) : j - (h - g) \in g + 1..Len(s) /\ s[j - (h - g)] = t[j]
         /\ g # 0 => g \in 1..Len(t) /\ s[g] = t[g]
<1>1. Len(t) \in Nat /\ Len(s) \in Nat /\ g \in 0..Len(t) /\ h \in g + 1..Len(t) /\ Len(s) = Len(t) - (h - g)
  BY LenProperties DEF Without
<1>2. Agree(t, s, g)
  BY <1>1 DEF Agree, Without
<1>3. \A j \in h + 1..Len(t) : j - (h - g) \in g + 1..Len(s) /\ s[j - (h - g)] = t[j]
  BY <1>1 DEF Without
<1>4. ASSUME NEW j \in g + 1..Len(s) PROVE j + (h - g) \in h + 1..Len(t) /\ s[j] = t[j + (h - g)]
  <2>1. PICK k : k = j + (h - g)
    OBVIOUS
  <2>2. k \in h + 1..Len(t) /\ k - (h - g) = j
    BY <1>1, <2>1
  <2>3. s[k - (h - g)] = t[k]
    BY <1>3, <2>2
  <2>. QED BY <2>1, <2>2, <2>3
<1>5. \A j \in 1..g : s[j] = t[j]
  BY DEF Without
<1>6. g # 0 => g \in 1..Len(t) /\ s[g] = t[g]
  BY <1>1, <1>5
<1>. QED BY <1>1, <1>2, <1>3, <1>4, <1>5, <1>6, PrefixLines

\* No line begins in the gap, and those after it begin as before.
LEMMA GapStarts ==
  ASSUME NEW t, NEW s, NEW g, NEW h, WithinLine(t, s, g, h)
  PROVE  /\ \A i \in g + 1..h + 1 : i \notin Starts(t)
         /\ g + 1 \notin Starts(s)
         /\ \A i \in h + 1..Len(t) : i \in Starts(t) <=> i - (h - g) \in Starts(s)
<1>0. Without(t, s, g, h) /\ g # 0
  BY DEF WithinLine
<1>1. /\ Len(t) \in Nat /\ Len(s) \in Nat /\ g \in 1..Len(t) /\ h \in g + 1..Len(t)
      /\ Len(s) = Len(t) - (h - g) /\ s[g] = t[g]
      /\ \A j \in h + 1..Len(t) : j - (h - g) \in g + 1..Len(s) /\ s[j - (h - g)] = t[j]
  BY <1>0, WithoutIs
<1>2. ASSUME NEW i \in g + 1..h + 1 PROVE i \notin Starts(t)
  <2>1. i - 1 \in g..h /\ i # 1
    BY <1>1
  <2>2. t[i - 1] # "n"
    BY <2>1 DEF WithinLine
  <2>. QED BY <2>1, <2>2 DEF Starts, StartsLine
<1>3. g + 1 \notin Starts(s)
  <2>1. g \in g..h /\ g + 1 - 1 = g /\ g + 1 # 1
    BY <1>1
  <2>2. s[g] # "n"
    BY <1>1, <2>1 DEF WithinLine
  <2>. QED BY <2>1, <2>2 DEF Starts, StartsLine
<1>4. ASSUME NEW i \in h + 1..Len(t) PROVE i \in Starts(t) <=> i - (h - g) \in Starts(s)
  <2>1. CASE i = h + 1
    <3>1. i - (h - g) = g + 1 /\ i \in g + 1..h + 1
      BY <1>1, <2>1
    <3>. QED BY <1>2, <1>3, <3>1
  <2>2. CASE i # h + 1
    <3>1. /\ i - 1 \in h + 1..Len(t) /\ i \in 1..Len(t) /\ i # 1
          /\ i - (h - g) \in 1..Len(s) /\ i - (h - g) # 1 /\ i - 1 - (h - g) = i - (h - g) - 1
      BY <1>1, <2>2
    <3>2. s[i - 1 - (h - g)] = t[i - 1]
      BY <1>1, <3>1
    <3>. QED BY <3>1, <3>2 DEF Starts, StartsLine
  <2>. QED BY <2>1, <2>2
<1>. QED BY <1>2, <1>3, <1>4

\* So it is with headers and with the lines of the preamble.
LEMMA GapHeaders ==
  ASSUME NEW t, NEW s, NEW g, NEW h, WithinLine(t, s, g, h)
  PROVE  /\ \A i \in Headers(t) : i \in 1..g \/ (i \in h + 1..Len(t) /\ i - (h - g) \in Headers(s))
         /\ \A i \in Headers(s) : i \in 1..g \/ (i \in g + 1..Len(s) /\ i + (h - g) \in Headers(t))
         /\ \A i \in h + 1..Len(t) : \A c : Item(t, i, c) <=> Item(s, i - (h - g), c)
         /\ \A i \in g + 1..h : \A c : ~Item(t, i, c)
<1>0. Without(t, s, g, h) /\ g # 0
  BY DEF WithinLine
<1>1. /\ Len(t) \in Nat /\ Len(s) \in Nat /\ g \in 1..Len(t) /\ h \in g + 1..Len(t)
      /\ Len(s) = Len(t) - (h - g) /\ Agree(t, s, g)
      /\ \A j \in h + 1..Len(t) : j - (h - g) \in g + 1..Len(s) /\ s[j - (h - g)] = t[j]
      /\ \A j \in g + 1..Len(s) : j + (h - g) \in h + 1..Len(t) /\ s[j] = t[j + (h - g)]
  BY <1>0, WithoutIs
<1>2. /\ \A i \in g + 1..h + 1 : i \notin Starts(t)
      /\ \A i \in h + 1..Len(t) : i \in Starts(t) <=> i - (h - g) \in Starts(s)
  BY GapStarts
<1>3. Starts(t) \subseteq 1..Len(t) /\ Starts(s) \subseteq 1..Len(s)
  BY DEF Starts
<1>4. \A i \in h + 1..Len(t) : i \in Headers(t) <=> i - (h - g) \in Headers(s)
  BY <1>1, <1>2 DEF Headers
<1>5. ASSUME NEW i \in Headers(t) PROVE i \in 1..g \/ i \in h + 1..Len(t)
  <2>1. i \in Starts(t) /\ i \in 1..Len(t)
    BY <1>3 DEF Headers
  <2>. QED BY <1>1, <1>2, <2>1
<1>6. ASSUME NEW i \in Headers(s), i \notin 1..g PROVE i \in g + 1..Len(s) /\ i + (h - g) \in Headers(t)
  <2>1. i \in g + 1..Len(s)
    BY <1>1, <1>3, <1>6 DEF Headers
  <2>2. PICK k : k = i + (h - g)
    OBVIOUS
  <2>3. k \in h + 1..Len(t) /\ k - (h - g) = i
    BY <1>1, <2>1, <2>2
  <2>4. k \in Headers(t)
    BY <1>4, <2>3
  <2>. QED BY <2>1, <2>2, <2>4
<1>7. ASSUME NEW i \in h + 1..Len(t) PROVE i \in PreambleLines(t) <=> i - (h - g) \in PreambleLines(s)
  <2>1. ASSUME i \in PreambleLines(t) PROVE i - (h - g) \in PreambleLines(s)
    <3>1. ASSUME NEW k \in Headers(s) PROVE i - (h - g) < k
      <4>1. CASE k \in 1..g
        <5>1. k \in Headers(t)
          BY <1>1, <4>1, PrefixLines
        <5>2. i < k
          BY <2>1, <5>1 DEF PreambleLines
        <5>. QED BY <1>1, <4>1, <5>2
      <4>2. CASE k \notin 1..g
        <5>1. k \in g + 1..Len(s) /\ k + (h - g) \in Headers(t)
          BY <1>6, <4>2
        <5>2. i < k + (h - g)
          BY <2>1, <5>1 DEF PreambleLines
        <5>. QED BY <1>1, <5>1, <5>2
      <4>. QED BY <4>1, <4>2
    <3>. QED BY <1>2, <2>1, <3>1 DEF PreambleLines
  <2>2. ASSUME i - (h - g) \in PreambleLines(s) PROVE i \in PreambleLines(t)
    <3>1. ASSUME NEW k \in Headers(t) PROVE i < k
      <4>1. CASE k \in 1..g
        <5>1. k \in Headers(s)
          BY <1>1, <4>1, PrefixLines
        <5>2. i - (h - g) < k
          BY <2>2, <5>1 DEF PreambleLines
        <5>. QED BY <1>1, <4>1, <5>2
      <4>2. CASE k \notin 1..g
        <5>1. k \in h + 1..Len(t) /\ k - (h - g) \in Headers(s)
          BY <1>4, <1>5, <4>2
        <5>2. i - (h - g) < k - (h - g)
          BY <2>2, <5>1 DEF PreambleLines
        <5>. QED BY <1>1, <5>1, <5>2
      <4>. QED BY <4>1, <4>2
    <3>. QED BY <1>2, <2>2, <3>1 DEF PreambleLines
  <2>. QED BY <2>1, <2>2
<1>8. \A i \in h + 1..Len(t) : \A c : Item(t, i, c) <=> Item(s, i - (h - g), c)
  BY <1>1, <1>7 DEF Item
<1>9. \A i \in g + 1..h : \A c : ~Item(t, i, c)
  BY <1>1, <1>2 DEF Item, PreambleLines
<1>. QED BY <1>4, <1>5, <1>6, <1>8, <1>9

\* A line goes on over the gap.
LEMMA GapLine ==
  ASSUME NEW t, NEW s, NEW g, NEW h, WithinLine(t, s, g, h), NEW j \in h + 1..Len(t)
  PROVE  /\ \A i \in 1..g : OnLine(t, i, j) <=> OnLine(s, i, j - (h - g))
         /\ \A i \in h + 1..Len(t) : OnLine(t, i, j) <=> OnLine(s, i - (h - g), j - (h - g))
<1>0. Without(t, s, g, h) /\ g # 0
  BY DEF WithinLine
<1>num. /\ Len(t) \in Nat /\ Len(s) \in Nat /\ g \in 1..Len(t) /\ h \in g + 1..Len(t)
        /\ Len(s) = Len(t) - (h - g)
  BY <1>0, WithoutIs
<1>1. /\ Len(t) \in Nat /\ Len(s) \in Nat /\ g \in 1..Len(t) /\ h \in g + 1..Len(t)
      /\ Len(s) = Len(t) - (h - g)
      /\ \A k \in 1..g : s[k] = t[k]
      /\ \A k \in h + 1..Len(t) : k - (h - g) \in g + 1..Len(s) /\ s[k - (h - g)] = t[k]
      /\ \A k \in g + 1..Len(s) : k + (h - g) \in h + 1..Len(t) /\ s[k] = t[k + (h - g)]
  <2>1. /\ \A k \in 1..g : s[k] = t[k]
        /\ \A k \in h + 1..Len(t) : k - (h - g) \in g + 1..Len(s) /\ s[k - (h - g)] = t[k]
        /\ \A k \in g + 1..Len(s) : k + (h - g) \in h + 1..Len(t) /\ s[k] = t[k + (h - g)]
    BY <1>0, WithoutIs
  <2>. QED BY <1>num, <2>1
<1>4. \A k \in g..h : t[k] # "n"
  BY DEF WithinLine
<1>2. ASSUME NEW i \in 1..g PROVE OnLine(t, i, j) <=> OnLine(s, i, j - (h - g))
  <2>1. i \in 1..Len(t) /\ j \in i..Len(t) /\ i \in 1..Len(s) /\ j - (h - g) \in i..Len(s)
    BY <1>1
  <2>2. ASSUME \A k \in i..j : t[k] # "n", NEW k \in i..j - (h - g) PROVE s[k] # "n"
    <3>1. CASE k <= g
      <4>1. k \in 1..g /\ k \in i..j
        BY <1>1, <3>1
      <4>. QED BY <1>1, <2>2, <4>1
    <3>2. CASE ~(k <= g)
      <4>1. k \in g + 1..Len(s) /\ k + (h - g) \in i..j
        BY <1>1, <2>1, <3>2
      <4>. QED BY <1>1, <2>2, <4>1
    <3>. QED BY <3>1, <3>2
  <2>3. ASSUME \A k \in i..j - (h - g) : s[k] # "n", NEW k \in i..j PROVE t[k] # "n"
    <3>1. CASE k <= g
      <4>1. k \in 1..g /\ k \in i..j - (h - g)
        BY <1>1, <3>1
      <4>. QED BY <1>1, <2>3, <4>1
    <3>2. CASE ~(k <= h)
      <4>1. k \in h + 1..Len(t) /\ k - (h - g) \in i..j - (h - g)
        BY <1>1, <2>1, <3>2
      <4>. QED BY <1>1, <2>3, <4>1
    <3>3. CASE k \in g..h
      BY <1>1, <1>4, <3>3
    <3>. QED BY <1>1, <3>1, <3>2, <3>3
  <2>. QED BY <2>1, <2>2, <2>3 DEF OnLine
<1>3. ASSUME NEW i \in h + 1..Len(t) PROVE OnLine(t, i, j) <=> OnLine(s, i - (h - g), j - (h - g))
  <2>1. i \in 1..Len(t) /\ i - (h - g) \in 1..Len(s) /\ (j \in i..Len(t) <=> j - (h - g) \in i - (h - g)..Len(s))
    BY <1>num
  <2>2. ASSUME \A k \in i..j : t[k] # "n", NEW k \in i - (h - g)..j - (h - g) PROVE s[k] # "n"
    <3>1. k \in g + 1..Len(s) /\ k + (h - g) \in i..j
      BY <1>1, <2>1
    <3>. QED BY <1>1, <2>2, <3>1
  <2>3. ASSUME \A k \in i - (h - g)..j - (h - g) : s[k] # "n", NEW k \in i..j PROVE t[k] # "n"
    <3>1. k \in h + 1..Len(t) /\ k - (h - g) \in i - (h - g)..j - (h - g)
      BY <1>1, <2>1
    <3>. QED BY <1>1, <2>3, <3>1
  <2>. QED BY <2>1, <2>2, <2>3 DEF OnLine
<1>. QED BY <1>2, <1>3

\* After the gap, the same is cleaned.
LEMMA GapCleaned ==
  ASSUME NEW t, NEW s, NEW g, NEW h, WithinLine(t, s, g, h), NEW j \in h + 1..Len(t)
  PROVE  Cleaned(t, j) <=> Cleaned(s, j - (h - g))
<1>0. Without(t, s, g, h) /\ g # 0
  BY DEF WithinLine
<1>1. /\ Len(t) \in Nat /\ Len(s) \in Nat /\ g \in 1..Len(t) /\ h \in g + 1..Len(t)
      /\ Len(s) = Len(t) - (h - g) /\ Agree(t, s, g)
      /\ \A k \in 1..g : s[k] = t[k]
      /\ \A k \in h + 1..Len(t) : k - (h - g) \in g + 1..Len(s) /\ s[k - (h - g)] = t[k]
      /\ \A k \in g + 1..Len(s) : k + (h - g) \in h + 1..Len(t) /\ s[k] = t[k + (h - g)]
  BY <1>0, WithoutIs
<1>2. /\ \A i \in Headers(t) : i \in 1..g \/ (i \in h + 1..Len(t) /\ i - (h - g) \in Headers(s))
      /\ \A i \in Headers(s) : i \in 1..g \/ (i \in g + 1..Len(s) /\ i + (h - g) \in Headers(t))
  BY GapHeaders
<1>3. \A i \in 1..g : i \in Headers(t) <=> i \in Headers(s)
  BY <1>1, PrefixLines
<1>4. ASSUME Cleaned(t, j) PROVE Cleaned(s, j - (h - g))
  <2>1. PICK k \in 1..Len(t) : Under(t, k, j) /\ t[k] = "C"
    BY <1>4 DEF Cleaned
  <2>2. k \in Headers(t) /\ k <= j /\ \A x \in Headers(t) : ~(k < x /\ x <= j)
    BY <1>1, <2>1 DEF Under
  <2>3. CASE k \in 1..g
    <3>1. k \in Headers(s) /\ s[k] = "C" /\ k \in 1..Len(s) /\ j - (h - g) \in k..Len(s)
      BY <1>1, <1>3, <2>1, <2>2, <2>3
    <3>2. ASSUME NEW x \in Headers(s), k < x, x <= j - (h - g) PROVE FALSE
      <4>1. CASE x \in 1..g
        BY <1>1, <1>3, <2>2, <3>2, <4>1
      <4>2. CASE x \notin 1..g
        BY <1>1, <1>2, <2>2, <2>3, <3>2, <4>2
      <4>. QED BY <4>1, <4>2
    <3>. QED BY <3>1, <3>2 DEF Cleaned, Under
  <2>4. CASE k \notin 1..g
    <3>1. k \in h + 1..Len(t) /\ k - (h - g) \in Headers(s)
      BY <1>2, <2>2, <2>4
    <3>2. s[k - (h - g)] = "C" /\ k - (h - g) \in 1..Len(s) /\ j - (h - g) \in k - (h - g)..Len(s)
      BY <1>1, <2>1, <2>2, <3>1
    <3>3. ASSUME NEW x \in Headers(s), k - (h - g) < x, x <= j - (h - g) PROVE FALSE
      <4>1. CASE x \in 1..g
        BY <1>1, <3>1, <3>3, <4>1
      <4>2. CASE x \notin 1..g
        BY <1>1, <1>2, <2>2, <3>1, <3>3, <4>2
      <4>. QED BY <4>1, <4>2
    <3>. QED BY <3>1, <3>2, <3>3 DEF Cleaned, Under
  <2>. QED BY <2>3, <2>4
<1>5. ASSUME Cleaned(s, j - (h - g)) PROVE Cleaned(t, j)
  <2>1. PICK k \in 1..Len(s) : Under(s, k, j - (h - g)) /\ s[k] = "C"
    BY <1>5 DEF Cleaned
  <2>2. k \in Headers(s) /\ k <= j - (h - g) /\ \A x \in Headers(s) : ~(k < x /\ x <= j - (h - g))
    BY <1>1, <2>1 DEF Under
  <2>3. CASE k \in 1..g
    <3>1. k \in Headers(t) /\ t[k] = "C" /\ k \in 1..Len(t) /\ j \in k..Len(t)
      BY <1>1, <1>3, <2>1, <2>2, <2>3
    <3>2. ASSUME NEW x \in Headers(t), k < x, x <= j PROVE FALSE
      <4>1. CASE x \in 1..g
        BY <1>1, <1>3, <2>2, <3>2, <4>1
      <4>2. CASE x \notin 1..g
        BY <1>1, <1>2, <2>2, <2>3, <3>2, <4>2
      <4>. QED BY <4>1, <4>2
    <3>. QED BY <3>1, <3>2 DEF Cleaned, Under
  <2>4. CASE k \notin 1..g
    <3>1. k \in g + 1..Len(s) /\ k + (h - g) \in Headers(t)
      BY <1>2, <2>2, <2>4
    <3>2. t[k + (h - g)] = "C" /\ k + (h - g) \in 1..Len(t) /\ j \in k + (h - g)..Len(t)
      BY <1>1, <2>1, <2>2, <3>1
    <3>3. ASSUME NEW x \in Headers(t), k + (h - g) < x, x <= j PROVE FALSE
      <4>1. CASE x \in 1..g
        BY <1>1, <3>1, <3>3, <4>1
      <4>2. CASE x \notin 1..g
        BY <1>1, <1>2, <2>2, <3>1, <3>3, <4>2
      <4>. QED BY <4>1, <4>2
    <3>. QED BY <3>1, <3>2, <3>3 DEF Cleaned, Under
  <2>. QED BY <2>3, <2>4
<1>. QED BY <1>4, <1>5

\* The words before cell k + 1, if it is there, end at k or before.
Stop(t, k) == k = Len(t) \/ t[k + 1] \in {"s", "n"}

\* What may be taken out of the middle of a line: nothing essential, no end of
\* a run of percent signs, no blank that is then followed by a word, and of an
\* arch list only blanks and words that were there before.
Needless(t, g, h) ==
  /\ \A j \in g + 1..h : ~Kept(t, j)
  /\ h = Len(t) \/ t[h + 1] # "p"
  /\ t[g] = "s" => t[g + 1] = "s" /\ Stop(t, h)
  /\ \A i \in 1..g : Item(t, i, "I") /\ OnLine(t, i, g) =>
       /\ t[g + 1] = "s" /\ Stop(t, h)
       /\ \A a, b \in 1..Len(t) : Word(t, i, a, b) /\ g < a /\ a <= h =>
            b <= h /\ \E c, d \in 1..Len(t) : c <= g /\ Word(t, i, c, d) /\ Alike(t, a, b, c, d)

\* After the gap, the same percent signs are doubled.
LEMMA GapDoubled ==
  ASSUME NEW t, NEW s, NEW g, NEW h, WithinLine(t, s, g, h), NEW j \in h + 1..Len(t),
         t[h + 1] # "p"
  PROVE  Doubled(t, j) <=> Doubled(s, j - (h - g))
<1>0. Without(t, s, g, h) /\ g # 0
  BY DEF WithinLine
<1>1. /\ Len(t) \in Nat /\ Len(s) \in Nat /\ g \in 1..Len(t) /\ h \in g + 1..Len(t)
      /\ Len(s) = Len(t) - (h - g) /\ Agree(t, s, g)
      /\ \A k \in h + 1..Len(t) : k - (h - g) \in g + 1..Len(s) /\ s[k - (h - g)] = t[k]
      /\ \A k \in g + 1..Len(s) : k + (h - g) \in h + 1..Len(t) /\ s[k] = t[k + (h - g)]
  BY <1>0, WithoutIs
<1>2. /\ \A i \in 1..g : OnLine(t, i, j) <=> OnLine(s, i, j - (h - g))
      /\ \A i \in h + 1..Len(t) : OnLine(t, i, j) <=> OnLine(s, i - (h - g), j - (h - g))
  BY GapLine
<1>3. /\ \A i \in h + 1..Len(t) : Item(t, i, "h") <=> Item(s, i - (h - g), "h")
      /\ \A i \in g + 1..h : ~Item(t, i, "h")
  BY GapHeaders
<1>4. \A i \in 1..g : Item(t, i, "h") <=> Item(s, i, "h")
  BY <1>1, PrefixLines
<1>5. Comment(t, j) => Comment(s, j - (h - g))
  <2>. SUFFICES ASSUME NEW i \in 1..Len(t), Item(t, i, "h"), OnLine(t, i, j)
                PROVE  Comment(s, j - (h - g))
    BY DEF Comment
  <2>1. CASE i \in 1..g
    <3>1. i \in 1..Len(s)
      BY <1>1, <2>1
    <3>. QED BY <1>2, <1>4, <2>1, <3>1 DEF Comment
  <2>2. CASE i \notin 1..g
    <3>1. i \in h + 1..Len(t)
      BY <1>1, <1>3, <2>2
    <3>2. i - (h - g) \in 1..Len(s)
      BY <1>1, <3>1
    <3>. QED BY <1>2, <1>3, <3>1, <3>2 DEF Comment
  <2>. QED BY <2>1, <2>2
<1>6. Comment(s, j - (h - g)) => Comment(t, j)
  <2>. SUFFICES ASSUME NEW i \in 1..Len(s), Item(s, i, "h"), OnLine(s, i, j - (h - g))
                PROVE  Comment(t, j)
    BY DEF Comment
  <2>1. CASE i \in 1..g
    <3>1. i \in 1..Len(t)
      BY <1>1, <2>1
    <3>. QED BY <1>2, <1>4, <2>1, <3>1 DEF Comment
  <2>2. CASE i \notin 1..g
    <3>1. PICK k : k = i + (h - g)
      OBVIOUS
    <3>2. k \in h + 1..Len(t) /\ k \in 1..Len(t) /\ k - (h - g) = i
      BY <1>1, <2>2, <3>1
    <3>3. Item(t, k, "h") /\ OnLine(t, k, j)
      BY <1>2, <1>3, <3>2
    <3>. QED BY <3>2, <3>3 DEF Comment
  <2>. QED BY <2>1, <2>2
<1>7. t[j] = "p" => PercentRun(t, j) = PercentRun(s, j - (h - g))
  <2>. SUFFICES ASSUME t[j] = "p" PROVE PercentRun(t, j) = PercentRun(s, j - (h - g))
    OBVIOUS
  <2>1. j \in Nat /\ j - (h - g) \in Nat
    BY <1>1
  <2>2. Run(t, j, PercentRun(t, j))
    BY <2>1, RunIs
  <2>3. PICK n : n = PercentRun(t, j)
    OBVIOUS
  <2>4. n \in 0..j /\ (\A k \in j - n + 1..j : t[k] = "p") /\ (n = j \/ t[j - n] # "p")
    BY <2>2, <2>3 DEF Run
  <2>5. n < j - h
    <3>. SUFFICES ASSUME ~(n < j - h) PROVE FALSE
      OBVIOUS
    <3>1. h + 1 \in j - n + 1..j
      BY <1>1, <2>4
    <3>. QED BY <2>4, <3>1
  <2>6. n \in 0..j - (h - g) /\ j - n \in h + 1..Len(t) /\ n # j /\ j - n - (h - g) = j - (h - g) - n
    BY <1>1, <2>4, <2>5
  <2>7. s[j - (h - g) - n] # "p"
    <3>1. PICK k : k = j - n
      OBVIOUS
    <3>2. s[k - (h - g)] = t[k] /\ k - (h - g) = j - (h - g) - n
      BY <1>1, <2>6, <3>1
    <3>. QED BY <2>4, <2>6, <3>1, <3>2
  <2>8. ASSUME NEW k \in j - (h - g) - n + 1..j - (h - g) PROVE s[k] = "p"
    <3>1. k \in g + 1..Len(s) /\ k + (h - g) \in j - n + 1..j
      BY <1>1, <2>4, <2>5
    <3>. QED BY <1>1, <2>4, <3>1
  <2>9. Run(s, j - (h - g), n)
    BY <2>6, <2>7, <2>8 DEF Run
  <2>. QED BY <2>1, <2>3, <2>9, RunIs
<1>8. s[j - (h - g)] = t[j]
  BY <1>1
<1>. QED BY <1>5, <1>6, <1>7, <1>8 DEF Doubled

\* A word after the gap is a word of the other text.
LEMMA GapWord ==
  ASSUME NEW t, NEW s, NEW g, NEW h, WithinLine(t, s, g, h), Needless(t, g, h),
         NEW a \in h + 1..Len(t), NEW b \in h + 1..Len(t)
  PROVE  /\ \A i \in 1..g : Item(t, i, "I") =>
              (Word(t, i, a, b) <=> Word(s, i, a - (h - g), b - (h - g)))
         /\ \A i \in h + 1..Len(t) :
              Word(t, i, a, b) <=> Word(s, i - (h - g), a - (h - g), b - (h - g))
<1>0. Without(t, s, g, h) /\ g # 0
  BY DEF WithinLine
<1>num. /\ Len(t) \in Nat /\ Len(s) \in Nat /\ g \in 1..Len(t) /\ h \in g + 1..Len(t)
        /\ Len(s) = Len(t) - (h - g)
  BY <1>0, WithoutIs
<1>1. /\ Len(t) \in Nat /\ Len(s) \in Nat /\ g \in 1..Len(t) /\ h \in g + 1..Len(t)
      /\ Len(s) = Len(t) - (h - g)
      /\ \A k \in h + 1..Len(t) : k - (h - g) \in g + 1..Len(s) /\ s[k - (h - g)] = t[k]
      /\ \A k \in g + 1..Len(s) : k + (h - g) \in h + 1..Len(t) /\ s[k] = t[k + (h - g)]
  <2>1. \A k \in h + 1..Len(t) : k - (h - g) \in g + 1..Len(s) /\ s[k - (h - g)] = t[k]
    BY <1>0, WithoutIs
  <2>2. \A k \in g + 1..Len(s) : k + (h - g) \in h + 1..Len(t) /\ s[k] = t[k + (h - g)]
    BY <1>0, WithoutIs
  <2>. QED BY <1>num, <2>1, <2>2
<1>2. /\ \A i \in 1..g : OnLine(t, i, b) <=> OnLine(s, i, b - (h - g))
      /\ \A i \in h + 1..Len(t) : OnLine(t, i, b) <=> OnLine(s, i - (h - g), b - (h - g))
  BY GapLine
<1>3. (\A k \in a..b : t[k] # "s") <=> (\A k \in a - (h - g)..b - (h - g) : s[k] # "s")
  <2>1. ASSUME \A k \in a..b : t[k] # "s", NEW k \in a - (h - g)..b - (h - g) PROVE s[k] # "s"
    <3>1. k \in g + 1..Len(s) /\ k + (h - g) \in a..b
      BY <1>1
    <3>. QED BY <1>1, <2>1, <3>1
  <2>2. ASSUME \A k \in a - (h - g)..b - (h - g) : s[k] # "s", NEW k \in a..b PROVE t[k] # "s"
    <3>1. k \in h + 1..Len(t) /\ k - (h - g) \in a - (h - g)..b - (h - g)
      BY <1>1
    <3>. QED BY <1>1, <2>2, <3>1
  <2>. QED BY <2>1, <2>2
<1>4. (b = Len(t) \/ t[b + 1] \in {"s", "n"}) <=>
        (b - (h - g) = Len(s) \/ s[b - (h - g) + 1] \in {"s", "n"})
  <2>1. CASE b = Len(t)
    BY <1>1, <2>1
  <2>2. CASE b # Len(t)
    <3>1. PICK k : k = b + 1
      OBVIOUS
    <3>2. k \in h + 1..Len(t) /\ k - (h - g) = b - (h - g) + 1 /\ b - (h - g) # Len(s)
      BY <1>1, <2>2, <3>1
    <3>3. s[k - (h - g)] = t[k]
      BY <1>1, <3>2
    <3>. QED BY <2>2, <3>1, <3>2, <3>3
  <2>. QED BY <2>1, <2>2
<1>5. /\ a \in 1..Len(t) /\ a - (h - g) \in 1..Len(s)
      /\ b \in a..Len(t) <=> b - (h - g) \in a - (h - g)..Len(s)
  BY <1>num
<1>6. a # h + 1 => s[a - (h - g) - 1] = t[a - 1]
  <2>. SUFFICES ASSUME a # h + 1 PROVE s[a - (h - g) - 1] = t[a - 1]
    OBVIOUS
  <2>1. PICK k : k = a - 1
    OBVIOUS
  <2>2. k \in h + 1..Len(t) /\ k - (h - g) = a - (h - g) - 1
    BY <1>1, <2>1
  <2>3. s[k - (h - g)] = t[k]
    BY <1>1, <2>2
  <2>. QED BY <2>1, <2>2, <2>3
<1>7. ASSUME NEW i \in h + 1..Len(t)
      PROVE  Word(t, i, a, b) <=> Word(s, i - (h - g), a - (h - g), b - (h - g))
  <2>1. i < a <=> i - (h - g) < a - (h - g)
    BY <1>1
  <2>2. i < a => a # h + 1
    BY <1>1
  <2>. QED BY <1>2, <1>3, <1>4, <1>5, <1>6, <2>1, <2>2 DEF Word
<1>8. ASSUME NEW i \in 1..g, Item(t, i, "I")
      PROVE  Word(t, i, a, b) <=> Word(s, i, a - (h - g), b - (h - g))
  <2>1. i < a /\ i < a - (h - g)
    BY <1>1
  <2>2. ASSUME OnLine(t, i, b), b \in a..Len(t), \A k \in a..b : t[k] # "s" PROVE a # h + 1
    <3>. SUFFICES ASSUME a = h + 1 PROVE FALSE
      OBVIOUS
    <3>1. OnLine(t, i, g)
      BY <1>1, <2>2 DEF OnLine
    <3>2. Stop(t, h)
      BY <1>8, <3>1 DEF Needless
    <3>3. h + 1 \in a..b /\ h + 1 \in i..b /\ h # Len(t)
      BY <1>1, <2>2
    <3>4. t[h + 1] # "s" /\ t[h + 1] # "n"
      BY <2>2, <3>3 DEF OnLine
    <3>. QED BY <3>2, <3>3, <3>4 DEF Stop
  <2>. QED BY <1>2, <1>3, <1>4, <1>5, <1>6, <2>1, <2>2 DEF Word
<1>. QED BY <1>7, <1>8

\* Neither text has a word of an arch list that reaches over the gap.
LEMMA GapSnug ==
  ASSUME NEW t, NEW s, NEW g, NEW h, WithinLine(t, s, g, h), Needless(t, g, h)
  PROVE  Snug(t, g) /\ Snug(s, g)
<1>0. Without(t, s, g, h) /\ g # 0
  BY DEF WithinLine
<1>1. /\ Len(t) \in Nat /\ Len(s) \in Nat /\ g \in 1..Len(t) /\ h \in g + 1..Len(t)
      /\ Len(s) = Len(t) - (h - g) /\ Agree(t, s, g)
      /\ \A k \in h + 1..Len(t) : k - (h - g) \in g + 1..Len(s) /\ s[k - (h - g)] = t[k]
  BY <1>0, WithoutIs
<1>2. Snug(t, g)
  BY DEF Snug, Needless
<1>3. Snug(s, g)
  <2>. SUFFICES ASSUME NEW i \in 1..g, Item(s, i, "I"), OnLine(s, i, g)
                PROVE  g = Len(s) \/ s[g + 1] \in {"s", "n"}
    BY DEF Snug
  <2>1. Item(t, i, "I") /\ OnLine(t, i, g)
    BY <1>1, PrefixLines
  <2>2. Stop(t, h)
    BY <2>1 DEF Needless
  <2>3. CASE h = Len(t)
    BY <1>1, <2>3
  <2>4. CASE h # Len(t)
    <3>1. h + 1 \in h + 1..Len(t) /\ h + 1 - (h - g) = g + 1
      BY <1>1, <2>4
    <3>. QED BY <1>1, <2>2, <2>4, <3>1 DEF Stop
  <2>. QED BY <2>3, <2>4
<1>. QED BY <1>2, <1>3

\* After the gap, the same is repeated.
LEMMA GapRepeated ==
  ASSUME NEW t, NEW s, NEW g, NEW h, WithinLine(t, s, g, h), Needless(t, g, h),
         NEW j \in h + 1..Len(t)
  PROVE  Repeated(t, j) <=> Repeated(s, j - (h - g))
<1>0. Without(t, s, g, h) /\ g # 0
  BY DEF WithinLine
<1>num. /\ Len(t) \in Nat /\ Len(s) \in Nat /\ g \in 1..Len(t) /\ h \in g + 1..Len(t)
        /\ Len(s) = Len(t) - (h - g)
  BY <1>0, WithoutIs
<1>1. /\ Len(t) \in Nat /\ Len(s) \in Nat /\ g \in 1..Len(t) /\ h \in g + 1..Len(t)
      /\ Len(s) = Len(t) - (h - g) /\ Agree(t, s, g) /\ Agree(s, t, g)
      /\ \A k \in 1..g : s[k] = t[k]
      /\ \A k \in h + 1..Len(t) : k - (h - g) \in g + 1..Len(s) /\ s[k - (h - g)] = t[k]
      /\ \A k \in g + 1..Len(s) : k + (h - g) \in h + 1..Len(t) /\ s[k] = t[k + (h - g)]
  <2>1. /\ Agree(t, s, g)
        /\ Agree(s, t, g)
        /\ \A k \in 1..g : s[k] = t[k]
        /\ \A k \in h + 1..Len(t) : k - (h - g) \in g + 1..Len(s) /\ s[k - (h - g)] = t[k]
        /\ \A k \in g + 1..Len(s) : k + (h - g) \in h + 1..Len(t) /\ s[k] = t[k + (h - g)]
    BY <1>0, WithoutIs
  <2>. QED BY <1>num, <2>1
<1>2. Snug(t, g) /\ Snug(s, g)
  BY GapSnug
<1>3. /\ \A i \in h + 1..Len(t) : Item(t, i, "I") <=> Item(s, i - (h - g), "I")
      /\ \A i \in g + 1..h : ~Item(t, i, "I")
  BY GapHeaders
<1>4. \A i \in 1..g : Item(t, i, "I") <=> Item(s, i, "I")
  BY <1>1, PrefixLines
<1>5. ASSUME Repeated(t, j) PROVE Repeated(s, j - (h - g))
  <2>1. PICK i, a, b \in 1..Len(t) : Item(t, i, "I") /\ Again(t, i, a, b) /\ a - 1 <= j /\ j <= b
    BY <1>5 DEF Repeated
  <2>2. Word(t, i, a, b)
    BY <2>1 DEF Again
  <2>3. g < a
    <3>. SUFFICES ASSUME a - 1 <= g PROVE FALSE
      BY <1>1
    <3>1. b <= g
      BY <1>1, <1>2, <2>1, <2>2, PrefixWord
    <3>. QED BY <1>1, <2>1, <3>1
  <2>4. i \in 1..g \/ i \in h + 1..Len(t)
    BY <1>1, <1>3, <2>1
  <2>5. i \in 1..g => OnLine(t, i, g)
    BY <1>1, <2>2, <2>3 DEF Word, OnLine
  <2>6. h < a
    <3>. SUFFICES ASSUME a <= h PROVE FALSE
      BY <1>1
    <3>1. i \in 1..g
      BY <1>1, <2>2, <2>4 DEF Word
    <3>2. b <= h
      BY <2>1, <2>2, <2>3, <2>5, <3>1 DEF Needless
    <3>. QED BY <1>1, <2>1, <3>2
  <2>7. a \in h + 1..Len(t) /\ b \in h + 1..Len(t)
    BY <1>1, <2>1, <2>6
  <2>8. \E c, d \in 1..Len(t) : (c <= g \/ h < c) /\ c < a /\ Word(t, i, c, d) /\ Alike(t, a, b, c, d)
    <3>1. PICK c, d \in 1..Len(t) : c < a /\ Word(t, i, c, d) /\ Alike(t, a, b, c, d)
      BY <2>1 DEF Again
    <3>2. CASE g < c /\ c <= h
      <4>1. i \in 1..g
        BY <1>1, <2>4, <3>1, <3>2 DEF Word
      <4>2. PICK x, y \in 1..Len(t) : x <= g /\ Word(t, i, x, y) /\ Alike(t, c, d, x, y)
        BY <2>1, <2>5, <3>1, <3>2, <4>1 DEF Needless
      <4>3. Alike(t, a, b, x, y)
        BY <1>1, <3>1, <4>2 DEF Alike
      <4>. QED BY <1>1, <2>3, <4>2, <4>3
    <3>3. CASE ~(g < c /\ c <= h)
      BY <1>1, <3>1, <3>3
    <3>. QED BY <3>2, <3>3
  <2>9. PICK c, d \in 1..Len(t) : (c <= g \/ h < c) /\ c < a /\ Word(t, i, c, d) /\ Alike(t, a, b, c, d)
    BY <2>8
  <2>10. d \in c..Len(t) /\ b \in a..Len(t)
    BY <2>2, <2>9 DEF Word
  <2>. DEFINE I == IF i <= g THEN i ELSE i - (h - g)
              A == a - (h - g)
              B == b - (h - g)
              C == IF c <= g THEN c ELSE c - (h - g)
              D == IF c <= g THEN d ELSE d - (h - g)
  <2>11. Item(s, I, "I") /\ I \in 1..Len(s) /\ A \in 1..Len(s) /\ B \in 1..Len(s)
    BY <1>1, <1>3, <1>4, <2>1, <2>4, <2>7
  <2>17. (i \in 1..g => I = i) /\ (i \in h + 1..Len(t) => I = i - (h - g))
    BY <1>1
  <2>12. Word(s, I, A, B)
    <3>1. CASE i \in 1..g
      <4>1. Word(s, i, a - (h - g), b - (h - g))
        BY <2>1, <2>2, <2>7, <3>1, GapWord
      <4>. QED BY <2>17, <3>1, <4>1
    <3>2. CASE i \in h + 1..Len(t)
      <4>1. Word(s, i - (h - g), a - (h - g), b - (h - g))
        BY <2>2, <2>7, <3>2, GapWord
      <4>. QED BY <2>17, <3>2, <4>1
    <3>. QED BY <2>4, <3>1, <3>2
  <2>13. Word(s, I, C, D) /\ C \in 1..Len(s) /\ D \in 1..Len(s) /\ C < A /\ (c <= g => d <= g)
    <3>1. CASE c <= g
      <4>1. c - 1 <= g /\ i <= g
        BY <1>1, <2>9, <3>1 DEF Word
      <4>2. d <= g /\ d \in 1..Len(s) /\ Word(s, i, c, d)
        BY <1>1, <1>2, <2>1, <2>9, <4>1, PrefixWord
      <4>. QED BY <1>1, <2>7, <3>1, <4>1, <4>2
    <3>2. CASE ~(c <= g)
      <4>1. c \in h + 1..Len(t) /\ d \in h + 1..Len(t)
        BY <1>1, <2>9, <2>10, <3>2
      <4>2. Word(s, I, c - (h - g), d - (h - g))
        <5>1. CASE i \in 1..g
          <6>1. Word(s, i, c - (h - g), d - (h - g))
            BY <2>1, <2>9, <4>1, <5>1, GapWord
          <6>. QED BY <2>17, <5>1, <6>1
        <5>2. CASE i \in h + 1..Len(t)
          <6>1. Word(s, i - (h - g), c - (h - g), d - (h - g))
            BY <2>9, <4>1, <5>2, GapWord
          <6>. QED BY <2>17, <5>2, <6>1
        <5>. QED BY <2>4, <5>1, <5>2
      <4>. QED BY <1>1, <2>7, <2>9, <3>2, <4>1, <4>2
    <3>. QED BY <3>1, <3>2
  <2>14. Alike(s, A, B, C, D)
    <3>1. D - C = B - A /\ B - A = b - a
      BY <1>1, <2>9, <2>10 DEF Alike
    <3>2. ASSUME NEW x \in 0..b - a PROVE s[A + x] = t[a + x] /\ s[C + x] = t[c + x] /\ t[a + x] = t[c + x]
      <4>1. PICK y : y = a + x
        OBVIOUS
      <4>2. y \in h + 1..Len(t) /\ y - (h - g) = A + x
        BY <1>1, <2>7, <4>1
      <4>3. s[A + x] = t[a + x]
        BY <1>1, <4>1, <4>2
      <4>4. PICK z : z = c + x
        OBVIOUS
      <4>5. s[C + x] = t[c + x]
        <5>1. CASE c <= g
          <6>1. z \in 1..g /\ C = c
            BY <1>1, <2>9, <2>10, <2>13, <4>4, <5>1 DEF Alike
          <6>. QED BY <1>1, <4>4, <6>1
        <5>2. CASE ~(c <= g)
          <6>1. z \in h + 1..Len(t) /\ z - (h - g) = C + x
            BY <1>1, <2>9, <2>10, <4>4, <5>2 DEF Alike
          <6>. QED BY <1>1, <4>4, <6>1
        <5>. QED BY <5>1, <5>2
      <4>6. t[a + x] = t[c + x]
        BY <2>9 DEF Alike
      <4>. QED BY <4>3, <4>5, <4>6
    <3>. HIDE DEF A, B, C, D
    <3>. QED BY <3>1, <3>2 DEF Alike
  <2>15. A - 1 <= j - (h - g) /\ j - (h - g) <= B
    BY <1>1, <2>1
  <2>. HIDE DEF I, A, B, C, D
  <2>16. Again(s, I, A, B)
    BY <2>11, <2>12, <2>13, <2>14 DEF Again
  <2>. QED BY <2>11, <2>15, <2>16 DEF Repeated
<1>6. ASSUME Repeated(s, j - (h - g)) PROVE Repeated(t, j)
  <2>1. PICK I, A, B \in 1..Len(s) :
          Item(s, I, "I") /\ Again(s, I, A, B) /\ A - 1 <= j - (h - g) /\ j - (h - g) <= B
    BY <1>6 DEF Repeated
  <2>2. PICK C, D \in 1..Len(s) : C < A /\ Word(s, I, C, D) /\ Alike(s, A, B, C, D)
    BY <2>1 DEF Again
  <2>3. Word(s, I, A, B) /\ B \in A..Len(s) /\ D \in C..Len(s) /\ I < C /\ I < A
    BY <2>1, <2>2 DEF Word, Again
  <2>4. g < A
    <3>. SUFFICES ASSUME A - 1 <= g PROVE FALSE
      BY <1>1
    <3>1. B <= g
      BY <1>1, <1>2, <2>1, <2>3, PrefixWord
    <3>. QED BY <1>1, <2>1, <3>1
  <2>. DEFINE i == IF I <= g THEN I ELSE I + (h - g)
              a == A + (h - g)
              b == B + (h - g)
              c == IF C <= g THEN C ELSE C + (h - g)
              d == IF C <= g THEN D ELSE D + (h - g)
  <2>5. /\ a \in h + 1..Len(t) /\ b \in h + 1..Len(t) /\ a - (h - g) = A /\ b - (h - g) = B
        /\ I <= g => i \in 1..g /\ i = I
        /\ ~(I <= g) => i \in h + 1..Len(t) /\ i - (h - g) = I
    BY <1>1, <2>3, <2>4
  <2>6. Item(t, i, "I") /\ i \in 1..Len(t)
    <3>1. CASE I <= g
      BY <1>1, <1>4, <2>1, <2>5, <3>1
    <3>2. CASE ~(I <= g)
      <4>. HIDE DEF i
      <4>1. i \in h + 1..Len(t) /\ i - (h - g) = I
        BY <2>5, <3>2
      <4>2. Item(t, i, "I")
        BY <1>3, <2>1, <4>1
      <4>. QED BY <1>num, <4>1, <4>2
    <3>. QED BY <3>1, <3>2
  <2>7. Word(t, i, a, b)
    <3>. HIDE DEF i, a, b
    <3>. QED BY <2>3, <2>5, <2>6, GapWord
  <2>8. Word(t, i, c, d) /\ c \in 1..Len(t) /\ d \in 1..Len(t) /\ c < a /\ (C <= g => D <= g)
    <3>1. CASE C <= g
      <4>1. C - 1 <= g /\ i = I
        BY <1>1, <2>3, <3>1
      <4>2. D <= g /\ D \in 1..Len(t) /\ Word(t, I, C, D)
        BY <1>1, <1>2, <2>1, <2>2, <4>1, PrefixWord
      <4>. QED BY <1>1, <2>4, <3>1, <4>1, <4>2
    <3>2. CASE ~(C <= g)
      <4>1. /\ c \in h + 1..Len(t) /\ d \in h + 1..Len(t) /\ c - (h - g) = C /\ d - (h - g) = D /\ c < a
        BY <1>1, <2>2, <2>3, <3>2
      <4>2. Word(t, i, c, d)
        <5>. HIDE DEF i, c, d
        <5>. QED BY <2>2, <2>5, <2>6, <4>1, GapWord
      <4>. HIDE DEF i, a, c, d
      <4>. QED BY <1>1, <3>2, <4>1, <4>2
    <3>. QED BY <3>1, <3>2
  <2>9. Alike(t, a, b, c, d)
    <3>1. d - c = b - a /\ b - a = B - A
      BY <1>1, <2>2, <2>3 DEF Alike
    <3>2. ASSUME NEW x \in 0..B - A PROVE t[a + x] = t[c + x]
      <4>1. PICK y : y = A + x
        OBVIOUS
      <4>2. y \in g + 1..Len(s) /\ y + (h - g) = a + x
        BY <1>1, <2>3, <2>4, <4>1
      <4>3. t[a + x] = s[A + x]
        BY <1>1, <4>1, <4>2
      <4>4. PICK z : z = C + x
        OBVIOUS
      <4>5. t[c + x] = s[C + x]
        <5>1. CASE C <= g
          <6>1. z \in 1..g /\ c = C
            BY <1>num, <2>2, <2>3, <2>8, <4>4, <5>1 DEF Alike
          <6>. QED BY <1>1, <4>4, <6>1
        <5>2. CASE ~(C <= g)
          <6>1. z \in g + 1..Len(s) /\ z + (h - g) = c + x
            BY <1>num, <2>2, <2>3, <4>4, <5>2 DEF Alike
          <6>. QED BY <1>1, <4>4, <6>1
        <5>. QED BY <5>1, <5>2
      <4>6. s[A + x] = s[C + x]
        BY <2>2 DEF Alike
      <4>. QED BY <4>3, <4>5, <4>6
    <3>. HIDE DEF a, b, c, d
    <3>. QED BY <3>1, <3>2 DEF Alike
  <2>10. a - 1 <= j /\ j <= b /\ a \in 1..Len(t) /\ b \in 1..Len(t)
    BY <1>1, <2>1, <2>5
  <2>. HIDE DEF i, a, b, c, d
  <2>11. Again(t, i, a, b)
    BY <2>7, <2>8, <2>9 DEF Again
  <2>. QED BY <2>6, <2>10, <2>11 DEF Repeated
<1>. QED BY <1>5, <1>6

-----------------------------------------------------------------------------
(* Cells no reader needs, and whole sections.                              *)

\* Needless cells taken out of a line leave the essence.
LEMMA NeedlessCells ==
  ASSUME NEW t, NEW s, NEW g, NEW h, WithinLine(t, s, g, h), Needless(t, g, h)
  PROVE  Essence(s) = Essence(t)
<1>0. Without(t, s, g, h) /\ g # 0
  BY DEF WithinLine
<1>num. /\ Len(t) \in Nat /\ Len(s) \in Nat /\ g \in 1..Len(t) /\ h \in g + 1..Len(t)
        /\ Len(s) = Len(t) - (h - g)
  BY <1>0, WithoutIs
<1>1. /\ Len(t) \in Nat /\ Len(s) \in Nat /\ g \in 1..Len(t) /\ h \in g + 1..Len(t)
      /\ Len(s) = Len(t) - (h - g) /\ Agree(t, s, g) /\ s[g] = t[g]
      /\ \A k \in h + 1..Len(t) : k - (h - g) \in g + 1..Len(s) /\ s[k - (h - g)] = t[k]
  <2>1. /\ Agree(t, s, g)
        /\ s[g] = t[g]
        /\ \A k \in h + 1..Len(t) : k - (h - g) \in g + 1..Len(s) /\ s[k - (h - g)] = t[k]
    BY <1>0, WithoutIs
  <2>. QED BY <1>num, <2>1
<1>2. /\ Essential(t) = {j \in 1..Len(t) : Kept(t, j)}
      /\ Essential(s) = {j \in 1..Len(s) : Kept(s, j)}
  BY EssentialIs DEF WithinLine, Without
<1>3. Trailing(t, g) <=> Trailing(s, g)
  <2>1. CASE t[g] # "s"
    BY <1>1, <2>1 DEF Trailing
  <2>2. CASE t[g] = "s"
    <3>1. t[g + 1] = "s" /\ Stop(t, h)
      BY <2>2 DEF Needless
    <3>2. g = Len(s) \/ s[g + 1] \in {"s", "n"}
      <4>1. CASE h = Len(t)
        BY <1>1, <4>1
      <4>2. CASE h # Len(t)
        <5>1. h + 1 \in h + 1..Len(t) /\ h + 1 - (h - g) = g + 1
          BY <1>1, <4>2
        <5>. QED BY <1>1, <3>1, <4>2, <5>1 DEF Stop
      <4>. QED BY <4>1, <4>2
    <3>. QED BY <1>1, <2>2, <3>1, <3>2 DEF Trailing
  <2>. QED BY <2>1, <2>2
<1>4. \A j \in 1..g : Kept(t, j) <=> Kept(s, j)
  BY <1>1, <1>3, GapSnug, PrefixKept
<1>5. ASSUME NEW j \in h + 1..Len(t) PROVE Kept(t, j) <=> Kept(s, j - (h - g))
  <2>1. t[h + 1] # "p"
    BY <1>1 DEF Needless
  <2>2. Doubled(t, j) <=> Doubled(s, j - (h - g))
    BY <2>1, GapDoubled
  <2>3. Cleaned(t, j) <=> Cleaned(s, j - (h - g))
    BY GapCleaned
  <2>4. Repeated(t, j) <=> Repeated(s, j - (h - g))
    BY GapRepeated
  <2>5. Trailing(t, j) <=> Trailing(s, j - (h - g))
    <3>1. CASE j = Len(t)
      BY <1>1, <3>1 DEF Trailing
    <3>2. CASE j # Len(t)
      <4>1. PICK k : k = j + 1
        OBVIOUS
      <4>2. k \in h + 1..Len(t) /\ k - (h - g) = j - (h - g) + 1 /\ j - (h - g) # Len(s)
        BY <1>num, <3>2, <4>1
      <4>3. s[k - (h - g)] = t[k] /\ s[j - (h - g)] = t[j]
        BY <1>1, <4>2
      <4>. QED BY <3>2, <4>1, <4>2, <4>3 DEF Trailing
    <3>. QED BY <3>1, <3>2
  <2>. QED BY <2>2, <2>3, <2>4, <2>5 DEF Kept
<1>6. \A j \in g + 1..h : j \notin Essential(t)
  BY <1>2 DEF Needless
<1>7. \A j \in 1..g : j \in Essential(t) <=> j \in Essential(s)
  <2>1. \A j \in 1..g : j \in 1..Len(t) /\ j \in 1..Len(s)
    BY <1>1
  <2>. QED BY <1>2, <1>4, <2>1
<1>8. \A j \in h + 1..Len(t) : j \in Essential(t) <=> j - (h - g) \in Essential(s)
  <2>1. \A j \in h + 1..Len(t) : j \in 1..Len(t) /\ j - (h - g) \in 1..Len(s)
    BY <1>1
  <2>. QED BY <1>2, <1>5, <2>1
<1>. QED BY <1>0, <1>6, <1>7, <1>8, SameEssence

\* A %clean section taken out leaves the essence.
LEMMA CleanGone ==
  ASSUME NEW t, NEW s, NEW g, NEW h, Without(t, s, g, h),
         g + 1 \in Headers(t), t[g + 1] = "C",
         \A k \in Headers(t) : ~(g + 1 < k /\ k <= h),
         h = Len(t) \/ h + 1 \in Headers(t)
  PROVE  Essence(s) = Essence(t)
<1>num. /\ Len(t) \in Nat /\ Len(s) \in Nat /\ g \in 0..Len(t) /\ h \in g + 1..Len(t)
        /\ Len(s) = Len(t) - (h - g)
  BY WithoutIs
<1>1. /\ Len(t) \in Nat /\ Len(s) \in Nat /\ g \in 0..Len(t) /\ h \in g + 1..Len(t)
      /\ Len(s) = Len(t) - (h - g) /\ Agree(t, s, g)
      /\ \A k \in h + 1..Len(t) : k - (h - g) \in g + 1..Len(s) /\ s[k - (h - g)] = t[k]
      /\ \A k \in g + 1..Len(s) : k + (h - g) \in h + 1..Len(t) /\ s[k] = t[k + (h - g)]
      /\ g # 0 => g \in 1..Len(t) /\ s[g] = t[g]
  <2>1. \A k \in h + 1..Len(t) : k - (h - g) \in g + 1..Len(s) /\ s[k - (h - g)] = t[k]
    BY WithoutIs
  <2>2. \A k \in g + 1..Len(s) : k + (h - g) \in h + 1..Len(t) /\ s[k] = t[k + (h - g)]
    BY WithoutIs
  <2>3. Agree(t, s, g) /\ (g # 0 => g \in 1..Len(t) /\ s[g] = t[g])
    BY WithoutIs
  <2>. QED BY <1>num, <2>1, <2>2, <2>3
<1>2. /\ Essential(t) = {j \in 1..Len(t) : Kept(t, j)}
      /\ Essential(s) = {j \in 1..Len(s) : Kept(s, j)}
  BY EssentialIs DEF Without
<1>3. g # 0 => t[g] = "n" /\ s[g] = "n"
  <2>1. g # 0 => g + 1 # 1 /\ g + 1 - 1 = g
    BY <1>1
  <2>. QED BY <1>1, <2>1 DEF Headers, Starts, StartsLine
<1>4. ASSUME NEW j \in g + 1..h PROVE ~Kept(t, j)
  <2>1. Under(t, g + 1, j) /\ g + 1 \in 1..Len(t)
    <3>1. \A k \in Headers(t) : k \in Nat
      BY <1>1 DEF Headers, Starts
    <3>. QED BY <1>1, <3>1 DEF Under
  <2>. QED BY <2>1 DEF Kept, Cleaned
<1>5. ASSUME NEW j \in 1..g PROVE Kept(t, j) <=> Kept(s, j)
  <2>1. g # 0 /\ g \in 1..g
    BY <1>1
  <2>2. \A i \in 1..g : ~OnLine(t, i, g) /\ ~OnLine(s, i, g)
    <3>1. \A i \in 1..g : g \in i..g
      BY <1>1
    <3>. QED BY <1>3, <2>1, <3>1 DEF OnLine
  <2>3. Snug(t, g) /\ Snug(s, g)
    BY <2>2 DEF Snug
  <2>4. ~Trailing(t, g) /\ ~Trailing(s, g)
    BY <1>3, <2>1 DEF Trailing
  <2>. QED BY <1>1, <2>3, <2>4, PrefixKept
<1>6. ASSUME NEW j \in h + 1..Len(t) PROVE Kept(t, j) <=> Kept(s, j - (h - g))
  <2>1. h # Len(t) /\ h + 1 \in Headers(t) /\ h + 1 \in h + 1..Len(t) /\ h + 1 - (h - g) = g + 1
    BY <1>1
  <2>2. \A i \in h + 1..Len(t) : i \in Starts(t) <=> i - (h - g) \in Starts(s)
    <3>. SUFFICES ASSUME NEW i \in h + 1..Len(t) PROVE i \in Starts(t) <=> i - (h - g) \in Starts(s)
      OBVIOUS
    <3>1. CASE i = h + 1
      <4>1. i \in Starts(t)
        BY <2>1, <3>1 DEF Headers
      <4>2. g + 1 \in Starts(s)
        <5>1. g + 1 \in 1..Len(s) /\ g + 1 - 1 = g /\ (g = 0 => g + 1 = 1)
          BY <1>1, <2>1
        <5>2. g + 1 = 1 \/ s[g + 1 - 1] = "n"
          BY <1>3, <5>1
        <5>3. PICK x : x = g + 1
          OBVIOUS
        <5>4. x \in 1..Len(s) /\ (x = 1 \/ s[x - 1] = "n")
          BY <1>1, <5>1, <5>2, <5>3
        <5>5. x \in Starts(s)
          BY <5>4 DEF Starts, StartsLine
        <5>. QED BY <5>3, <5>5
      <4>3. i - (h - g) = g + 1
        BY <1>1, <3>1
      <4>. QED BY <4>1, <4>2, <4>3
    <3>2. CASE i # h + 1
      <4>1. PICK k : k = i - 1
        OBVIOUS
      <4>2. /\ k \in h + 1..Len(t) /\ i \in 1..Len(t) /\ i # 1
            /\ i - (h - g) \in 1..Len(s) /\ i - (h - g) # 1 /\ k - (h - g) = i - (h - g) - 1
        BY <1>1, <3>2, <4>1
      <4>3. s[k - (h - g)] = t[k]
        BY <1>1, <4>2
      <4>. QED BY <4>1, <4>2, <4>3 DEF Starts, StartsLine
    <3>. QED BY <3>1, <3>2
  <2>3. \A i \in h + 1..Len(t) : i \in Headers(t) <=> i - (h - g) \in Headers(s)
    BY <1>1, <2>2 DEF Headers
  <2>4. \A i \in g + 1..Len(s) : i \in Headers(s) <=> i + (h - g) \in Headers(t)
    <3>. SUFFICES ASSUME NEW i \in g + 1..Len(s) PROVE i \in Headers(s) <=> i + (h - g) \in Headers(t)
      OBVIOUS
    <3>1. PICK k : k = i + (h - g)
      OBVIOUS
    <3>2. k \in h + 1..Len(t) /\ k - (h - g) = i
      BY <1>1, <3>1
    <3>. QED BY <2>3, <3>1, <3>2
  <2>5. g + 1 \in Headers(s)
    <3>1. PICK k : k = h + 1
      OBVIOUS
    <3>2. k \in Headers(t) /\ k \in h + 1..Len(t) /\ k - (h - g) = g + 1
      BY <1>1, <2>1, <3>1
    <3>3. k - (h - g) \in Headers(s)
      BY <2>3, <3>2
    <3>. QED BY <3>2, <3>3
  <2>6. Headers(t) \subseteq 1..Len(t) /\ Headers(s) \subseteq 1..Len(s)
    BY DEF Headers, Starts
  <2>7. Cleaned(t, j) => Cleaned(s, j - (h - g))
    <3>. SUFFICES ASSUME NEW k \in 1..Len(t), Under(t, k, j), t[k] = "C" PROVE Cleaned(s, j - (h - g))
      BY DEF Cleaned
    <3>1. k \in h + 1..Len(t) /\ k <= j
      BY <1>1, <2>1 DEF Under
    <3>2. /\ k - (h - g) \in Headers(s) /\ k - (h - g) \in 1..Len(s) /\ s[k - (h - g)] = "C"
          /\ j - (h - g) \in k - (h - g)..Len(s)
      BY <1>1, <2>3, <3>1 DEF Under
    <3>3. ASSUME NEW x \in Headers(s), k - (h - g) < x, x <= j - (h - g) PROVE FALSE
      <4>3. x \in 1..Len(s)
        BY <2>6, <3>3
      <4>1. x \in g + 1..Len(s) /\ k < x + (h - g) /\ x + (h - g) <= j
        BY <1>1, <3>1, <3>3, <4>3
      <4>2. x + (h - g) \in Headers(t)
        BY <2>4, <4>1
      <4>. QED BY <4>1, <4>2 DEF Under
    <3>. QED BY <3>2, <3>3 DEF Cleaned, Under
  <2>8. Cleaned(s, j - (h - g)) => Cleaned(t, j)
    <3>. SUFFICES ASSUME NEW x \in 1..Len(s), Under(s, x, j - (h - g)), s[x] = "C" PROVE Cleaned(t, j)
      BY DEF Cleaned
    <3>1. x \in g + 1..Len(s) /\ x <= j - (h - g)
      BY <1>1, <2>5 DEF Under
    <3>2. PICK k : k = x + (h - g)
      OBVIOUS
    <3>3. k \in h + 1..Len(t) /\ k \in 1..Len(t) /\ k - (h - g) = x /\ j \in k..Len(t)
      BY <1>1, <3>1, <3>2
    <3>4. k \in Headers(t) /\ t[k] = "C"
      BY <1>1, <2>3, <3>3 DEF Under
    <3>5. ASSUME NEW y \in Headers(t), k < y, y <= j PROVE FALSE
      <4>1. y \in h + 1..Len(t) /\ x < y - (h - g) /\ y - (h - g) <= j - (h - g)
        <5>1. y \in 1..Len(t)
          BY <2>6
        <5>. QED BY <1>num, <3>1, <3>2, <3>3, <3>5, <5>1
      <4>2. y - (h - g) \in Headers(s)
        BY <2>3, <4>1
      <4>. QED BY <4>1, <4>2 DEF Under
    <3>. QED BY <3>3, <3>4, <3>5 DEF Cleaned, Under
  <2>9. ASSUME NEW i, NEW x, NEW c, Item(t, i, c), x \in h + 1..Len(t) PROVE ~OnLine(t, i, x)
    <3>1. i \in 1..Len(t) /\ i < g + 1
      BY <2>9 DEF Item, PreambleLines, Starts
    <3>2. g \in i..x /\ g # 0
      BY <1>1, <2>9, <3>1
    <3>. QED BY <1>3, <3>2 DEF OnLine
  <2>10. ASSUME NEW i, NEW x, NEW c, Item(s, i, c), x \in g + 1..Len(s) PROVE ~OnLine(s, i, x)
    <3>1. i \in 1..Len(s) /\ i < g + 1
      BY <2>5, <2>10 DEF Item, PreambleLines, Starts
    <3>2. g \in i..x /\ g # 0
      BY <1>1, <2>10, <3>1
    <3>. QED BY <1>3, <3>2 DEF OnLine
  <2>11. ~Comment(t, j) /\ ~Comment(s, j - (h - g))
    BY <1>1, <2>9, <2>10 DEF Comment
  <2>12. ~Repeated(t, j)
    <3>. SUFFICES ASSUME NEW i \in 1..Len(t), NEW a \in 1..Len(t), NEW b \in 1..Len(t),
                         Item(t, i, "I"), Again(t, i, a, b), j <= b
                  PROVE  FALSE
      BY DEF Repeated
    <3>1. OnLine(t, i, b) /\ b \in h + 1..Len(t)
      BY <1>1 DEF Again, Word
    <3>. QED BY <2>9, <3>1
  <2>13. ~Repeated(s, j - (h - g))
    <3>. SUFFICES ASSUME NEW i \in 1..Len(s), NEW a \in 1..Len(s), NEW b \in 1..Len(s),
                         Item(s, i, "I"), Again(s, i, a, b), j - (h - g) <= b
                  PROVE  FALSE
      BY DEF Repeated
    <3>1. OnLine(s, i, b) /\ b \in g + 1..Len(s)
      BY <1>1 DEF Again, Word
    <3>. QED BY <2>10, <3>1
  <2>14. Trailing(t, j) <=> Trailing(s, j - (h - g))
    <3>1. CASE j = Len(t)
      BY <1>1, <3>1 DEF Trailing
    <3>2. CASE j # Len(t)
      <4>1. PICK k : k = j + 1
        OBVIOUS
      <4>2. k \in h + 1..Len(t) /\ k - (h - g) = j - (h - g) + 1 /\ j - (h - g) # Len(s)
        BY <1>1, <3>2, <4>1
      <4>3. s[k - (h - g)] = t[k] /\ s[j - (h - g)] = t[j]
        BY <1>1, <4>2
      <4>. QED BY <3>2, <4>1, <4>2, <4>3 DEF Trailing
    <3>. QED BY <3>1, <3>2
  <2>. QED BY <2>7, <2>8, <2>11, <2>12, <2>13, <2>14 DEF Kept, Doubled
<1>7. \A j \in g + 1..h : j \notin Essential(t)
  BY <1>2, <1>4
<1>8. \A j \in 1..g : j \in Essential(t) <=> j \in Essential(s)
  <2>1. \A j \in 1..g : j \in 1..Len(t) /\ j \in 1..Len(s)
    BY <1>1
  <2>. QED BY <1>2, <1>5, <2>1
<1>9. \A j \in h + 1..Len(t) : j \in Essential(t) <=> j - (h - g) \in Essential(s)
  <2>1. \A j \in h + 1..Len(t) : j \in 1..Len(t) /\ j - (h - g) \in 1..Len(s)
    BY <1>1
  <2>. QED BY <1>2, <1>6, <2>1
<1>. QED BY <1>7, <1>8, <1>9, SameEssence

-----------------------------------------------------------------------------
(* What the edits of the rules do.                                         *)

Put(k) == [start |-> k - 1, end |-> k - 1, text |-> <<"p">>]

CleanFix(t, e) ==
  \E k \in Headers(t) : t[k] = "C" /\ e = Drop(k, SectionEnd(t, k))
ArchFix(t, e) ==
  \E i, a, b \in 1..Len(t) : Item(t, i, "I") /\ Again(t, i, a, b) /\ e = Drop(a - 1, b)
BlankFix(t, e) ==
  \E b \in 2..Len(t) : /\ t[b] = "s" /\ t[b - 1] \notin {"s", "n"}
                       /\ \A k \in b..LineEnd(t, b) : t[k] = "s"
                       /\ e = Drop(b, LineEnd(t, b))
CommentFix(t, e) == \E k \in 1..Len(t) : Comment(t, k) /\ Standalone(t, k) /\ e = Put(k)

RuleFix(t, e) == CleanFix(t, e) \/ ArchFix(t, e) \/ BlankFix(t, e) \/ CommentFix(t, e)

\* An edit a rule asks for is one of these.
LEMMA FixesAre ==
  ASSUME NEW t \in Seq(Cell), NEW kin, NEW s \in Diagnostics(t, kin), NEW e \in s.edits
  PROVE  RuleFix(t, e)
<1>1. Len(t) \in Nat /\ PreambleLines(t) \subseteq 1..Len(t)
  BY LenProperties DEF PreambleLines, Starts
<1>2. CASE s \in CleanSuggestions(t, kin)
  <2>1. PICK k \in Headers(t) : t[k] = "C" /\ (s = Machine({Drop(k, SectionEnd(t, k))}) \/ s = Manual)
    BY <1>2 DEF CleanSuggestions
  <2>2. e = Drop(k, SectionEnd(t, k))
    BY <2>1 DEF Machine, Manual
  <2>. QED BY <2>1, <2>2 DEF RuleFix, CleanFix
<1>3. CASE s \in ArchSuggestions(t)
  <2>. DEFINE Lists == {k \in PreambleLines(t) : t[k] = "I"}
              Same(i, w) == {v \in ArchWords(t, i) : SameWord(t, v, w)}
              IsSecond(i, w, v) == Cardinality({u \in Same(i, w) : u[1] < v[1]}) = 1
              Second(i, w) == CHOOSE v \in Same(i, w) : IsSecond(i, w, v)
              Cut(i, w) == Machine({Drop(Second(i, w)[1] - 1, Second(i, w)[2])})
  <2>1. ArchSuggestions(t) = UNION {{Cut(i, w) : w \in Repeats(t, i)} : i \in Lists}
    BY DEF ArchSuggestions
  <2>2. PICK i \in Lists : \E w \in Repeats(t, i) : s = Cut(i, w)
    <3>. HIDE DEF Lists, Cut
    <3>. QED BY <1>3, <2>1
  <2>3. PICK w \in Repeats(t, i) : s = Cut(i, w)
    BY <2>2
  <2>4. i \in 1..Len(t) /\ Item(t, i, "I")
    BY <1>1 DEF Item
  <2>5. \E v \in Same(i, w) : IsSecond(i, w, v)
    <3>1. \E v \in {x \in ArchWords(t, i) : SameWord(t, x, w)} :
             Cardinality({u \in {x \in ArchWords(t, i) : SameWord(t, x, w)} : u[1] < v[1]}) = 1
      BY <2>3, <2>4, SecondWord
    <3>. QED BY <3>1
  <2>6. PICK v : v = Second(i, w)
    OBVIOUS
  <2>7. v \in Same(i, w) /\ IsSecond(i, w, v)
    <3>. HIDE DEF Same, IsSecond
    <3>. QED BY <2>5, <2>6
  <2>8. \E u \in Same(i, w) : u[1] < v[1]
    <3>. SUFFICES ASSUME {u \in Same(i, w) : u[1] < v[1]} = {} PROVE FALSE
      BY <2>7
    <3>1. Cardinality({}) = 1
      <4>. HIDE DEF Same
      <4>. QED BY <2>7
    <3>. QED BY <3>1, FS_EmptySet
  <2>9. PICK u \in Same(i, w) : u[1] < v[1]
    BY <2>8
  <2>10. u \in ArchWords(t, i) /\ v \in ArchWords(t, i) /\ SameWord(t, u, v)
    BY <2>7, <2>9 DEF SameWord
  <2>11. v \in Repeats(t, i)
    <3>. HIDE DEF Same
    <3>. QED BY <2>9, <2>10 DEF Repeats
  <2>12. PICK a, b \in 1..Len(t) : v = <<a, b>>
    BY <2>4, <2>11, AgainIs
  <2>13. Again(t, i, a, b)
    BY <2>4, <2>11, <2>12, AgainIs
  <2>14. e = Drop(a - 1, b)
    <3>1. s = Machine({Drop(v[1] - 1, v[2])})
      BY <2>3, <2>6
    <3>. QED BY <2>12, <3>1 DEF Machine
  <2>. QED BY <2>4, <2>13, <2>14 DEF RuleFix, ArchFix
<1>4. CASE s \in BlankSuggestions(t)
  <2>1. PICK b \in 2..Len(t) : /\ t[b] = "s" /\ t[b - 1] \notin {"s", "n"}
                               /\ \A k \in b..LineEnd(t, b) : t[k] = "s"
                               /\ s = Machine({Drop(b, LineEnd(t, b))})
    BY <1>4 DEF BlankSuggestions
  <2>2. e = Drop(b, LineEnd(t, b))
    BY <2>1 DEF Machine
  <2>. QED BY <2>1, <2>2 DEF RuleFix, BlankFix
<1>5. CASE s \in CommentSuggestions(t)
  <2>1. PICK i \in PreambleLines(t) :
          t[i] = "h" /\ s = Machine({[start |-> k - 1, end |-> k - 1, text |-> <<"p">>] :
                                       k \in {j \in i..LineEnd(t, i) : Standalone(t, j)}})
    BY <1>5 DEF CommentSuggestions
  <2>2. PICK k \in i..LineEnd(t, i) : Standalone(t, k) /\ e = Put(k)
    BY <2>1 DEF Machine, Put
  <2>3. i \in 1..Len(t) /\ Item(t, i, "h")
    BY <1>1, <2>1 DEF Item
  <2>4. OnLine(t, i, k)
    BY <2>2, <2>3, OnLineIs
  <2>5. k \in 1..Len(t) /\ Comment(t, k)
    BY <1>1, <2>3, <2>4 DEF Comment, OnLine
  <2>. QED BY <2>2, <2>5 DEF RuleFix, CommentFix
<1>. QED BY <1>2, <1>3, <1>4, <1>5, DiagnosticsAre

\* Cells dropped.
LEMMA DropWithout ==
  ASSUME NEW c \in Seq(Cell), NEW g \in 0..Len(c), NEW h \in g + 1..Len(c)
  PROVE  Without(c, SubSeq(c, 1, g) \o <<>> \o SubSeq(c, h + 1, Len(c)), g, h)
<1>. DEFINE a == SubSeq(c, 1, g)
            b == SubSeq(c, h + 1, Len(c))
            s == a \o <<>> \o b
<1>1. Len(c) \in Nat /\ \A x \in 1..Len(c) : c[x] \in Cell
  BY LenProperties, ElementOfSeq
<1>2. a \in Seq(Cell) /\ Len(a) = g /\ \A x \in 1..g : a[x] = c[x]
  <2>1. \A x \in 1..g : c[x] \in Cell
    BY <1>1
  <2>2. a \in Seq(Cell) /\ Len(a) = (IF 1 <= g THEN g - 1 + 1 ELSE 0) /\ \A x \in 1..g - 1 + 1 : a[x] = c[1 + x - 1]
    BY <1>1, <2>1, SubSeqProperties
  <2>. QED BY <1>1, <2>2
<1>3. b \in Seq(Cell) /\ Len(b) = Len(c) - h /\ \A x \in 1..Len(c) - h : b[x] = c[h + x]
  <2>1. \A x \in h + 1..Len(c) : c[x] \in Cell
    BY <1>1
  <2>2. /\ b \in Seq(Cell)
        /\ Len(b) = (IF h + 1 <= Len(c) THEN Len(c) - (h + 1) + 1 ELSE 0)
        /\ \A x \in 1..Len(c) - (h + 1) + 1 : b[x] = c[h + 1 + x - 1]
    BY <1>1, <2>1, SubSeqProperties
  <2>. QED BY <1>1, <2>2
<1>. HIDE DEF a, b
<1>4. <<>> \in Seq(Cell) /\ Len(<<>>) = 0
  BY EmptySeq
<1>5. a \o <<>> \in Seq(Cell) /\ Len(a \o <<>>) = g /\ \A x \in 1..g : (a \o <<>>)[x] = c[x]
  <2>1. /\ a \o <<>> \in Seq(Cell) /\ Len(a \o <<>>) = Len(a) + Len(<<>>)
        /\ \A x \in 1..Len(a) + Len(<<>>) : (a \o <<>>)[x] = IF x <= Len(a) THEN a[x] ELSE <<>>[x - Len(a)]
    BY <1>2, <1>4, ConcatProperties
  <2>. QED BY <1>1, <1>2, <1>4, <2>1
<1>6. /\ s \in Seq(Cell) /\ Len(s) = Len(c) - (h - g)
      /\ \A x \in 1..Len(c) - (h - g) : s[x] = IF x <= g THEN c[x] ELSE b[x - g]
  <2>1. /\ s \in Seq(Cell) /\ Len(s) = Len(a \o <<>>) + Len(b)
        /\ \A x \in 1..Len(a \o <<>>) + Len(b) :
             s[x] = IF x <= Len(a \o <<>>) THEN (a \o <<>>)[x] ELSE b[x - Len(a \o <<>>)]
    BY <1>3, <1>5, ConcatProperties
  <2>. HIDE DEF s
  <2>2. Len(a \o <<>>) + Len(b) = Len(c) - (h - g)
    <3>1. Len(a \o <<>>) = g /\ Len(b) = Len(c) - h
      BY <1>3, <1>5
    <3>2. g + (Len(c) - h) = Len(c) - (h - g)
      BY <1>1
    <3>. QED BY <3>1, <3>2
  <2>3. ASSUME NEW x \in 1..Len(c) - (h - g) PROVE s[x] = IF x <= g THEN c[x] ELSE b[x - g]
    <3>1. s[x] = IF x <= g THEN (a \o <<>>)[x] ELSE b[x - g]
      BY <1>5, <2>1, <2>2
    <3>2. x <= g => x \in 1..g
      BY <1>1
    <3>. QED BY <1>5, <3>1, <3>2
  <2>. QED BY <2>1, <2>2, <2>3
<1>. HIDE DEF s
<1>7. \A j \in 1..g : s[j] = c[j]
  <2>1. \A j \in 1..g : j \in 1..Len(c) - (h - g) /\ j <= g
    BY <1>1
  <2>. QED BY <1>6, <2>1
<1>8. ASSUME NEW j \in h + 1..Len(c) PROVE s[j - (h - g)] = c[j]
  <2>1. /\ j - (h - g) \in 1..Len(c) - (h - g) /\ ~(j - (h - g) <= g) /\ j - (h - g) - g = j - h
        /\ j - h \in 1..Len(c) - h /\ h + (j - h) = j
    BY <1>1
  <2>2. s[j - (h - g)] = b[j - h]
    BY <1>6, <2>1
  <2>. QED BY <1>3, <2>1, <2>2
<1>9. Without(c, s, g, h)
  BY <1>6, <1>7, <1>8 DEF Without
<1>. QED BY <1>9 DEF s, a, b

\* A percent sign put before one: the old one is the cell there is more of.
LEMMA PutWithout ==
  ASSUME NEW c \in Seq(Cell), NEW k \in 1..Len(c), c[k] = "p"
  PROVE  Without(SubSeq(c, 1, k - 1) \o <<"p">> \o SubSeq(c, k, Len(c)), c, k, k + 1)
<1>. DEFINE a == SubSeq(c, 1, k - 1)
            b == SubSeq(c, k, Len(c))
            p == <<"p">>
            s == a \o p \o b
<1>1. Len(c) \in Nat /\ \A x \in 1..Len(c) : c[x] \in Cell
  BY LenProperties, ElementOfSeq
<1>2. a \in Seq(Cell) /\ Len(a) = k - 1 /\ \A x \in 1..k - 1 : a[x] = c[x]
  <2>1. \A x \in 1..k - 1 : c[x] \in Cell
    BY <1>1
  <2>2. a \in Seq(Cell) /\ Len(a) = (IF 1 <= k - 1 THEN k - 1 - 1 + 1 ELSE 0) /\ \A x \in 1..k - 1 - 1 + 1 : a[x] = c[1 + x - 1]
    BY <1>1, <2>1, SubSeqProperties
  <2>. QED BY <1>1, <2>2
<1>3. b \in Seq(Cell) /\ Len(b) = Len(c) - k + 1 /\ \A x \in 1..Len(c) - k + 1 : b[x] = c[k + x - 1]
  <2>1. \A x \in k..Len(c) : c[x] \in Cell
    BY <1>1
  <2>2. /\ b \in Seq(Cell)
        /\ Len(b) = (IF k <= Len(c) THEN Len(c) - k + 1 ELSE 0)
        /\ \A x \in 1..Len(c) - k + 1 : b[x] = c[k + x - 1]
    BY <1>1, <2>1, SubSeqProperties
  <2>. QED BY <1>1, <2>2
<1>. HIDE DEF a, b
<1>4. p \in Seq(Cell) /\ Len(p) = 1 /\ p[1] = "p"
  <2>1. "p" \in Cell
    BY DEF Cell
  <2>. QED BY <2>1
<1>. HIDE DEF p
<1>5. /\ a \o p \in Seq(Cell) /\ Len(a \o p) = k /\ \A x \in 1..k : (a \o p)[x] = c[x]
  <2>1. /\ a \o p \in Seq(Cell) /\ Len(a \o p) = Len(a) + Len(p)
        /\ \A x \in 1..Len(a) + Len(p) : (a \o p)[x] = IF x <= Len(a) THEN a[x] ELSE p[x - Len(a)]
    BY <1>2, <1>4, ConcatProperties
  <2>2. Len(a) + Len(p) = k
    BY <1>1, <1>2, <1>4
  <2>3. ASSUME NEW x \in 1..k PROVE (a \o p)[x] = c[x]
    <3>1. (a \o p)[x] = IF x <= Len(a) THEN a[x] ELSE p[x - Len(a)]
      BY <2>1, <2>2
    <3>2. CASE x = k
      <4>1. ~(x <= Len(a)) /\ x - Len(a) = 1
        BY <1>1, <1>2, <3>2
      <4>. QED BY <1>4, <3>1, <3>2, <4>1
    <3>3. CASE x # k
      <4>1. x <= Len(a) /\ x \in 1..k - 1
        BY <1>1, <1>2, <3>3
      <4>. QED BY <1>2, <3>1, <4>1
    <3>. QED BY <3>2, <3>3
  <2>. QED BY <2>1, <2>2, <2>3
<1>6. /\ s \in Seq(Cell) /\ Len(s) = Len(c) + 1
      /\ \A x \in 1..Len(c) + 1 : s[x] = IF x <= k THEN c[x] ELSE b[x - k]
  <2>1. /\ s \in Seq(Cell) /\ Len(s) = Len(a \o p) + Len(b)
        /\ \A x \in 1..Len(a \o p) + Len(b) :
             s[x] = IF x <= Len(a \o p) THEN (a \o p)[x] ELSE b[x - Len(a \o p)]
    <3>1. PICK m : m = a \o p
      OBVIOUS
    <3>2. m \in Seq(Cell) /\ b \in Seq(Cell) /\ s = m \o b
      BY <1>3, <1>5, <3>1
    <3>. QED BY <3>1, <3>2, ConcatProperties
  <2>. HIDE DEF s
  <2>2. Len(a \o p) + Len(b) = Len(c) + 1
    BY <1>1, <1>3, <1>5
  <2>3. ASSUME NEW x \in 1..Len(c) + 1 PROVE s[x] = IF x <= k THEN c[x] ELSE b[x - k]
    <3>1. s[x] = IF x <= k THEN (a \o p)[x] ELSE b[x - k]
      BY <1>5, <2>1, <2>2
    <3>2. x <= k => x \in 1..k
      BY <1>1
    <3>. QED BY <1>5, <3>1, <3>2
  <2>. QED BY <2>1, <2>2, <2>3
<1>. HIDE DEF s
<1>7. \A j \in 1..k : c[j] = s[j]
  <2>1. \A j \in 1..k : j \in 1..Len(c) + 1 /\ j <= k
    BY <1>1
  <2>. QED BY <1>6, <2>1
<1>8. ASSUME NEW j \in k + 1 + 1..Len(s) PROVE c[j - (k + 1 - k)] = s[j]
  <2>1. /\ j \in 1..Len(c) + 1 /\ ~(j <= k) /\ j - k \in 1..Len(c) - k + 1
        /\ k + (j - k) - 1 = j - (k + 1 - k)
    BY <1>1, <1>6
  <2>2. s[j] = b[j - k]
    BY <1>6, <2>1
  <2>. QED BY <1>3, <2>1, <2>2
<1>9. k \in 0..Len(s) /\ k + 1 \in k + 1..Len(s) /\ Len(c) = Len(s) - (k + 1 - k)
  BY <1>1, <1>6
<1>10. Without(s, c, k, k + 1)
  BY <1>6, <1>7, <1>8, <1>9 DEF Without
<1>. QED BY <1>10 DEF s, a, b, p

\* c is t as the edits so far have left it: the first q cells are as they were,
\* and at the next one, if there is one, such an edit began.
FixedFrom(t, c, q) ==
  /\ Agree(t, c, q)
  /\ \/ c = t /\ q = Len(t)
     \/ /\ q < Len(t) /\ t[q + 1] \in {"s", "C", "p"}
        /\ t[q + 1] = "s" => Stop(c, q)
        /\ t[q + 1] = "C" => q = Len(c) \/ c[q + 1] \in {"C", "H"}

\* Where the words of t end, those of c do.
LEMMA TailStop ==
  ASSUME NEW t, NEW c, NEW q, FixedFrom(t, c, q), NEW b \in 0..q, Stop(t, b)
  PROVE  Stop(c, b)
<1>1. Len(t) \in Nat /\ Len(c) \in Nat /\ q \in 0..Len(t) /\ \A j \in 1..q : c[j] = t[j]
  BY LenProperties DEF FixedFrom, Agree
<1>2. CASE b = q
  BY <1>1, <1>2 DEF FixedFrom, Stop
<1>3. CASE b # q
  <2>1. b + 1 \in 1..q /\ b # Len(t)
    BY <1>1, <1>3
  <2>. QED BY <1>1, <2>1 DEF Stop
<1>. QED BY <1>2, <1>3

\* And they still do where cells before that place are taken out.
LEMMA StopStays ==
  ASSUME NEW c, NEW s, NEW g, NEW h, Without(c, s, g, h), Stop(c, h)
  PROVE  Stop(s, g)
<1>1. /\ Len(c) \in Nat /\ g \in 0..Len(c) /\ h \in g + 1..Len(c) /\ Len(s) = Len(c) - (h - g)
      /\ \A j \in h + 1..Len(c) : j - (h - g) \in g + 1..Len(s) /\ s[j - (h - g)] = c[j]
  BY WithoutIs
<1>2. CASE h = Len(c)
  <2>1. g = Len(s)
    BY <1>1, <1>2
  <2>. QED BY <2>1 DEF Stop
<1>3. CASE h # Len(c)
  <2>1. PICK k : k = h + 1
    OBVIOUS
  <2>2. k \in h + 1..Len(c) /\ k - (h - g) = g + 1
    BY <1>1, <1>3, <2>1
  <2>3. s[k - (h - g)] = c[k]
    BY <1>1, <2>2
  <2>. QED BY <1>3, <2>1, <2>2, <2>3 DEF Stop
<1>. QED BY <1>2, <1>3

\* The cells before the gap are those of t.
LEMMA AgreesDown ==
  ASSUME NEW t, NEW c, NEW s, NEW q, NEW g \in 0..q, Agree(t, c, q), s \in Seq(Cell), g <= Len(s),
         \A j \in 1..g : s[j] = c[j]
  PROVE  Agree(t, s, g) /\ Agree(t, c, g)
<1>1. Len(t) \in Nat /\ Len(c) \in Nat /\ q \in 0..Len(t) /\ q <= Len(c) /\ t \in Seq(Cell) /\ c \in Seq(Cell)
  BY LenProperties DEF Agree
<1>2. \A j \in 1..g : j \in 1..q
  BY <1>1
<1>3. \A j \in 1..g : c[j] = t[j]
  BY <1>2 DEF Agree
<1>. QED BY <1>1, <1>3 DEF Agree

\* A cell is on one line only.
LEMMA OneLine ==
  ASSUME NEW t \in Seq(Cell), NEW i \in Starts(t), NEW k \in Starts(t), NEW j,
         OnLine(t, i, j), OnLine(t, k, j)
  PROVE  i = k
<1>1. Len(t) \in Nat /\ i \in 1..Len(t) /\ k \in 1..Len(t)
  BY LenProperties DEF Starts
<1>2. ASSUME NEW x \in Starts(t), NEW y \in Starts(t), OnLine(t, x, j), OnLine(t, y, j), x < y PROVE FALSE
  <2>1. x \in 1..Len(t) /\ y \in 1..Len(t) /\ y <= j
    BY <1>1, <1>2 DEF OnLine
  <2>2. y - 1 \in x..j /\ y # 1
    BY <1>1, <1>2, <2>1 DEF OnLine
  <2>3. t[y - 1] = "n"
    BY <2>2 DEF Starts, StartsLine
  <2>. QED BY <1>2, <2>2, <2>3 DEF OnLine
<1>. QED BY <1>1, <1>2

\* Trailing blanks dropped.
LEMMA BlankDrop ==
  ASSUME NEW t, NEW c, NEW q, FixedFrom(t, c, q), NEW e, BlankFix(t, e), e.end <= q
  PROVE  /\ e.start \in 0..q /\ e.end \in e.start + 1..q /\ e.text = <<>>
         /\ \A s : Without(c, s, e.start, e.end) => Essence(s) = Essence(c) /\ FixedFrom(t, s, e.start)
<1>1. /\ Len(t) \in Nat /\ Len(c) \in Nat /\ q \in 0..Len(t) /\ q <= Len(c)
      /\ t \in Seq(Cell) /\ c \in Seq(Cell) /\ \A j \in 1..q : c[j] = t[j]
  BY LenProperties DEF FixedFrom, Agree
<1>2. PICK b \in 2..Len(t) : /\ t[b] = "s" /\ t[b - 1] \notin {"s", "n"}
                             /\ \A k \in b..LineEnd(t, b) : t[k] = "s"
                             /\ e = Drop(b, LineEnd(t, b))
  BY DEF BlankFix
<1>3. PICK m : m = LineEnd(t, b)
  OBVIOUS
<1>4. e.start = b - 1 /\ e.end = m /\ e.text = <<>>
  BY <1>2, <1>3 DEF Drop
<1>5. b \in 1..Len(t) /\ \A j : j \in b..m <=> OnLine(t, b, j)
  BY <1>1, <1>3, OnLineIs
<1>6. m \in b - 1..Len(t)
  BY <1>1, <1>3, <1>5, LineEndIn
<1>7. b \in b..m
  <2>1. OnLine(t, b, b)
    BY <1>1, <1>2 DEF OnLine
  <2>. QED BY <1>5, <2>1
<1>8. m \in b..q
  BY <1>1, <1>4, <1>6, <1>7
<1>9. Stop(t, m)
  <2>1. CASE m # Len(t)
    <3>1. ~OnLine(t, b, m + 1)
      BY <1>1, <1>5, <1>6
    <3>2. OnLine(t, b, m) /\ m + 1 \in b..Len(t)
      BY <1>1, <1>5, <1>8, <2>1
    <3>3. PICK x \in b..m + 1 : t[x] = "n"
      BY <1>5, <3>1, <3>2 DEF OnLine
    <3>4. x = m + 1
      BY <1>1, <1>8, <3>2, <3>3 DEF OnLine
    <3>. QED BY <3>3, <3>4 DEF Stop
  <2>. QED BY <2>1 DEF Stop
<1>10. Stop(c, m)
  <2>1. m \in 0..q
    BY <1>1, <1>8
  <2>. QED BY <1>9, <2>1, TailStop
<1>11. /\ \A k \in b..m : k \in 1..q /\ c[k] = "s"
       /\ c[b - 1] = t[b - 1] /\ b - 1 \in 1..q
  <2>1. (\A k \in b..m : k \in 1..q) /\ b - 1 \in 1..q
    BY <1>1, <1>8
  <2>. QED BY <1>1, <1>2, <1>3, <2>1
<1>12. ASSUME NEW s, Without(c, s, b - 1, m) PROVE Essence(s) = Essence(c) /\ FixedFrom(t, s, b - 1)
  <2>1. WithinLine(c, s, b - 1, m)
    <3>1. \A k \in b - 1..m : k = b - 1 \/ k \in b..m
      BY <1>1, <1>8
    <3>. QED BY <1>2, <1>11, <1>12, <3>1 DEF WithinLine
  <2>2. ASSUME NEW j \in b..m PROVE ~Kept(c, j)
    <3>1. CASE j = m
      BY <1>10, <1>11, <3>1 DEF Kept, Trailing, Stop
    <3>2. CASE j # m
      <4>1. j + 1 \in b..m
        BY <1>1, <1>8, <3>2
      <4>. QED BY <1>11, <4>1 DEF Kept, Trailing
    <3>. QED BY <3>1, <3>2
  <2>3. ASSUME NEW i, NEW x \in 1..Len(c), NEW y, Word(c, i, x, y), b - 1 < x, x <= m PROVE FALSE
    <3>1. x \in b..m /\ x \in x..y
      BY <1>1, <1>8, <2>3 DEF Word
    <3>. QED BY <1>11, <2>3, <3>1 DEF Word
  <2>4. b - 1 + 1 = b /\ b \in b..m
    BY <1>1, <1>7
  <2>5. c[b - 1] # "s" /\ c[b - 1 + 1] = "s"
    BY <1>2, <1>11, <2>4
  <2>6. m = Len(c) \/ c[m + 1] # "p"
    BY <1>10 DEF Stop
  <2>7. \A j \in b - 1 + 1..m : ~Kept(c, j)
    BY <2>2, <2>4
  <2>8. Needless(c, b - 1, m)
    BY <1>10, <2>3, <2>5, <2>6, <2>7 DEF Needless
  <2>9. Essence(s) = Essence(c)
    BY <2>1, <2>8, NeedlessCells
  <2>10. Stop(s, b - 1)
    BY <1>10, <1>12, StopStays
  <2>11. Agree(t, s, b - 1)
    <3>1. s \in Seq(Cell) /\ b - 1 <= Len(s) /\ \A j \in 1..b - 1 : s[j] = c[j]
      BY <1>12, WithoutIs DEF Without, Agree
    <3>2. b - 1 \in 0..q
      BY <1>1, <1>11
    <3>. QED BY <3>1, <3>2, AgreesDown DEF FixedFrom
  <2>12. b - 1 < Len(t) /\ t[b - 1 + 1] = "s"
    BY <1>1, <1>2, <2>4
  <2>. QED BY <2>9, <2>10, <2>11, <2>12 DEF FixedFrom
<1>13. e.start \in 0..q /\ e.end \in e.start + 1..q
  BY <1>1, <1>4, <1>8
<1>. QED BY <1>4, <1>12, <1>13

\* A repeated word dropped.
LEMMA ArchDrop ==
  ASSUME NEW t, NEW c, NEW q, FixedFrom(t, c, q), NEW e, ArchFix(t, e), e.end <= q
  PROVE  /\ e.start \in 0..q /\ e.end \in e.start + 1..q /\ e.text = <<>>
         /\ \A s : Without(c, s, e.start, e.end) => Essence(s) = Essence(c) /\ FixedFrom(t, s, e.start)
<1>1. /\ Len(t) \in Nat /\ Len(c) \in Nat /\ q \in 0..Len(t) /\ q <= Len(c)
      /\ t \in Seq(Cell) /\ c \in Seq(Cell) /\ \A j \in 1..q : c[j] = t[j]
  BY LenProperties DEF FixedFrom, Agree
<1>2. PICK i, a, b \in 1..Len(t) : Item(t, i, "I") /\ Again(t, i, a, b) /\ e = Drop(a - 1, b)
  BY DEF ArchFix
<1>3. PICK g : g = a - 2
  OBVIOUS
<1>4. e.start = g /\ e.end = b /\ e.text = <<>>
  BY <1>1, <1>2, <1>3 DEF Drop
<1>5. /\ i < a /\ b \in a..Len(t) /\ t[a - 1] = "s" /\ Stop(t, b) /\ b <= q
      /\ \A k \in a..b : t[k] # "s"
  BY <1>2, <1>4 DEF Again, Word, Stop
<1>6. i # a - 1
  BY <1>2, <1>5 DEF Item
<1>7. g \in i..q /\ g + 1 = a - 1 /\ g \in 1..q /\ b \in g + 1..q /\ b \in 0..q /\ a - 1 \in 1..q
  BY <1>1, <1>3, <1>5, <1>6
<1>8. Stop(c, b)
  BY <1>5, <1>7, TailStop
<1>9. Agree(t, c, b)
  <2>1. \A j \in 1..b : c[j] = t[j]
    BY <1>1, <1>7
  <2>. QED BY <1>1, <1>7, <2>1 DEF Agree
<1>10. /\ i \in 1..Len(c) /\ a \in 1..Len(c) /\ b \in 1..Len(c)
       /\ Item(c, i, "I") /\ Again(c, i, a, b)
  <2>1. Snug(t, b) /\ Snug(c, b)
    BY <1>5, <1>8 DEF Snug, Stop
  <2>2. a - 1 <= b
    BY <1>1, <1>5
  <2>. QED BY <1>2, <1>9, <2>1, <2>2, PrefixAgain
<1>11. /\ OnLine(c, i, b) /\ c[a - 1] = "s" /\ \A k \in a..b : c[k] # "s"
  BY <1>10 DEF Again, Word
<1>12. PICK x, y \in 1..Len(c) : x < a /\ Word(c, i, x, y) /\ Alike(c, a, b, x, y)
  BY <1>10 DEF Again
<1>13. x <= g
  <2>1. x # a - 1
    <3>1. x \in x..y /\ \A k \in x..y : c[k] # "s"
      BY <1>1, <1>12 DEF Word
    <3>. QED BY <1>11, <3>1
  <2>. QED BY <1>1, <1>3, <1>12, <2>1
<1>14. ASSUME NEW s, Without(c, s, g, b) PROVE Essence(s) = Essence(c) /\ FixedFrom(t, s, g)
  <2>1. WithinLine(c, s, g, b)
    <3>1. \A k \in g..b : k \in i..b
      BY <1>1, <1>7
    <3>. QED BY <1>1, <1>7, <1>11, <1>14, <3>1 DEF WithinLine, OnLine
  <2>2. ASSUME NEW j \in g + 1..b PROVE ~Kept(c, j)
    <3>1. a - 1 <= j /\ j <= b
      BY <1>1, <1>7
    <3>. QED BY <1>10, <3>1 DEF Kept, Repeated
  <2>3. b = Len(c) \/ c[b + 1] # "p"
    BY <1>8 DEF Stop
  <2>4. c[g + 1] = "s"
    BY <1>7, <1>11
  <2>5. ASSUME NEW k \in 1..g, Item(c, k, "I"), OnLine(c, k, g) PROVE k = i
    <3>1. OnLine(c, i, g)
      BY <1>1, <1>7, <1>11 DEF OnLine
    <3>2. k \in Starts(c) /\ i \in Starts(c)
      BY <1>10, <2>5 DEF Item, PreambleLines
    <3>. QED BY <1>1, <2>5, <3>1, <3>2, OneLine
  <2>6. ASSUME NEW u \in 1..Len(c), NEW v \in 1..Len(c), Word(c, i, u, v), g < u, u <= b
        PROVE  u = a /\ v = b
    <3>1. /\ v \in u..Len(c) /\ c[u - 1] = "s" /\ OnLine(c, i, v) /\ Stop(c, v)
          /\ \A k \in u..v : c[k] # "s"
      BY <2>6 DEF Word, Stop
    <3>2. u # a - 1
      <4>1. u \in u..v
        BY <1>1, <3>1
      <4>. QED BY <1>11, <3>1, <4>1
    <3>3. ~(a < u)
      <4>. SUFFICES ASSUME a < u PROVE FALSE
        OBVIOUS
      <4>1. u - 1 \in a..b
        BY <1>1, <1>5, <2>6
      <4>. QED BY <1>11, <3>1, <4>1
    <3>4. u = a
      BY <1>1, <1>3, <2>6, <3>2, <3>3
    <3>5. ~(v < b)
      <4>. SUFFICES ASSUME v < b PROVE FALSE
        OBVIOUS
      <4>1. v + 1 \in a..b /\ v + 1 \in i..b /\ v # Len(c)
        BY <1>1, <1>5, <1>10, <3>1, <3>4
      <4>. QED BY <1>11, <3>1, <4>1 DEF Stop, OnLine
    <3>6. ~(b < v)
      <4>. SUFFICES ASSUME b < v PROVE FALSE
        OBVIOUS
      <4>1. b + 1 \in u..v /\ b + 1 \in i..v /\ b # Len(c)
        BY <1>1, <1>5, <1>10, <3>1, <3>4
      <4>. QED BY <1>8, <3>1, <4>1 DEF Stop, OnLine
    <3>7. v = b
      BY <1>1, <1>10, <3>1, <3>5, <3>6
    <3>. QED BY <3>4, <3>7
  <2>7. Needless(c, g, b)
    <3>1. ASSUME NEW k \in 1..g, Item(c, k, "I"), OnLine(c, k, g),
                 NEW u \in 1..Len(c), NEW v \in 1..Len(c), Word(c, k, u, v), g < u, u <= b
          PROVE  v <= b /\ \E w, z \in 1..Len(c) : w <= g /\ Word(c, k, w, z) /\ Alike(c, u, v, w, z)
      <4>1. k = i
        BY <2>5, <3>1
      <4>2. u = a /\ v = b
        BY <2>6, <3>1, <4>1
      <4>. QED BY <1>1, <1>10, <1>12, <1>13, <4>1, <4>2
    <3>. QED BY <1>8, <2>2, <2>3, <2>4, <3>1 DEF Needless
  <2>8. Essence(s) = Essence(c)
    BY <2>1, <2>7, NeedlessCells
  <2>9. Stop(s, g)
    BY <1>8, <1>14, StopStays
  <2>10. Agree(t, s, g)
    <3>1. s \in Seq(Cell) /\ g <= Len(s) /\ \A j \in 1..g : s[j] = c[j]
      BY <1>14, WithoutIs DEF Without, Agree
    <3>2. g \in 0..q
      BY <1>1, <1>7
    <3>. QED BY <3>1, <3>2, AgreesDown DEF FixedFrom
  <2>11. g < Len(t) /\ t[g + 1] = "s"
    BY <1>1, <1>5, <1>7
  <2>. QED BY <2>8, <2>9, <2>10, <2>11 DEF FixedFrom
<1>15. e.start \in 0..q /\ e.end \in e.start + 1..q
  BY <1>1, <1>4, <1>7
<1>. QED BY <1>4, <1>14, <1>15

\* A %clean section dropped.
LEMMA SectionDrop ==
  ASSUME NEW t, NEW c, NEW q, FixedFrom(t, c, q), NEW e, CleanFix(t, e), e.end <= q
  PROVE  /\ e.start \in 0..q /\ e.end \in e.start + 1..q /\ e.text = <<>>
         /\ \A s : Without(c, s, e.start, e.end) => Essence(s) = Essence(c) /\ FixedFrom(t, s, e.start)
<1>1. /\ Len(t) \in Nat /\ Len(c) \in Nat /\ q \in 0..Len(t) /\ q <= Len(c) /\ Agree(t, c, q)
      /\ t \in Seq(Cell) /\ c \in Seq(Cell) /\ \A j \in 1..q : c[j] = t[j]
  BY LenProperties DEF FixedFrom, Agree
<1>2. PICK k \in Headers(t) : t[k] = "C" /\ e = Drop(k, SectionEnd(t, k))
  BY DEF CleanFix
<1>3. PICK g : g = k - 1
  OBVIOUS
<1>4. PICK h : h = SectionEnd(t, k)
  OBVIOUS
<1>5. e.start = g /\ e.end = h /\ e.text = <<>>
  BY <1>2, <1>3, <1>4 DEF Drop
<1>6. /\ Headers(t) \subseteq 1..Len(t) /\ Headers(c) \subseteq 1..Len(c)
      /\ k \in 1..Len(t)
  BY DEF Headers, Starts
<1>7. \A j : j \in k..h <=> Under(t, k, j)
  BY <1>1, <1>4, UnderIs
<1>8. h \in k..Len(t)
  BY <1>1, <1>4, <1>6, SectionEndIn
<1>9. /\ k \in 1..q /\ h \in k..q /\ g \in 0..q /\ h \in g + 1..q /\ g + 1 = k
  BY <1>1, <1>3, <1>5, <1>6, <1>8
<1>10. \A i \in 1..q : i \in Headers(t) <=> i \in Headers(c)
  BY <1>1, PrefixLines
<1>11. h = Len(t) \/ h + 1 \in Headers(t)
  <2>. SUFFICES ASSUME h # Len(t) PROVE h + 1 \in Headers(t)
    OBVIOUS
  <2>1. h + 1 \in k..Len(t) /\ ~(h + 1 \in k..h)
    BY <1>1, <1>6, <1>8
  <2>2. ~Under(t, k, h + 1) /\ Under(t, k, h)
    BY <1>7, <1>8, <1>9, <2>1
  <2>3. PICK x \in Headers(t) : k < x /\ x <= h + 1
    BY <2>1, <2>2 DEF Under
  <2>4. x \in 1..Len(t) /\ ~(x <= h)
    BY <1>6, <2>2, <2>3 DEF Under
  <2>5. x = h + 1
    BY <1>1, <1>8, <2>3, <2>4
  <2>. QED BY <2>3, <2>5
<1>12. k \in Headers(c) /\ c[k] = "C"
  BY <1>1, <1>2, <1>9, <1>10
<1>13. \A x \in Headers(c) : ~(k < x /\ x <= h)
  <2>. SUFFICES ASSUME NEW x \in Headers(c), k < x, x <= h PROVE FALSE
    OBVIOUS
  <2>1. x \in 1..Len(c)
    BY <1>6
  <2>2. x \in 1..q /\ Under(t, k, h)
    BY <1>1, <1>7, <1>8, <1>9, <2>1
  <2>3. x \in Headers(t)
    BY <1>10, <2>2
  <2>. QED BY <2>2, <2>3 DEF Under
<1>14. h = Len(c) \/ h + 1 \in Headers(c)
  <2>1. CASE h = Len(t)
    <3>1. q = Len(t)
      BY <1>1, <1>9, <2>1
    <3>. QED BY <1>1, <2>1, <3>1 DEF FixedFrom
  <2>2. CASE h # Len(t) /\ h # q
    <3>1. h + 1 \in 1..q /\ h + 1 \in Headers(t)
      BY <1>1, <1>9, <1>11, <2>2
    <3>. QED BY <1>10, <3>1
  <2>3. CASE h # Len(t) /\ h = q
    <3>1. q + 1 \in Headers(t)
      BY <1>11, <2>3
    <3>2. q = Len(c) \/ c[q + 1] \in {"C", "H"}
      BY <2>3, <3>1 DEF FixedFrom, Headers
    <3>3. PICK x : x = q + 1
      OBVIOUS
    <3>4. x - 1 = q /\ x # 1 /\ q \in 1..q
      BY <1>1, <1>9, <3>3
    <3>5. t[q] = "n"
      BY <3>1, <3>3, <3>4 DEF Headers, Starts, StartsLine
    <3>6. c[x - 1] = "n"
      BY <1>1, <3>4, <3>5
    <3>7. q # Len(c) => x \in 1..Len(c) /\ c[x] \in {"C", "H"}
      BY <1>1, <3>2, <3>3
    <3>8. q # Len(c) => x \in Headers(c)
      BY <3>6, <3>7 DEF Headers, Starts, StartsLine
    <3>. QED BY <2>3, <3>3, <3>8
  <2>. QED BY <2>1, <2>2, <2>3
<1>15. ASSUME NEW s, Without(c, s, g, h) PROVE Essence(s) = Essence(c) /\ FixedFrom(t, s, g)
  <2>1. Essence(s) = Essence(c)
    BY <1>9, <1>12, <1>13, <1>14, <1>15, CleanGone
  <2>2. Agree(t, s, g)
    <3>1. s \in Seq(Cell) /\ g <= Len(s) /\ \A j \in 1..g : s[j] = c[j]
      BY <1>15, WithoutIs DEF Without, Agree
    <3>. QED BY <1>1, <1>9, <3>1, AgreesDown
  <2>3. g = Len(s) \/ s[g + 1] \in {"C", "H"}
    <3>1. /\ Len(s) = Len(c) - (h - g)
          /\ \A j \in h + 1..Len(c) : s[j - (h - g)] = c[j]
      BY <1>15, WithoutIs
    <3>2. CASE h = Len(c)
      BY <1>1, <1>9, <3>1, <3>2
    <3>3. CASE h # Len(c)
      <4>1. PICK x : x = h + 1
        OBVIOUS
      <4>2. x \in Headers(c)
        BY <1>14, <3>3, <4>1
      <4>3. x \in h + 1..Len(c) /\ x - (h - g) = g + 1
        BY <1>1, <1>6, <1>9, <4>1, <4>2
      <4>4. s[x - (h - g)] = c[x]
        BY <3>1, <4>3
      <4>. QED BY <4>2, <4>3, <4>4 DEF Headers
    <3>. QED BY <3>2, <3>3
  <2>4. g < Len(t) /\ t[g + 1] = "C"
    BY <1>1, <1>2, <1>6, <1>9
  <2>. QED BY <2>1, <2>2, <2>3, <2>4 DEF FixedFrom
<1>16. e.start \in 0..q /\ e.end \in e.start + 1..q
  BY <1>1, <1>5, <1>9
<1>. QED BY <1>5, <1>15, <1>16

\* A percent sign doubled.
LEMMA PercentPut ==
  ASSUME NEW t, NEW c, NEW q, FixedFrom(t, c, q), NEW k \in 1..q, Comment(t, k), Standalone(t, k),
         NEW s, Without(s, c, k, k + 1), s[k + 1] = "p"
  PROVE  Essence(s) = Essence(c) /\ FixedFrom(t, s, k - 1)
<1>1. /\ Len(t) \in Nat /\ Len(c) \in Nat /\ q \in 0..Len(t) /\ q <= Len(c)
      /\ t \in Seq(Cell) /\ c \in Seq(Cell) /\ \A j \in 1..q : c[j] = t[j]
  BY LenProperties DEF FixedFrom, Agree
<1>2. /\ s \in Seq(Cell) /\ Len(s) \in Nat /\ k \in 0..Len(s) /\ k + 1 \in k + 1..Len(s) /\ k # 0
      /\ Len(c) = Len(s) - (k + 1 - k)
      /\ \A j \in 1..k : c[j] = s[j]
      /\ \A j \in k + 1 + 1..Len(s) : c[j - (k + 1 - k)] = s[j]
  BY <1>1, LenProperties DEF Without
<1>3. t[k] = "p" /\ PercentRun(t, k) % 2 = 1 /\ (k = Len(t) \/ t[k + 1] # "p")
  BY DEF Standalone
<1>4. Agree(t, s, k) /\ Len(s) = Len(c) + 1 /\ k < Len(s)
  <2>1. \A j \in 1..k : s[j] = t[j]
    <3>1. \A j \in 1..k : j \in 1..q
      BY <1>1
    <3>. QED BY <1>1, <1>2, <3>1
  <2>2. Len(s) = Len(c) + 1 /\ k <= Len(s) /\ k < Len(s)
    BY <1>1, <1>2
  <2>. QED BY <1>1, <1>2, <2>1, <2>2 DEF Agree
<1>5. k \in 1..k /\ s[k] = "p" /\ s[k] # "n" /\ s[k + 1] # "n"
  BY <1>1, <1>3, <1>4 DEF Agree
<1>6. PICK i \in 1..Len(s) : Item(s, i, "h") /\ OnLine(s, i, k)
  BY <1>4, <1>5, PrefixDoubled DEF Comment
<1>7. OnLine(s, i, k + 1)
  <2>1. k + 1 \in i..Len(s) /\ \A j \in i..k + 1 : j = k + 1 \/ j \in i..k
    BY <1>1, <1>2, <1>6 DEF OnLine
  <2>. QED BY <1>5, <1>6, <2>1 DEF OnLine
<1>8. WithinLine(s, c, k, k + 1)
  <2>1. \A j \in k..k + 1 : j = k \/ j = k + 1
    BY <1>1
  <2>. QED BY <1>2, <1>5, <2>1 DEF WithinLine
<1>9. PercentRun(s, k + 1) % 2 # 1
  <2>1. PICK n : n = PercentRun(s, k)
    OBVIOUS
  <2>2. n % 2 = 1
    BY <1>3, <1>4, <1>5, <2>1, PrefixDoubled
  <2>3. k \in Nat /\ k + 1 \in Nat
    BY <1>1
  <2>4. Run(s, k, n)
    BY <2>1, <2>3, RunIs
  <2>5. Run(s, k + 1, n + 1)
    <3>1. n \in 0..k /\ (\A j \in k - n + 1..k : s[j] = "p") /\ (n = k \/ s[k - n] # "p")
      BY <2>4 DEF Run
    <3>2. /\ n + 1 \in 0..k + 1 /\ k + 1 - (n + 1) = k - n /\ (n = k => n + 1 = k + 1)
          /\ \A j \in k + 1 - (n + 1) + 1..k + 1 : j = k + 1 \/ j \in k - n + 1..k
      BY <2>3, <3>1
    <3>. QED BY <3>1, <3>2 DEF Run
  <2>6. n + 1 = PercentRun(s, k + 1)
    BY <2>3, <2>5, RunIs
  <2>7. n \in Nat
    BY <2>3, <2>4 DEF Run
  <2>8. (n + 1) % 2 # 1
    BY <2>2, <2>7
  <2>. QED BY <2>6, <2>8
<1>10. ASSUME NEW j \in k + 1..k + 1 PROVE ~Kept(s, j)
  <2>1. j = k + 1
    BY <1>1
  <2>2. Doubled(s, k + 1)
    BY <1>6, <1>7, <1>9 DEF Doubled, Comment
  <2>. QED BY <2>1, <2>2 DEF Kept
<1>11. k = Len(c) \/ c[k + 1] # "p"
  <2>1. CASE k # q
    <3>1. k + 1 \in 1..q /\ k # Len(t)
      BY <1>1, <2>1
    <3>. QED BY <1>1, <1>3, <3>1
  <2>2. CASE k = q /\ q = Len(t)
    BY <1>1, <2>2 DEF FixedFrom
  <2>3. CASE k = q /\ q # Len(t)
    BY <1>3, <2>3 DEF FixedFrom, Stop
  <2>. QED BY <2>1, <2>2, <2>3
<1>12. k + 1 = Len(s) \/ s[k + 1 + 1] # "p"
  <2>1. CASE k = Len(c)
    BY <1>1, <1>4, <2>1
  <2>2. CASE k # Len(c)
    <3>1. PICK x : x = k + 1 + 1
      OBVIOUS
    <3>2. x \in k + 1 + 1..Len(s) /\ x - (k + 1 - k) = k + 1
      BY <1>1, <1>4, <2>2, <3>1
    <3>3. c[x - (k + 1 - k)] = s[x]
      BY <1>2, <3>2
    <3>. QED BY <1>11, <2>2, <3>1, <3>2, <3>3
  <2>. QED BY <2>1, <2>2
<1>13. \A x \in 1..k : ~(Item(s, x, "I") /\ OnLine(s, x, k))
  <2>. SUFFICES ASSUME NEW x \in 1..k, Item(s, x, "I"), OnLine(s, x, k) PROVE FALSE
    OBVIOUS
  <2>1. x \in Starts(s) /\ i \in Starts(s)
    BY <1>6 DEF Item, PreambleLines
  <2>2. x = i
    BY <1>2, <1>6, <2>1, OneLine
  <2>. QED BY <1>6, <2>2 DEF Item
<1>14. Needless(s, k, k + 1)
  BY <1>5, <1>10, <1>12, <1>13 DEF Needless
<1>15. Essence(c) = Essence(s)
  BY <1>8, <1>14, NeedlessCells
<1>16. Agree(t, s, k - 1)
  <2>1. k - 1 \in 0..k /\ k - 1 <= Len(s) /\ \A j \in 1..k - 1 : j \in 1..k
    BY <1>1, <1>4
  <2>2. \A j \in 1..k - 1 : s[j] = t[j]
    BY <1>4, <2>1 DEF Agree
  <2>3. k - 1 \in 0..Len(t)
    BY <1>1
  <2>. QED BY <1>1, <1>2, <2>1, <2>2, <2>3 DEF Agree
<1>17. k - 1 < Len(t) /\ t[k - 1 + 1] = "p"
  <2>1. k - 1 < Len(t) /\ k - 1 + 1 = k
    BY <1>1
  <2>. QED BY <1>3, <2>1
<1>. QED BY <1>15, <1>16, <1>17 DEF FixedFrom

\* Whatever the rule, its edit leaves the essence, and what edits come after.
LEMMA OneFix ==
  ASSUME NEW t, NEW c, NEW q, FixedFrom(t, c, q), NEW n,
         NEW e, RuleFix(t, e), e.end <= q, e.start # q
  PROVE  LET r == ApplyEdit([text |-> c, applied |-> n], e)
         IN  Essence(r.text) = Essence(c) /\ FixedFrom(t, r.text, e.start) /\ r.applied = n + 1
<1>1. /\ Len(t) \in Nat /\ Len(c) \in Nat /\ q \in 0..Len(t) /\ q <= Len(c)
      /\ t \in Seq(Cell) /\ c \in Seq(Cell) /\ \A j \in 1..q : c[j] = t[j]
  BY LenProperties DEF FixedFrom, Agree
<1>. DEFINE new == SubSeq(c, 1, e.start) \o e.text \o SubSeq(c, e.end + 1, Len(c))
<1>2. ASSUME ~(e.end > Len(c) \/ e.start > e.end)
      PROVE  ApplyEdit([text |-> c, applied |-> n], e) = [text |-> new, applied |-> n + 1]
  BY <1>2 DEF ApplyEdit
<1>3. CASE CleanFix(t, e) \/ ArchFix(t, e) \/ BlankFix(t, e)
  <2>1. /\ e.start \in 0..q /\ e.end \in e.start + 1..q /\ e.text = <<>>
        /\ \A s : Without(c, s, e.start, e.end) => Essence(s) = Essence(c) /\ FixedFrom(t, s, e.start)
    BY <1>3, SectionDrop, ArchDrop, BlankDrop
  <2>2. e.start \in 0..Len(c) /\ e.end \in e.start + 1..Len(c) /\ ~(e.end > Len(c) \/ e.start > e.end)
    BY <1>1, <2>1
  <2>3. Without(c, new, e.start, e.end)
    BY <1>1, <2>1, <2>2, DropWithout
  <2>. HIDE DEF new
  <2>4. Essence(new) = Essence(c) /\ FixedFrom(t, new, e.start)
    BY <2>1, <2>3
  <2>. QED BY <1>2, <2>2, <2>4
<1>4. CASE CommentFix(t, e)
  <2>1. PICK k \in 1..Len(t) : Comment(t, k) /\ Standalone(t, k) /\ e = Put(k)
    BY <1>4 DEF CommentFix
  <2>2. e.start = k - 1 /\ e.end = k - 1 /\ e.text = <<"p">>
    BY <2>1 DEF Put
  <2>3. k \in 1..q /\ k \in 1..Len(c) /\ ~(e.end > Len(c) \/ e.start > e.end) /\ k - 1 + 1 = k
    BY <1>1, <2>2
  <2>4. c[k] = "p"
    BY <1>1, <2>1, <2>3 DEF Standalone
  <2>5. new = SubSeq(c, 1, k - 1) \o <<"p">> \o SubSeq(c, k, Len(c))
    BY <2>2, <2>3
  <2>6. Without(new, c, k, k + 1)
    BY <1>1, <2>3, <2>4, <2>5, PutWithout
  <2>7. new[k + 1] = "p"
    <3>. DEFINE a == SubSeq(c, 1, k - 1)
                b == SubSeq(c, k, Len(c))
    <3>1. \A x \in 1..Len(c) : c[x] \in Cell
      BY <1>1, ElementOfSeq
    <3>2. a \in Seq(Cell) /\ Len(a) = k - 1
      <4>1. \A x \in 1..k - 1 : c[x] \in Cell
        BY <1>1, <2>3, <3>1
      <4>. QED BY <1>1, <2>3, <4>1, SubSeqProperties
    <3>3. b \in Seq(Cell) /\ Len(b) = Len(c) - k + 1 /\ b[1] = "p"
      <4>1. \A x \in k..Len(c) : c[x] \in Cell
        BY <1>1, <2>3, <3>1
      <4>2. /\ b \in Seq(Cell) /\ Len(b) = Len(c) - k + 1
            /\ \A x \in 1..Len(c) - k + 1 : b[x] = c[k + x - 1]
        BY <1>1, <2>3, <4>1, SubSeqProperties
      <4>3. 1 \in 1..Len(c) - k + 1 /\ k + 1 - 1 = k
        BY <1>1, <2>3
      <4>. QED BY <2>4, <4>2, <4>3
    <3>4. PICK m : m = a \o <<"p">>
      OBVIOUS
    <3>. HIDE DEF a, b
    <3>5. m \in Seq(Cell) /\ Len(m) = k
      <4>1. "p" \in Cell
        BY DEF Cell
      <4>. QED BY <1>1, <2>3, <3>2, <3>4, <4>1
    <3>6. new = m \o b
      BY <2>5, <3>4 DEF a, b
    <3>. HIDE DEF new
    <3>7. k + 1 \in 1..Len(m) + Len(b) /\ ~(k + 1 <= Len(m)) /\ k + 1 - Len(m) = 1
      BY <1>1, <2>3, <3>3, <3>5
    <3>8. new[k + 1] = b[k + 1 - Len(m)]
      BY <3>3, <3>5, <3>6, <3>7, ConcatProperties
    <3>. QED BY <3>3, <3>7, <3>8
  <2>. HIDE DEF new
  <2>8. Essence(new) = Essence(c) /\ FixedFrom(t, new, k - 1)
    BY <2>1, <2>3, <2>6, <2>7, PercentPut
  <2>. QED BY <1>2, <2>2, <2>3, <2>8
<1>. QED BY <1>3, <1>4 DEF RuleFix

-----------------------------------------------------------------------------
(* Edits collected, each once, and applied.                                *)

\* No edit is there twice.
Distinct(edits) == \A k, l \in 1..Len(edits) : edits[k] = edits[l] => k = l

\* collect_edits takes its edits from the sorted ones, each at most once.
LEMMA AcceptedOnce ==
  ASSUME NEW m \in Nat, NEW sorted \in Seq(Candidates(m)), Distinct(sorted)
  PROVE  LET edits == FoldLeft(Accept, [last |-> UsizeMax, edits |-> <<>>], sorted).edits
         IN  /\ Distinct(edits)
             /\ \A l \in 1..Len(edits) : \E x \in 1..Len(sorted) : edits[l] = sorted[x].edit
<1>. DEFINE n == Len(sorted)
            V == [last : Nat, edits : Seq(EditsIn(m))]
            From(edits, k) == \A l \in 1..Len(edits) : \E x \in 1..k : edits[l] = sorted[x].edit
            Good(acc, k) == acc \in V /\ Distinct(acc.edits) /\ From(acc.edits, k)
<1>1. n \in Nat /\ \A k \in 1..n : sorted[k] \in Candidates(m)
  BY LenProperties, ElementOfSeq
<1>2. PICK h : /\ h[0] = [last |-> UsizeMax, edits |-> <<>>]
               /\ \A k \in 1..n : h[k] = Accept(h[k - 1], sorted[k])
               /\ FoldLeft(Accept, [last |-> UsizeMax, edits |-> <<>>], sorted) = h[n]
  BY AcceptSteps
<1>3. Good(h[0], 0)
  <2>1. <<>> \in Seq(EditsIn(m)) /\ Len(<<>>) = 0
    BY EmptySeq
  <2>. QED BY <1>2, <2>1 DEF Distinct, UsizeMax
<1>4. ASSUME NEW k \in 0..n, k < n, NEW acc, Good(acc, k), NEW j \in 1..n, j = k + 1
      PROVE  Good(Accept(acc, sorted[j]), j)
  <2>0. PICK c : c = sorted[j]
    OBVIOUS
  <2>. DEFINE l == Len(acc.edits)
              new == Append(acc.edits, c.edit)
  <2>1. c \in Candidates(m) /\ \A x \in 1..k : x \in 1..n /\ x \in 1..j /\ x # j
    BY <1>1, <1>4, <2>0
  <2>2. Accept(acc, c) \in V
    BY <1>4, <2>1, AcceptOne
  <2>3. CASE c.edit.end > acc.last
    <3>1. Accept(acc, c) = acc
      BY <2>3 DEF Accept
    <3>2. From(acc.edits, j)
      BY <1>4, <2>1
    <3>. HIDE DEF From
    <3>. QED BY <1>4, <2>0, <3>1, <3>2
  <2>4. CASE ~(c.edit.end > acc.last)
    <3>1. acc.edits \in Seq(EditsIn(m)) /\ c.edit \in EditsIn(m)
      BY <1>4, <2>1 DEF Candidates
    <3>2. l \in Nat
      BY <3>1, LenProperties
    <3>3. /\ Len(new) = l + 1 /\ new[l + 1] = c.edit
          /\ \A x \in 1..l : new[x] = acc.edits[x]
      BY <3>1, AppendProperties
    <3>4. Accept(acc, c) = [last |-> c.edit.start, edits |-> new]
      BY <2>4 DEF Accept
    <3>. HIDE DEF new
    <3>5. \A x \in 1..Len(new) : x = l + 1 \/ x \in 1..l
      BY <3>2, <3>3
    <3>6. From(new, j)
      <4>. SUFFICES ASSUME NEW x \in 1..Len(new) PROVE \E y \in 1..j : new[x] = sorted[y].edit
        OBVIOUS
      <4>1. CASE x = l + 1
        <5>1. j \in 1..j
          BY <1>4
        <5>. QED BY <2>0, <3>3, <4>1, <5>1
      <4>2. CASE x \in 1..l
        BY <1>4, <2>1, <3>3, <4>2
      <4>. QED BY <3>5, <4>1, <4>2
    <3>7. \A x \in 1..l : new[x] # c.edit
      <4>. SUFFICES ASSUME NEW x \in 1..l, acc.edits[x] = c.edit PROVE FALSE
        BY <3>3
      <4>1. PICK y \in 1..k : acc.edits[x] = sorted[y].edit
        BY <1>4
      <4>2. y \in 1..n /\ y # j /\ sorted[y] \in Candidates(m)
        BY <1>1, <2>1
      <4>3. sorted[y] = sorted[j]
        BY <1>1, <2>0, <2>1, <4>1, <4>2, RangeTells
      <4>. QED BY <4>2, <4>3 DEF Distinct
    <3>8. Distinct(new)
      <4>. SUFFICES ASSUME NEW x \in 1..Len(new), NEW y \in 1..Len(new), new[x] = new[y]
                    PROVE  x = y
        BY DEF Distinct
      <4>1. CASE x \in 1..l /\ y \in 1..l
        BY <1>4, <3>3, <4>1 DEF Distinct
      <4>2. CASE x = l + 1 \/ y = l + 1
        BY <3>3, <3>5, <3>7, <4>2
      <4>. QED BY <3>5, <4>1, <4>2
    <3>. HIDE DEF From
    <3>. QED BY <2>0, <2>2, <3>4, <3>6, <3>8
  <2>. QED BY <2>3, <2>4
<1>. DEFINE T == {k \in 0..n : Good(h[k], k)}
<1>. HIDE DEF Good
<1>5. 0 \in T
  BY <1>1, <1>3
<1>6. ASSUME NEW k \in 0..n, k \in T, k < n PROVE k + 1 \in T
  <2>1. PICK j : j = k + 1
    OBVIOUS
  <2>2. j \in 1..n /\ j \in 0..n /\ j - 1 = k
    BY <1>1, <1>6, <2>1
  <2>3. h[j] = Accept(h[k], sorted[j])
    BY <1>2, <2>2
  <2>4. Good(Accept(h[k], sorted[j]), j)
    BY <1>4, <1>6, <2>1, <2>2
  <2>. QED BY <2>1, <2>2, <2>3, <2>4
<1>7. n \in T
  <2>1. \A k \in 0..n : k \in T
    <3>. HIDE DEF T, n
    <3>. QED BY <1>1, <1>5, <1>6, UpTo
  <2>. QED BY <1>1, <2>1
<1>. QED BY <1>2, <1>7 DEF Good

\* What is collected from a text's own diagnostics is what its rules ask for,
\* each edit once.
LEMMA CollectedFixes ==
  ASSUME NEW t \in Seq(Cell), NEW kin
  PROVE  LET edits == CollectEdits(Diagnostics(t, kin))
         IN  Distinct(edits) /\ \A k \in 1..Len(edits) : RuleFix(t, edits[k])
<1>. DEFINE n == Len(t)
            diags == Diagnostics(t, kin)
            C == UNION {{[app |-> s.app, edit |-> e] : e \in s.edits} :
                          s \in {d \in diags : Applicable(d)}}
            Below(c) == Cardinality({d \in C : Before(d, c)})
            At(k) == CHOOSE c \in C : Cardinality({d \in C : Before(d, c)}) = k - 1
            sorted == [k \in 1..Cardinality(C) |-> At(k)]
<1>1. n \in Nat /\ diags \subseteq SuggestionsIn(n)
  BY LenProperties, DiagnosticsIn
<1>2. C \subseteq Candidates(n)
  <2>. SUFFICES ASSUME NEW s \in diags, Applicable(s), NEW e \in s.edits
                PROVE  [app |-> s.app, edit |-> e] \in Candidates(n)
    OBVIOUS
  <2>1. s.app = "machine" /\ e \in EditsIn(n)
    BY <1>1 DEF SuggestionsIn, Applicable
  <2>. QED BY <2>1 DEF Candidates
<1>3. \A c \in C : RuleFix(t, c.edit)
  <2>. SUFFICES ASSUME NEW s \in diags, NEW e \in s.edits PROVE RuleFix(t, e)
    OBVIOUS
  <2>. QED BY FixesAre
<1>4. Cardinality(C) \in Nat
  <2>. HIDE DEF C, n
  <2>. QED BY <1>1, <1>2, CandidatesFinite, FS_CardinalityType
<1>5. CollectEdits(diags) = FoldLeft(Accept, [last |-> UsizeMax, edits |-> <<>>], sorted).edits
  BY DEF CollectEdits
<1>. HIDE DEF C, n, diags
<1>6. ASSUME NEW k \in 1..Cardinality(C) PROVE At(k) \in C /\ Below(At(k)) = k - 1
  <2>1. \E c \in C : Cardinality({d \in C : Before(d, c)}) = k - 1
    BY <1>1, <1>2, Ranked
  <2>. QED BY <2>1, Zenon
<1>. HIDE DEF At, Below
<1>7. /\ sorted \in Seq(Candidates(n)) /\ Len(sorted) = Cardinality(C)
      /\ \A k \in 1..Cardinality(C) : sorted[k] = At(k)
  <2>1. \A k \in 1..Cardinality(C) : At(k) \in Candidates(n)
    BY <1>2, <1>6
  <2>2. sorted \in Seq(Candidates(n))
    BY <1>4, <2>1, IsASeq
  <2>3. DOMAIN sorted = 1..Cardinality(C)
    OBVIOUS
  <2>. QED BY <1>4, <2>2, <2>3, LenProperties
<1>. HIDE DEF sorted
<1>8. Distinct(sorted)
  <2>. SUFFICES ASSUME NEW k \in 1..Cardinality(C), NEW l \in 1..Cardinality(C), At(k) = At(l)
                PROVE  k = l
    BY <1>7 DEF Distinct
  <2>1. k - 1 = l - 1
    BY <1>6
  <2>. QED BY <1>4, <2>1
<1>9. PICK edits : edits = FoldLeft(Accept, [last |-> UsizeMax, edits |-> <<>>], sorted).edits
  OBVIOUS
<1>10. Distinct(edits) /\ \A l \in 1..Len(edits) : \E x \in 1..Len(sorted) : edits[l] = sorted[x].edit
  BY <1>1, <1>7, <1>8, <1>9, AcceptedOnce
<1>11. \A k \in 1..Len(edits) : RuleFix(t, edits[k])
  BY <1>3, <1>6, <1>7, <1>10
<1>12. CollectEdits(diags) = edits
  BY <1>5, <1>9
<1>. QED BY <1>10, <1>11, <1>12 DEF diags

\* An edit begins within the text; one that drops nothing doubles the percent
\* sign it begins at.
LEMMA FixBegins ==
  ASSUME NEW t \in Seq(Cell), NEW e, RuleFix(t, e)
  PROVE  /\ e.start \in 0..Len(t) - 1 /\ e.end \in e.start..Len(t)
         /\ \/ e.start < e.end /\ t[e.start + 1] # "p"
            \/ e = Put(e.start + 1) /\ t[e.start + 1] = "p"
<1>1. Len(t) \in Nat
  BY LenProperties
<1>2. FixedFrom(t, t, Len(t))
  BY <1>1 DEF FixedFrom, Agree
<1>3. ASSUME CleanFix(t, e) \/ ArchFix(t, e) \/ BlankFix(t, e), e.end <= Len(t), t[e.start + 1] # "p"
      PROVE  e.start \in 0..Len(t) - 1 /\ e.end \in e.start..Len(t) /\ e.start < e.end
  <2>1. e.start \in 0..Len(t) /\ e.end \in e.start + 1..Len(t)
    BY <1>2, <1>3, SectionDrop, ArchDrop, BlankDrop
  <2>. QED BY <1>1, <2>1
<1>4. CASE CleanFix(t, e)
  <2>1. PICK k \in Headers(t) : t[k] = "C" /\ e = Drop(k, SectionEnd(t, k))
    BY <1>4 DEF CleanFix
  <2>2. k \in 1..Len(t)
    BY DEF Headers, Starts
  <2>3. SectionEnd(t, k) \in k..Len(t)
    BY <2>2, SectionEndIn
  <2>4. e.end <= Len(t) /\ e.start + 1 = k
    BY <1>1, <2>1, <2>2, <2>3 DEF Drop
  <2>. QED BY <1>3, <1>4, <2>1, <2>4
<1>5. CASE ArchFix(t, e)
  <2>1. PICK i, a, b \in 1..Len(t) : Again(t, i, a, b) /\ e = Drop(a - 1, b)
    BY <1>5 DEF ArchFix
  <2>2. t[a - 1] = "s"
    BY <2>1 DEF Again, Word
  <2>3. e.end <= Len(t) /\ e.start + 1 = a - 1
    BY <1>1, <2>1 DEF Drop
  <2>. QED BY <1>3, <1>5, <2>2, <2>3
<1>6. CASE BlankFix(t, e)
  <2>1. PICK b \in 2..Len(t) : t[b] = "s" /\ e = Drop(b, LineEnd(t, b))
    BY <1>6 DEF BlankFix
  <2>2. LineEnd(t, b) \in b - 1..Len(t)
    BY <1>1, <2>1, LineEndIn
  <2>3. e.end <= Len(t) /\ e.start + 1 = b
    BY <1>1, <2>1, <2>2 DEF Drop
  <2>. QED BY <1>3, <1>6, <2>1, <2>3
<1>7. CASE CommentFix(t, e)
  <2>1. PICK k \in 1..Len(t) : Standalone(t, k) /\ e = Put(k)
    BY <1>7 DEF CommentFix
  <2>2. t[k] = "p"
    BY <2>1 DEF Standalone
  <2>3. e.start = k - 1 /\ e.end = k - 1 /\ e.start + 1 = k
    BY <1>1, <2>1 DEF Put
  <2>4. e.start \in 0..Len(t) - 1 /\ e.end \in e.start..Len(t)
    BY <1>1, <2>3
  <2>. QED BY <2>1, <2>2, <2>3, <2>4
<1>. QED BY <1>4, <1>5, <1>6, <1>7 DEF RuleFix

\* Of two edits, the one applied later begins earlier.
LEMMA BeginsEarlier ==
  ASSUME NEW t \in Seq(Cell), NEW e, RuleFix(t, e), NEW f, RuleFix(t, f),
         f.end <= e.start, f # e
  PROVE  f.start # e.start
<1>. SUFFICES ASSUME f.start = e.start PROVE FALSE
  OBVIOUS
<1>1. Len(t) \in Nat
  BY LenProperties
<1>2. e.start \in 0..Len(t) - 1 /\ (t[e.start + 1] # "p" \/ e = Put(e.start + 1))
  BY FixBegins
<1>3. f.end \in f.start..Len(t) /\ (f.start < f.end \/ (f = Put(f.start + 1) /\ t[f.start + 1] = "p"))
  BY FixBegins
<1>4. ~(f.start < f.end)
  BY <1>1, <1>2, <1>3
<1>. QED BY <1>2, <1>3, <1>4

\* What the rules ask for, applied backwards and each once, leaves the essence.
LEMMA ApplyKeeps ==
  ASSUME NEW t \in Seq(Cell), NEW edits \in Seq(EditsIn(Len(t))),
         Backwards(edits), Distinct(edits), \A k \in 1..Len(edits) : RuleFix(t, edits[k])
  PROVE  Essence(ApplyEdits(t, edits).text) = Essence(t)
<1>. DEFINE n == Len(edits)
            Reach(k) == IF k = 0 THEN Len(t) ELSE edits[k].start
<1>1. Len(t) \in Nat /\ n \in Nat
  BY LenProperties
<1>2. PICK h : /\ h[0] = [text |-> t, applied |-> 0]
               /\ \A k \in 1..n : h[k] = ApplyEdit(h[k - 1], edits[k])
               /\ ApplyEdits(t, edits) = h[n]
  BY <1>1, ApplySteps
<1>. DEFINE Good(k) == /\ \E c, a : h[k] = [text |-> c, applied |-> a]
                       /\ FixedFrom(t, h[k].text, Reach(k)) /\ Essence(h[k].text) = Essence(t)
            T == {k \in 0..n : Good(k)}
<1>3. Good(0)
  <2>1. FixedFrom(t, t, Len(t))
    BY <1>1 DEF FixedFrom, Agree
  <2>2. h[0] = [text |-> t, applied |-> 0] /\ h[0].text = t
    BY <1>2
  <2>3. \E c, a : h[0] = [text |-> c, applied |-> a]
    BY <2>2
  <2>4. Reach(0) = Len(t)
    OBVIOUS
  <2>. HIDE DEF Reach
  <2>. QED BY <2>1, <2>2, <2>3, <2>4
<1>4. ASSUME NEW k \in 0..n, Good(k), NEW j \in 1..n, j = k + 1 PROVE Good(j)
  <2>1. PICK e : e = edits[j]
    OBVIOUS
  <2>2. RuleFix(t, e) /\ j # 0 /\ j - 1 = k
    BY <1>1, <1>4, <2>1
  <2>3. h[j] = ApplyEdit(h[k], e)
    BY <1>2, <2>1, <2>2
  <2>4. e.end <= Reach(k) /\ e.start # Reach(k)
    <3>1. CASE k = 0
      <4>1. e.start \in 0..Len(t) - 1 /\ e.end \in e.start..Len(t)
        BY <2>2, FixBegins
      <4>. QED BY <1>1, <3>1, <4>1
    <3>2. CASE k # 0
      <4>1. k \in 1..n - 1 /\ k \in 1..n /\ k # j
        BY <1>1, <1>4, <3>2
      <4>2. e.end <= edits[k].start
        BY <1>4, <2>1, <4>1 DEF Backwards
      <4>3. e # edits[k] /\ RuleFix(t, edits[k])
        BY <2>1, <4>1 DEF Distinct
      <4>4. e.start # edits[k].start
        BY <2>2, <4>2, <4>3, BeginsEarlier
      <4>. QED BY <3>2, <4>2, <4>4
    <3>. QED BY <3>1, <3>2
  <2>5. PICK c, a : h[k] = [text |-> c, applied |-> a]
    BY <1>4
  <2>6. FixedFrom(t, c, Reach(k)) /\ Essence(c) = Essence(t)
    BY <1>4, <2>5
  <2>7. Reach(j) = e.start
    BY <2>1, <2>2
  <2>. HIDE DEF Reach
  <2>8. Essence(h[j].text) = Essence(c) /\ FixedFrom(t, h[j].text, e.start)
    BY <2>2, <2>3, <2>4, <2>5, <2>6, OneFix
  <2>9. \E d, b : h[j] = [text |-> d, applied |-> b]
    <3>1. \/ h[j] = [text |-> c, applied |-> a]
          \/ h[j] = [text |-> SubSeq(c, 1, e.start) \o e.text \o SubSeq(c, e.end + 1, Len(c)),
                     applied |-> a + 1]
      <4>1. h[k].text = c /\ h[k].applied = a
        BY <2>5
      <4>2. \/ h[j] = h[k]
            \/ h[j] = [text |-> SubSeq(h[k].text, 1, e.start) \o e.text
                                 \o SubSeq(h[k].text, e.end + 1, Len(h[k].text)),
                       applied |-> h[k].applied + 1]
        BY <2>3, Zenon DEF ApplyEdit
      <4>. QED BY <2>5, <4>1, <4>2
    <3>. QED BY <3>1
  <2>. QED BY <2>6, <2>7, <2>8, <2>9
<1>. HIDE DEF Good
<1>5. 0 \in T
  BY <1>1, <1>3
<1>6. ASSUME NEW k \in 0..n, k \in T, k < n PROVE k + 1 \in T
  <2>1. PICK j : j = k + 1
    OBVIOUS
  <2>2. j \in 1..n /\ j \in 0..n
    BY <1>1, <1>6, <2>1
  <2>3. Good(j)
    BY <1>4, <1>6, <2>1, <2>2
  <2>. QED BY <2>1, <2>2, <2>3
<1>7. n \in T
  <2>1. \A k \in 0..n : k \in T
    <3>. HIDE DEF T, n
    <3>. QED BY <1>1, <1>5, <1>6, UpTo
  <2>. QED BY <1>1, <2>1
<1>. QED BY <1>2, <1>7 DEF Good

\* A round leaves the essence of the text it is given.
LEMMA RoundEssence ==
  ASSUME NEW s, s.text \in Seq(Cell)
  PROVE  Essence(RoundOf(s).text) = Essence(s.text)
<1>1. PICK edits : edits = CollectEdits(Diagnostics(s.text, "unknown"))
  OBVIOUS
<1>2. edits \in Seq(EditsIn(Len(s.text))) /\ Backwards(edits)
  BY <1>1, CollectedEdits
<1>3. Distinct(edits) /\ \A k \in 1..Len(edits) : RuleFix(s.text, edits[k])
  BY <1>1, CollectedFixes
<1>4. RoundOf(s).text = ApplyEdits(s.text, edits).text
  BY <1>1 DEF RoundOf
<1>. QED BY <1>2, <1>3, <1>4, ApplyKeeps

-----------------------------------------------------------------------------
(* The fix loop keeps the essence.                                         *)

\* The loop works on the text as read, but for what its rules are about.
SameSense == pc \in {"fix", "fixed"} => Essence(contents[pos]) = Essence(read[pos])

\* Each round keeps it so.
LEMMA SenseStep == BatchInv /\ FitInv /\ SameSense /\ [Next]_vars => SameSense'
<1>. SUFFICES ASSUME BatchInv, FitInv, SameSense, [Next]_vars PROVE SameSense'
  OBVIOUS
<1>1. CASE LoadConfig
  <2>1. UNCHANGED <<pos, contents, read>> /\ pc = "next" /\ pos <= Len(batch)
    BY <1>1 DEF LoadConfig, history
  <2>2. pos \in 1..Len(batch)
    BY <2>1, LenProperties DEF BatchInv, TypeOK
  <2>3. contents[pos] = read[pos]
    BY <2>1, <2>2 DEF FitInv, Reading, Sources
  <2>. QED BY <2>1, <2>3 DEF SameSense
<1>2. CASE FixRound
  <2>. DEFINE s == [text |-> contents[pos], report |-> report]
  <2>1. pos \in Sources /\ contents'[pos] = RoundOf(s).text
    BY <1>2, RoundSteps DEF FixRound, BatchInv
  <2>2. pc = "fix" /\ command = "fix" /\ DOMAIN read = Sources /\ UNCHANGED <<pos, read>>
    BY <1>2 DEF FixRound, FitInv, Reading, BatchInv, Course, history
  <2>3. contents[pos] \in Seq(Cell)
    BY <2>1, <2>2 DEF FitInv, Reading
  <2>4. s.text = contents[pos]
    OBVIOUS
  <2>. HIDE DEF s
  <2>5. Essence(RoundOf(s).text) = Essence(contents[pos])
    BY <2>3, <2>4, RoundEssence
  <2>. QED BY <2>1, <2>2, <2>5 DEF SameSense
<1>3. CASE FixSaturates
  BY <1>3 DEF FixSaturates, SameSense, history
<1>4. ASSUME pc' \notin {"fix", "fixed"} \/ UNCHANGED <<pc, pos, contents, report, read>>
      PROVE  SameSense'
  BY <1>4 DEF SameSense
<1>. QED BY <1>1, <1>2, <1>3, <1>4, LoopMoves

\* "drop any edit whose range overlaps an already-accepted one": whichever of a
\* text's edits are dropped, and however many rounds the loop takes, --fix
\* changes only what its rules are about, and where it says it converged no
\* edit is left to apply.
THEOREM FixKeepsEssence == Spec => []FixSound
<1>1. Init => SameSense
  BY DEF Init, SameSense
<1>2. BatchInv /\ FitInv /\ SameSense /\ [Next]_vars => SameSense'
  BY SenseStep
<1>3. Spec => []SameSense
  BY <1>1, <1>2, BatchInvariant, FitInvariant, PTL DEF Spec
<1>4. FitInv /\ SameSense => FixSound
  BY DEF FitInv, ConvergedIsDone, SameSense, FixSound
<1>. QED BY <1>3, <1>4, FitInvariant, PTL
=============================================================================
