-------------------------- MODULE BranchCoverageProofs --------------------------
(***************************************************************************)
(* Branch coverage, for every project and every file: what it says of a    *)
(* branch is what rpm finds in the builds, a branch it calls dead is taken *)
(* by none, and no profile is lost on the way.                             *)
(***************************************************************************)
EXTENDS BranchCoverage, SequenceTheorems, FiniteSetTheorems, WellFoundedInduction, TLAPS

\* What the file and the command line can give a name.
Values ==
  {Registry[p][m] : p \in Profiles, m \in Macros}
    \cup (UNION {{Variants[k].values[v] : v \in 1..Len(Variants[k].values)} : k \in Declared})
    \cup {d.value : d \in Definitions} \cup {d.value : d \in Declarations}
    \cup {"0", "1", Unknown, None}

Names == Macros \cup Bconds

Frames ==
  [in : SUBSET Builds, rest : SUBSET Builds, doubt : SUBSET Builds, reads : SUBSET Names,
   else : BOOLEAN, walks : SUBSET Profiles, open : SUBSET Profiles, puzzled : SUBSET Profiles]

TypeOK ==
  /\ bcond \in [Bconds -> {"0", "1", Unknown, None}]
  /\ entries \in [Bconds -> {"0", "1", Unknown, None}]
  /\ lines \in Nat
  /\ stack \in Seq(Frames)
  /\ env \in [Builds -> [Names -> Values]]
  /\ locals \in [Profiles -> [Macros -> Values]]
  /\ \A r \in rows : r.head \in Heads
  /\ defined \subseteq Macros /\ shaky \subseteq Names \cup ForcedOn

VariantNames == {Variants[k].name : k \in Declared}

\* What a build has from outside the file.
Given(b) == IF b[2] = -1 THEN Registry[b[1]] ELSE With(Registry[b[1]], Declared, b[2])

\* A variant is not looked at in this build.
Plain(b, m) == b[2] = -1 \/ m \notin VariantNames

\* Names whose value at a guard the scan may have otherwise than rpm.
Decided == defined \cup VariantNames \cup Awaited \cup (Bconds \cap shaky)

\* A build condition is known by its one value, or not yet.
EntriesFit == \A g \in Bconds : entries[g] \in {None, bcond[g]}

\* What the file has not defined is as it was given.
Untouched == \A b \in Builds : \A m \in Macros \ defined : env[b][m] = Given(b)[m]

\* A macro that is not shaky: what the coverage has for it is what rpm has, in
\* each build, or rpm's value is open.
MacroFits(b, m) ==
  IF Plain(b, m) THEN \/ env[b][m] = Augmented(b[1])[m]
                      \/ env[b][m] = Unknown /\ m \in defined
  ELSE env[b][m] = Given(b)[m]

MacrosFit == \A b \in Builds : \A m \in Macros \ shaky : MacroFits(b, m)

\* A build condition is off until it is declared, and then what the first pass
\* found.
GatesFit ==
  \A b \in Builds : \A g \in Bconds :
    /\ entries[g] = None => env[b][g] = "0"
    /\ g \notin Awaited \cup shaky => env[b][g] = Resolved(g)

\* The rows of heads that read nothing shaky are still true.
RowsHold ==
  \A r \in rows : Uses(r.head) \cap shaky = {} =>
    \A b \in Builds : r.truth[b] = Verdict(r.head, b[1], env[b])

\* The scan is where rpm is, or may be; of a chain it has left what rpm has.
Together(s, b) ==
  /\ b \in s.in => b[1] \in s.walks
  /\ b[1] \in s.walks => b \in s.in \cup s.doubt
  /\ b \in s.rest => b[1] \in s.open \ s.puzzled
  /\ b[1] \in s.open => b \in s.rest \cup s.doubt

Fits(s) ==
  /\ (s.in \cup s.rest) \cap s.doubt = {}
  /\ s.reads \cap Decided = {} => \A b \in Builds : Together(s, b)

FramesFit == \A n \in 1..Len(stack) : Fits(stack[n])

\* What a frame's heads read, rows read.
RowReads == UNION {Uses(r.head) : r \in rows}
Traced == \A n \in 1..Len(stack) : stack[n].reads \subseteq RowReads

CoverInv ==
  /\ TypeOK /\ EntriesFit /\ Untouched /\ MacrosFit /\ GatesFit /\ RowsHold /\ FramesFit /\ Traced
-----------------------------------------------------------------------------
(* Recursive functions.                                                    *)

\* A nonempty set of naturals has a least element.
LEMMA NatLeast ==
  ASSUME NEW T, T \subseteq Nat, T # {}
  PROVE  \E x \in T : \A y \in T : x <= y
<1>1. IsWellFoundedOn(OpToRel(<, Nat), Nat)
  BY NatLessThanWellFounded
<1>2. PICK x \in T : \A y \in T : ~(<<y, x>> \in OpToRel(<, Nat))
  BY <1>1, WFMin
<1>3. \A y \in T : ~(y < x)
  BY <1>2 DEF OpToRel
<1>. QED BY <1>3

\* What holds of 0, and of k + 1 where it holds of k, holds of every natural.
LEMMA AllNat ==
  ASSUME NEW T, 0 \in T, \A k \in Nat : k \in T => k + 1 \in T
  PROVE  Nat \subseteq T
<1>. DEFINE Out == {k \in Nat : k \notin T}
<1>. SUFFICES ASSUME Out # {} PROVE FALSE
  OBVIOUS
<1>1. PICK x \in Out : \A y \in Out : x <= y
  <2>1. Out \subseteq Nat
    OBVIOUS
  <2>. HIDE DEF Out
  <2>. QED BY <2>1, NatLeast
<1>2. x - 1 \in Nat
  BY <1>1
<1>3. x - 1 \in T
  BY <1>1, <1>2
<1>4. x - 1 + 1 = x
  BY <1>1
<1>. QED BY <1>1, <1>2, <1>3, <1>4

\* What holds of whatever it holds of all below of holds of everything.
LEMMA Upward ==
  ASSUME NEW D, NEW rank \in [D -> Nat], NEW Good,
         \A e \in D : (\A d \in D : rank[d] < rank[e] => d \in Good) => e \in Good
  PROVE  D \subseteq Good
<1>. SUFFICES ASSUME NEW e \in D, e \notin Good PROVE FALSE
  OBVIOUS
<1>. DEFINE R == {k \in Nat : \E d \in D : d \notin Good /\ rank[d] = k}
<1>1. R \subseteq Nat /\ R # {}
  BY rank[e] \in Nat
<1>2. PICK x \in R : \A y \in R : x <= y
  <2>. HIDE DEF R
  <2>. QED BY <1>1, NatLeast
<1>3. PICK d \in D : d \notin Good /\ rank[d] = x
  BY <1>2
<1>4. ASSUME NEW c \in D, rank[c] < rank[d] PROVE c \in Good
  <2>1. rank[c] \in Nat /\ rank[d] \in Nat
    OBVIOUS
  <2>2. c \notin Good => x <= rank[c]
    BY <1>2, <2>1
  <2>. QED BY <1>3, <1>4, <2>1, <2>2
<1>. QED BY <1>3, <1>4

\* F computes the value at e from the values at what is of a lower rank.
Descends(F, D, V, rank) ==
  /\ rank \in [D -> Nat]
  /\ F \in [[D -> V] \X D -> V]
  /\ \A f, g \in [D -> V] : \A e \in D :
       (\A d \in D : rank[d] < rank[e] => f[d] = g[d]) => F[<<f, e>>] = F[<<g, e>>]

\* f is as F wants it on ranks below n.
SolvesTo(f, n, F, D, rank) == \A e \in D : rank[e] < n => f[e] = F[<<f, e>>]

Solves(f, F, D) == \A e \in D : f[e] = F[<<f, e>>]

\* There is a solution up to every rank.
LEMMA SolvedTo ==
  ASSUME NEW D, NEW V, NEW base \in V, NEW rank, NEW F, Descends(F, D, V, rank), NEW n \in Nat
  PROVE  \E f \in [D -> V] : SolvesTo(f, n, F, D, rank)
<1>. DEFINE T == {k \in Nat : \E f \in [D -> V] : SolvesTo(f, k, F, D, rank)}
<1>1. 0 \in T
  <2>1. [e \in D |-> base] \in [D -> V]
    OBVIOUS
  <2>2. SolvesTo([e \in D |-> base], 0, F, D, rank)
    BY DEF SolvesTo, Descends
  <2>. QED BY <2>1, <2>2
<1>2. ASSUME NEW k \in Nat, k \in T PROVE k + 1 \in T
  <2>1. PICK f \in [D -> V] : SolvesTo(f, k, F, D, rank)
    BY <1>2
  <2>. DEFINE g == [e \in D |-> F[<<f, e>>]]
  <2>2. g \in [D -> V]
    BY DEF Descends
  <2>3. ASSUME NEW e \in D, rank[e] < k + 1 PROVE g[e] = F[<<g, e>>]
    <3>1. ASSUME NEW d \in D, rank[d] < rank[e] PROVE f[d] = g[d]
      <4>1. rank[d] < k
        BY <2>3, <3>1 DEF Descends
      <4>2. f[d] = F[<<f, d>>]
        BY <2>1, <4>1 DEF SolvesTo
      <4>. QED BY <4>2
    <3>2. F[<<f, e>>] = F[<<g, e>>]
      <4>. HIDE DEF g
      <4>. QED BY <2>2, <3>1 DEF Descends
    <3>3. g[e] = F[<<f, e>>]
      OBVIOUS
    <3>. HIDE DEF g
    <3>. QED BY <3>2, <3>3
  <2>4. SolvesTo(g, k + 1, F, D, rank)
    <3>. HIDE DEF g
    <3>. QED BY <2>3 DEF SolvesTo
  <2>. HIDE DEF g
  <2>. QED BY <2>2, <2>4
<1>3. n \in T
  <2>. HIDE DEF T
  <2>. QED BY <1>1, <1>2, AllNat
<1>. QED BY <1>3

\* Two solutions agree where both are.
LEMMA SolvedAlike ==
  ASSUME NEW D, NEW V, NEW rank, NEW F, Descends(F, D, V, rank),
         NEW f \in [D -> V], NEW g \in [D -> V], NEW n \in Nat, NEW m \in Nat,
         SolvesTo(f, n, F, D, rank), SolvesTo(g, m, F, D, rank),
         NEW e \in D, rank[e] < n, rank[e] < m
  PROVE  f[e] = g[e]
<1>. DEFINE Good == {d \in D : rank[d] < n /\ rank[d] < m => f[d] = g[d]}
<1>1. ASSUME NEW d \in D, \A c \in D : rank[c] < rank[d] => c \in Good
      PROVE  d \in Good
  <2>. SUFFICES ASSUME rank[d] < n, rank[d] < m PROVE f[d] = g[d]
    OBVIOUS
  <2>1. \A c \in D : rank[c] < rank[d] => rank[c] < n /\ rank[c] < m
    BY DEF Descends
  <2>2. \A c \in D : rank[c] < rank[d] => f[c] = g[c]
    BY <1>1, <2>1
  <2>3. F[<<f, d>>] = F[<<g, d>>]
    BY <2>2 DEF Descends
  <2>. QED BY <2>3 DEF SolvesTo
<1>2. D \subseteq Good
  <2>1. rank \in [D -> Nat]
    BY DEF Descends
  <2>. HIDE DEF Good
  <2>. QED BY <1>1, <2>1, Upward
<1>. QED BY <1>2

\* So there is one for all ranks: the recursive function exists.
LEMMA Solved ==
  ASSUME NEW D, NEW V, V # {}, NEW rank, NEW F, Descends(F, D, V, rank)
  PROVE  \E f \in [D -> V] : Solves(f, F, D)
<1>. DEFINE Upto(n) == CHOOSE f \in [D -> V] : SolvesTo(f, n, F, D, rank)
            h == [e \in D |-> Upto(rank[e] + 1)[e]]
<1>1. \A n \in Nat : Upto(n) \in [D -> V] /\ SolvesTo(Upto(n), n, F, D, rank)
  <2>1. PICK base \in V : TRUE
    OBVIOUS
  <2>. QED BY <2>1, SolvedTo
<1>2. \A e \in D : rank[e] + 1 \in Nat /\ rank[e] \in Nat
  BY DEF Descends
<1>3. h \in [D -> V]
  <2>. HIDE DEF Upto
  <2>. QED BY <1>1, <1>2
<1>4. ASSUME NEW e \in D PROVE h[e] = F[<<h, e>>]
  <2>. DEFINE f == Upto(rank[e] + 1)
  <2>1. f \in [D -> V] /\ SolvesTo(f, rank[e] + 1, F, D, rank)
    <3>. HIDE DEF Upto
    <3>. QED BY <1>1, <1>2
  <2>2. ASSUME NEW d \in D, rank[d] < rank[e] PROVE h[d] = f[d]
    <3>. DEFINE g == Upto(rank[d] + 1)
    <3>1. g \in [D -> V] /\ SolvesTo(g, rank[d] + 1, F, D, rank)
      <4>. HIDE DEF Upto
      <4>. QED BY <1>1, <1>2
    <3>2. h[d] = g[d]
      <4>. HIDE DEF Upto
      <4>. QED OBVIOUS
    <3>3. rank[d] < rank[d] + 1 /\ rank[d] < rank[e] + 1
      BY <1>2, <2>2
    <3>4. rank[d] + 1 \in Nat /\ rank[e] + 1 \in Nat
      BY <1>2
    <3>. HIDE DEF f, g, h
    <3>5. g[d] = f[d]
      BY <2>1, <3>1, <3>3, <3>4, SolvedAlike
    <3>. QED BY <3>2, <3>5
  <2>3. h[e] = f[e]
    <3>. HIDE DEF Upto
    <3>. QED OBVIOUS
  <2>4. rank[e] < rank[e] + 1
    BY <1>2
  <2>. HIDE DEF f, h
  <2>5. f[e] = F[<<f, e>>]
    BY <2>1, <2>4 DEF SolvesTo
  <2>6. F[<<f, e>>] = F[<<h, e>>]
    BY <1>3, <2>1, <2>2 DEF Descends
  <2>. QED BY <2>3, <2>5, <2>6
<1>. HIDE DEF h
<1>. QED BY <1>3, <1>4 DEF Solves
-----------------------------------------------------------------------------
(* What conditions mean.                                                   *)

Leaves == {"int", "text", "shell", "quoted", "macro", "optional", "concat", "with", "without"}
Operators == {"eq", "lt", "and", "or"}

\* The kinds of an expression and where its operands are.
LEMMA Kinds ==
  ASSUME NEW e \in Exprs
  PROVE  /\ e[1] \in Leaves \cup Operators \cup {"not"}
         /\ e[1] \in {"quoted", "macro", "optional", "concat"} => e[2] \in Macros
         /\ e[1] \in {"with", "without"} => e[2] \in Bconds
         /\ e[1] \in Operators \cup {"not"} => e[2] \in Exprs /\ Depth[e[2]] < Depth[e]
         /\ e[1] \in Operators => e[3] \in Exprs /\ Depth[e[3]] < Depth[e]
         /\ Depth[e] \in Nat
BY ExprsAssumption DEF Leaves, Operators

Ranks == [e \in Exprs |-> Depth[e]]

\* Depth ranks the expressions.
LEMMA RanksNat == Ranks \in [Exprs -> Nat]
BY Kinds DEF Ranks

\* Reads, one step.
ReadsStep(f, e) ==
  CASE e[1] = "not" -> f[e[2]]
    [] e[1] \in {"eq", "lt", "and", "or"} -> f[e[2]] \cup f[e[3]]
    [] e[1] \in {"int", "text", "shell"} -> {}
    [] OTHER -> {e[2]}

\* A step reads names if the operands do.
LEMMA ReadsStepType ==
  ASSUME NEW f, NEW e \in Exprs,
         \A d \in Exprs : Depth[d] < Depth[e] => f[d] \in SUBSET Names
  PROVE  ReadsStep(f, e) \in SUBSET Names
<1>1. e[1] \in Operators \cup {"not"} => f[e[2]] \in SUBSET Names
  BY Kinds
<1>2. e[1] \in Operators => f[e[3]] \in SUBSET Names
  BY Kinds
<1>. QED BY <1>1, <1>2, Kinds DEF ReadsStep, Leaves, Operators, Names

\* A step looks at the operands only.
LEMMA ReadsStepSame ==
  ASSUME NEW f, NEW g, NEW e \in Exprs,
         \A d \in Exprs : Depth[d] < Depth[e] => f[d] = g[d]
  PROVE  ReadsStep(f, e) = ReadsStep(g, e)
<1>1. e[1] \in Operators \cup {"not"} => f[e[2]] = g[e[2]]
  BY Kinds
<1>2. e[1] \in Operators => f[e[3]] = g[e[3]]
  BY Kinds
<1>. QED BY <1>1, <1>2, Kinds DEF ReadsStep, Leaves, Operators

\* Reads is what its definition says.
LEMMA ReadsIs == \A e \in Exprs : Reads[e] = ReadsStep(Reads, e) /\ Reads[e] \subseteq Names
<1>. DEFINE V == SUBSET Names
            F == [p \in [Exprs -> V] \X Exprs |-> ReadsStep(p[1], p[2])]
<1>1. ASSUME NEW f \in [Exprs -> V], NEW e \in Exprs PROVE ReadsStep(f, e) \in V
  BY ReadsStepType
<1>2. ASSUME NEW f \in [Exprs -> V], NEW e \in Exprs PROVE F[<<f, e>>] = ReadsStep(f, e)
  <2>. HIDE DEF V
  <2>. QED OBVIOUS
<1>3. F \in [[Exprs -> V] \X Exprs -> V]
  <2>. HIDE DEF V
  <2>. QED BY <1>1
<1>4. ASSUME NEW f \in [Exprs -> V], NEW g \in [Exprs -> V], NEW e \in Exprs,
             \A d \in Exprs : Ranks[d] < Ranks[e] => f[d] = g[d]
      PROVE  F[<<f, e>>] = F[<<g, e>>]
  <2>1. \A d \in Exprs : Depth[d] < Depth[e] => f[d] = g[d]
    BY <1>4 DEF Ranks
  <2>2. ReadsStep(f, e) = ReadsStep(g, e)
    BY <2>1, ReadsStepSame
  <2>. HIDE DEF F, V
  <2>. QED BY <1>2, <2>2
<1>5. Descends(F, Exprs, V, Ranks)
  <2>. HIDE DEF F, V
  <2>. QED BY <1>3, <1>4, RanksNat DEF Descends
<1>6. PICK f \in [Exprs -> V] : Solves(f, F, Exprs)
  <2>1. V # {}
    OBVIOUS
  <2>. HIDE DEF F, V
  <2>. QED BY <1>5, <2>1, Solved
<1>7. f = [e \in Exprs |-> ReadsStep(f, e)]
  <2>. HIDE DEF F, V
  <2>. QED BY <1>2, <1>6 DEF Solves
<1>8. Reads = [e \in Exprs |-> ReadsStep(Reads, e)]
  <2>1. \E g : g = [e \in Exprs |-> ReadsStep(g, e)]
    BY <1>7
  <2>2. Reads = CHOOSE g : g = [e \in Exprs |-> ReadsStep(g, e)]
    BY DEF Reads, ReadsStep
  <2>. QED BY <2>1, <2>2, Zenon
<1>9. \A e \in Exprs : Reads[e] = ReadsStep(Reads, e)
  BY <1>8, Zenon
<1>. DEFINE Good == {e \in Exprs : Reads[e] \in V}
<1>10. ASSUME NEW e \in Exprs, \A d \in Exprs : Ranks[d] < Ranks[e] => d \in Good
       PROVE  e \in Good
  <2>1. \A d \in Exprs : Depth[d] < Depth[e] => Reads[d] \in V
    BY <1>10 DEF Ranks
  <2>. QED BY <1>9, <2>1, ReadsStepType
<1>11. Exprs \subseteq Good
  <2>. HIDE DEF Good
  <2>. QED BY <1>10, RanksNat, Upward
<1>. QED BY <1>9, <1>11

\* A truth value is yes or no, and neither is an error.
LEMMA BoolIs == \A b : Bool(b) \in {Yes, No}
BY DEF Bool, Yes, No, Num

LEMMA YesIsNotNo == Yes # No /\ ~Undecided(Yes) /\ ~Undecided(No)
BY DEF Bool, Yes, No, Num, Undecided

\* An operator passes an operand's error on, or finds one, or decides.
LEMMA BinaryIs ==
  ASSUME NEW op, NEW l, NEW r
  PROVE  Binary(op, l, r) \in {l, r, Err(None), Yes, No}
<1>1. \A b : Bool(b) \in {Yes, No}
  BY BoolIs
<1>. QED BY <1>1 DEF Binary

LEMMA NegatedIs ==
  ASSUME NEW v
  PROVE  Negated(v) \in {v, Yes, No}
<1>1. \A b : Bool(b) \in {Yes, No}
  BY BoolIs
<1>. QED BY <1>1 DEF Negated

\* An expression without operands, and Value, one step.
Leaf(e, macros) ==
  CASE e[1] = "int" -> Num(e[2])
    [] e[1] = "text" -> Str(e[2])
    [] e[1] = "shell" -> Err(None)
    [] e[1] = "quoted" -> Expanded(e[2], FALSE, macros)
    [] e[1] = "macro" -> Bare(e[2], FALSE, macros)
    [] e[1] = "optional" -> Bare(e[2], TRUE, macros)
    [] e[1] = "concat" -> Concat(e[2], macros)
    [] e[1] = "with" -> Gate(macros[e[2]])
    [] OTHER -> Negated(Gate(macros[e[2]]))

ValueStep(f, e, macros) ==
  CASE e[1] = "int" -> Num(e[2])
    [] e[1] = "text" -> Str(e[2])
    [] e[1] = "shell" -> Err(None)
    [] e[1] = "quoted" -> Expanded(e[2], FALSE, macros)
    [] e[1] = "macro" -> Bare(e[2], FALSE, macros)
    [] e[1] = "optional" -> Bare(e[2], TRUE, macros)
    [] e[1] = "concat" -> Concat(e[2], macros)
    [] e[1] = "with" -> Gate(macros[e[2]])
    [] e[1] = "without" -> Negated(Gate(macros[e[2]]))
    [] e[1] = "not" -> Negated(f[e[2]])
    [] OTHER -> Binary(e[1], f[e[2]], f[e[3]])

Results(macros) == {Leaf(e, macros) : e \in Exprs} \cup {Err(None), Yes, No}

\* The three cases of a step.
LEMMA ValueSteps ==
  ASSUME NEW f, NEW e \in Exprs, NEW macros
  PROVE  /\ e[1] \in Leaves => ValueStep(f, e, macros) = Leaf(e, macros)
         /\ e[1] = "not" => ValueStep(f, e, macros) = Negated(f[e[2]])
         /\ e[1] \in Operators => ValueStep(f, e, macros) = Binary(e[1], f[e[2]], f[e[3]])
BY DEF ValueStep, Leaf, Leaves, Operators

\* A step makes a result of results.
LEMMA ValueStepType ==
  ASSUME NEW f, NEW e \in Exprs, NEW macros,
         \A d \in Exprs : Depth[d] < Depth[e] => f[d] \in Results(macros)
  PROVE  ValueStep(f, e, macros) \in Results(macros)
<1>. DEFINE V == Results(macros)
<1>1. {Err(None), Yes, No} \subseteq V
  BY DEF Results
<1>2. CASE e[1] \in Leaves
  BY <1>2, ValueSteps DEF Results
<1>3. CASE e[1] = "not"
  <2>1. f[e[2]] \in V
    BY <1>3, Kinds
  <2>2. Negated(f[e[2]]) \in {f[e[2]], Yes, No}
    BY NegatedIs
  <2>. HIDE DEF V
  <2>3. Negated(f[e[2]]) \in V
    BY <1>1, <2>1, <2>2
  <2>. QED BY <1>3, <2>3, ValueSteps DEF V
<1>4. CASE e[1] \in Operators
  <2>1. f[e[2]] \in V /\ f[e[3]] \in V
    BY <1>4, Kinds
  <2>2. Binary(e[1], f[e[2]], f[e[3]]) \in {f[e[2]], f[e[3]], Err(None), Yes, No}
    BY BinaryIs
  <2>. HIDE DEF V
  <2>3. Binary(e[1], f[e[2]], f[e[3]]) \in V
    BY <1>1, <2>1, <2>2
  <2>. QED BY <1>4, <2>3, ValueSteps DEF V
<1>. QED BY <1>2, <1>3, <1>4, Kinds

\* A step looks at the operands only.
LEMMA ValueStepSame ==
  ASSUME NEW f, NEW g, NEW e \in Exprs, NEW macros,
         \A d \in Exprs : Depth[d] < Depth[e] => f[d] = g[d]
  PROVE  ValueStep(f, e, macros) = ValueStep(g, e, macros)
<1>1. e[1] \in Operators \cup {"not"} => f[e[2]] = g[e[2]]
  BY Kinds
<1>2. e[1] \in Operators => f[e[3]] = g[e[3]]
  BY Kinds
<1>3. CASE e[1] \in Leaves
  BY <1>3, ValueSteps
<1>4. CASE e[1] = "not"
  BY <1>1, <1>4, ValueSteps
<1>5. CASE e[1] \in Operators
  BY <1>1, <1>2, <1>5, ValueSteps
<1>. QED BY <1>3, <1>4, <1>5, Kinds

\* Value is what its definition says.
LEMMA ValueIs ==
  ASSUME NEW macros
  PROVE  \E f : \A e \in Exprs : Value(e, macros) = f[e] /\ f[e] = ValueStep(f, e, macros)
<1>. DEFINE V == Results(macros)
            F == [p \in [Exprs -> V] \X Exprs |-> ValueStep(p[1], p[2], macros)]
<1>1. ASSUME NEW f \in [Exprs -> V], NEW e \in Exprs PROVE ValueStep(f, e, macros) \in V
  BY ValueStepType
<1>2. ASSUME NEW f \in [Exprs -> V], NEW e \in Exprs PROVE F[<<f, e>>] = ValueStep(f, e, macros)
  <2>. HIDE DEF V
  <2>. QED OBVIOUS
<1>3. F \in [[Exprs -> V] \X Exprs -> V]
  <2>. HIDE DEF V
  <2>. QED BY <1>1
<1>4. ASSUME NEW f \in [Exprs -> V], NEW g \in [Exprs -> V], NEW e \in Exprs,
             \A d \in Exprs : Ranks[d] < Ranks[e] => f[d] = g[d]
      PROVE  F[<<f, e>>] = F[<<g, e>>]
  <2>1. \A d \in Exprs : Depth[d] < Depth[e] => f[d] = g[d]
    BY <1>4 DEF Ranks
  <2>2. ValueStep(f, e, macros) = ValueStep(g, e, macros)
    BY <2>1, ValueStepSame
  <2>. HIDE DEF F, V
  <2>. QED BY <1>2, <2>2
<1>5. Descends(F, Exprs, V, Ranks)
  <2>. HIDE DEF F, V
  <2>. QED BY <1>3, <1>4, RanksNat DEF Descends
<1>6. PICK f \in [Exprs -> V] : Solves(f, F, Exprs)
  <2>1. V # {}
    BY DEF Results
  <2>. HIDE DEF F, V
  <2>. QED BY <1>5, <2>1, Solved
<1>7. f = [e \in Exprs |-> ValueStep(f, e, macros)]
  <2>. HIDE DEF F, V
  <2>. QED BY <1>2, <1>6 DEF Solves
<1>. DEFINE W == CHOOSE g : g = [e \in Exprs |-> ValueStep(g, e, macros)]
<1>8. W = [e \in Exprs |-> ValueStep(W, e, macros)]
  <2>1. \E g : g = [e \in Exprs |-> ValueStep(g, e, macros)]
    BY <1>7
  <2>. QED BY <2>1, Zenon
<1>9. \A e \in Exprs : Value(e, macros) = W[e]
  BY Zenon DEF Value, ValueStep
<1>. HIDE DEF W
<1>10. \A e \in Exprs : W[e] = ValueStep(W, e, macros)
  BY <1>8, Zenon
<1>. QED BY <1>9, <1>10

\* Two ways to have macros that are alike on some names; one that has them as
\* the other has, or open.
Agree(given, macros, names) == \A m \in names : given[m] = macros[m]
Under(given, macros, names) == \A m \in names : given[m] = macros[m] \/ given[m] = Unknown

\* The verdict on the one is that on the other, or open.
Short(v, w) == v = w \/ Undecided(v)

\* A leaf reads the name it has, if it has one.
LEMMA LeafReads ==
  ASSUME NEW e \in Exprs, e[1] \in Leaves
  PROVE  Reads[e] = IF e[1] \in {"int", "text", "shell"} THEN {} ELSE {e[2]}
BY ReadsIs DEF ReadsStep, Leaves

\* An operator reads what its operands read.
LEMMA OperatorReads ==
  ASSUME NEW e \in Exprs
  PROVE  /\ e[1] = "not" => Reads[e] = Reads[e[2]]
         /\ e[1] \in Operators => Reads[e] = Reads[e[2]] \cup Reads[e[3]]
BY ReadsIs DEF ReadsStep, Operators

\* A leaf looks at nothing else.
LEMMA LeafAgrees ==
  ASSUME NEW e \in Exprs, e[1] \in Leaves, NEW given, NEW macros, Agree(given, macros, Reads[e])
  PROVE  Leaf(e, given) = Leaf(e, macros)
<1>1. CASE e[1] \in {"int", "text", "shell"}
  BY <1>1 DEF Leaf
<1>2. CASE e[1] \notin {"int", "text", "shell"}
  <2>1. given[e[2]] = macros[e[2]]
    BY <1>2, LeafReads DEF Agree
  <2>2. \A b \in BOOLEAN : Expanded(e[2], b, given) = Expanded(e[2], b, macros)
    BY <2>1 DEF Expanded
  <2>3. /\ \A b \in BOOLEAN : Bare(e[2], b, given) = Bare(e[2], b, macros)
        /\ Concat(e[2], given) = Concat(e[2], macros)
    BY <2>2 DEF Bare, Concat
  <2>. QED BY <1>2, <2>1, <2>2, <2>3 DEF Leaf
<1>. QED BY <1>1, <1>2

\* What is open makes a leaf an error.
LEMMA LeafUnder ==
  ASSUME NEW e \in Exprs, e[1] \in Leaves, NEW given, NEW macros, Under(given, macros, Reads[e])
  PROVE  Short(Leaf(e, given), Leaf(e, macros))
<1>1. CASE Agree(given, macros, Reads[e])
  BY <1>1, LeafAgrees DEF Short
<1>2. CASE ~Agree(given, macros, Reads[e])
  <2>1. e[1] \notin {"int", "text", "shell"} /\ given[e[2]] = Unknown
    BY <1>2, LeafReads DEF Agree, Under
  <2>2. \A m : Err(m).type = "err"
    BY DEF Err
  <2>3. \A b \in BOOLEAN : Expanded(e[2], b, given) = Err(e[2])
    <3>1. Unknown # None
      BY BranchCoverageAssumption
    <3>. QED BY <2>1, <3>1 DEF Expanded
  <2>4. /\ \A b \in BOOLEAN : Bare(e[2], b, given) = Err(e[2])
        /\ Concat(e[2], given) = Err(e[2])
    BY <2>2, <2>3 DEF Bare, Concat
  <2>5. Gate(given[e[2]]) = Err(None) /\ Negated(Gate(given[e[2]])) = Err(None)
    BY <2>1, <2>2 DEF Gate, Negated
  <2>6. Leaf(e, given) \in {Err(None), Err(e[2])}
    BY <2>1, <2>3, <2>4, <2>5 DEF Leaf
  <2>. QED BY <2>2, <2>6 DEF Short, Undecided
<1>. QED BY <1>1, <1>2

\* An open operand leaves the whole open.
LEMMA BinaryShort ==
  ASSUME NEW op, NEW l, NEW r, NEW k, NEW s, Short(l, k), Short(r, s)
  PROVE  Short(Binary(op, l, r), Binary(op, k, s))
<1>1. CASE Undecided(l)
  BY <1>1 DEF Short, Undecided, Binary
<1>2. CASE ~Undecided(l) /\ Undecided(r)
  BY <1>2 DEF Short, Undecided, Binary
<1>3. CASE ~Undecided(l) /\ ~Undecided(r)
  <2>1. l = k /\ r = s
    BY <1>3 DEF Short
  <2>. QED BY <2>1 DEF Short
<1>. QED BY <1>1, <1>2, <1>3

LEMMA NegatedShort ==
  ASSUME NEW v, NEW w, Short(v, w)
  PROVE  Short(Negated(v), Negated(w))
BY DEF Short, Undecided, Negated

\* Where all that an expression reads is alike, so is its value.
LEMMA ValueAgrees ==
  ASSUME NEW given, NEW macros, NEW e \in Exprs, Agree(given, macros, Reads[e])
  PROVE  Value(e, given) = Value(e, macros)
<1>1. PICK f : \A d \in Exprs : Value(d, given) = f[d] /\ f[d] = ValueStep(f, d, given)
  BY ValueIs
<1>2. PICK g : \A d \in Exprs : Value(d, macros) = g[d] /\ g[d] = ValueStep(g, d, macros)
  BY ValueIs
<1>. DEFINE Good == {d \in Exprs : Agree(given, macros, Reads[d]) => f[d] = g[d]}
<1>3. ASSUME NEW d \in Exprs, \A c \in Exprs : Ranks[c] < Ranks[d] => c \in Good
      PROVE  d \in Good
  <2>. SUFFICES ASSUME Agree(given, macros, Reads[d]) PROVE f[d] = g[d]
    OBVIOUS
  <2>1. \A c \in Exprs : Depth[c] < Depth[d] => (Agree(given, macros, Reads[c]) => f[c] = g[c])
    BY <1>3 DEF Ranks
  <2>2. CASE d[1] \in Leaves
    <3>1. f[d] = Leaf(d, given) /\ g[d] = Leaf(d, macros)
      BY <1>1, <1>2, <2>2, ValueSteps
    <3>. QED BY <2>2, <3>1, LeafAgrees
  <2>3. CASE d[1] = "not"
    <3>1. Agree(given, macros, Reads[d[2]])
      BY <2>3, OperatorReads
    <3>2. f[d[2]] = g[d[2]]
      BY <2>1, <2>3, <3>1, Kinds
    <3>. QED BY <1>1, <1>2, <2>3, <3>2, ValueSteps
  <2>4. CASE d[1] \in Operators
    <3>1. Agree(given, macros, Reads[d[2]]) /\ Agree(given, macros, Reads[d[3]])
      BY <2>4, OperatorReads DEF Agree
    <3>2. f[d[2]] = g[d[2]] /\ f[d[3]] = g[d[3]]
      BY <2>1, <2>4, <3>1, Kinds
    <3>. QED BY <1>1, <1>2, <2>4, <3>2, ValueSteps
  <2>. QED BY <2>2, <2>3, <2>4, Kinds
<1>4. Exprs \subseteq Good
  <2>. HIDE DEF Good
  <2>. QED BY <1>3, RanksNat, Upward
<1>. QED BY <1>1, <1>2, <1>4

\* Where the one has open what the other knows, its value is the same or open.
LEMMA ValueUnder ==
  ASSUME NEW given, NEW macros, NEW e \in Exprs, Under(given, macros, Reads[e])
  PROVE  Short(Value(e, given), Value(e, macros))
<1>1. PICK f : \A d \in Exprs : Value(d, given) = f[d] /\ f[d] = ValueStep(f, d, given)
  BY ValueIs
<1>2. PICK g : \A d \in Exprs : Value(d, macros) = g[d] /\ g[d] = ValueStep(g, d, macros)
  BY ValueIs
<1>. DEFINE Good == {d \in Exprs : Under(given, macros, Reads[d]) => Short(f[d], g[d])}
<1>3. ASSUME NEW d \in Exprs, \A c \in Exprs : Ranks[c] < Ranks[d] => c \in Good
      PROVE  d \in Good
  <2>. SUFFICES ASSUME Under(given, macros, Reads[d]) PROVE Short(f[d], g[d])
    OBVIOUS
  <2>1. \A c \in Exprs : Depth[c] < Depth[d] => (Under(given, macros, Reads[c]) => Short(f[c], g[c]))
    BY <1>3 DEF Ranks
  <2>2. CASE d[1] \in Leaves
    <3>1. f[d] = Leaf(d, given) /\ g[d] = Leaf(d, macros)
      BY <1>1, <1>2, <2>2, ValueSteps
    <3>. QED BY <2>2, <3>1, LeafUnder
  <2>3. CASE d[1] = "not"
    <3>1. Under(given, macros, Reads[d[2]])
      BY <2>3, OperatorReads
    <3>2. Short(f[d[2]], g[d[2]])
      BY <2>1, <2>3, <3>1, Kinds
    <3>3. f[d] = Negated(f[d[2]]) /\ g[d] = Negated(g[d[2]])
      BY <1>1, <1>2, <2>3, ValueSteps
    <3>. QED BY <3>2, <3>3, NegatedShort
  <2>4. CASE d[1] \in Operators
    <3>1. Under(given, macros, Reads[d[2]]) /\ Under(given, macros, Reads[d[3]])
      BY <2>4, OperatorReads DEF Under
    <3>2. Short(f[d[2]], g[d[2]]) /\ Short(f[d[3]], g[d[3]])
      BY <2>1, <2>4, <3>1, Kinds
    <3>3. f[d] = Binary(d[1], f[d[2]], f[d[3]]) /\ g[d] = Binary(d[1], g[d[2]], g[d[3]])
      BY <1>1, <1>2, <2>4, ValueSteps
    <3>. QED BY <3>2, <3>3, BinaryShort
  <2>. QED BY <2>2, <2>3, <2>4, Kinds
<1>4. Exprs \subseteq Good
  <2>. HIDE DEF Good
  <2>. QED BY <1>3, RanksNat, Upward
<1>. QED BY <1>1, <1>2, <1>4
-----------------------------------------------------------------------------
(* The verdict on a head.                                                  *)

\* A head has an expression or a list of architectures.
LEMMA HeadKinds ==
  ASSUME NEW h \in Heads
  PROVE  \/ h.kind = "if" /\ h.expr \in Exprs /\ Uses(h) = Reads[h.expr]
         \/ /\ h.kind \in {"ifarch", "ifnarch"}
            /\ \A i \in ToSet(h.expr[2]) :
                 i[1] = "text" \/ (i[1] = "macro" /\ i[2] \in Macros /\ i[2] \in Uses(h))
            /\ Uses(h) \subseteq Macros
<1>1. CASE h.kind = "if" /\ h.expr \in Exprs
  BY <1>1 DEF Uses
<1>2. CASE /\ h.kind \in {"ifarch", "ifnarch"}
           /\ \A i \in ToSet(h.expr[2]) : i[1] # "text" => i[1] = "macro" /\ i[2] \in Macros
  <2>1. Uses(h) = {i[2] : i \in {j \in ToSet(h.expr[2]) : j[1] = "macro"}}
    BY <1>2 DEF Uses
  <2>2. Uses(h) \subseteq Macros
    BY <1>2, <2>1
  <2>3. \A i \in ToSet(h.expr[2]) : i[1] = "macro" => i[2] \in Uses(h)
    BY <2>1
  <2>. QED BY <1>2, <2>2, <2>3
<1>. QED BY <1>1, <1>2, HeadsAssumption

\* It reads names.
LEMMA UsesNames == \A h \in Heads : Uses(h) \subseteq Names
BY HeadKinds, ReadsIs DEF Names

\* A verdict is yes, no or open.
LEMMA VerdictIs ==
  ASSUME NEW h, NEW p, NEW macros
  PROVE  Verdict(h, p, macros) \in {Yes, No} \/ Undecided(Verdict(h, p, macros))
<1>1. \A b : Bool(b) \in {Yes, No}
  BY BoolIs
<1>2. \A m : Undecided(Err(m))
  BY DEF Undecided, Err
<1>3. CASE h.kind \in {"ifarch", "ifnarch"}
  BY <1>1, <1>2, <1>3 DEF Verdict, ArchVerdict
<1>4. CASE h.kind \notin {"ifarch", "ifnarch"}
  BY <1>1, <1>4 DEF Verdict, Undecided
<1>. QED BY <1>3, <1>4

\* What an entry of a list of architectures becomes.
Text(i, macros) == IF i[1] = "text" THEN i[2] ELSE macros[i[2]]
Texts(items, macros) == {Text(i, macros) : i \in ToSet(items)}
Lacking(items, macros) == {k \in DOMAIN items : items[k][1] = "macro" /\ macros[items[k][2]] \in {Unknown, None}}

LEMMA ArchVerdictIs ==
  ASSUME NEW items, NEW p, NEW macros, NEW negate
  PROVE  ArchVerdict(items, p, macros, negate) =
           IF Archs[p] = {} THEN Err(None)
           ELSE IF Texts(items, macros) \cap Archs[p] # {} THEN Bool(~negate)
           ELSE IF Lacking(items, macros) # {} THEN Err(items[Min(Lacking(items, macros))][2])
           ELSE Bool(negate)
BY DEF ArchVerdict, Texts, Text, Lacking

\* Where all that a head reads is alike, so is the verdict.
LEMMA VerdictAgrees ==
  ASSUME NEW h \in Heads, NEW p, NEW given, NEW macros, Agree(given, macros, Uses(h))
  PROVE  Verdict(h, p, given) = Verdict(h, p, macros)
<1>1. CASE h.kind = "if"
  <2>1. h.expr \in Exprs /\ Uses(h) = Reads[h.expr]
    BY <1>1, HeadKinds
  <2>2. Value(h.expr, given) = Value(h.expr, macros)
    BY <2>1, ValueAgrees
  <2>. QED BY <1>1, <2>2 DEF Verdict
<1>2. CASE h.kind \in {"ifarch", "ifnarch"}
  <2>. DEFINE items == h.expr[2]
  <2>1. \A i \in ToSet(items) : i[1] = "text" \/ (i[1] = "macro" /\ given[i[2]] = macros[i[2]])
    BY <1>2, HeadKinds DEF Agree
  <2>2. \A k \in DOMAIN items : items[k] \in ToSet(items)
    BY DEF ToSet
  <2>. HIDE DEF items
  <2>3. Texts(items, given) = Texts(items, macros)
    <3>1. \A i \in ToSet(items) : Text(i, given) = Text(i, macros)
      BY <2>1 DEF Text
    <3>. QED BY <3>1 DEF Texts
  <2>4. Lacking(items, given) = Lacking(items, macros)
    BY <2>1, <2>2 DEF Lacking
  <2>5. \A n : ArchVerdict(items, p, given, n) = ArchVerdict(items, p, macros, n)
    BY <2>3, <2>4, ArchVerdictIs
  <2>. QED BY <1>2, <2>5 DEF Verdict, items
<1>. QED BY <1>1, <1>2, HeadKinds

\* Where the one has open what the other knows, its verdict is the same or open.
LEMMA VerdictUnder ==
  ASSUME NEW h \in Heads, NEW p \in Profiles, NEW given, NEW macros, Under(given, macros, Uses(h))
  PROVE  Short(Verdict(h, p, given), Verdict(h, p, macros))
<1>1. CASE h.kind = "if"
  <2>1. h.expr \in Exprs /\ Uses(h) = Reads[h.expr]
    BY <1>1, HeadKinds
  <2>2. Short(Value(h.expr, given), Value(h.expr, macros))
    BY <2>1, ValueUnder
  <2>. QED BY <1>1, <2>2 DEF Verdict, Short, Undecided
<1>2. CASE Agree(given, macros, Uses(h))
  BY <1>2, VerdictAgrees DEF Short
<1>3. CASE h.kind \in {"ifarch", "ifnarch"} /\ ~Agree(given, macros, Uses(h))
  <2>. DEFINE items == h.expr[2]
  <2>1. \A i \in ToSet(items) :
          i[1] = "text" \/ (i[1] = "macro" /\ (given[i[2]] = macros[i[2]] \/ given[i[2]] = Unknown))
    BY <1>3, HeadKinds DEF Under
  <2>2. PICK m \in Uses(h) : given[m] = Unknown
    BY <1>3 DEF Agree, Under
  <2>3. PICK i \in ToSet(items) : i[1] = "macro" /\ i[2] = m
    BY <1>3, <2>2 DEF Uses
  <2>4. PICK k \in DOMAIN items : items[k] = i
    BY <2>3 DEF ToSet
  <2>. HIDE DEF items
  <2>5. Lacking(items, given) # {}
    BY <2>2, <2>3, <2>4 DEF Lacking
  <2>6. \A j \in ToSet(items) : Text(j, given) = Text(j, macros) \/ Text(j, given) = Unknown
    BY <2>1 DEF Text
  <2>7. Unknown \notin Archs[p]
    BY BranchCoverageAssumption
  <2>8. Texts(items, given) \cap Archs[p] # {} => Texts(items, macros) \cap Archs[p] # {}
    BY <2>6, <2>7 DEF Texts
  <2>9. \A n : Short(ArchVerdict(items, p, given, n), ArchVerdict(items, p, macros, n))
    <3>1. \A x : Undecided(Err(x))
      BY DEF Undecided, Err
    <3>. QED BY <2>5, <2>8, <3>1, ArchVerdictIs DEF Short
  <2>. QED BY <1>3, <2>9 DEF Verdict, items
<1>. QED BY <1>1, <1>2, <1>3, HeadKinds
-----------------------------------------------------------------------------
(* Combinations of variants: numbers in a mixed base.                      *)

\* Quotient and remainder are what they should be.
LEMMA DivMod ==
  ASSUME NEW a \in Nat, NEW s \in Nat \ {0}
  PROVE  /\ a \div s \in Nat /\ a % s \in 0..s - 1
         /\ a = (a \div s) * s + (a % s)
<1>1. a = s * (a \div s) + (a % s)
  OBVIOUS
<1>2. a % s \in 0..s - 1 /\ a \div s \in Int
  OBVIOUS
<1>3. a \div s >= 0
  <2>. SUFFICES ASSUME a \div s <= -1 PROVE FALSE
    BY <1>2
  <2>. DEFINE q == a \div s
  <2>1. q \in Int /\ q <= -1
    BY <1>2
  <2>. HIDE DEF q
  <2>2. s * q <= -s
    BY <2>1
  <2>. QED BY <1>1, <1>2, <2>2 DEF q
<1>. QED BY <1>1, <1>2, <1>3

\* There is only one quotient.
LEMMA DivUnique ==
  ASSUME NEW s \in Nat \ {0}, NEW q \in Int, NEW p \in Int, NEW r \in 0..s - 1, NEW t \in 0..s - 1,
         q * s + r = p * s + t
  PROVE  q = p /\ r = t
<1>1. (q - p) * s = t - r
  OBVIOUS
<1>2. CASE q > p
  <2>1. q - p >= 1
    BY <1>2
  <2>. DEFINE d == q - p
  <2>2. d \in Int /\ d >= 1
    BY <2>1
  <2>. HIDE DEF d
  <2>3. d * s >= s
    BY <2>2
  <2>. QED BY <1>1, <2>3 DEF d
<1>3. CASE q < p
  <2>. DEFINE d == q - p
  <2>2. d \in Int /\ d <= -1
    BY <1>3
  <2>. HIDE DEF d
  <2>3. d * s <= -s
    BY <2>2
  <2>. QED BY <1>1, <2>3 DEF d
<1>. QED BY <1>2, <1>3

\* q and r with a = q * s + r are the quotient and the remainder.
LEMMA DivIs ==
  ASSUME NEW s \in Nat \ {0}, NEW q \in Nat, NEW r \in 0..s - 1, NEW a \in Nat, a = q * s + r
  PROVE  a \div s = q /\ a % s = r
<1>1. a \div s \in Nat /\ a % s \in 0..s - 1 /\ a = (a \div s) * s + (a % s)
  BY DivMod
<1>. DEFINE p == a \div s
            t == a % s
<1>2. p \in Int /\ t \in 0..s - 1 /\ q * s + r = p * s + t
  BY <1>1
<1>. HIDE DEF p, t
<1>3. q = p /\ r = t
  BY <1>2, DivUnique
<1>. QED BY <1>3 DEF p, t

\* A multiple of a higher place does not change the digit.
LEMMA DigitStays ==
  ASSUME NEW j \in Nat, NEW t \in Nat, NEW s \in Nat \ {0}, NEW l \in Nat \ {0}
  PROVE  ((j + t * (s * l)) \div s) % l = (j \div s) % l
<1>. DEFINE q == j \div s
            r == j % s
            p == q \div l
            d == q % l
<1>1. q \in Nat /\ r \in 0..s - 1 /\ j = q * s + r
  BY DivMod
<1>. HIDE DEF q, r
<1>2. p \in Nat /\ d \in 0..l - 1 /\ q = p * l + d
  BY <1>1, DivMod
<1>. HIDE DEF p, d
<1>3. t * l \in Nat /\ t * (s * l) \in Nat /\ t * (s * l) = (t * l) * s
  OBVIOUS
<1>4. q + t * l \in Nat /\ j + t * (s * l) = (q + t * l) * s + r
  BY <1>1, <1>3
<1>5. (j + t * (s * l)) \div s = q + t * l
  BY <1>1, <1>3, <1>4, DivIs
<1>6. q + t * l = (p + t) * l + d
  BY <1>2
<1>7. (q + t * l) % l = d
  <2>. DEFINE a == q + t * l
              o == p + t
  <2>1. a \in Nat /\ o \in Nat /\ a = o * l + d
    BY <1>2, <1>4, <1>6
  <2>. HIDE DEF a, o
  <2>2. a % l = d
    BY <1>2, <2>1, DivIs
  <2>. QED BY <2>2 DEF a
<1>. QED BY <1>5, <1>7 DEF q, d

\* The digit in the highest place.
LEMMA DigitSet ==
  ASSUME NEW s \in Nat \ {0}, NEW l \in Nat \ {0}, NEW j \in 0..s - 1, NEW d \in 0..l - 1
  PROVE  /\ j + d * s \in 0..(s * l) - 1
         /\ ((j + d * s) \div s) % l = d
<1>1. d * s \in Nat /\ j + d * s \in Nat
  OBVIOUS
<1>2. (j + d * s) \div s = d
  BY <1>1, DivIs
<1>3. d % l = d
  <2>1. 0 * l + d = d
    OBVIOUS
  <2>. QED BY <2>1, DivIs
<1>4. j + d * s < s * l
  <2>1. (d + 1) * s <= l * s
    OBVIOUS
  <2>2. (d + 1) * s = d * s + s /\ l * s = s * l
    OBVIOUS
  <2>3. s * l \in Nat
    OBVIOUS
  <2>. QED BY <1>1, <2>1, <2>2, <2>3
<1>. QED BY <1>1, <1>2, <1>3, <1>4

\* How many values variant k has, if it is one of ks.
Size(ks, k) == IF k \in ks THEN Len(Variants[k].values) ELSE 1

Places == 1..Len(Variants) + 1

LEMMA SizePositive ==
  ASSUME NEW ks, NEW k \in Declared
  PROVE  Size(ks, k) \in Nat \ {0}
BY BranchCoverageAssumption DEF Size, Declared

\* Stride, one step.
StrideStep(f, k, ks) ==
  IF k = 1 THEN 1
  ELSE f[k - 1] * IF k - 1 \in ks THEN Len(Variants[k - 1].values) ELSE 1

\* A step makes a positive number of one.
LEMMA StrideStepType ==
  ASSUME NEW ks, NEW k \in Places, NEW f, k - 1 \in Places => f[k - 1] \in Nat \ {0}
  PROVE  StrideStep(f, k, ks) \in Nat \ {0}
<1>1. Len(Variants) \in Nat /\ Declared = 1..Len(Variants)
  BY BranchCoverageAssumption DEF Declared
<1>2. CASE k = 1
  BY <1>2 DEF StrideStep
<1>3. CASE k # 1
  <2>1. k - 1 \in Places /\ k - 1 \in Declared
    BY <1>1, <1>3 DEF Places
  <2>. DEFINE a == f[k - 1]
              b == Size(ks, k - 1)
  <2>2. a \in Nat \ {0} /\ b \in Nat \ {0}
    BY <2>1, SizePositive
  <2>3. StrideStep(f, k, ks) = a * b
    BY <1>3 DEF StrideStep, Size
  <2>. HIDE DEF a, b
  <2>4. a * b \in Nat \ {0}
    BY <2>2
  <2>. QED BY <2>3, <2>4
<1>. QED BY <1>2, <1>3

\* Stride is what its definition says.
LEMMA StrideIs ==
  ASSUME NEW ks
  PROVE  /\ \A k \in Places : Stride(ks)[k] \in Nat \ {0}
         /\ Stride(ks)[1] = 1
         /\ \A k \in Declared : Stride(ks)[k + 1] = Stride(ks)[k] * Size(ks, k)
<1>. DEFINE V == Nat \ {0}
            rank == [k \in Places |-> k]
            F == [p \in [Places -> V] \X Places |-> StrideStep(p[1], p[2], ks)]
<1>0. Len(Variants) \in Nat /\ Declared = 1..Len(Variants)
  BY BranchCoverageAssumption DEF Declared
<1>1. ASSUME NEW f \in [Places -> V], NEW k \in Places PROVE StrideStep(f, k, ks) \in V
  <2>1. k - 1 \in Places => f[k - 1] \in Nat \ {0}
    OBVIOUS
  <2>. QED BY <2>1, StrideStepType
<1>2. ASSUME NEW f \in [Places -> V], NEW k \in Places PROVE F[<<f, k>>] = StrideStep(f, k, ks)
  <2>. HIDE DEF V
  <2>. QED OBVIOUS
<1>3. F \in [[Places -> V] \X Places -> V]
  <2>. HIDE DEF V
  <2>. QED BY <1>1
<1>4. rank \in [Places -> Nat]
  BY <1>0 DEF Places
<1>5. ASSUME NEW f \in [Places -> V], NEW g \in [Places -> V], NEW k \in Places,
             \A d \in Places : rank[d] < rank[k] => f[d] = g[d]
      PROVE  F[<<f, k>>] = F[<<g, k>>]
  <2>1. k # 1 => k - 1 \in Places
    BY <1>0 DEF Places
  <2>2. k # 1 => f[k - 1] = g[k - 1]
    BY <1>0, <1>5, <2>1 DEF Places
  <2>3. StrideStep(f, k, ks) = StrideStep(g, k, ks)
    BY <2>2 DEF StrideStep
  <2>. HIDE DEF F, V
  <2>. QED BY <1>2, <2>3
<1>6. Descends(F, Places, V, rank)
  <2>. HIDE DEF F, V, rank
  <2>. QED BY <1>3, <1>4, <1>5 DEF Descends
<1>7. PICK f \in [Places -> V] : Solves(f, F, Places)
  <2>1. V # {}
    BY 1 \in V
  <2>. HIDE DEF F, V, rank
  <2>. QED BY <1>6, <2>1, Solved
<1>8. f = [k \in Places |-> StrideStep(f, k, ks)]
  <2>. HIDE DEF F, V
  <2>. QED BY <1>2, <1>7 DEF Solves
<1>. DEFINE W == CHOOSE g : g = [k \in Places |-> StrideStep(g, k, ks)]
<1>9. W = [k \in Places |-> StrideStep(W, k, ks)]
  <2>1. \E g : g = [k \in Places |-> StrideStep(g, k, ks)]
    BY <1>8
  <2>. QED BY <2>1, Zenon
<1>10. Stride(ks) = W
  BY Zenon DEF Stride, StrideStep, Places
<1>. HIDE DEF W
<1>11. \A k \in Places : W[k] = StrideStep(W, k, ks)
  BY <1>9, Zenon
<1>. DEFINE Good == {k \in Places : W[k] \in V}
<1>12. ASSUME NEW k \in Places, \A d \in Places : rank[d] < rank[k] => d \in Good
       PROVE  k \in Good
  <2>1. k - 1 \in Places => W[k - 1] \in Nat \ {0}
    BY <1>0, <1>12 DEF Places
  <2>2. StrideStep(W, k, ks) \in V
    BY <2>1, StrideStepType
  <2>. QED BY <1>11, <2>2
<1>13. Places \subseteq Good
  <2>. HIDE DEF Good, rank
  <2>. QED BY <1>4, <1>12, Upward
<1>14. W[1] = 1
  BY <1>0, <1>11 DEF StrideStep, Places
<1>15. ASSUME NEW k \in Declared PROVE W[k + 1] = W[k] * Size(ks, k)
  <2>1. k + 1 \in Places /\ k + 1 # 1 /\ k + 1 - 1 = k
    BY <1>0 DEF Places
  <2>2. W[k + 1] = StrideStep(W, k + 1, ks)
    BY <1>11, <2>1
  <2>3. StrideStep(W, k + 1, ks) = W[k + 1 - 1] * Size(ks, k + 1 - 1)
    BY <1>0, <2>1 DEF StrideStep, Size
  <2>4. k + 1 - 1 = k
    BY <2>1
  <2>. QED BY <2>2, <2>3, <2>4, Zenon
<1>. QED BY <1>10, <1>13, <1>14, <1>15

\* A higher place is a multiple of all of a lower one.
LEMMA StrideDivides ==
  ASSUME NEW ks, NEW k \in Declared, NEW n \in Places, k < n
  PROVE  \E t \in Nat : Stride(ks)[n] = t * (Stride(ks)[k] * Size(ks, k))
<1>. DEFINE S == Stride(ks)
            b == S[k] * Size(ks, k)
            T == {i \in Nat : k + 1 + i \in Places => \E t \in Nat : S[k + 1 + i] = t * b}
<1>0. Len(Variants) \in Nat /\ Declared = 1..Len(Variants) /\ Places = 1..Len(Variants) + 1
  BY BranchCoverageAssumption DEF Declared, Places
<1>. HIDE DEF S
<1>1. b \in Nat
  <2>1. S[k] \in Nat /\ Size(ks, k) \in Nat
    BY <1>0, StrideIs, SizePositive DEF S
  <2>. QED BY <2>1
<1>2. 0 \in T
  <2>1. S[k + 1] = b
    BY StrideIs DEF S
  <2>2. S[k + 1] = 1 * b /\ k + 1 + 0 = k + 1
    BY <1>0, <1>1, <2>1
  <2>. HIDE DEF b
  <2>. QED BY <2>2
<1>3. ASSUME NEW i \in Nat, i \in T PROVE i + 1 \in T
  <2>. SUFFICES ASSUME k + 1 + (i + 1) \in Places PROVE \E t \in Nat : S[k + 1 + (i + 1)] = t * b
    OBVIOUS
  <2>1. k + 1 + i \in Places /\ k + 1 + i \in Declared /\ k + 1 + (i + 1) = k + 1 + i + 1
    BY <1>0
  <2>2. PICK t \in Nat : S[k + 1 + i] = t * b
    BY <1>3, <2>1
  <2>. DEFINE z == Size(ks, k + 1 + i)
  <2>3. S[k + 1 + i + 1] = S[k + 1 + i] * z
    BY <2>1, StrideIs DEF S
  <2>4. z \in Nat
    BY <2>1, SizePositive
  <2>. HIDE DEF z, b
  <2>5. (t * b) * z = (t * z) * b /\ t * z \in Nat
    BY <1>1, <2>4
  <2>. QED BY <2>1, <2>2, <2>3, <2>5
<1>4. Nat \subseteq T
  <2>. HIDE DEF T
  <2>. QED BY <1>2, <1>3, AllNat
<1>5. n - k - 1 \in Nat /\ k + 1 + (n - k - 1) = n
  BY <1>0
<1>. QED BY <1>4, <1>5 DEF S

\* The remainder of the quotient: a digit, where u is its place and w its base.
Rest(x, u, w) == (x \div u) % w

\* The two differ above that place.
Above(a, j, e, u, w) == a = j + e * (u * w)

LEMMA RestStays ==
  ASSUME NEW j \in Nat, NEW e \in Nat, NEW u \in Nat \ {0}, NEW w \in Nat \ {0},
         NEW a, Above(a, j, e, u, w)
  PROVE  Rest(a, u, w) = Rest(j, u, w)
BY DigitStays DEF Rest, Above

\* The digit of i in the place of variant k.
Digit(ks, i, k) == ((i \div Stride(ks)[k]) % Len(Variants[k].values)) + 1

\* The first n digits can be chosen.
LEMMA DigitsUpTo ==
  ASSUME NEW ks \in SUBSET Declared, NEW dig,
         \A k \in ks : dig[k] \in 1..Len(Variants[k].values),
         NEW n \in Nat, n <= Len(Variants)
  PROVE  \E j \in 0..Stride(ks)[n + 1] - 1 : \A k \in ks : k <= n => Digit(ks, j, k) = dig[k]
<1>. DEFINE S == Stride(ks)
            T == {i \in Nat : i <= Len(Variants) =>
                    \E j \in 0..S[i + 1] - 1 : \A k \in ks : k <= i => Digit(ks, j, k) = dig[k]}
<1>0. Len(Variants) \in Nat /\ Declared = 1..Len(Variants) /\ Places = 1..Len(Variants) + 1
  BY BranchCoverageAssumption DEF Declared, Places
<1>. HIDE DEF S
<1>1. \A k \in Places : S[k] \in Nat \ {0}
  BY StrideIs DEF S
<1>2. 0 \in T
  <2>1. S[0 + 1] = 1
    BY StrideIs DEF S
  <2>2. 0 \in 0..S[0 + 1] - 1
    BY <2>1
  <2>3. \A k \in ks : ~(k <= 0)
    BY <1>0
  <2>. QED BY <2>2, <2>3
<1>3. ASSUME NEW i \in Nat, i \in T PROVE i + 1 \in T
  <2>. SUFFICES ASSUME i + 1 <= Len(Variants)
                PROVE  \E j \in 0..S[i + 1 + 1] - 1 :
                         \A k \in ks : k <= i + 1 => Digit(ks, j, k) = dig[k]
    OBVIOUS
  <2>1. i + 1 \in Declared /\ i + 1 \in Places /\ i <= Len(Variants)
    BY <1>0
  <2>2. PICK j \in 0..S[i + 1] - 1 : \A k \in ks : k <= i => Digit(ks, j, k) = dig[k]
    BY <1>3, <2>1
  <2>3. S[i + 1 + 1] = S[i + 1] * Size(ks, i + 1)
    BY <2>1, StrideIs DEF S
  <2>4. \A k \in ks : k <= i + 1 => k <= i \/ k = i + 1
    BY <1>0
  <2>5. CASE i + 1 \notin ks
    <3>1. S[i + 1 + 1] = S[i + 1]
      BY <1>1, <2>1, <2>3, <2>5 DEF Size
    <3>2. \A k \in ks : k <= i + 1 => Digit(ks, j, k) = dig[k]
      BY <2>2, <2>4, <2>5
    <3>. QED BY <3>1, <3>2
  <2>6. CASE i + 1 \in ks
    <3>. DEFINE s == S[i + 1]
                l == Len(Variants[i + 1].values)
                d == dig[i + 1] - 1
                a == j + d * s
    <3>1. s \in Nat \ {0} /\ l \in Nat \ {0} /\ d \in 0..l - 1 /\ j \in 0..s - 1
      BY <1>1, <2>1, <2>6, BranchCoverageAssumption DEF Declared
    <3>2. S[i + 1 + 1] = s * l
      BY <2>3, <2>6 DEF Size
    <3>3. a \in 0..(s * l) - 1 /\ (a \div s) % l = d
      <4>. HIDE DEF s, l, d
      <4>1. \A u, w \in Nat \ {0} : \A o \in 0..u - 1 : \A c \in 0..w - 1 :
              o + c * u \in 0..(u * w) - 1 /\ ((o + c * u) \div u) % w = c
        BY DigitSet
      <4>2. \A o \in 0..s - 1 : \A c \in 0..l - 1 :
              o + c * s \in 0..(s * l) - 1 /\ ((o + c * s) \div s) % l = c
        BY <3>1, <4>1, Zenon
      <4>. QED BY <3>1, <4>2, Zenon
    <3>4. Digit(ks, a, i + 1) = dig[i + 1]
      <4>1. dig[i + 1] \in Nat
        BY <2>6
      <4>2. d + 1 = dig[i + 1]
        BY <4>1
      <4>. HIDE DEF a, d
      <4>. QED BY <3>3, <4>2 DEF Digit, S
    <3>5. ASSUME NEW k \in ks, k <= i PROVE Digit(ks, a, k) = dig[k]
      <4>. DEFINE u == S[k]
                  w == Len(Variants[k].values)
      <4>1. k \in Declared /\ k \in Places /\ k < i + 1 /\ Size(ks, k) = w
        BY <1>0, <3>5 DEF Size
      <4>2. u \in Nat \ {0} /\ w \in Nat \ {0}
        BY <1>1, <4>1, SizePositive
      <4>3. PICK t \in Nat : s = t * (u * w)
        BY <2>1, <4>1, StrideDivides DEF S
      <4>4. Digit(ks, j, k) = dig[k]
        BY <2>2, <3>5
      <4>. HIDE DEF s, l, d, u, w
      <4>5. PICK e \in Nat : d * s = e * (u * w)
        <5>1. d * s = (d * t) * (u * w) /\ d * t \in Nat
          BY <3>1, <4>2, <4>3
        <5>. QED BY <5>1
      <4>6. (a \div u) % w = (j \div u) % w
        <5>1. j \in Nat
          BY <3>1
        <5>2. Above(a, j, e, u, w)
          BY <4>5 DEF Above
        <5>. HIDE DEF a
        <5>3. Rest(a, u, w) = Rest(j, u, w)
          BY <4>2, <5>1, <5>2, RestStays
        <5>. QED BY <5>3 DEF Rest
      <4>. HIDE DEF a
      <4>. QED BY <4>4, <4>6 DEF Digit, S, u, w
    <3>. HIDE DEF a
    <3>6. \A k \in ks : k <= i + 1 => Digit(ks, a, k) = dig[k]
      BY <2>4, <3>4, <3>5
    <3>. QED BY <3>2, <3>3, <3>6
  <2>. QED BY <2>5, <2>6
<1>4. Nat \subseteq T
  <2>. HIDE DEF T
  <2>. QED BY <1>2, <1>3, AllNat
<1>. QED BY <1>4 DEF S

\* A choice of one value for each variant of ks is one of the combinations.
LEMMA EveryChoice ==
  ASSUME NEW ks \in SUBSET Declared, NEW dig,
         \A k \in ks : dig[k] \in 1..Len(Variants[k].values)
  PROVE  \E j \in 0..Total(ks) - 1 :
           \A k \in ks : Combination(ks, j)[k] = Variants[k].values[dig[k]]
<1>0. Len(Variants) \in Nat /\ Declared = 1..Len(Variants)
  BY BranchCoverageAssumption DEF Declared
<1>1. PICK j \in 0..Stride(ks)[Len(Variants) + 1] - 1 :
        \A k \in ks : k <= Len(Variants) => Digit(ks, j, k) = dig[k]
  BY <1>0, DigitsUpTo
<1>2. \A k \in ks : Digit(ks, j, k) = dig[k]
  BY <1>0, <1>1
<1>3. \A k \in ks : Combination(ks, j)[k] = Variants[k].values[Digit(ks, j, k)]
  BY DEF Combination, Digit
<1>. QED BY <1>1, <1>2, <1>3 DEF Total

\* A digit counts the values of its variant.
LEMMA DigitRange ==
  ASSUME NEW ks \in SUBSET Declared, NEW j \in 0..Total(ks) - 1, NEW k \in ks
  PROVE  /\ Digit(ks, j, k) \in 1..Len(Variants[k].values)
         /\ Combination(ks, j)[k] = Variants[k].values[Digit(ks, j, k)]
<1>0. Len(Variants) \in Nat /\ Declared = 1..Len(Variants) /\ Places = 1..Len(Variants) + 1
  BY BranchCoverageAssumption DEF Declared, Places
<1>. DEFINE s == Stride(ks)[k]
            l == Len(Variants[k].values)
<1>1. s \in Nat \ {0} /\ l \in Nat \ {0}
  BY <1>0, StrideIs, BranchCoverageAssumption DEF Declared
<1>2. j \in Nat
  <2>1. Total(ks) \in Nat
    BY <1>0, StrideIs DEF Total
  <2>. QED BY <2>1
<1>. HIDE DEF s, l
<1>3. (j \div s) % l \in 0..l - 1
  <2>1. j \div s \in Nat
    BY <1>1, <1>2, DivMod
  <2>. QED BY <1>1, <2>1, DivMod
<1>4. Digit(ks, j, k) \in 1..Len(Variants[k].values)
  BY <1>1, <1>3 DEF Digit, s, l
<1>. QED BY <1>4 DEF Combination, Digit

\* What some of the variants are in a combination of all, and back.
LEMMA Restriction ==
  ASSUME NEW ks \in SUBSET Declared, NEW ls \in SUBSET Declared, ks \subseteq ls
  PROVE  /\ \A i \in 0..Total(ls) - 1 : \E j \in 0..Total(ks) - 1 :
              \A k \in ks : Combination(ks, j)[k] = Combination(ls, i)[k]
         /\ \A j \in 0..Total(ks) - 1 : \E i \in 0..Total(ls) - 1 :
              \A k \in ks : Combination(ls, i)[k] = Combination(ks, j)[k]
<1>1. ASSUME NEW i \in 0..Total(ls) - 1
      PROVE  \E j \in 0..Total(ks) - 1 : \A k \in ks : Combination(ks, j)[k] = Combination(ls, i)[k]
  <2>. DEFINE dig == [k \in ks |-> Digit(ls, i, k)]
  <2>1. \A k \in ks : dig[k] \in 1..Len(Variants[k].values)
    BY DigitRange
  <2>2. \A k \in ks : Combination(ls, i)[k] = Variants[k].values[dig[k]]
    BY DigitRange
  <2>. HIDE DEF dig
  <2>3. PICK j \in 0..Total(ks) - 1 : \A k \in ks : Combination(ks, j)[k] = Variants[k].values[dig[k]]
    BY <2>1, EveryChoice
  <2>. QED BY <2>2, <2>3
<1>2. ASSUME NEW j \in 0..Total(ks) - 1
      PROVE  \E i \in 0..Total(ls) - 1 : \A k \in ks : Combination(ls, i)[k] = Combination(ks, j)[k]
  <2>. DEFINE dig == [k \in ls |-> IF k \in ks THEN Digit(ks, j, k) ELSE 1]
  <2>1. \A k \in ls : dig[k] \in 1..Len(Variants[k].values)
    <3>1. \A k \in ls : Len(Variants[k].values) \in Nat \ {0}
      BY BranchCoverageAssumption DEF Declared
    <3>. QED BY <3>1, DigitRange
  <2>2. \A k \in ks : Combination(ks, j)[k] = Variants[k].values[dig[k]]
    BY DigitRange
  <2>. HIDE DEF dig
  <2>3. PICK i \in 0..Total(ls) - 1 : \A k \in ls : Combination(ls, i)[k] = Variants[k].values[dig[k]]
    BY <2>1, EveryChoice
  <2>. QED BY <2>2, <2>3
<1>. QED BY <1>1, <1>2
-----------------------------------------------------------------------------
(* What the builds are given, and the stack.                               *)

LEMMA TotalPositive == \A ks \in SUBSET Declared : Total(ks) \in Nat \ {0}
<1>0. Len(Variants) \in Nat /\ Declared = 1..Len(Variants) /\ Places = 1..Len(Variants) + 1
  BY BranchCoverageAssumption DEF Declared, Places
<1>1. Len(Variants) + 1 \in Places
  BY <1>0
<1>. QED BY <1>0, <1>1, StrideIs DEF Total

\* A build is a profile, and the number of a combination or none.
LEMMA BuildsAre ==
  /\ \A b \in Builds : /\ b = <<b[1], b[2]>> /\ b[1] \in Profiles
                       /\ b[2] = -1 \/ b[2] \in 0..Total(Declared) - 1
  /\ \A p \in Profiles : <<p, -1>> \in Builds
  /\ \A p \in Profiles, i \in 0..Total(Declared) - 1 : <<p, i>> \in Builds
<1>1. Total(Declared) \in Nat \ {0}
  BY TotalPositive
<1>2. -1 .. Total(Declared) - 1 = {-1} \cup 0..Total(Declared) - 1
  BY <1>1
<1>. HIDE <1>1
<1>. QED BY <1>2 DEF Builds

\* A macro with variants has the value of the combination; there is only one
\* variant for it.
LEMMA WithIs ==
  ASSUME NEW macros, NEW ks \in SUBSET Declared, NEW i, NEW m \in Macros
  PROVE  /\ \A k \in ks : Variants[k].name = m => With(macros, ks, i)[m] = Combination(ks, i)[k]
         /\ (\A k \in ks : Variants[k].name # m) => With(macros, ks, i)[m] = macros[m]
<1>1. ASSUME NEW k \in ks, Variants[k].name = m
      PROVE  With(macros, ks, i)[m] = Combination(ks, i)[k]
  <2>1. \A j \in ks : Variants[j].name = m => j = k
    BY <1>1, BranchCoverageAssumption DEF Declared
  <2>2. (CHOOSE j \in ks : Variants[j].name = m) = k
    BY <1>1, <2>1
  <2>. QED BY <1>1, <2>2 DEF With
<1>2. ASSUME \A k \in ks : Variants[k].name # m
      PROVE  With(macros, ks, i)[m] = macros[m]
  BY <1>2 DEF With
<1>. QED BY <1>1, <1>2

\* The values of a variant are values, and none of them is None.
LEMMA CombinationIs ==
  ASSUME NEW ks \in SUBSET Declared, NEW i \in 0..Total(ks) - 1, NEW k \in ks
  PROVE  Combination(ks, i)[k] \in Values /\ Combination(ks, i)[k] # None
<1>1. PICK v \in 1..Len(Variants[k].values) : Combination(ks, i)[k] = Variants[k].values[v]
  BY DigitRange
<1>2. k \in Declared
  OBVIOUS
<1>3. Variants[k].values[v] # None
  BY <1>2, BranchCoverageAssumption DEF Declared
<1>4. Variants[k].values[v] \in UNION {{Variants[j].values[w] : w \in 1..Len(Variants[j].values)} : j \in Declared}
  BY <1>2
<1>. QED BY <1>1, <1>3, <1>4 DEF Values

LEMMA GivenIs ==
  ASSUME NEW b \in Builds, NEW m \in Macros
  PROVE  /\ Plain(b, m) => Given(b)[m] = Registry[b[1]][m]
         /\ ~Plain(b, m) => \E k \in Declared :
              /\ Variants[k].name = m /\ b[2] \in 0..Total(Declared) - 1
              /\ Given(b)[m] = Combination(Declared, b[2])[k] /\ Given(b)[m] # None
         /\ Given(b)[m] \in Values
<1>1. b[1] \in Profiles /\ (b[2] = -1 \/ b[2] \in 0..Total(Declared) - 1)
  BY BuildsAre
<1>2. Registry[b[1]][m] \in Values
  BY <1>1 DEF Values
<1>3. CASE Plain(b, m)
  <2>1. Given(b)[m] = Registry[b[1]][m]
    <3>1. CASE b[2] = -1
      BY <3>1 DEF Given
    <3>2. CASE b[2] # -1
      <4>1. \A k \in Declared : Variants[k].name # m
        BY <1>3, <3>2 DEF Plain, VariantNames
      <4>2. With(Registry[b[1]], Declared, b[2])[m] = Registry[b[1]][m]
        BY <4>1 DEF With
      <4>. QED BY <3>2, <4>2 DEF Given
    <3>. QED BY <3>1, <3>2
  <2>. QED BY <1>2, <1>3, <2>1
<1>4. CASE ~Plain(b, m)
  <2>1. PICK k \in Declared : Variants[k].name = m
    BY <1>4 DEF Plain, VariantNames
  <2>2. b[2] # -1 /\ b[2] \in 0..Total(Declared) - 1
    BY <1>1, <1>4 DEF Plain
  <2>3. Given(b)[m] = Combination(Declared, b[2])[k]
    BY <2>1, <2>2, WithIs DEF Given
  <2>4. Given(b)[m] \in Values /\ Given(b)[m] # None
    BY <2>2, <2>3, CombinationIs
  <2>. QED BY <1>4, <2>1, <2>2, <2>3, <2>4
<1>. QED BY <1>3, <1>4

\* A frame put on a stack, and taken from it.
LEMMA Pushed ==
  ASSUME NEW s \in Seq(Frames), NEW f \in Frames
  PROVE  /\ Append(s, f) \in Seq(Frames)
         /\ \A n \in 1..Len(Append(s, f)) :
              Append(s, f)[n] = f \/ (n \in 1..Len(s) /\ Append(s, f)[n] = s[n])
<1>. DEFINE t == Append(s, f)
            l == Len(s)
<1>1. l \in Nat
  BY LenProperties
<1>2. t \in Seq(Frames) /\ Len(t) = l + 1 /\ t[l + 1] = f /\ \A i \in 1..l : t[i] = s[i]
  BY <1>1, AppendProperties
<1>. HIDE DEF t, l
<1>3. \A i \in 1..l + 1 : i \in 1..l \/ i = l + 1
  BY <1>1
<1>. QED BY <1>2, <1>3 DEF t, l

LEMMA Popped ==
  ASSUME NEW s \in Seq(Frames), s # <<>>
  PROVE  /\ Front(s) \in Seq(Frames) /\ Last(s) \in Frames
         /\ Len(s) \in 1..Len(s) /\ Last(s) = s[Len(s)]
         /\ \A n \in 1..Len(Front(s)) : n \in 1..Len(s) /\ Front(s)[n] = s[n]
<1>. DEFINE t == Front(s)
            n == Len(s)
<1>1. n \in Nat /\ n # 0
  BY EmptySeq, LenProperties
<1>2. t \in Seq(Frames) /\ Len(t) = n - 1 /\ \A i \in 1..n - 1 : t[i] = s[i]
  <2>1. \A i \in 1..n - 1 : s[i] \in Frames
    BY <1>1, ElementOfSeq
  <2>2. t = SubSeq(s, 1, n - 1)
    BY DEF Front
  <2>. HIDE DEF n, t
  <2>3. PICK k \in Nat : k = n - 1
    BY <1>1
  <2>4. /\ SubSeq(s, 1, k) \in Seq(Frames)
        /\ Len(SubSeq(s, 1, k)) = IF 1 <= k THEN k - 1 + 1 ELSE 0
        /\ \A i \in 1..k - 1 + 1 : SubSeq(s, 1, k)[i] = s[1 + i - 1]
    BY <2>1, <2>3, SubSeqProperties
  <2>5. Len(SubSeq(s, 1, k)) = k
    BY <2>4
  <2>6. ASSUME NEW i \in 1..k PROVE SubSeq(s, 1, k)[i] = s[i]
    <3>1. i \in 1..k - 1 + 1 /\ 1 + i - 1 = i
      OBVIOUS
    <3>. QED BY <2>4, <3>1
  <2>. QED BY <2>2, <2>3, <2>4, <2>5, <2>6
<1>3. n \in 1..n /\ Last(s) = s[n]
  BY <1>1 DEF Last
<1>4. s[n] \in Frames
  BY <1>3, ElementOfSeq
<1>5. \A i \in 1..n - 1 : i \in 1..n
  BY <1>1
<1>. HIDE DEF t, n
<1>6. /\ \A i \in 1..Len(t) : i \in 1..n /\ t[i] = s[i]
  BY <1>2, <1>5
<1>. QED BY <1>2, <1>3, <1>4, <1>6 DEF t, n
-----------------------------------------------------------------------------
(* The invariant holds at the beginning, and every line keeps it.          *)

\* The scope a condition is evaluated in.
LEMMA ScopeIs ==
  ASSUME NEW macros, NEW gates
  PROVE  /\ \A m \in Macros : Scope(macros, gates)[m] = macros[m]
         /\ \A g \in Bconds : Scope(macros, gates)[g] = gates[g]
         /\ \A m \in Macros : Known(macros)[m] = macros[m]
         /\ \A g \in Bconds : Known(macros)[g] = Resolved(g)
BY BranchCoverageAssumption DEF Scope, Known

LEMMA InitCovers == Init => CoverInv
<1>. SUFFICES ASSUME Init PROVE CoverInv
  OBVIOUS
<1>1. \A b \in Builds : env[b] = Scope(Given(b), Off)
  BY DEF Init, Given
<1>2. /\ \A b \in Builds, m \in Macros : env[b][m] = Given(b)[m]
      /\ \A b \in Builds, g \in Bconds : env[b][g] = "0"
  BY <1>1, ScopeIs DEF Off
<1>3. stack = <<>> /\ rows = {} /\ defined = {} /\ Len(stack) = 0
  BY EmptySeq DEF Init
<1>4. TypeOK
  <2>1. "0" \in Values /\ None \in Values
    BY DEF Values
  <2>2. \A b \in Builds : env[b] \in [Names -> Values]
    <3>1. \A b \in Builds, x \in Names : env[b][x] \in Values
      BY <1>2, <2>1, GivenIs DEF Names
    <3>2. \A b \in Builds : env[b] = [x \in Names |-> env[b][x]]
      BY <1>1 DEF Scope, Names
    <3>. QED BY <3>1, <3>2
  <2>3. env \in [Builds -> [Names -> Values]]
    BY <2>2 DEF Init
  <2>4. locals \in [Profiles -> [Macros -> Values]]
    BY <2>1 DEF Init
  <2>5. entries \in [Bconds -> {"0", "1", Unknown, None}] /\ bcond \in [Bconds -> {"0", "1", Unknown, None}]
    BY DEF Init, Undeclared
  <2>6. shaky \subseteq Names \cup ForcedOn
    BY DEF Init
  <2>7. stack \in Seq(Frames) /\ lines \in Nat
    BY <1>3, EmptySeq DEF Init
  <2>. QED BY <1>3, <2>3, <2>4, <2>5, <2>6, <2>7 DEF TypeOK
<1>5. EntriesFit
  BY DEF Init, Undeclared, EntriesFit
<1>6. Untouched
  BY <1>2 DEF Untouched
<1>7. MacrosFit
  <2>1. \A p \in Profiles, m \in Macros : Augmented(p)[m] = Registry[p][m]
    BY DEF Augmented, Init
  <2>2. \A b \in Builds, m \in Macros : Plain(b, m) => Given(b)[m] = Augmented(b[1])[m]
    BY <2>1, GivenIs, BuildsAre
  <2>. QED BY <1>2, <2>2 DEF MacrosFit, MacroFits
<1>8. GatesFit
  <2>1. ASSUME NEW g \in Bconds, g \notin Awaited \cup shaky PROVE Resolved(g) = "0"
    <3>1. bcond[g] = None
      BY <2>1 DEF Awaited, Init, Undeclared
    <3>2. g \notin ForcedOn
      BY <2>1, <3>1 DEF Init
    <3>. QED BY <3>1, <3>2 DEF Resolved
  <2>. QED BY <1>2, <2>1 DEF GatesFit
<1>9. RowsHold /\ FramesFit /\ Traced
  BY <1>3 DEF RowsHold, FramesFit, Traced
<1>. QED BY <1>4, <1>5, <1>6, <1>7, <1>8, <1>9 DEF CoverInv

\* The builds of rest are those for which the scan has the next branch open,
\* as far as nothing was read that the scan may have otherwise.
Alongside(rest, doubt, seen, b) ==
  /\ b \in rest => b[1] \in seen.open \ seen.puzzled
  /\ b[1] \in seen.open => b \in rest \cup doubt

Beside(rest, doubt, seen, reads) ==
  /\ rest \subseteq Builds /\ doubt \subseteq Builds /\ reads \subseteq Names
  /\ seen.open \subseteq Profiles /\ seen.puzzled \subseteq Profiles
  /\ rest \cap doubt = {} /\ reads \subseteq RowReads
  /\ reads \cap Decided = {} => \A b \in Builds : Alongside(rest, doubt, seen, b)

\* So it is inside the innermost conditional, or outside of all,
LEMMA HereBeside ==
  ASSUME TypeOK, FramesFit, Traced
  PROVE  LET o == Here(stack)
         IN Beside(o.in, o.doubt, [open |-> o.walks, puzzled |-> {}], o.reads)
<1>1. CASE stack = <<>>
  <2>1. Here(stack) = Whole
    BY <1>1 DEF Here
  <2>2. \A b \in Builds : Alongside(Builds, {}, [open |-> Profiles, puzzled |-> {}], b)
    BY BuildsAre DEF Alongside
  <2>. QED BY <2>1, <2>2 DEF Whole, Beside
<1>2. CASE stack # <<>>
  <2>. DEFINE s == Last(stack)
  <2>1. Here(stack) = s
    BY <1>2 DEF Here
  <2>2. s \in Frames /\ Fits(s) /\ s.reads \subseteq RowReads
    BY <1>2, Popped DEF TypeOK, FramesFit, Traced
  <2>. HIDE DEF s
  <2>3. s.reads \cap Decided = {} => \A b \in Builds : Alongside(s.in, s.doubt, [open |-> s.walks, puzzled |-> {}], b)
    BY <2>2 DEF Fits, Together, Alongside
  <2>4. /\ s.in \subseteq Builds /\ s.doubt \subseteq Builds /\ s.reads \subseteq Names
        /\ s.walks \subseteq Profiles
    BY <2>2 DEF Frames
  <2>5. s.in \cap s.doubt = {}
    BY <2>2 DEF Fits
  <2>. QED BY <2>1, <2>2, <2>3, <2>4, <2>5 DEF Beside
<1>. QED BY <1>1, <1>2

\* and so it is for what a chain has left.
LEMMA ChainBeside ==
  ASSUME TypeOK, FramesFit, Traced, stack # <<>>
  PROVE  LET s == Last(stack) IN Beside(s.rest, s.doubt, s, s.reads)
<1>. DEFINE s == Last(stack)
<1>1. s \in Frames /\ Fits(s) /\ s.reads \subseteq RowReads
  BY Popped DEF TypeOK, FramesFit, Traced
<1>. HIDE DEF s
<1>2. s.reads \cap Decided = {} => \A b \in Builds : Alongside(s.rest, s.doubt, s, b)
  BY <1>1 DEF Fits, Together, Alongside
<1>3. /\ s.rest \subseteq Builds /\ s.doubt \subseteq Builds /\ s.reads \subseteq Names
      /\ s.open \subseteq Profiles /\ s.puzzled \subseteq Profiles
  BY <1>1 DEF Frames
<1>4. s.rest \cap s.doubt = {}
  BY <1>1 DEF Fits
<1>5. Beside(s.rest, s.doubt, s, s.reads)
  BY <1>1, <1>2, <1>3, <1>4 DEF Beside
<1>. QED BY <1>5 DEF s

\* A head that reads nothing the scan may have otherwise: the scan's verdict is
\* that of every build.
LEMMA ScanSees ==
  ASSUME CoverInv, NEW h \in Heads, Uses(h) \cap Decided = {}, NEW b \in Builds
  PROVE  Verdict(h, b[1], env[b]) = Verdict(h, b[1], Known(Registry[b[1]]))
<1>1. \A m \in Macros \cap Uses(h) : env[b][m] = Registry[b[1]][m]
  <2>1. \A m \in Macros \cap Uses(h) : m \notin defined /\ Plain(b, m)
    BY DEF Decided, Plain
  <2>. QED BY <2>1, GivenIs DEF CoverInv, Untouched
<1>2. \A g \in Bconds \cap Uses(h) : env[b][g] = Resolved(g)
  <2>1. \A g \in Bconds \cap Uses(h) : g \notin Awaited \cup shaky
    BY DEF Decided
  <2>. QED BY <2>1 DEF CoverInv, GatesFit
<1>3. Agree(env[b], Known(Registry[b[1]]), Uses(h))
  BY <1>1, <1>2, ScopeIs, UsesNames DEF Agree, Names
<1>. QED BY <1>3, VerdictAgrees

\* A branch entered keeps the invariant, since what a verdict is for rpm it is
\* for the scan.
LEMMA EnterCovers ==
  ASSUME CoverInv, NEW outer, outer \in Seq(Frames),
         \A n \in 1..Len(outer) : n \in 1..Len(stack) /\ outer[n] = stack[n],
         NEW h \in Heads, NEW rest, NEW doubt, NEW seen, NEW reads,
         Beside(rest, doubt, seen, reads),
         Enter(outer, h, rest, doubt, seen, reads), bcond' = bcond, lines' = lines + 1
  PROVE  CoverInv'
<1>. DEFINE truth == [b \in Builds |-> Verdict(h, b[1], env[b])]
            scan == [p \in Profiles |-> Verdict(h, p, Known(Registry[p]))]
            f == [in |-> {b \in rest : truth[b] = Yes}, rest |-> {b \in rest : truth[b] = No},
                  doubt |-> doubt \cup {b \in rest : Undecided(truth[b])},
                  reads |-> reads \cup Uses(h), else |-> FALSE,
                  walks |-> {p \in seen.open : scan[p] # No},
                  open |-> {p \in seen.open : scan[p] # Yes},
                  puzzled |-> seen.puzzled \cup {p \in seen.open : Undecided(scan[p])}]
            row == [head |-> h, truth |-> truth]
<1>1. /\ rows' = rows \cup {row} /\ stack' = Append(outer, f)
      /\ UNCHANGED <<entries, env, locals, defined, shaky>>
  BY DEF Enter
<1>2. \A b \in Builds : truth[b] \in {Yes, No} \/ Undecided(truth[b])
  BY VerdictIs
<1>3. \A p \in Profiles : scan[p] \in {Yes, No} \/ Undecided(scan[p])
  BY VerdictIs
<1>4. Uses(h) \cap Decided = {} => \A b \in Builds : truth[b] = scan[b[1]]
  BY ScanSees, BuildsAre
<1>5. row.head = h /\ row.truth = truth
  OBVIOUS
<1>6. \A b \in Builds : truth[b] = Verdict(h, b[1], env[b])
  OBVIOUS
<1>. HIDE DEF truth, scan
<1>7. f \in Frames
  <2>1. Uses(h) \subseteq Names
    BY UsesNames
  <2>2. /\ f.in \in SUBSET Builds /\ f.rest \in SUBSET Builds /\ f.doubt \in SUBSET Builds
        /\ f.reads \in SUBSET Names
    BY <2>1 DEF Beside
  <2>3. f.walks \in SUBSET Profiles /\ f.open \in SUBSET Profiles /\ f.puzzled \in SUBSET Profiles
    BY DEF Beside
  <2>. QED BY <2>2, <2>3 DEF Frames
<1>8. (f.in \cup f.rest) \cap f.doubt = {}
  BY YesIsNotNo DEF Beside
<1>9. ASSUME f.reads \cap Decided = {}, NEW b \in Builds PROVE Together(f, b)
  <2>1. truth[b] = scan[b[1]] /\ b[1] \in Profiles
    BY <1>4, <1>9, BuildsAre
  <2>2. Alongside(rest, doubt, seen, b)
    BY <1>9 DEF Beside
  <2>3. truth[b] \in {Yes, No} \/ Undecided(truth[b])
    BY <1>2
  <2>. QED BY <2>1, <2>2, <2>3, YesIsNotNo DEF Alongside, Together
<1>10. Fits(f)
  BY <1>8, <1>9 DEF Fits
<1>11. Decided' = Decided
  BY <1>1 DEF Decided, Awaited
<1>12. \A s : Fits(s)' <=> Fits(s)
  BY <1>11 DEF Fits, Together
<1>13. RowReads \cup Uses(h) = RowReads'
  BY <1>1, <1>5 DEF RowReads
<1>14. f.reads \subseteq RowReads'
  BY <1>13 DEF Beside
<1>. HIDE DEF f, row
<1>15. /\ stack' \in Seq(Frames)
       /\ \A n \in 1..Len(stack') : stack'[n] = f \/ (n \in 1..Len(stack) /\ stack'[n] = stack[n])
  BY <1>1, <1>7, Pushed
<1>16. FramesFit'
  BY <1>10, <1>12, <1>15 DEF CoverInv, FramesFit
<1>17. Traced'
  BY <1>13, <1>14, <1>15 DEF CoverInv, Traced
<1>18. RowsHold'
  BY <1>1, <1>5, <1>6 DEF CoverInv, RowsHold
<1>19. TypeOK'
  BY <1>1, <1>5, <1>15 DEF CoverInv, TypeOK
<1>20. EntriesFit' /\ Untouched' /\ MacrosFit' /\ GatesFit'
  <2>1. Awaited' = Awaited /\ \A g : Resolved(g)' = Resolved(g)
    BY <1>1 DEF Awaited, Resolved
  <2>2. \A p : Augmented(p)' = Augmented(p)
    BY <1>1 DEF Augmented
  <2>. QED BY <1>1, <2>1, <2>2 DEF CoverInv, EntriesFit, Untouched, MacrosFit, MacroFits, GatesFit
<1>. QED BY <1>16, <1>17, <1>18, <1>19, <1>20 DEF CoverInv

LEMMA IfCovers == ASSUME CoverInv, NEW h \in Heads, OnIf(h) PROVE CoverInv'
<1>. DEFINE o == Here(stack)
<1>1. /\ Enter(stack, h, o.in, o.doubt, [open |-> o.walks, puzzled |-> {}], o.reads)
      /\ bcond' = bcond /\ lines' = lines + 1
  BY DEF OnIf, Reading
<1>2. Beside(o.in, o.doubt, [open |-> o.walks, puzzled |-> {}], o.reads)
  BY HereBeside DEF CoverInv
<1>3. stack \in Seq(Frames)
  BY DEF CoverInv, TypeOK
<1>. HIDE DEF o
<1>. QED BY <1>1, <1>2, <1>3, EnterCovers

LEMMA ElifCovers == ASSUME CoverInv, NEW h \in Heads, OnElif(h) PROVE CoverInv'
<1>. DEFINE s == Last(stack)
            outer == Front(stack)
<1>1. /\ Enter(outer, h, s.rest, s.doubt, s, s.reads) /\ stack # <<>>
      /\ bcond' = bcond /\ lines' = lines + 1
  BY DEF OnElif, Reading, InChain
<1>2. Beside(s.rest, s.doubt, s, s.reads)
  BY <1>1, ChainBeside DEF CoverInv
<1>3. outer \in Seq(Frames) /\ \A n \in 1..Len(outer) : n \in 1..Len(stack) /\ outer[n] = stack[n]
  BY <1>1, Popped DEF CoverInv, TypeOK
<1>. HIDE DEF s, outer
<1>. QED BY <1>1, <1>2, <1>3, EnterCovers

\* Nothing but the stack changes.
LEMMA FramesCover ==
  ASSUME CoverInv, stack' \in Seq(Frames),
         \A n \in 1..Len(stack') : Fits(stack'[n]) /\ stack'[n].reads \subseteq RowReads,
         UNCHANGED <<bcond, entries, lines, env, locals, rows, defined, shaky>>
  PROVE  CoverInv'
<1>1. Decided' = Decided /\ Awaited' = Awaited
  BY DEF Decided, Awaited
<1>2. \A s : Fits(s)' <=> Fits(s)
  BY <1>1 DEF Fits, Together
<1>3. RowReads' = RowReads
  BY DEF RowReads
<1>4. FramesFit' /\ Traced'
  BY <1>2, <1>3 DEF FramesFit, Traced
<1>5. TypeOK' /\ RowsHold'
  BY DEF CoverInv, TypeOK, RowsHold
<1>6. EntriesFit' /\ Untouched' /\ MacrosFit' /\ GatesFit'
  <2>1. \A g : Resolved(g)' = Resolved(g)
    BY DEF Resolved
  <2>2. \A p : Augmented(p)' = Augmented(p)
    BY DEF Augmented
  <2>. QED BY <1>1, <2>1, <2>2 DEF CoverInv, EntriesFit, Untouched, MacrosFit, MacroFits, GatesFit
<1>. QED BY <1>4, <1>5, <1>6 DEF CoverInv

\* The builds that are left go into the branch after else, and so does the scan
\* if it could judge all of the chain.
LEMMA ElseCovers == ASSUME CoverInv, OnElse PROVE CoverInv'
<1>. DEFINE s == Last(stack)
            f == [s EXCEPT !.else = TRUE, !.in = s.rest, !.walks = s.open \ s.puzzled]
            outer == Front(stack)
<1>1. /\ stack # <<>> /\ stack' = Append(outer, f)
      /\ UNCHANGED <<bcond, entries, lines, env, locals, rows, defined, shaky>>
  BY DEF OnElse, InChain
<1>2. /\ outer \in Seq(Frames) /\ s \in Frames
      /\ \A n \in 1..Len(outer) : n \in 1..Len(stack) /\ outer[n] = stack[n]
      /\ Fits(s) /\ s.reads \subseteq RowReads
  BY <1>1, Popped DEF CoverInv, TypeOK, FramesFit, Traced
<1>. HIDE DEF s, outer
<1>3. /\ f.in = s.rest /\ f.rest = s.rest /\ f.doubt = s.doubt /\ f.reads = s.reads
      /\ f.walks = s.open \ s.puzzled /\ f.open = s.open /\ f.puzzled = s.puzzled
  BY <1>2 DEF Frames
<1>4. f \in Frames
  BY <1>2 DEF Frames
<1>. HIDE DEF f
<1>5. \A b : Together(s, b) => Together(f, b)
  BY <1>3 DEF Together
<1>6. Fits(f) /\ f.reads \subseteq RowReads
  BY <1>2, <1>3, <1>5 DEF Fits
<1>7. /\ stack' \in Seq(Frames)
      /\ \A n \in 1..Len(stack') : stack'[n] = f \/ (n \in 1..Len(outer) /\ stack'[n] = outer[n])
  BY <1>1, <1>2, <1>4, Pushed
<1>8. \A n \in 1..Len(stack') : Fits(stack'[n]) /\ stack'[n].reads \subseteq RowReads
  BY <1>2, <1>6, <1>7 DEF CoverInv, FramesFit, Traced
<1>. QED BY <1>1, <1>7, <1>8, FramesCover

LEMMA EndifCovers == ASSUME CoverInv, OnEndif PROVE CoverInv'
<1>1. /\ stack # <<>> /\ stack' = Front(stack)
      /\ UNCHANGED <<bcond, entries, lines, env, locals, rows, defined, shaky>>
  BY DEF OnEndif
<1>2. /\ stack' \in Seq(Frames)
      /\ \A n \in 1..Len(stack') : n \in 1..Len(stack) /\ stack'[n] = stack[n]
  BY <1>1, Popped DEF CoverInv, TypeOK
<1>3. \A n \in 1..Len(stack') : Fits(stack'[n]) /\ stack'[n].reads \subseteq RowReads
  BY <1>2 DEF CoverInv, FramesFit, Traced
<1>. QED BY <1>1, <1>2, <1>3, FramesCover

\* The end of the file leaves all as it is but the report.
LEMMA FinishCovers ==
  ASSUME CoverInv, UNCHANGED <<bcond, entries, lines, stack, env, locals, rows, defined, shaky>>
  PROVE  CoverInv'
<1>1. \A n \in 1..Len(stack') : Fits(stack'[n]) /\ stack'[n].reads \subseteq RowReads
  BY DEF CoverInv, FramesFit, Traced
<1>2. stack' \in Seq(Frames)
  BY DEF CoverInv, TypeOK
<1>. QED BY <1>1, <1>2, FramesCover

\* A definition: a macro that does not become shaky is set where the scan is,
\* and for the first time.
LEMMA DefinitionCovers == ASSUME CoverInv, NEW d \in Definitions, OnDefinition(d) PROVE CoverInv'
<1>. DEFINE o == Here(stack)
            m == d.name
            sets == {b \in o.in \cup o.doubt : d.kind = "global" \/ env[b][m] = None}
            Replaced == \E b \in sets : env[b][m] # None
            Late == \E r \in rows : m \in Uses(r.head)
            Guarded == o.reads \cap Decided # {}
<1>1. /\ env' = [b \in Builds |->
                   IF b \notin sets THEN env[b]
                   ELSE [env[b] EXCEPT ![m] = IF b \in o.doubt THEN Unknown ELSE d.value]]
      /\ locals' = Collected(d, o.walks) /\ defined' = defined \cup {m}
      /\ shaky' = IF Replaced \/ Late \/ Guarded THEN shaky \cup {m} ELSE shaky
      /\ lines' = lines + 1 /\ UNCHANGED <<bcond, entries, stack, rows>>
  BY DEF OnDefinition, Reading, Decided, VariantNames
<1>2. Beside(o.in, o.doubt, [open |-> o.walks, puzzled |-> {}], o.reads)
  BY HereBeside DEF CoverInv
<1>3. m \in Macros /\ m \notin Bconds /\ d.value # None
  BY BranchCoverageAssumption
<1>4. /\ o.in \subseteq Builds /\ o.doubt \subseteq Builds /\ o.walks \subseteq Profiles
      /\ o.in \cap o.doubt = {}
  BY <1>2 DEF Beside
<1>5. ~Guarded => \A b \in Builds : (b \in o.in => b[1] \in o.walks)
                                    /\ (b[1] \in o.walks => b \in o.in \/ b \in o.doubt)
  BY <1>2 DEF Beside, Alongside
<1>6. \A b : b \in sets <=> ((b \in o.in \/ b \in o.doubt) /\ (d.kind = "global" \/ env[b][m] = None))
  OBVIOUS
<1>. HIDE DEF o, m, sets
<1>7. /\ env \in [Builds -> [Names -> Values]] /\ locals \in [Profiles -> [Macros -> Values]]
      /\ d.value \in Values /\ Unknown \in Values /\ None \in Values /\ m \in Names
  <2>1. d.value \in Values /\ Unknown \in Values /\ None \in Values
    BY DEF Values
  <2>. QED BY <1>3, <2>1 DEF CoverInv, TypeOK, Names
<1>8. /\ \A b \in Builds, x \in Names : x # m => env'[b][x] = env[b][x]
      /\ \A b \in Builds : b \notin sets => env'[b] = env[b]
      /\ \A b \in sets : env'[b][m] = IF b \in o.doubt THEN Unknown ELSE d.value
      /\ env' \in [Builds -> [Names -> Values]]
  <2>1. \A b \in sets : b \in Builds
    BY <1>4, <1>6
  <2>. QED BY <1>1, <1>7, <2>1
<1>9. /\ \A p \in Profiles, x \in Macros : x # m => locals'[p][x] = locals[p][x]
      /\ \A p \in Profiles : locals'[p][m] =
           IF p \in o.walks /\ d.value # Unknown /\ locals[p][m] = None THEN d.value ELSE locals[p][m]
      /\ locals' \in [Profiles -> [Macros -> Values]]
  <2>1. locals' = [p \in Profiles |->
                     IF p \in o.walks /\ d.value # Unknown /\ locals[p][m] = None
                     THEN [locals[p] EXCEPT ![m] = d.value] ELSE locals[p]]
    BY <1>1 DEF Collected, m
  <2>. QED BY <1>3, <1>7, <2>1
<1>10. shaky \subseteq shaky' /\ Decided \subseteq Decided' /\ Awaited' = Awaited
  BY <1>1 DEF Decided, Awaited
<1>11. m \notin shaky' => ~Replaced /\ ~Late /\ ~Guarded
  BY <1>1
<1>12. TypeOK'
  <2>1. defined' \subseteq Macros /\ shaky' \subseteq Names \cup ForcedOn /\ lines' \in Nat
    BY <1>1, <1>3, <1>7 DEF CoverInv, TypeOK
  <2>2. \A r \in rows' : r.head \in Heads
    BY <1>1 DEF CoverInv, TypeOK
  <2>. QED BY <1>1, <1>8, <1>9, <2>1, <2>2 DEF CoverInv, TypeOK
<1>13. EntriesFit'
  BY <1>1 DEF CoverInv, EntriesFit
<1>14. Untouched'
  BY <1>1, <1>8 DEF CoverInv, Untouched, Names
<1>15. MacrosFit'
  <2>1. ASSUME NEW b \in Builds, NEW x \in Macros \ shaky', x # m PROVE MacroFits(b, x)'
    <3>1. env'[b][x] = env[b][x] /\ x \in Macros \ shaky
      BY <1>8, <1>10, <2>1 DEF Names
    <3>2. Augmented(b[1])'[x] = Augmented(b[1])[x]
      BY <1>9, <2>1, BuildsAre DEF Augmented
    <3>3. MacroFits(b, x)
      BY <3>1 DEF CoverInv, MacrosFit
    <3>. QED BY <1>1, <3>1, <3>2, <3>3 DEF MacroFits
  <2>2. ASSUME NEW b \in Builds, m \notin shaky' PROVE MacroFits(b, m)'
    <3>. DEFINE p == b[1]
    <3>1. p \in Profiles
      BY BuildsAre
    <3>2. MacroFits(b, m)
      BY <1>3, <1>10, <2>2 DEF CoverInv, MacrosFit
    <3>3. ~Replaced /\ ~Guarded
      BY <1>11, <2>2
    <3>4. (b \in o.in => p \in o.walks) /\ (p \in o.walks => b \in o.in \/ b \in o.doubt)
      BY <1>5, <3>3
    <3>5. /\ Augmented(p)[m] = IF Registry[p][m] # None THEN Registry[p][m] ELSE locals[p][m]
          /\ Augmented(p)'[m] = IF Registry[p][m] # None THEN Registry[p][m] ELSE locals'[p][m]
      BY <1>3 DEF Augmented
    <3>6. Unknown # None
      BY BranchCoverageAssumption
    <3>7. m \in defined'
      BY <1>1
    <3>8. CASE ~Plain(b, m)
      <4>1. env[b][m] = Given(b)[m] /\ env[b][m] # None
        BY <1>3, <3>2, <3>8, GivenIs DEF MacroFits
      <4>2. b \notin sets
        BY <3>3, <4>1
      <4>. QED BY <1>8, <3>8, <4>1, <4>2 DEF MacroFits
    <3>9. CASE Plain(b, m) /\ b \in sets
      <4>1. env[b][m] = None
        BY <3>3, <3>9
      <4>2. Registry[p][m] = None /\ locals[p][m] = None
        BY <3>2, <3>5, <3>6, <3>9, <4>1 DEF MacroFits
      <4>3. CASE b \in o.doubt
        BY <1>8, <3>7, <3>9, <4>3 DEF MacroFits
      <4>4. CASE b \notin o.doubt
        <5>1. p \in o.walks /\ env'[b][m] = d.value
          BY <1>6, <1>8, <3>4, <3>9, <4>4
        <5>2. d.value # Unknown => Augmented(p)'[m] = d.value
          BY <1>9, <3>1, <3>5, <4>2, <5>1
        <5>. QED BY <3>7, <3>9, <5>1, <5>2 DEF MacroFits
      <4>. QED BY <4>3, <4>4
    <3>10. CASE Plain(b, m) /\ b \notin sets
      <4>1. env'[b][m] = env[b][m]
        BY <1>8, <3>10
      <4>2. env[b][m] = Augmented(p)[m] \/ (env[b][m] = Unknown /\ m \in defined')
        BY <3>2, <3>7, <3>10 DEF MacroFits
      <4>3. CASE locals'[p][m] = locals[p][m]
        BY <3>5, <3>10, <4>1, <4>2, <4>3 DEF MacroFits
      <4>4. CASE locals'[p][m] # locals[p][m]
        <5>1. p \in o.walks /\ locals[p][m] = None
          BY <1>9, <3>1, <4>4
        <5>2. env[b][m] # None
          BY <1>6, <3>4, <3>10, <5>1
        <5>3. env[b][m] = Augmented(p)[m] => Augmented(p)'[m] = env[b][m]
          BY <3>5, <5>1, <5>2
        <5>. QED BY <3>10, <4>1, <4>2, <5>3 DEF MacroFits
      <4>. QED BY <4>3, <4>4
    <3>. QED BY <3>8, <3>9, <3>10
  <2>. QED BY <2>1, <2>2 DEF MacrosFit
<1>16. GatesFit'
  <2>1. \A g : Resolved(g)' = Resolved(g)
    BY <1>1 DEF Resolved
  <2>2. \A b \in Builds, g \in Bconds : env'[b][g] = env[b][g]
    BY <1>3, <1>8 DEF Names
  <2>. QED BY <1>1, <1>10, <2>1, <2>2 DEF CoverInv, GatesFit
<1>17. RowsHold'
  <2>1. ASSUME NEW r \in rows, Uses(r.head) \cap shaky' = {}, NEW b \in Builds
        PROVE  r.truth[b] = Verdict(r.head, b[1], env'[b])
    <3>1. r.head \in Heads
      BY DEF CoverInv, TypeOK
    <3>2. r.truth[b] = Verdict(r.head, b[1], env[b])
      BY <1>10, <2>1 DEF CoverInv, RowsHold
    <3>3. m \notin Uses(r.head)
      BY <1>1, <2>1
    <3>4. Agree(env'[b], env[b], Uses(r.head))
      BY <1>8, <3>1, <3>3, UsesNames DEF Agree
    <3>. QED BY <3>1, <3>2, <3>4, VerdictAgrees
  <2>. QED BY <1>1, <2>1 DEF RowsHold
<1>18. FramesFit' /\ Traced'
  <2>1. \A s : Fits(s) => Fits(s)'
    BY <1>10 DEF Fits, Together
  <2>2. RowReads' = RowReads
    BY <1>1 DEF RowReads
  <2>. QED BY <1>1, <2>1, <2>2 DEF CoverInv, FramesFit, Traced
<1>. QED BY <1>12, <1>13, <1>14, <1>15, <1>16, <1>17, <1>18 DEF CoverInv

\* A build condition that does not become shaky is declared for the first time,
\* in every build, and nobody has asked for it.
LEMMA DeclarationCovers == ASSUME CoverInv, NEW d \in Declarations, OnDeclaration(d) PROVE CoverInv'
<1>. DEFINE o == Here(stack)
            g == d.name
            value == IF g \in ForcedOn THEN "1" ELSE IF g \in ForcedOff THEN "0" ELSE d.value
            Twice == entries[g] # None
            Late == \E r \in rows : g \in Uses(r.head)
            Inside == o.in # Builds
<1>1. /\ env' = [b \in Builds |->
                   IF b \notin o.in \cup o.doubt \/ env[b][g] = "1" THEN env[b]
                   ELSE [env[b] EXCEPT ![g] = IF b \in o.doubt THEN Unknown ELSE value]]
      /\ shaky' = IF Twice \/ Late \/ Inside THEN shaky \cup {g} ELSE shaky
      /\ entries' = IF Twice THEN entries ELSE [entries EXCEPT ![g] = d.value]
      /\ entries'[g] = bcond[g] /\ lines' = lines + 1
      /\ UNCHANGED <<bcond, stack, locals, rows, defined>>
  BY DEF OnDeclaration, Reading, Recorded
<1>2. Beside(o.in, o.doubt, [open |-> o.walks, puzzled |-> {}], o.reads)
  BY HereBeside DEF CoverInv
<1>3. /\ g \in Bconds /\ g \notin Macros /\ d.value \in {"0", "1", Unknown}
      /\ None \notin {"0", "1", Unknown}
  BY BranchCoverageAssumption
<1>4. o.in \subseteq Builds /\ o.in \cap o.doubt = {}
  BY <1>2 DEF Beside
<1>5. d.value \in Values /\ Unknown \in Values /\ "0" \in Values /\ "1" \in Values
  BY DEF Values
<1>6. value \in Values
  BY <1>5
<1>7. value = IF g \in ForcedOn THEN "1" ELSE IF g \in ForcedOff THEN "0" ELSE d.value
  OBVIOUS
<1>. HIDE DEF o, g, value
<1>8. /\ env \in [Builds -> [Names -> Values]] /\ g \in Names
      /\ entries \in [Bconds -> {"0", "1", Unknown, None}]
      /\ \A x \in Bconds : entries[x] \in {None, bcond[x]}
  BY <1>3 DEF CoverInv, TypeOK, EntriesFit, Names
<1>9. /\ \A b \in Builds, x \in Names : x # g => env'[b][x] = env[b][x]
      /\ \A b \in Builds : b \in o.in /\ b \notin o.doubt /\ env[b][g] # "1" => env'[b][g] = value
      /\ env' \in [Builds -> [Names -> Values]]
  BY <1>1, <1>5, <1>6, <1>8
<1>10. /\ \A x \in Bconds : x # g => entries'[x] = entries[x]
       /\ entries'[g] = bcond[g] /\ bcond[g] # None
       /\ entries' \in [Bconds -> {"0", "1", Unknown, None}]
  BY <1>1, <1>3, <1>8
<1>11. shaky \subseteq shaky' /\ shaky' \subseteq shaky \cup {g} /\ Awaited \subseteq Awaited' \cup {g}
  BY <1>1, <1>10 DEF Awaited
<1>12. g \notin shaky' => ~Twice /\ ~Late /\ ~Inside
  BY <1>1
<1>13. TypeOK'
  <2>1. shaky' \subseteq Names \cup ForcedOn /\ lines' \in Nat
    BY <1>1, <1>8, <1>11 DEF CoverInv, TypeOK
  <2>. QED BY <1>1, <1>9, <1>10, <2>1 DEF CoverInv, TypeOK
<1>14. EntriesFit'
  BY <1>1, <1>8, <1>10 DEF EntriesFit
<1>15. Untouched' /\ MacrosFit'
  <2>1. \A b \in Builds, m \in Macros : env'[b][m] = env[b][m]
    BY <1>3, <1>9 DEF Names
  <2>2. \A p : Augmented(p)' = Augmented(p)
    BY <1>1 DEF Augmented
  <2>. QED BY <1>1, <1>11, <2>1, <2>2 DEF CoverInv, Untouched, MacrosFit, MacroFits
<1>16. GatesFit'
  <2>1. \A x : Resolved(x)' = Resolved(x)
    BY <1>1 DEF Resolved
  <2>2. ASSUME NEW b \in Builds, NEW x \in Bconds, x # g
        PROVE  /\ entries'[x] = None => env'[b][x] = "0"
               /\ x \notin Awaited' \cup shaky' => env'[b][x] = Resolved(x)'
    <3>1. env'[b][x] = env[b][x] /\ entries'[x] = entries[x]
      BY <1>9, <1>10, <2>2 DEF Names
    <3>. QED BY <1>11, <2>1, <2>2, <3>1 DEF CoverInv, GatesFit
  <2>3. ASSUME NEW b \in Builds, g \notin shaky' PROVE env'[b][g] = Resolved(g)'
    <3>1. entries[g] = None /\ o.in = Builds
      BY <1>12, <2>3
    <3>2. env[b][g] = "0"
      BY <1>3, <3>1 DEF CoverInv, GatesFit
    <3>3. b \in o.in /\ b \notin o.doubt /\ env[b][g] # "1"
      BY <1>4, <3>1, <3>2
    <3>4. env'[b][g] = value
      BY <1>9, <3>3
    <3>5. d.value = bcond[g]
      BY <1>1, <1>3, <1>8, <3>1
    <3>6. value = Resolved(g)
      BY <1>7, <1>10, <3>5, BranchCoverageAssumption DEF Resolved
    <3>. QED BY <2>1, <3>4, <3>6
  <2>. QED BY <1>10, <2>2, <2>3 DEF GatesFit
<1>17. RowsHold'
  <2>1. ASSUME NEW r \in rows, Uses(r.head) \cap shaky' = {}, NEW b \in Builds
        PROVE  r.truth[b] = Verdict(r.head, b[1], env'[b])
    <3>1. r.head \in Heads
      BY DEF CoverInv, TypeOK
    <3>2. r.truth[b] = Verdict(r.head, b[1], env[b])
      BY <1>11, <2>1 DEF CoverInv, RowsHold
    <3>3. g \notin Uses(r.head)
      BY <1>12, <2>1
    <3>4. Agree(env'[b], env[b], Uses(r.head))
      BY <1>9, <3>1, <3>3, UsesNames DEF Agree
    <3>. QED BY <3>1, <3>2, <3>4, VerdictAgrees
  <2>. QED BY <1>1, <2>1 DEF RowsHold
<1>18. FramesFit' /\ Traced'
  <2>1. RowReads' = RowReads
    BY <1>1 DEF RowReads
  <2>2. Decided \subseteq Decided' \cup {g} /\ (g \in shaky' => g \in Decided')
    BY <1>1, <1>3, <1>11 DEF Decided
  <2>3. g \in RowReads => g \in shaky'
    BY <1>12 DEF RowReads
  <2>4. ASSUME NEW s, Fits(s), s.reads \subseteq RowReads PROVE Fits(s)'
    <3>1. s.reads \cap Decided' = {} => s.reads \cap Decided = {}
      BY <2>2, <2>3, <2>4
    <3>. QED BY <2>4, <3>1 DEF Fits, Together
  <2>. QED BY <1>1, <2>1, <2>4 DEF CoverInv, FramesFit, Traced
<1>. QED BY <1>13, <1>14, <1>15, <1>16, <1>17, <1>18 DEF CoverInv

LEMMA NextCovers == ASSUME CoverInv, [Next]_vars PROVE CoverInv'
<1>1. ASSUME NEW h \in Heads, OnIf(h) PROVE CoverInv'
  BY <1>1, IfCovers
<1>2. ASSUME NEW h \in Heads, OnElif(h) PROVE CoverInv'
  BY <1>2, ElifCovers
<1>3. ASSUME NEW d \in Definitions, OnDefinition(d) PROVE CoverInv'
  BY <1>3, DefinitionCovers
<1>4. ASSUME NEW d \in Declarations, OnDeclaration(d) PROVE CoverInv'
  BY <1>4, DeclarationCovers
<1>5. CASE OnElse
  BY <1>5, ElseCovers
<1>6. CASE OnEndif
  BY <1>6, EndifCovers
<1>7. CASE Finish
  BY <1>7, FinishCovers DEF Finish
<1>8. CASE UNCHANGED vars
  BY <1>8, FinishCovers DEF vars
<1>. QED BY <1>1, <1>2, <1>3, <1>4, <1>5, <1>6, <1>7, <1>8 DEF Next

\* What the scan, the first pass and rpm have of a name agrees as far as nothing
\* shaky is concerned, at every line of every file.
THEOREM Covers == Spec => []CoverInv
<1>1. Init => CoverInv
  BY InitCovers
<1>2. CoverInv /\ [Next]_vars => CoverInv'
  BY NextCovers
<1>. QED BY <1>1, <1>2, PTL DEF Spec

\* Every variable has values of its type.
THEOREM TypeCorrect == Spec => []TypeOK
<1>1. CoverInv => TypeOK
  BY DEF CoverInv
<1>. QED BY <1>1, Covers, PTL
-----------------------------------------------------------------------------
(* What the report says at the end of the file.                            *)

\* The verdict of the coverage on a head, for a profile as it is, and with
\* combination j of the variants that the head reads.
Judgement(h, p) == Verdict(h, p, Known(Augmented(p)))
Trial(h, p, j) == Verdict(h, p, Known(With(Augmented(p), Applicable(h), j)))

\* Combination i of all variants is combination j of those.
Matches(h, i, j) ==
  \A k \in Applicable(h) : Combination(Applicable(h), j)[k] = Combination(Declared, i)[k]

\* rpm finds what the coverage found, or it does not tell.
LEMMA JudgementHolds ==
  ASSUME CoverInv, Awaited = {}, NEW r \in rows, Uses(r.head) \cap shaky = {}, NEW p \in Profiles
  PROVE  /\ Short(r.truth[<<p, -1>>], Judgement(r.head, p))
         /\ Uses(r.head) \cap defined = {} => r.truth[<<p, -1>>] = Judgement(r.head, p)
<1>. DEFINE b == <<p, -1>>
            h == r.head
            macros == Known(Augmented(p))
<1>1. b \in Builds /\ b[1] = p /\ h \in Heads
  BY BuildsAre DEF CoverInv, TypeOK
<1>2. r.truth[b] = Verdict(h, p, env[b])
  BY <1>1 DEF CoverInv, RowsHold
<1>3. \A m \in Macros \cap Uses(h) :
         \/ env[b][m] = Augmented(p)[m]
         \/ env[b][m] = Unknown /\ m \in defined
  <2>1. \A m \in Macros \cap Uses(h) : m \in Macros \ shaky /\ Plain(b, m)
    BY DEF Plain
  <2>. QED BY <1>1, <2>1 DEF CoverInv, MacrosFit, MacroFits
<1>4. \A g \in Bconds \cap Uses(h) : env[b][g] = Resolved(g)
  BY <1>1 DEF CoverInv, GatesFit
<1>5. Uses(h) \subseteq Macros \cup Bconds
  BY <1>1, UsesNames DEF Names
<1>. HIDE DEF b
<1>6. Under(env[b], macros, Uses(h))
  BY <1>3, <1>4, <1>5, ScopeIs DEF Under
<1>7. Uses(h) \cap defined = {} => Agree(env[b], macros, Uses(h))
  BY <1>3, <1>4, <1>5, ScopeIs DEF Agree
<1>. HIDE DEF macros, h
<1>8. Short(Verdict(h, p, env[b]), Verdict(h, p, macros))
  BY <1>1, <1>6, VerdictUnder
<1>9. Uses(h) \cap defined = {} => Verdict(h, p, env[b]) = Verdict(h, p, macros)
  BY <1>1, <1>7, VerdictAgrees
<1>. QED BY <1>2, <1>8, <1>9 DEF b, h, macros, Judgement

LEMMA TrialHolds ==
  ASSUME CoverInv, Awaited = {}, NEW r \in rows, Uses(r.head) \cap shaky = {}, NEW p \in Profiles,
         NEW i \in 0..Total(Declared) - 1, NEW j, Matches(r.head, i, j)
  PROVE  Short(r.truth[<<p, i>>], Trial(r.head, p, j))
<1>. DEFINE b == <<p, i>>
            h == r.head
            ks == Applicable(h)
            with == With(Augmented(p), ks, j)
            macros == Known(with)
<1>1. b \in Builds /\ b[1] = p /\ b[2] = i /\ h \in Heads
  BY BuildsAre DEF CoverInv, TypeOK
<1>2. r.truth[b] = Verdict(h, p, env[b])
  BY <1>1 DEF CoverInv, RowsHold
<1>3. ASSUME NEW m \in Macros \cap Uses(h)
      PROVE  env[b][m] = with[m] \/ env[b][m] = Unknown
  <2>1. MacroFits(b, m)
    BY <1>1 DEF CoverInv, MacrosFit
  <2>2. ks \in SUBSET Declared /\ \A k \in ks : Variants[k].name \in Uses(h)
    BY DEF Applicable
  <2>3. CASE Plain(b, m)
    <3>1. \A k \in Declared : Variants[k].name # m
      <4>1. b[2] # -1
        <5>1. Total(Declared) \in Nat
          BY TotalPositive
        <5>. QED BY <1>1, <5>1
      <4>. QED BY <2>3, <4>1 DEF Plain, VariantNames
    <3>2. with[m] = Augmented(p)[m]
      <4>1. \A k \in ks : Variants[k].name # m
        BY <2>2, <3>1
      <4>. QED BY <4>1 DEF With
    <3>. QED BY <1>1, <2>1, <2>3, <3>2 DEF MacroFits
  <2>4. CASE ~Plain(b, m)
    <3>1. PICK k \in Declared : Variants[k].name = m /\ Given(b)[m] = Combination(Declared, i)[k]
      BY <1>1, <2>4, GivenIs
    <3>2. k \in ks
      BY <3>1 DEF Applicable
    <3>3. with[m] = Combination(ks, j)[k]
      <4>1. m \in Macros
        OBVIOUS
      <4>. HIDE DEF ks
      <4>2. \A x \in ks : Variants[x].name = m => with[m] = Combination(ks, j)[x]
        BY <2>2, <4>1, WithIs
      <4>. QED BY <3>1, <3>2, <4>2
    <3>4. Combination(ks, j)[k] = Combination(Declared, i)[k]
      BY <3>2 DEF Matches
    <3>. QED BY <2>1, <2>4, <3>1, <3>3, <3>4 DEF MacroFits
  <2>. QED BY <2>3, <2>4
<1>4. \A g \in Bconds \cap Uses(h) : env[b][g] = Resolved(g)
  BY <1>1 DEF CoverInv, GatesFit
<1>5. Uses(h) \subseteq Macros \cup Bconds
  BY <1>1, UsesNames DEF Names
<1>. HIDE DEF b, with
<1>6. Under(env[b], macros, Uses(h))
  BY <1>3, <1>4, <1>5, ScopeIs DEF Under
<1>. HIDE DEF macros, h
<1>7. Short(Verdict(h, p, env[b]), Verdict(h, p, macros))
  BY <1>1, <1>6, VerdictUnder
<1>. QED BY <1>2, <1>7 DEF b, h, macros, with, Trial

\* The lists before the variants are tried.
LEMMA JudgedIs ==
  ASSUME NEW h
  PROVE  /\ Judged(h).active = {p \in Profiles : Judgement(h, p) = Yes}
         /\ Judged(h).inactive = {p \in Profiles : Judgement(h, p) = No}
         /\ Judged(h).indeterminate = {p \in Profiles : Undecided(Judgement(h, p))}
         /\ Judged(h).conditional = {} /\ Judged(h).reachable = {}
<1>. DEFINE verdict == [p \in Profiles |-> Verdict(h, p, Known(Augmented(p)))]
<1>1. \A p \in Profiles : verdict[p] = Judgement(h, p)
  BY DEF Judgement
<1>2. /\ Judged(h).active = {p \in Profiles : verdict[p] = Yes}
      /\ Judged(h).inactive = {p \in Profiles : verdict[p] = No}
      /\ Judged(h).indeterminate = {p \in Profiles : Undecided(verdict[p])}
      /\ Judged(h).conditional = {} /\ Judged(h).reachable = {}
  BY DEF Judged
<1>. HIDE DEF verdict
<1>. QED BY <1>1, <1>2

\* The profiles a combination activates the branch for, of those it is not
\* active for.
Rescuable(h) ==
  {p \in Profiles : Judgement(h, p) # Yes /\ \E j \in 0..Total(Applicable(h)) - 1 : Trial(h, p, j) = Yes}

\* A value of a variant that a combination found active has.
Witnessed(h, found) ==
  \E k \in Applicable(h), p \in Rescuable(h), j \in 0..Total(Applicable(h)) - 1 :
    Trial(h, p, j) = Yes /\ found = <<Variants[k].name, Combination(Applicable(h), j)[k]>>

Tried(h) == Applicable(h) # {} /\ ~(Total(Applicable(h)) > MaxCombinations)

\* What becomes of the lists: demoted goes from the open profiles to the
\* inactive ones, and supplied is rescued.
Moved(h, c, demoted, supplied) ==
  LET g == Judged(h)
  IN /\ c.active = g.active /\ c.inactive = g.inactive \cup demoted
     /\ c.indeterminate = g.indeterminate \ (demoted \cup supplied)
     /\ demoted \subseteq g.indeterminate /\ supplied \subseteq c.conditional
     /\ c.conditional = IF Tried(h) THEN Rescuable(h) ELSE {}
     /\ \A found \in c.reachable : Tried(h) /\ Witnessed(h, found)
     /\ ~Tried(h) => demoted = {}

LEMMA RescuedIs ==
  ASSUME NEW h
  PROVE  \E demoted, supplied : Moved(h, Rescued(h, Judged(h)), demoted, supplied)
<1>. DEFINE g == Judged(h)
            c == Rescued(h, g)
            ks == Applicable(h)
            all == 0..Total(ks) - 1
            trial == [p \in Profiles |-> [i \in all |-> Verdict(h, p, Known(With(Augmented(p), ks, i)))]]
            first == [p \in {q \in Candidates(g) : \E i \in all : trial[q][i] = Yes} |->
                        CHOOSE i \in all : trial[p][i] = Yes /\ \A j \in 0..i - 1 : trial[p][j] # Yes]
            demoted == g.indeterminate \cap (Exhausted(trial, ks) \ DOMAIN first)
            supplied == {p \in g.indeterminate \cap DOMAIN first :
                           \E k \in Declared : Variants[k].name = g.lacks[p]}
            reachable == {<<Variants[k].name, Combination(ks, first[p])[k]>> : k \in ks, p \in DOMAIN first}
<1>1. /\ Tried(h) => c = [g EXCEPT !.inactive = @ \cup demoted,
                                    !.indeterminate = @ \ (demoted \cup supplied),
                                    !.conditional = DOMAIN first, !.reachable = reachable]
      /\ ~Tried(h) => c = g
  BY DEF Rescued, Tried
<1>2. \E puzzled, lacks : g = [active |-> g.active, inactive |-> g.inactive, indeterminate |-> puzzled,
                                lacks |-> lacks, conditional |-> {}, reachable |-> {}]
  BY DEF Judged
<1>3. \A p \in Profiles, i \in all : trial[p][i] = Trial(h, p, i)
  BY DEF Trial
<1>4. DOMAIN first = Rescuable(h)
  <2>1. DOMAIN first = {q \in Candidates(g) : \E i \in all : trial[q][i] = Yes}
    OBVIOUS
  <2>2. \A q : q \in Candidates(g) <=> q \in Profiles /\ Judgement(h, q) # Yes
    BY JudgedIs DEF Candidates
  <2>. HIDE DEF first, trial, g
  <2>. QED BY <1>3, <2>1, <2>2 DEF Rescuable
<1>5. ASSUME NEW p \in DOMAIN first PROVE first[p] \in all /\ Trial(h, p, first[p]) = Yes
  <2>1. first[p] = CHOOSE i \in all : trial[p][i] = Yes /\ \A j \in 0..i - 1 : trial[p][j] # Yes
    BY <1>5
  <2>2. p \in Profiles /\ \E i \in all : trial[p][i] = Yes
    BY <1>3, <1>4 DEF Rescuable
  <2>. HIDE DEF first, trial
  <2>3. \E i \in all : trial[p][i] = Yes /\ \A j \in 0..i - 1 : trial[p][j] # Yes
    <3>. DEFINE T == {i \in all : trial[p][i] = Yes}
    <3>1. ks \in SUBSET Declared
      BY DEF Applicable
    <3>2. Total(ks) \in Nat
      BY <3>1, TotalPositive
    <3>3. all \subseteq Nat
      BY <3>2
    <3>4. T \subseteq Nat /\ T # {}
      BY <2>2, <3>3
    <3>5. PICK i \in T : \A j \in T : i <= j
      BY <3>4, NatLeast
    <3>6. \A j \in 0..i - 1 : j \in all /\ ~(i <= j)
      BY <3>2, <3>3
    <3>. QED BY <3>5, <3>6
  <2>4. first[p] \in all /\ trial[p][first[p]] = Yes
    BY <2>1, <2>3
  <2>. QED BY <1>3, <2>2, <2>4
<1>6. \A found \in reachable : Witnessed(h, found)
  <2>. HIDE DEF first
  <2>. QED BY <1>4, <1>5 DEF Witnessed
<1>7. demoted \subseteq g.indeterminate /\ supplied \subseteq DOMAIN first
  OBVIOUS
<1>8. g.conditional = {} /\ g.reachable = {}
  BY JudgedIs
<1>9. CASE Tried(h)
  <2>. HIDE DEF demoted, supplied, reachable, first, g
  <2>1. /\ c.active = g.active /\ c.inactive = g.inactive \cup demoted
        /\ c.indeterminate = g.indeterminate \ (demoted \cup supplied)
        /\ c.conditional = DOMAIN first /\ c.reachable = reachable
    <3>. HIDE DEF c
    <3>. QED BY <1>1, <1>2, <1>9
  <2>. HIDE DEF c
  <2>2. Moved(h, c, demoted, supplied)
    BY <1>4, <1>6, <1>7, <1>9, <2>1 DEF Moved, g
  <2>. QED BY <2>2 DEF c, g
<1>10. CASE ~Tried(h)
  <2>1. c = g
    BY <1>1, <1>10
  <2>. HIDE DEF c, g
  <2>2. Moved(h, c, {}, {})
    BY <1>8, <1>10, <2>1 DEF Moved, g
  <2>. QED BY <2>2 DEF c, g
<1>. QED BY <1>9, <1>10

\* What VerdictsHold and DeadIsDead say of one entry of the report, and
\* NobodyLost of its lists.
VerdictsOf(r) ==
  LET c == r.coverage
  IN /\ \A p \in c.active : Is(r, p, -1, Yes) \/ LeftOpen(r, p)
     /\ \A p \in c.inactive :
          \/ Is(r, p, -1, No) \/ LeftOpen(r, p)
          \/ Applicable(r.row.head) # {} /\ ~Is(r, p, -1, Yes)
     /\ \A p \in c.indeterminate : Undecided(r.row.truth[<<p, -1>>])
     /\ \A p \in c.conditional :
          /\ ~Is(r, p, -1, Yes)
          /\ \E i \in 0 .. Total(Declared) - 1 : ~Is(r, p, i, No)
     /\ \A found \in c.reachable :
          \E p \in c.conditional, i \in 0 .. Total(Declared) - 1 :
            ~Is(r, p, i, No)
            /\ \E k \in Declared :
                 found = <<Variants[k].name, Combination(Declared, i)[k]>>

DeadOf(r) ==
  Dead(r.coverage) /\ Enumerated(r.row.head) => \A b \in Builds : r.row.truth[b] # Yes

ListsOf(c) ==
  /\ c.active \cup c.inactive \cup c.indeterminate \cup c.conditional = Profiles
  /\ c.active \cap (c.inactive \cup c.indeterminate \cup c.conditional) = {}
  /\ c.inactive \cap c.indeterminate = {}

\* The lists of a head hold every profile, and none where it does not belong.
LEMMA ListsHold == \A h : ListsOf(Rescued(h, Judged(h)))
<1>. SUFFICES ASSUME NEW h PROVE ListsOf(Rescued(h, Judged(h)))
  OBVIOUS
<1>. DEFINE c == Rescued(h, Judged(h))
<1>1. PICK demoted, supplied : Moved(h, c, demoted, supplied)
  BY RescuedIs
<1>. HIDE DEF c
<1>2. \A p \in Profiles : Judgement(h, p) \in {Yes, No} \/ Undecided(Judgement(h, p))
  BY VerdictIs DEF Judgement
<1>3. c.conditional \subseteq {p \in Profiles : Judgement(h, p) # Yes}
  BY <1>1 DEF Moved, Rescuable
<1>4. /\ c.active = {p \in Profiles : Judgement(h, p) = Yes}
      /\ c.inactive = {p \in Profiles : Judgement(h, p) = No} \cup demoted
      /\ c.indeterminate = {p \in Profiles : Undecided(Judgement(h, p))} \ (demoted \cup supplied)
      /\ demoted \subseteq {p \in Profiles : Undecided(Judgement(h, p))} /\ supplied \subseteq c.conditional
  BY <1>1, JudgedIs DEF Moved
<1>5. ListsOf(c)
  BY <1>2, <1>3, <1>4, YesIsNotNo DEF ListsOf
<1>. QED BY <1>5 DEF c

\* Each combination of all variants is one of those a head reads, and back.
LEMMA MatchesAre ==
  ASSUME NEW h
  PROVE  /\ \A i \in 0..Total(Declared) - 1 : \E j \in 0..Total(Applicable(h)) - 1 : Matches(h, i, j)
         /\ \A j \in 0..Total(Applicable(h)) - 1 : \E i \in 0..Total(Declared) - 1 : Matches(h, i, j)
<1>1. Applicable(h) \subseteq Declared /\ Applicable(h) \in SUBSET Declared /\ Declared \in SUBSET Declared
  BY DEF Applicable
<1>2. /\ \A i \in 0..Total(Declared) - 1 : \E j \in 0..Total(Applicable(h)) - 1 :
           \A k \in Applicable(h) : Combination(Applicable(h), j)[k] = Combination(Declared, i)[k]
      /\ \A j \in 0..Total(Applicable(h)) - 1 : \E i \in 0..Total(Declared) - 1 :
           \A k \in Applicable(h) : Combination(Declared, i)[k] = Combination(Applicable(h), j)[k]
  BY <1>1, Restriction
<1>. QED BY <1>2 DEF Matches

\* A head nothing shaky is read by: its lists say what rpm finds.
LEMMA VerdictsOfRow ==
  ASSUME CoverInv, Awaited = {}, NEW r \in rows, Uses(r.head) \cap shaky = {}
  PROVE  VerdictsOf([row |-> r, coverage |-> Rescued(r.head, Judged(r.head))])
<1>. DEFINE h == r.head
            c == Rescued(h, Judged(h))
            e == [row |-> r, coverage |-> c]
            truth == r.truth
<1>1. PICK demoted, supplied : Moved(h, c, demoted, supplied)
  BY RescuedIs
<1>2. e.row = r /\ e.coverage = c /\ e.row.head = h
  OBVIOUS
<1>3. \A p, i, v : Is(e, p, i, v) <=> truth[<<p, i>>] = v
  BY DEF Is
<1>4. \A p : LeftOpen(e, p) <=> Undecided(truth[<<p, -1>>]) /\ Uses(h) \cap defined # {}
  BY DEF LeftOpen
<1>5. \A p \in Profiles : /\ truth[<<p, -1>>] = Judgement(h, p) \/ Undecided(truth[<<p, -1>>])
                          /\ Uses(h) \cap defined = {} => truth[<<p, -1>>] = Judgement(h, p)
  BY JudgementHolds DEF Short
<1>6. \A p \in Profiles, i \in 0..Total(Declared) - 1 : \A j :
         Matches(h, i, j) => truth[<<p, i>>] = Trial(h, p, j) \/ Undecided(truth[<<p, i>>])
  BY TrialHolds DEF Short
<1>7. \A i \in 0..Total(Declared) - 1 : \A j : Matches(h, i, j) =>
        \A k \in Applicable(h) : Combination(Applicable(h), j)[k] = Combination(Declared, i)[k]
  BY DEF Matches
<1>8. \A j \in 0..Total(Applicable(h)) - 1 : \E i \in 0..Total(Declared) - 1 : Matches(h, i, j)
  BY MatchesAre
<1>. HIDE DEF h, c, e, truth
<1>9. /\ c.active = {p \in Profiles : Judgement(h, p) = Yes}
      /\ c.inactive = {p \in Profiles : Judgement(h, p) = No} \cup demoted
      /\ c.indeterminate \subseteq {p \in Profiles : Undecided(Judgement(h, p))}
      /\ demoted \subseteq {p \in Profiles : Undecided(Judgement(h, p))}
      /\ demoted # {} => Applicable(h) # {}
      /\ c.conditional \subseteq Rescuable(h)
      /\ \A found \in c.reachable : c.conditional = Rescuable(h) /\ Witnessed(h, found)
  BY <1>1, JudgedIs DEF Moved, Tried
<1>10. ASSUME NEW p \in c.active PROVE Is(e, p, -1, Yes) \/ LeftOpen(e, p)
  BY <1>3, <1>4, <1>5, <1>9, <1>10
<1>11. ASSUME NEW p \in c.inactive
       PROVE  \/ Is(e, p, -1, No) \/ LeftOpen(e, p)
              \/ Applicable(h) # {} /\ ~Is(e, p, -1, Yes)
  <2>1. CASE p \in Profiles /\ Judgement(h, p) = No
    BY <1>3, <1>4, <1>5, <2>1
  <2>2. CASE p \in demoted
    <3>1. p \in Profiles /\ Undecided(truth[<<p, -1>>]) /\ Applicable(h) # {}
      BY <1>5, <1>9, <2>2
    <3>. QED BY <1>3, <3>1, YesIsNotNo
  <2>. QED BY <1>9, <2>1, <2>2
<1>12. ASSUME NEW p \in c.indeterminate PROVE Undecided(truth[<<p, -1>>])
  BY <1>5, <1>9
<1>13. ASSUME NEW p \in Rescuable(h), NEW j \in 0..Total(Applicable(h)) - 1, Trial(h, p, j) = Yes
       PROVE  \E i \in 0..Total(Declared) - 1 : Matches(h, i, j) /\ ~Is(e, p, i, No)
  <2>1. PICK i \in 0..Total(Declared) - 1 : Matches(h, i, j)
    BY <1>8
  <2>2. truth[<<p, i>>] = Yes \/ Undecided(truth[<<p, i>>])
    BY <1>6, <1>13, <2>1 DEF Rescuable
  <2>. QED BY <1>3, <2>1, <2>2, YesIsNotNo
<1>14. ASSUME NEW p \in c.conditional
       PROVE  ~Is(e, p, -1, Yes) /\ \E i \in 0..Total(Declared) - 1 : ~Is(e, p, i, No)
  <2>1. p \in Rescuable(h)
    BY <1>9
  <2>2. p \in Profiles /\ Judgement(h, p) # Yes
    BY <2>1 DEF Rescuable
  <2>3. ~Is(e, p, -1, Yes)
    BY <1>3, <1>5, <2>2, YesIsNotNo
  <2>4. PICK j \in 0..Total(Applicable(h)) - 1 : Trial(h, p, j) = Yes
    BY <2>1 DEF Rescuable
  <2>. QED BY <1>13, <2>1, <2>3, <2>4
<1>15. ASSUME NEW found \in c.reachable
       PROVE  \E p \in c.conditional, i \in 0..Total(Declared) - 1 :
                ~Is(e, p, i, No)
                /\ \E k \in Declared : found = <<Variants[k].name, Combination(Declared, i)[k]>>
  <2>1. Witnessed(h, found) /\ c.conditional = Rescuable(h)
    BY <1>9
  <2>2. PICK k \in Applicable(h), p \in Rescuable(h), j \in 0..Total(Applicable(h)) - 1 :
          Trial(h, p, j) = Yes /\ found = <<Variants[k].name, Combination(Applicable(h), j)[k]>>
    BY <2>1 DEF Witnessed
  <2>3. PICK i \in 0..Total(Declared) - 1 : Matches(h, i, j) /\ ~Is(e, p, i, No)
    BY <1>13, <2>2
  <2>4. k \in Declared /\ found = <<Variants[k].name, Combination(Declared, i)[k]>>
    BY <1>7, <2>2, <2>3 DEF Applicable
  <2>. QED BY <2>1, <2>3, <2>4
<1>16. e.row.truth = truth
  BY DEF e, truth
<1>17. VerdictsOf(e)
  BY <1>2, <1>10, <1>11, <1>12, <1>14, <1>15, <1>16 DEF VerdictsOf
<1>. QED BY <1>17 DEF e, c, h

\* A head nothing shaky is read by: if its lists make it dead, no build takes it.
LEMMA DeadOfRow ==
  ASSUME CoverInv, Awaited = {}, NEW r \in rows, Uses(r.head) \cap shaky = {}
  PROVE  DeadOf([row |-> r, coverage |-> Rescued(r.head, Judged(r.head))])
<1>. DEFINE h == r.head
            c == Rescued(h, Judged(h))
            e == [row |-> r, coverage |-> c]
            truth == r.truth
<1>1. PICK demoted, supplied : Moved(h, c, demoted, supplied)
  BY RescuedIs
<1>2. e.row = r /\ e.coverage = c /\ e.row.head = h /\ e.row.truth = truth
  OBVIOUS
<1>3. \A p \in Profiles : truth[<<p, -1>>] = Judgement(h, p) \/ Undecided(truth[<<p, -1>>])
  BY JudgementHolds DEF Short
<1>4. \A p \in Profiles, i \in 0..Total(Declared) - 1 : \A j :
         Matches(h, i, j) => truth[<<p, i>>] = Trial(h, p, j) \/ Undecided(truth[<<p, i>>])
  BY TrialHolds DEF Short
<1>5. \A i \in 0..Total(Declared) - 1 : \E j \in 0..Total(Applicable(h)) - 1 : Matches(h, i, j)
  BY MatchesAre
<1>6. h \in Heads
  BY DEF CoverInv, TypeOK
<1>. HIDE DEF h, c, e, truth
<1>7. SUFFICES ASSUME c.active = {}, c.indeterminate = {}, c.conditional = {}, Enumerated(h), NEW b \in Builds
               PROVE  truth[b] # Yes
  <2>1. DeadOf(e)
    BY <1>2, <1>7 DEF DeadOf, Dead
  <2>. QED BY <2>1 DEF e, c, h
<1>8. \A p \in Profiles : Judgement(h, p) # Yes
  BY <1>1, <1>7, JudgedIs DEF Moved
<1>9. \A p \in Profiles, j \in 0..Total(Applicable(h)) - 1 : Trial(h, p, j) # Yes
  <2>1. CASE Applicable(h) # {}
    <3>1. Applicable(h) \in SUBSET Declared
      BY DEF Applicable
    <3>2. Tried(h)
      <4>1. Total(Applicable(h)) \in Nat /\ MaxCombinations \in Nat
        BY <3>1, TotalPositive, BranchCoverageAssumption
      <4>. QED BY <1>7, <2>1, <4>1 DEF Enumerated, Tried
    <3>3. Rescuable(h) = {}
      BY <1>1, <1>7, <3>2 DEF Moved
    <3>. QED BY <1>8, <3>3 DEF Rescuable
  <2>2. CASE Applicable(h) = {}
    <3>1. ASSUME NEW p \in Profiles, NEW j PROVE Trial(h, p, j) = Judgement(h, p)
      <4>. DEFINE with == With(Augmented(p), Applicable(h), j)
      <4>1. \A m \in Macros : with[m] = Augmented(p)[m]
        BY <2>2 DEF With
      <4>. HIDE DEF with
      <4>2. Agree(Known(with), Known(Augmented(p)), Uses(h))
        BY <1>6, <4>1, ScopeIs, UsesNames DEF Agree, Names
      <4>3. Verdict(h, p, Known(with)) = Verdict(h, p, Known(Augmented(p)))
        BY <1>6, <4>2, VerdictAgrees
      <4>. QED BY <4>3 DEF with, Trial, Judgement
    <3>. QED BY <1>8, <3>1
  <2>. QED BY <2>1, <2>2
<1>10. b = <<b[1], b[2]>> /\ b[1] \in Profiles /\ (b[2] = -1 \/ b[2] \in 0..Total(Declared) - 1)
  BY BuildsAre
<1>11. CASE b[2] = -1
  BY <1>3, <1>8, <1>10, <1>11, YesIsNotNo
<1>12. CASE b[2] \in 0..Total(Declared) - 1
  <2>1. PICK j \in 0..Total(Applicable(h)) - 1 : Matches(h, b[2], j)
    BY <1>5, <1>12
  <2>2. truth[<<b[1], b[2]>>] = Trial(h, b[1], j) \/ Undecided(truth[<<b[1], b[2]>>])
    BY <1>4, <1>10, <1>12, <2>1
  <2>. QED BY <1>9, <1>10, <2>2, YesIsNotNo
<1>. QED BY <1>10, <1>11, <1>12

\* The report is written once, at the end of the file, and says what holds there.
LEMMA ReportHolds ==
  ASSUME CoverInv, [Next]_vars, VerdictsHold, DeadIsDead, NobodyLost
  PROVE  VerdictsHold' /\ DeadIsDead' /\ NobodyLost'
<1>1. CASE Finish
  <2>1. /\ Awaited = {} /\ shaky' = shaky /\ defined' = defined
        /\ report' = {[row |-> r, coverage |-> Rescued(r.head, Judged(r.head))] : r \in rows}
    BY <1>1 DEF Finish
  <2>2. ASSUME NEW e \in Reported'
        PROVE  \E r \in rows : e = [row |-> r, coverage |-> Rescued(r.head, Judged(r.head))]
    BY <2>1 DEF Reported
  <2>3. ASSUME NEW e \in Reported', Uses(e.row.head) \cap shaky' = {}
        PROVE  VerdictsOf(e)' /\ DeadOf(e)'
    <3>1. PICK r \in rows : e = [row |-> r, coverage |-> Rescued(r.head, Judged(r.head))]
      BY <2>2
    <3>2. e.row = r
      BY <3>1
    <3>3. VerdictsOf(e) /\ DeadOf(e)
      BY <2>1, <2>3, <3>1, <3>2, VerdictsOfRow, DeadOfRow
    <3>4. \A p : LeftOpen(e, p)' <=> LeftOpen(e, p)
      BY <2>1 DEF LeftOpen
    <3>. QED BY <3>3, <3>4 DEF VerdictsOf, DeadOf
  <2>4. \A e \in Reported' : ListsOf(e.coverage)
    BY <2>2, ListsHold
  <2>. QED BY <2>3, <2>4 DEF VerdictsHold, DeadIsDead, NobodyLost, Settled, VerdictsOf, DeadOf, ListsOf
<1>2. CASE report' = None
  <2>1. Reported' = {}
    BY <1>2 DEF Reported
  <2>. QED BY <2>1 DEF VerdictsHold, DeadIsDead, NobodyLost, Settled
<1>3. CASE UNCHANGED vars
  BY <1>3 DEF vars, VerdictsHold, DeadIsDead, NobodyLost, Settled, Reported, Is, LeftOpen
<1>4. Finish \/ report' = None \/ UNCHANGED vars
  BY DEF Next, OnIf, OnElif, OnElse, OnEndif, OnDefinition, OnDeclaration, Reading
<1>. QED BY <1>1, <1>2, <1>3, <1>4

\* What the report promises, together with what its proof needs.
ReportInv == CoverInv /\ VerdictsHold /\ DeadIsDead /\ NobodyLost

LEMMA ReportInvariant == Spec => []ReportInv
<1>1. Init => ReportInv
  <2>1. Init => Reported = {}
    BY DEF Init, Reported
  <2>. QED BY <2>1, InitCovers DEF ReportInv, VerdictsHold, DeadIsDead, NobodyLost, Settled
<1>2. ReportInv /\ [Next]_vars => ReportInv'
  BY NextCovers, ReportHolds DEF ReportInv
<1>. QED BY <1>1, <1>2, PTL DEF Spec

\* What the two passes over the file find for a branch is what rpm finds in one,
\* and what they leave open rpm leaves open.
THEOREM VerdictsAlwaysHold == Spec => []VerdictsHold
<1>1. ReportInv => VerdictsHold
  BY DEF ReportInv
<1>. QED BY <1>1, ReportInvariant, PTL

\* A branch called dead is taken by no build.
THEOREM DeadStaysDead == Spec => []DeadIsDead
<1>1. ReportInv => DeadIsDead
  BY DEF ReportInv
<1>. QED BY <1>1, ReportInvariant, PTL

\* Each profile is in the lists of each branch, and in no two that exclude one
\* another.
THEOREM NobodyEverLost == Spec => []NobodyLost
<1>1. ReportInv => NobodyLost
  BY DEF ReportInv
<1>. QED BY <1>1, ReportInvariant, PTL
=============================================================================
