--------------------------- MODULE BranchRulesProofs ---------------------------
(***************************************************************************)
(* The branch rules, for every set of conditions and every file: a normal  *)
(* form says what its condition says, a path condition leaves out no build  *)
(* that gets there, what the rules claim is so, and no readable dead branch *)
(* is missed.                                                              *)
(***************************************************************************)
EXTENDS BranchRules, SequenceTheorems, FiniteSetTheorems, WellFoundedInduction, TLAPS

Literals == Atoms \X BOOLEAN

\* What the forms are made of: finitely many cubes, none of them contradictory.
Forms == {dnf \in SUBSET SUBSET Literals :
            IsFiniteSet(dnf) /\ \A cube \in dnf : ~Contradictory(cube)}

\* None is no set of cubes.
NoneApart == None \notin SUBSET SUBSET Literals

-----------------------------------------------------------------------------
(* Recursive functions.                                                    *)

\* A nonempty set of naturals has a least element.
LEMMA NatLeast ==
  ASSUME NEW T, T \subseteq Nat, T # {}
  PROVE  \E x \in T : \A y \in T : x <= y
<1>1. IsWellFoundedOn(OpToRel(<, Nat), Nat)
  BY NatLessThanWellFounded
<1>2. PICK x \in T : \A y \in T : ~(<<y, x>> \in OpToRel(<, Nat))
  BY <1>1, WFMin
<1>3. \A y \in T : ~(y < x)
  BY <1>2 DEF OpToRel
<1>. QED BY <1>3

\* What holds of 0, and of k + 1 where it holds of k, holds of every natural.
LEMMA AllNat ==
  ASSUME NEW T, 0 \in T, \A k \in Nat : k \in T => k + 1 \in T
  PROVE  Nat \subseteq T
<1>. DEFINE Out == {k \in Nat : k \notin T}
<1>. SUFFICES ASSUME Out # {} PROVE FALSE
  OBVIOUS
<1>1. PICK x \in Out : \A y \in Out : x <= y
  <2>1. Out \subseteq Nat
    OBVIOUS
  <2>. HIDE DEF Out
  <2>. QED BY <2>1, NatLeast
<1>2. x - 1 \in Nat
  BY <1>1
<1>3. x - 1 \in T
  BY <1>1, <1>2
<1>4. x - 1 + 1 = x
  BY <1>1
<1>. QED BY <1>1, <1>2, <1>3, <1>4

\* What holds of whatever it holds of all below of holds of everything.
LEMMA Upward ==
  ASSUME NEW D, NEW rank \in [D -> Nat], NEW Good,
         \A e \in D : (\A d \in D : rank[d] < rank[e] => d \in Good) => e \in Good
  PROVE  D \subseteq Good
<1>. SUFFICES ASSUME NEW e \in D, e \notin Good PROVE FALSE
  OBVIOUS
<1>. DEFINE R == {k \in Nat : \E d \in D : d \notin Good /\ rank[d] = k}
<1>1. R \subseteq Nat /\ R # {}
  BY rank[e] \in Nat
<1>2. PICK x \in R : \A y \in R : x <= y
  <2>. HIDE DEF R
  <2>. QED BY <1>1, NatLeast
<1>3. PICK d \in D : d \notin Good /\ rank[d] = x
  BY <1>2
<1>4. ASSUME NEW c \in D, rank[c] < rank[d] PROVE c \in Good
  <2>1. rank[c] \in Nat /\ rank[d] \in Nat
    OBVIOUS
  <2>2. c \notin Good => x <= rank[c]
    BY <1>2, <2>1
  <2>. QED BY <1>3, <1>4, <2>1, <2>2
<1>. QED BY <1>3, <1>4

\* F computes the value at e from the values at what is of a lower rank.
Descends(F, D, V, rank) ==
  /\ rank \in [D -> Nat]
  /\ F \in [[D -> V] \X D -> V]
  /\ \A f, g \in [D -> V] : \A e \in D :
       (\A d \in D : rank[d] < rank[e] => f[d] = g[d]) => F[<<f, e>>] = F[<<g, e>>]

\* f is as F wants it on ranks below n.
SolvesTo(f, n, F, D, rank) == \A e \in D : rank[e] < n => f[e] = F[<<f, e>>]

Solves(f, F, D) == \A e \in D : f[e] = F[<<f, e>>]

\* There is a solution up to every rank.
LEMMA SolvedTo ==
  ASSUME NEW D, NEW V, NEW base \in V, NEW rank, NEW F, Descends(F, D, V, rank), NEW n \in Nat
  PROVE  \E f \in [D -> V] : SolvesTo(f, n, F, D, rank)
<1>. DEFINE T == {k \in Nat : \E f \in [D -> V] : SolvesTo(f, k, F, D, rank)}
<1>1. 0 \in T
  <2>1. [e \in D |-> base] \in [D -> V]
    OBVIOUS
  <2>2. SolvesTo([e \in D |-> base], 0, F, D, rank)
    BY DEF SolvesTo, Descends
  <2>. QED BY <2>1, <2>2
<1>2. ASSUME NEW k \in Nat, k \in T PROVE k + 1 \in T
  <2>1. PICK f \in [D -> V] : SolvesTo(f, k, F, D, rank)
    BY <1>2
  <2>. DEFINE g == [e \in D |-> F[<<f, e>>]]
  <2>2. g \in [D -> V]
    BY DEF Descends
  <2>3. ASSUME NEW e \in D, rank[e] < k + 1 PROVE g[e] = F[<<g, e>>]
    <3>1. ASSUME NEW d \in D, rank[d] < rank[e] PROVE f[d] = g[d]
      <4>1. rank[d] < k
        BY <2>3, <3>1 DEF Descends
      <4>2. f[d] = F[<<f, d>>]
        BY <2>1, <4>1 DEF SolvesTo
      <4>. QED BY <4>2
    <3>2. F[<<f, e>>] = F[<<g, e>>]
      <4>. HIDE DEF g
      <4>. QED BY <2>2, <3>1 DEF Descends
    <3>3. g[e] = F[<<f, e>>]
      OBVIOUS
    <3>. HIDE DEF g
    <3>. QED BY <3>2, <3>3
  <2>4. SolvesTo(g, k + 1, F, D, rank)
    <3>. HIDE DEF g
    <3>. QED BY <2>3 DEF SolvesTo
  <2>. HIDE DEF g
  <2>. QED BY <2>2, <2>4
<1>3. n \in T
  <2>. HIDE DEF T
  <2>. QED BY <1>1, <1>2, AllNat
<1>. QED BY <1>3

\* Two solutions agree where both are.
LEMMA SolvedAlike ==
  ASSUME NEW D, NEW V, NEW rank, NEW F, Descends(F, D, V, rank),
         NEW f \in [D -> V], NEW g \in [D -> V], NEW n \in Nat, NEW m \in Nat,
         SolvesTo(f, n, F, D, rank), SolvesTo(g, m, F, D, rank),
         NEW e \in D, rank[e] < n, rank[e] < m
  PROVE  f[e] = g[e]
<1>. DEFINE Good == {d \in D : rank[d] < n /\ rank[d] < m => f[d] = g[d]}
<1>1. ASSUME NEW d \in D, \A c \in D : rank[c] < rank[d] => c \in Good
      PROVE  d \in Good
  <2>. SUFFICES ASSUME rank[d] < n, rank[d] < m PROVE f[d] = g[d]
    OBVIOUS
  <2>1. \A c \in D : rank[c] < rank[d] => rank[c] < n /\ rank[c] < m
    BY DEF Descends
  <2>2. \A c \in D : rank[c] < rank[d] => f[c] = g[c]
    BY <1>1, <2>1
  <2>3. F[<<f, d>>] = F[<<g, d>>]
    BY <2>2 DEF Descends
  <2>. QED BY <2>3 DEF SolvesTo
<1>2. D \subseteq Good
  <2>1. rank \in [D -> Nat]
    BY DEF Descends
  <2>. HIDE DEF Good
  <2>. QED BY <1>1, <2>1, Upward
<1>. QED BY <1>2

\* So there is one for all ranks: the recursive function exists.
LEMMA Solved ==
  ASSUME NEW D, NEW V, V # {}, NEW rank, NEW F, Descends(F, D, V, rank)
  PROVE  \E f \in [D -> V] : Solves(f, F, D)
<1>. DEFINE Upto(n) == CHOOSE f \in [D -> V] : SolvesTo(f, n, F, D, rank)
            h == [e \in D |-> Upto(rank[e] + 1)[e]]
<1>1. \A n \in Nat : Upto(n) \in [D -> V] /\ SolvesTo(Upto(n), n, F, D, rank)
  <2>1. PICK base \in V : TRUE
    OBVIOUS
  <2>. QED BY <2>1, SolvedTo
<1>2. \A e \in D : rank[e] + 1 \in Nat /\ rank[e] \in Nat
  BY DEF Descends
<1>3. h \in [D -> V]
  <2>. HIDE DEF Upto
  <2>. QED BY <1>1, <1>2
<1>4. ASSUME NEW e \in D PROVE h[e] = F[<<h, e>>]
  <2>. DEFINE f == Upto(rank[e] + 1)
  <2>1. f \in [D -> V] /\ SolvesTo(f, rank[e] + 1, F, D, rank)
    <3>. HIDE DEF Upto
    <3>. QED BY <1>1, <1>2
  <2>2. ASSUME NEW d \in D, rank[d] < rank[e] PROVE h[d] = f[d]
    <3>. DEFINE g == Upto(rank[d] + 1)
    <3>1. g \in [D -> V] /\ SolvesTo(g, rank[d] + 1, F, D, rank)
      <4>. HIDE DEF Upto
      <4>. QED BY <1>1, <1>2
    <3>2. h[d] = g[d]
      <4>. HIDE DEF Upto
      <4>. QED OBVIOUS
    <3>3. rank[d] < rank[d] + 1 /\ rank[d] < rank[e] + 1
      BY <1>2, <2>2
    <3>4. rank[d] + 1 \in Nat /\ rank[e] + 1 \in Nat
      BY <1>2
    <3>. HIDE DEF f, g, h
    <3>5. g[d] = f[d]
      BY <2>1, <3>1, <3>3, <3>4, SolvedAlike
    <3>. QED BY <3>2, <3>5
  <2>3. h[e] = f[e]
    <3>. HIDE DEF Upto
    <3>. QED OBVIOUS
  <2>4. rank[e] < rank[e] + 1
    BY <1>2
  <2>. HIDE DEF f, h
  <2>5. f[e] = F[<<f, e>>]
    BY <2>1, <2>4 DEF SolvesTo
  <2>6. F[<<f, e>>] = F[<<h, e>>]
    BY <1>3, <2>1, <2>2 DEF Descends
  <2>. QED BY <2>3, <2>5, <2>6
<1>. HIDE DEF h
<1>. QED BY <1>3, <1>4 DEF Solves
-----------------------------------------------------------------------------
(* What conditions mean and their forms.                                   *)

\* The kinds of a condition and where its operands are.
LEMMA Kinds ==
  ASSUME NEW e \in Exprs
  PROVE  /\ e[1] \in {"atom", "raw", "arch", "not", "and", "or"}
         /\ e[1] \in {"atom", "raw"} => e[2] \in Atoms
         /\ e[1] = "arch" => e[2] \subseteq Atoms /\ IsFiniteSet(e[2])
         /\ e[1] \in {"not", "and", "or"} => e[2] \in Exprs /\ Depth[e[2]] < Depth[e]
         /\ e[1] \in {"and", "or"} => e[3] \in Exprs /\ Depth[e[3]] < Depth[e]
         /\ Depth[e] \in Nat
BY BooleanDnfAssumption

\* Sat, one step.
SatStep(f, e) ==
  CASE e[1] \in {"atom", "raw"} -> {w \in Worlds : e[2] \in w}
    [] e[1] = "arch" -> {w \in Worlds : e[2] \cap w # {}}
    [] e[1] = "not" -> Worlds \ f[e[2]]
    [] e[1] = "and" -> f[e[2]] \cap f[e[3]]
    [] OTHER -> f[e[2]] \cup f[e[3]]

\* Sat is what its definition says.
LEMMA SatIs ==
  /\ Sat \in [Exprs -> SUBSET Worlds]
  /\ \A e \in Exprs : Sat[e] = SatStep(Sat, e)
<1>. DEFINE V == SUBSET Worlds
            rank == [e \in Exprs |-> Depth[e]]
            F == [p \in [Exprs -> V] \X Exprs |-> SatStep(p[1], p[2])]
<1>1. ASSUME NEW f \in [Exprs -> V], NEW e \in Exprs PROVE SatStep(f, e) \in V
  BY Kinds DEF SatStep
<1>2. ASSUME NEW f \in [Exprs -> V], NEW e \in Exprs PROVE F[<<f, e>>] = SatStep(f, e)
  <2>. HIDE DEF V
  <2>. QED OBVIOUS
<1>3. F \in [[Exprs -> V] \X Exprs -> V]
  <2>. HIDE DEF V
  <2>. QED BY <1>1
<1>4. ASSUME NEW f \in [Exprs -> V], NEW g \in [Exprs -> V], NEW e \in Exprs,
             \A d \in Exprs : rank[d] < rank[e] => f[d] = g[d]
      PROVE  F[<<f, e>>] = F[<<g, e>>]
  <2>1. \A d \in Exprs : Depth[d] < Depth[e] => f[d] = g[d]
    BY <1>4
  <2>2. SatStep(f, e) = SatStep(g, e)
    <3>1. e[1] \in {"not", "and", "or"} => f[e[2]] = g[e[2]]
      BY <2>1, Kinds
    <3>2. e[1] \in {"and", "or"} => f[e[3]] = g[e[3]]
      BY <2>1, Kinds
    <3>. QED BY <3>1, <3>2, Kinds DEF SatStep
  <2>. HIDE DEF F, V
  <2>. QED BY <1>2, <2>2
<1>5. rank \in [Exprs -> Nat]
  BY Kinds
<1>6. Descends(F, Exprs, V, rank)
  <2>. HIDE DEF F, V, rank
  <2>. QED BY <1>3, <1>4, <1>5 DEF Descends
<1>7. PICK f \in [Exprs -> V] : Solves(f, F, Exprs)
  <2>1. V # {}
    OBVIOUS
  <2>. HIDE DEF F, V, rank
  <2>. QED BY <1>6, <2>1, Solved
<1>8. f = [e \in Exprs |-> SatStep(f, e)]
  <2>. HIDE DEF F, V
  <2>. QED BY <1>2, <1>7 DEF Solves
<1>9. Sat = [e \in Exprs |-> SatStep(Sat, e)]
  <2>1. \E g : g = [e \in Exprs |-> SatStep(g, e)]
    BY <1>8
  <2>2. Sat = CHOOSE g : g = [e \in Exprs |-> SatStep(g, e)]
    BY DEF Sat, SatStep
  <2>. QED BY <2>1, <2>2, Zenon
<1>10. \A e \in Exprs : Sat[e] = SatStep(Sat, e)
  BY <1>9, Zenon
<1>. DEFINE Good == {e \in Exprs : Sat[e] \in V}
<1>11. Exprs \subseteq Good
  <2>1. ASSUME NEW e \in Exprs, \A d \in Exprs : rank[d] < rank[e] => d \in Good
        PROVE  e \in Good
    <3>1. \A d \in Exprs : Depth[d] < Depth[e] => Sat[d] \in V
      BY <2>1
    <3>2. e[1] \in {"not", "and", "or"} => Sat[e[2]] \in V
      BY <3>1, Kinds
    <3>3. e[1] \in {"and", "or"} => Sat[e[3]] \in V
      BY <3>1, Kinds
    <3>4. SatStep(Sat, e) \in V
      BY <3>2, <3>3, Kinds DEF SatStep
    <3>. QED BY <1>10, <3>4
  <2>. HIDE DEF Good, rank
  <2>. QED BY <1>5, <2>1, Upward
<1>12. Sat \in [Exprs -> V]
  <2>1. Sat = [e \in Exprs |-> Sat[e]]
    BY <1>9, Zenon
  <2>. HIDE DEF V
  <2>. QED BY <1>11, <2>1
<1>. QED BY <1>10, <1>12
-----------------------------------------------------------------------------
(* What and and or do to forms.                                            *)

\* A world that satisfies two cubes satisfies their union, and conversely.
LEMMA HoldsBoth ==
  ASSUME NEW c, NEW d, NEW w
  PROVE  Holds(c \cup d, w) <=> Holds(c, w) /\ Holds(d, w)
BY DEF Holds

\* No world satisfies a contradictory cube.
LEMMA HoldsConsistent ==
  ASSUME NEW c \in SUBSET Literals, NEW w, Holds(c, w)
  PROVE  ~Contradictory(c)
<1>. SUFFICES ASSUME NEW l \in c, <<l[1], ~l[2]>> \in c PROVE FALSE
  BY DEF Contradictory
<1>1. (l[1] \in w) = l[2]
  BY DEF Holds
<1>2. (<<l[1], ~l[2]>>[1] \in w) = <<l[1], ~l[2]>>[2]
  BY DEF Holds
<1>3. (l[1] \in w) = ~l[2]
  BY <1>2
<1>4. l[2] \in BOOLEAN
  BY DEF Literals
<1>. QED BY <1>1, <1>3, <1>4

\* The cubes of a conjunction before the contradictory ones are dropped.
Joined(a, b) == {c \cup d : c \in a, d \in b}

\* The joined cubes of two finite forms are finitely many.
LEMMA JoinedFinite ==
  ASSUME NEW a, NEW b, IsFiniteSet(a), IsFiniteSet(b)
  PROVE  IsFiniteSet(Joined(a, b))
<1>. DEFINE f == [p \in a \X b |-> p[1] \cup p[2]]
<1>1. IsFiniteSet(a \X b)
  BY FS_Product
<1>2. f \in [a \X b -> Joined(a, b)]
  BY DEF Joined
<1>3. ASSUME NEW t \in Joined(a, b) PROVE \E p \in a \X b : f[p] = t
  <2>1. PICK c \in a, d \in b : t = c \cup d
    BY DEF Joined
  <2>2. <<c, d>> \in a \X b /\ f[<<c, d>>] = t
    BY <2>1
  <2>. QED BY <2>2
<1>4. f \in Surjection(a \X b, Joined(a, b))
  <2>. HIDE DEF f
  <2>. QED BY <1>2, <1>3 DEF Surjection
<1>. HIDE DEF f
<1>. QED BY <1>1, <1>4, FS_Surjection

\* The conjunction of two forms that fits is a form of what both say.
LEMMA AndExact ==
  ASSUME NoneApart, NEW a \in Forms \cup {None}, NEW b \in Forms \cup {None}, And(a, b) # None
  PROVE  /\ a \in Forms /\ b \in Forms /\ And(a, b) \in Forms
         /\ Models(And(a, b)) = Models(a) \cap Models(b)
<1>. DEFINE J == Joined(a, b)
            M == {m \in J : ~Contradictory(m)}
<1>1. a # None /\ b # None
  BY DEF And
<1>2. a \in Forms /\ b \in Forms
  BY <1>1
<1>3. And(a, b) = M
  <2>1. And(a, b) = IF a = None \/ b = None THEN None ELSE Capped(M)
    BY DEF And, Joined
  <2>. HIDE DEF M
  <2>2. And(a, b) = Capped(M)
    BY <1>1, <2>1
  <2>3. Capped(M) # None
    BY <2>2
  <2>. QED BY <2>2, <2>3 DEF Capped
<1>4. J \subseteq SUBSET Literals
  BY <1>2 DEF Forms, Joined
<1>5. IsFiniteSet(M)
  <2>1. IsFiniteSet(J)
    <3>1. IsFiniteSet(a) /\ IsFiniteSet(b)
      BY <1>2 DEF Forms
    <3>. QED BY <3>1, JoinedFinite
  <2>2. M \in SUBSET J
    OBVIOUS
  <2>. HIDE DEF J, M
  <2>. QED BY <2>1, <2>2, FS_Subset
<1>6. M \in Forms
  <2>1. M \in SUBSET SUBSET Literals /\ \A m \in M : ~Contradictory(m)
    BY <1>4
  <2>. HIDE DEF J, M
  <2>. QED BY <1>5, <2>1 DEF Forms
<1>7. ASSUME NEW w \in Worlds
      PROVE  (\E m \in M : Holds(m, w)) <=> (\E c \in a : Holds(c, w)) /\ (\E d \in b : Holds(d, w))
  <2>1. ASSUME NEW m \in M, Holds(m, w)
        PROVE  (\E c \in a : Holds(c, w)) /\ (\E d \in b : Holds(d, w))
    <3>1. PICK c \in a, d \in b : m = c \cup d
      BY DEF Joined
    <3>. QED BY <2>1, <3>1, HoldsBoth
  <2>2. ASSUME NEW c \in a, NEW d \in b, Holds(c, w), Holds(d, w)
        PROVE  \E m \in M : Holds(m, w)
    <3>1. Holds(c \cup d, w)
      BY <2>2, HoldsBoth
    <3>2. c \cup d \in SUBSET Literals
      BY <1>2 DEF Forms
    <3>3. ~Contradictory(c \cup d)
      BY <3>1, <3>2, HoldsConsistent
    <3>4. c \cup d \in M
      BY <3>3 DEF Joined
    <3>. QED BY <3>1, <3>4
  <2>. HIDE DEF M
  <2>. QED BY <2>1, <2>2
<1>8. Models(M) = Models(a) \cap Models(b)
  <2>. HIDE DEF M
  <2>. QED BY <1>7 DEF Models
<1>. HIDE DEF M
<1>. QED BY <1>2, <1>3, <1>6, <1>8

\* The disjunction of two forms that fits is a form of what either says.
LEMMA OrExact ==
  ASSUME NoneApart, NEW a \in Forms \cup {None}, NEW b \in Forms \cup {None}, Or(a, b) # None
  PROVE  /\ a \in Forms /\ b \in Forms /\ Or(a, b) \in Forms
         /\ Models(Or(a, b)) = Models(a) \cup Models(b)
<1>1. a # None /\ b # None /\ Or(a, b) = a \cup b
  BY DEF Or, Capped
<1>2. a \in Forms /\ b \in Forms
  BY <1>1
<1>3. IsFiniteSet(a \cup b)
  BY <1>2, FS_Union DEF Forms
<1>4. a \cup b \in Forms
  BY <1>2, <1>3 DEF Forms
<1>5. Models(a \cup b) = Models(a) \cup Models(b)
  BY DEF Models
<1>. QED BY <1>1, <1>2, <1>4, <1>5

\* A form that says nothing is possible is empty: its cubes can all be met.
LEMMA NoModelsEmpty ==
  ASSUME NEW dnf \in Forms, Models(dnf) = {}
  PROVE  dnf = {}
<1>. SUFFICES ASSUME NEW c \in dnf PROVE FALSE
  OBVIOUS
<1>. DEFINE w == {a \in Atoms : <<a, TRUE>> \in c}
<1>1. c \in SUBSET Literals /\ ~Contradictory(c)
  BY DEF Forms
<1>2. ASSUME NEW l \in c PROVE (l[1] \in w) = l[2]
  <2>1. PICK a \in Atoms, s \in BOOLEAN : l = <<a, s>>
    BY <1>1 DEF Literals
  <2>2. l[1] = a /\ l[2] = s
    BY <2>1
  <2>3. <<a, ~s>> \notin c
    BY <1>1, <2>2 DEF Contradictory
  <2>4. a \in w <=> s
    BY <2>1, <2>3
  <2>. HIDE DEF w
  <2>. QED BY <2>2, <2>4
<1>3. w \in Worlds /\ Holds(c, w)
  <2>1. w \in Worlds
    BY DEF Worlds
  <2>. HIDE DEF w
  <2>. QED BY <1>2, <2>1 DEF Holds
<1>. QED BY <1>3 DEF Models
-----------------------------------------------------------------------------
(* The form of a condition.                                                *)

\* What is a form.
LEMMA FormIs ==
  ASSUME NEW dnf, IsFiniteSet(dnf),
         \A c \in dnf : c \subseteq Literals /\ ~Contradictory(c)
  PROVE  dnf \in Forms
<1>1. dnf \in SUBSET SUBSET Literals
  OBVIOUS
<1>. QED BY <1>1 DEF Forms

\* What a literal says.
LEMMA LiteralIs ==
  ASSUME NEW a \in Atoms, NEW s \in BOOLEAN
  PROVE  /\ <<a, s>> \in Literals /\ <<a, s>>[1] = a /\ <<a, s>>[2] = s
         /\ \A w : Holds({<<a, s>>}, w) <=> (a \in w) = s
         /\ ~Contradictory({<<a, s>>})
<1>1. <<a, s>> \in Literals
  BY DEF Literals
<1>2. <<a, s>>[1] = a /\ <<a, s>>[2] = s
  OBVIOUS
<1>3. ASSUME NEW w PROVE Holds({<<a, s>>}, w) <=> (a \in w) = s
  BY DEF Holds
<1>4. ~Contradictory({<<a, s>>})
  <2>1. <<a, ~s>> # <<a, s>>
    OBVIOUS
  <2>. QED BY <1>2, <2>1 DEF Contradictory
<1>. QED BY <1>1, <1>2, <1>3, <1>4

\* A literal by itself is a form that says it.
LEMMA LiteralForm ==
  ASSUME NEW x \in Atoms, NEW s \in BOOLEAN
  PROVE  /\ {{<<x, s>>}} \in Forms
         /\ Models({{<<x, s>>}}) = {w \in Worlds : (x \in w) = s}
<1>. DEFINE c == {<<x, s>>}
<1>1. IsFiniteSet({c})
  BY FS_Singleton
<1>2. c \subseteq Literals /\ ~Contradictory(c)
  BY LiteralIs
<1>3. \A w : Holds(c, w) <=> (x \in w) = s
  BY LiteralIs
<1>. HIDE DEF c
<1>4. {c} \in Forms
  BY <1>1, <1>2, FormIs
<1>5. Models({c}) = {w \in Worlds : (x \in w) = s}
  BY <1>3 DEF Models
<1>. QED BY <1>4, <1>5 DEF c

\* The cube of a list of architectures negated.
NoneOf(list) == {<<a, FALSE>> : a \in list}

\* None of a list: one cube.
LEMMA NoneOfForm ==
  ASSUME NEW list \in SUBSET Atoms
  PROVE  /\ {NoneOf(list)} \in Forms
         /\ Models({NoneOf(list)}) = {w \in Worlds : list \cap w = {}}
<1>1. IsFiniteSet({NoneOf(list)})
  BY FS_Singleton
<1>2. \A l \in NoneOf(list) : \E a \in list : l = <<a, FALSE>>
  BY DEF NoneOf
<1>3. ASSUME NEW l \in NoneOf(list) PROVE l \in Literals
  <2>1. PICK a \in list : l = <<a, FALSE>>
    BY <1>2, Zenon
  <2>. QED BY <2>1 DEF Literals
<1>4. ~Contradictory(NoneOf(list))
  <2>. SUFFICES ASSUME NEW l \in NoneOf(list), <<l[1], ~l[2]>> \in NoneOf(list) PROVE FALSE
    BY DEF Contradictory
  <2>1. PICK a \in list : l = <<a, FALSE>>
    BY <1>2, Zenon
  <2>2. l[2] = FALSE
    BY <2>1
  <2>3. <<l[1], TRUE>> \in NoneOf(list)
    BY <2>2
  <2>4. PICK b \in list : <<l[1], TRUE>> = <<b, FALSE>>
    BY <1>2, <2>3, Zenon
  <2>. QED BY <2>4
<1>5. {NoneOf(list)} \in Forms
  BY <1>1, <1>3, <1>4, FormIs
<1>6. ASSUME NEW w PROVE Holds(NoneOf(list), w) <=> list \cap w = {}
  <2>1. ASSUME Holds(NoneOf(list), w), NEW a \in list PROVE a \notin w
    <3>1. <<a, FALSE>> \in NoneOf(list)
      BY DEF NoneOf
    <3>2. (<<a, FALSE>>[1] \in w) = <<a, FALSE>>[2]
      BY <2>1, <3>1 DEF Holds
    <3>. QED BY <3>2
  <2>2. ASSUME list \cap w = {}, NEW l \in NoneOf(list) PROVE (l[1] \in w) = l[2]
    <3>1. PICK a \in list : l = <<a, FALSE>>
      BY <1>2, Zenon
    <3>2. l[1] = a /\ l[2] = FALSE
      BY <3>1
    <3>3. (a \in w) = FALSE
      BY <2>2
    <3>. QED BY <3>2, <3>3, Zenon
  <2>. QED BY <2>1, <2>2 DEF Holds
<1>. QED BY <1>5, <1>6 DEF Models

\* The cubes of a list of architectures.
OneOf(list) == {{<<a, TRUE>>} : a \in list}

\* One of a list: a cube for each.
LEMMA OneOfForm ==
  ASSUME NEW list \in SUBSET Atoms, IsFiniteSet(list)
  PROVE  /\ OneOf(list) \in Forms
         /\ Models(OneOf(list)) = {w \in Worlds : list \cap w # {}}
<1>. DEFINE f == [a \in list |-> {<<a, TRUE>>}]
<1>1. f \in Surjection(list, OneOf(list))
  <2>1. f \in [list -> OneOf(list)]
    BY DEF OneOf
  <2>2. \A t \in OneOf(list) : \E a \in list : f[a] = t
    BY DEF OneOf
  <2>. HIDE DEF f
  <2>. QED BY <2>1, <2>2 DEF Surjection
<1>2. IsFiniteSet(OneOf(list))
  <2>. HIDE DEF f
  <2>. QED BY <1>1, FS_Surjection
<1>3. ASSUME NEW c \in OneOf(list) PROVE c \subseteq Literals /\ ~Contradictory(c)
  <2>1. PICK a \in list : c = {<<a, TRUE>>}
    BY DEF OneOf
  <2>2. a \in Atoms /\ TRUE \in BOOLEAN
    OBVIOUS
  <2>3. <<a, TRUE>> \in Literals /\ ~Contradictory({<<a, TRUE>>})
    BY <2>2, LiteralIs, Zenon
  <2>. QED BY <2>1, <2>3
<1>4. OneOf(list) \in Forms
  BY <1>2, <1>3, FormIs
<1>5. ASSUME NEW a \in list, NEW w PROVE Holds({<<a, TRUE>>}, w) <=> a \in w
  <2>1. Holds({<<a, TRUE>>}, w) <=> (a \in w) = TRUE
    BY LiteralIs
  <2>. QED BY <2>1
<1>6. ASSUME NEW w PROVE (\E c \in OneOf(list) : Holds(c, w)) <=> list \cap w # {}
  <2>1. ASSUME NEW c \in OneOf(list), Holds(c, w) PROVE list \cap w # {}
    <3>1. PICK a \in list : c = {<<a, TRUE>>}
      BY DEF OneOf
    <3>. QED BY <1>5, <2>1, <3>1
  <2>2. ASSUME NEW a \in list, a \in w PROVE \E c \in OneOf(list) : Holds(c, w)
    <3>1. {<<a, TRUE>>} \in OneOf(list)
      BY DEF OneOf
    <3>. QED BY <1>5, <2>2, <3>1
  <2>. QED BY <2>1, <2>2
<1>. QED BY <1>4, <1>6 DEF Models

\* Dnf, one step.
DnfStep(f, e) ==
  [neg \in BOOLEAN |->
    CASE e[1] = "atom" -> {{<<e[2], ~neg>>}}
      [] e[1] = "raw" -> None
      [] e[1] = "arch" -> IF neg THEN {{<<a, FALSE>> : a \in e[2]}}
                                 ELSE {{<<a, TRUE>>} : a \in e[2]}
      [] e[1] = "not" -> f[e[2]][~neg]
      [] e[1] = (IF neg THEN "or" ELSE "and") -> And(f[e[2]][neg], f[e[3]][neg])
      [] OTHER -> Or(f[e[2]][neg], f[e[3]][neg])]

\* v is what one step makes of f, by the kind of the condition.
StepIs(v, f, e, neg) ==
  /\ e[1] = "atom" => v = {{<<e[2], ~neg>>}}
  /\ e[1] = "raw" => v = None
  /\ e[1] = "arch" => v = IF neg THEN {NoneOf(e[2])} ELSE OneOf(e[2])
  /\ e[1] = "not" => v = f[e[2]][~neg]
  /\ (e[1] = "and" /\ ~neg) \/ (e[1] = "or" /\ neg) => v = And(f[e[2]][neg], f[e[3]][neg])
  /\ (e[1] = "and" /\ neg) \/ (e[1] = "or" /\ ~neg) => v = Or(f[e[2]][neg], f[e[3]][neg])

\* The step, kind by kind.
LEMMA DnfSteps ==
  ASSUME NEW f, NEW e \in Exprs, NEW neg \in BOOLEAN
  PROVE  StepIs(DnfStep(f, e)[neg], f, e, neg)
<1>. DEFINE v == DnfStep(f, e)[neg]
<1>1. v = CASE e[1] = "atom" -> {{<<e[2], ~neg>>}}
            [] e[1] = "raw" -> None
            [] e[1] = "arch" -> IF neg THEN {NoneOf(e[2])} ELSE OneOf(e[2])
            [] e[1] = "not" -> f[e[2]][~neg]
            [] e[1] = (IF neg THEN "or" ELSE "and") -> And(f[e[2]][neg], f[e[3]][neg])
            [] OTHER -> Or(f[e[2]][neg], f[e[3]][neg])
  BY DEF DnfStep, NoneOf, OneOf
<1>. HIDE DEF v
<1>2. e[1] = "atom" => v = {{<<e[2], ~neg>>}}
  BY <1>1
<1>3. e[1] = "raw" => v = None
  BY <1>1
<1>4. e[1] = "arch" => v = IF neg THEN {NoneOf(e[2])} ELSE OneOf(e[2])
  BY <1>1
<1>5. e[1] = "not" => v = f[e[2]][~neg]
  BY <1>1
<1>6. (e[1] = "and" /\ ~neg) \/ (e[1] = "or" /\ neg) => v = And(f[e[2]][neg], f[e[3]][neg])
  BY <1>1
<1>7. (e[1] = "and" /\ neg) \/ (e[1] = "or" /\ ~neg) => v = Or(f[e[2]][neg], f[e[3]][neg])
  BY <1>1
<1>. QED BY <1>2, <1>3, <1>4, <1>5, <1>6, <1>7 DEF v, StepIs

\* One step gives forms, or None.
LEMMA DnfStepForms ==
  ASSUME NoneApart, NEW f, NEW e \in Exprs,
         e[1] \in {"not", "and", "or"} => f[e[2]] \in [BOOLEAN -> Forms \cup {None}],
         e[1] \in {"and", "or"} => f[e[3]] \in [BOOLEAN -> Forms \cup {None}]
  PROVE  DnfStep(f, e) \in [BOOLEAN -> Forms \cup {None}]
<1>1. ASSUME NEW neg \in BOOLEAN PROVE DnfStep(f, e)[neg] \in Forms \cup {None}
  <2>. DEFINE v == DnfStep(f, e)[neg]
  <2>0. StepIs(v, f, e, neg)
    BY DnfSteps
  <2>. HIDE DEF v
  <2>. SUFFICES v \in Forms \cup {None}
    BY DEF v
  <2>1. CASE e[1] = "atom"
    <3>1. e[2] \in Atoms /\ (~neg) \in BOOLEAN
      BY <2>1, Kinds
    <3>2. {{<<e[2], ~neg>>}} \in Forms
      BY <3>1, LiteralForm
    <3>. QED BY <2>0, <2>1, <3>2 DEF StepIs
  <2>2. CASE e[1] = "raw"
    BY <2>0, <2>2 DEF StepIs
  <2>3. CASE e[1] = "arch"
    <3>1. e[2] \in SUBSET Atoms /\ IsFiniteSet(e[2])
      BY <2>3, Kinds
    <3>2. {NoneOf(e[2])} \in Forms /\ OneOf(e[2]) \in Forms
      BY <3>1, NoneOfForm, OneOfForm
    <3>3. v = IF neg THEN {NoneOf(e[2])} ELSE OneOf(e[2])
      BY <2>0, <2>3 DEF StepIs
    <3>. QED BY <3>2, <3>3
  <2>4. CASE e[1] = "not"
    <3>1. v = f[e[2]][~neg] /\ (~neg) \in BOOLEAN
      BY <2>0, <2>4 DEF StepIs
    <3>. QED BY <2>4, <3>1
  <2>5. CASE e[1] \in {"and", "or"}
    <3>. DEFINE a == f[e[2]][neg]
                b == f[e[3]][neg]
    <3>1. a \in Forms \cup {None} /\ b \in Forms \cup {None}
      BY <2>5
    <3>2. v \in {And(a, b), Or(a, b)}
      BY <2>0, <2>5 DEF StepIs
    <3>. HIDE DEF a, b
    <3>3. And(a, b) \in Forms \cup {None} /\ Or(a, b) \in Forms \cup {None}
      BY <3>1, AndExact, OrExact
    <3>. QED BY <3>2, <3>3
  <2>. QED BY <2>1, <2>2, <2>3, <2>4, <2>5, Kinds
<1>2. DnfStep(f, e) = [neg \in BOOLEAN |-> DnfStep(f, e)[neg]]
  BY DEF DnfStep
<1>. QED BY <1>1, <1>2

\* Dnf is what its definition says.
LEMMA DnfIs ==
  ASSUME NoneApart
  PROVE  /\ Dnf \in [Exprs -> [BOOLEAN -> Forms \cup {None}]]
         /\ \A e \in Exprs : Dnf[e] = DnfStep(Dnf, e)
<1>. DEFINE V == [BOOLEAN -> Forms \cup {None}]
            rank == [e \in Exprs |-> Depth[e]]
            F == [p \in [Exprs -> V] \X Exprs |-> DnfStep(p[1], p[2])]
            Good == {e \in Exprs : Dnf[e] \in V}
<1>1. ASSUME NEW f \in [Exprs -> V], NEW e \in Exprs PROVE DnfStep(f, e) \in V
  <2>1. e[1] \in {"not", "and", "or"} => f[e[2]] \in V
    BY Kinds
  <2>2. e[1] \in {"and", "or"} => f[e[3]] \in V
    BY Kinds
  <2>. QED BY <2>1, <2>2, DnfStepForms
<1>2. ASSUME NEW f \in [Exprs -> V], NEW e \in Exprs PROVE F[<<f, e>>] = DnfStep(f, e)
  <2>. HIDE DEF V
  <2>. QED OBVIOUS
<1>3. F \in [[Exprs -> V] \X Exprs -> V]
  <2>. HIDE DEF V
  <2>. QED BY <1>1
<1>4. ASSUME NEW f \in [Exprs -> V], NEW g \in [Exprs -> V], NEW e \in Exprs,
             \A d \in Exprs : rank[d] < rank[e] => f[d] = g[d]
      PROVE  F[<<f, e>>] = F[<<g, e>>]
  <2>1. \A d \in Exprs : Depth[d] < Depth[e] => f[d] = g[d]
    BY <1>4
  <2>2. e[1] \in {"not", "and", "or"} => f[e[2]] = g[e[2]]
    BY <2>1, Kinds
  <2>3. e[1] \in {"and", "or"} => f[e[3]] = g[e[3]]
    BY <2>1, Kinds
  <2>4. ASSUME NEW neg \in BOOLEAN PROVE DnfStep(f, e)[neg] = DnfStep(g, e)[neg]
    <3>0. StepIs(DnfStep(f, e)[neg], f, e, neg) /\ StepIs(DnfStep(g, e)[neg], g, e, neg)
      BY DnfSteps
    <3>1. CASE e[1] = "atom"
      BY <3>0, <3>1 DEF StepIs
    <3>2. CASE e[1] = "raw"
      BY <3>0, <3>2 DEF StepIs
    <3>3. CASE e[1] = "arch"
      BY <3>0, <3>3 DEF StepIs
    <3>4. CASE e[1] = "not"
      BY <3>0, <2>2, <3>4 DEF StepIs
    <3>5. CASE e[1] = "and"
      BY <3>0, <2>2, <2>3, <3>5 DEF StepIs
    <3>6. CASE e[1] = "or"
      BY <3>0, <2>2, <2>3, <3>6 DEF StepIs
    <3>. QED BY <3>1, <3>2, <3>3, <3>4, <3>5, <3>6, Kinds
  <2>5. DnfStep(f, e) = DnfStep(g, e)
    <3>1. DnfStep(f, e) \in V /\ DnfStep(g, e) \in V
      BY <1>1
    <3>. QED BY <2>4, <3>1
  <2>. HIDE DEF F, V
  <2>. QED BY <1>2, <2>5
<1>5. rank \in [Exprs -> Nat]
  BY Kinds
<1>6. Descends(F, Exprs, V, rank)
  <2>. HIDE DEF F, V, rank
  <2>. QED BY <1>3, <1>4, <1>5 DEF Descends
<1>7. PICK f \in [Exprs -> V] : Solves(f, F, Exprs)
  <2>1. [neg \in BOOLEAN |-> None] \in V
    OBVIOUS
  <2>. HIDE DEF F, V, rank
  <2>. QED BY <1>6, <2>1, Solved
<1>8. f = [e \in Exprs |-> DnfStep(f, e)]
  <2>. HIDE DEF F, V
  <2>. QED BY <1>2, <1>7 DEF Solves
<1>9. Dnf = [e \in Exprs |-> DnfStep(Dnf, e)]
  <2>1. \E g : g = [e \in Exprs |-> DnfStep(g, e)]
    BY <1>8
  <2>2. Dnf = CHOOSE g : g = [e \in Exprs |-> DnfStep(g, e)]
    BY DEF Dnf, DnfStep
  <2>. QED BY <2>1, <2>2, Zenon
<1>10. \A e \in Exprs : Dnf[e] = DnfStep(Dnf, e)
  BY <1>9, Zenon
<1>11. Exprs \subseteq Good
  <2>1. ASSUME NEW e \in Exprs, \A d \in Exprs : rank[d] < rank[e] => d \in Good
        PROVE  e \in Good
    <3>1. \A d \in Exprs : Depth[d] < Depth[e] => Dnf[d] \in V
      BY <2>1
    <3>. HIDE DEF V
    <3>2. e[1] \in {"not", "and", "or"} => Dnf[e[2]] \in V
      BY <3>1, Kinds
    <3>3. e[1] \in {"and", "or"} => Dnf[e[3]] \in V
      BY <3>1, Kinds
    <3>4. DnfStep(Dnf, e) \in V
      BY <3>2, <3>3, DnfStepForms DEF V
    <3>. QED BY <1>10, <3>4
  <2>. HIDE DEF Good, rank
  <2>. QED BY <1>5, <2>1, Upward
<1>12. Dnf \in [Exprs -> V]
  <2>1. Dnf = [e \in Exprs |-> Dnf[e]]
    BY <1>9, Zenon
  <2>. HIDE DEF V
  <2>. QED BY <1>11, <2>1
<1>. QED BY <1>10, <1>12

\* What a condition means, or its negation.
Meant(e, neg) == IF neg THEN Worlds \ Sat[e] ELSE Sat[e]

\* to_dnf: a normal form says what its condition says, or the opposite where
\* the condition was negated.
THEOREM FormsMean ==
  ASSUME NoneApart
  PROVE  \A e \in Exprs, neg \in BOOLEAN :
           Dnf[e][neg] # None => Dnf[e][neg] \in Forms /\ Models(Dnf[e][neg]) = Meant(e, neg)
<1>. DEFINE rank == [e \in Exprs |-> Depth[e]]
            Good == {e \in Exprs : \A neg \in BOOLEAN :
                       Dnf[e][neg] # None => Models(Dnf[e][neg]) = Meant(e, neg)}
<1>1. rank \in [Exprs -> Nat]
  BY Kinds
<1>2. \A e \in Exprs, neg \in BOOLEAN : Dnf[e][neg] \in Forms \cup {None}
  BY DnfIs
<1>3. ASSUME NEW e \in Exprs, \A d \in Exprs : rank[d] < rank[e] => d \in Good
      PROVE  e \in Good
  <2>1. \A d \in Exprs : Depth[d] < Depth[e] => d \in Good
    BY <1>3
  <2>2. e[1] \in {"not", "and", "or"} => e[2] \in Good
    <3>. HIDE DEF Good
    <3>. QED BY <2>1, Kinds
  <2>3. e[1] \in {"and", "or"} => e[3] \in Good
    <3>. HIDE DEF Good
    <3>. QED BY <2>1, Kinds
  <2>4. Sat[e] = SatStep(Sat, e) /\ Dnf[e] = DnfStep(Dnf, e)
    BY SatIs, DnfIs
  <2>5. \A d \in Exprs : Sat[d] \subseteq Worlds
    BY SatIs
  <2>6. ASSUME NEW neg \in BOOLEAN, Dnf[e][neg] # None PROVE Models(Dnf[e][neg]) = Meant(e, neg)
    <3>0. StepIs(Dnf[e][neg], Dnf, e, neg)
      BY <2>4, DnfSteps
    <3>1. CASE e[1] = "atom"
      <4>1. e[2] \in Atoms /\ (~neg) \in BOOLEAN
        BY <3>1, Kinds
      <4>2. Dnf[e][neg] = {{<<e[2], ~neg>>}}
        BY <3>0, <2>4, <3>1 DEF StepIs
      <4>3. Models({{<<e[2], ~neg>>}}) = {w \in Worlds : (e[2] \in w) = ~neg}
        BY <4>1, LiteralForm
      <4>4. Sat[e] = {w \in Worlds : e[2] \in w}
        BY <2>4, <3>1 DEF SatStep
      <4>5. {w \in Worlds : (e[2] \in w) = ~neg} = Meant(e, neg)
        BY <4>4 DEF Meant
      <4>. QED BY <4>2, <4>3, <4>5
    <3>2. CASE e[1] = "raw"
      BY <3>0, <2>4, <2>6, <3>2 DEF StepIs
    <3>3. CASE e[1] = "arch"
      <4>1. e[2] \in SUBSET Atoms /\ IsFiniteSet(e[2])
        BY <3>3, Kinds
      <4>2. Dnf[e][neg] = IF neg THEN {NoneOf(e[2])} ELSE OneOf(e[2])
        BY <3>0, <2>4, <3>3 DEF StepIs
      <4>3. /\ Models({NoneOf(e[2])}) = {w \in Worlds : e[2] \cap w = {}}
            /\ Models(OneOf(e[2])) = {w \in Worlds : e[2] \cap w # {}}
        BY <4>1, NoneOfForm, OneOfForm
      <4>4. Sat[e] = {w \in Worlds : e[2] \cap w # {}}
        BY <2>4, <3>3 DEF SatStep
      <4>5. CASE neg
        BY <4>2, <4>3, <4>4, <4>5 DEF Meant
      <4>6. CASE ~neg
        BY <4>2, <4>3, <4>4, <4>6 DEF Meant
      <4>. QED BY <4>5, <4>6
    <3>4. CASE e[1] = "not"
      <4>1. Dnf[e][neg] = Dnf[e[2]][~neg] /\ (~neg) \in BOOLEAN
        BY <3>0, <2>4, <3>4 DEF StepIs
      <4>2. e[2] \in Exprs /\ Sat[e] = Worlds \ Sat[e[2]]
        BY <2>4, <3>4, Kinds DEF SatStep
      <4>3. Models(Dnf[e][neg]) = Meant(e[2], ~neg)
        BY <2>2, <2>6, <3>4, <4>1
      <4>. QED BY <2>5, <4>2, <4>3 DEF Meant
    <3>5. CASE e[1] \in {"and", "or"}
      <4>. DEFINE a == Dnf[e[2]][neg]
                  b == Dnf[e[3]][neg]
      <4>1. e[2] \in Exprs /\ e[3] \in Exprs
        BY <3>5, Kinds
      <4>2. a \in Forms \cup {None} /\ b \in Forms \cup {None}
        BY <1>2, <4>1
      <4>3. /\ a # None => Models(a) = Meant(e[2], neg)
            /\ b # None => Models(b) = Meant(e[3], neg)
        BY <2>2, <2>3, <3>5
      <4>4. /\ e[1] = "and" => Sat[e] = Sat[e[2]] \cap Sat[e[3]]
            /\ e[1] = "or" => Sat[e] = Sat[e[2]] \cup Sat[e[3]]
        BY <2>4 DEF SatStep
      <4>5. CASE (e[1] = "and" /\ ~neg) \/ (e[1] = "or" /\ neg)
        <5>1. Dnf[e][neg] = And(a, b)
          BY <3>0, <2>4, <4>5 DEF StepIs
        <5>. HIDE DEF a, b
        <5>2. /\ a \in Forms /\ b \in Forms
              /\ Models(Dnf[e][neg]) = Models(a) \cap Models(b)
          BY <2>6, <4>2, <5>1, AndExact
        <5>3. a # None /\ b # None
          BY <5>2 DEF NoneApart, Forms
        <5>. QED BY <2>5, <4>1, <4>3, <4>4, <4>5, <5>2, <5>3 DEF Meant
      <4>6. CASE (e[1] = "and" /\ neg) \/ (e[1] = "or" /\ ~neg)
        <5>1. Dnf[e][neg] = Or(a, b)
          BY <3>0, <2>4, <4>6 DEF StepIs
        <5>. HIDE DEF a, b
        <5>2. /\ a \in Forms /\ b \in Forms
              /\ Models(Dnf[e][neg]) = Models(a) \cup Models(b)
          BY <2>6, <4>2, <5>1, OrExact
        <5>3. a # None /\ b # None
          BY <5>2 DEF NoneApart, Forms
        <5>. QED BY <2>5, <4>1, <4>3, <4>4, <4>6, <5>2, <5>3 DEF Meant
      <4>. QED BY <3>5, <4>5, <4>6
    <3>. QED BY <3>1, <3>2, <3>3, <3>4, <3>5, Kinds
  <2>. QED BY <2>6
<1>4. Exprs \subseteq Good
  <2>. HIDE DEF Good, rank
  <2>. QED BY <1>1, <1>3, Upward
<1>. QED BY <1>2, <1>4
-----------------------------------------------------------------------------
(* Chains: the negations of earlier branches, one after the other.         *)

\* Max of a nonempty set of indices is its greatest.
LEMMA MaxIn ==
  ASSUME NEW n \in Nat, NEW T, T \subseteq 1..n, T # {}
  PROVE  Max(T) \in T /\ \A y \in T : Max(T) >= y
<1>. DEFINE Left == {n - y : y \in T}
<1>0. \A y \in T : y \in 1..n /\ n - y \in Nat
  OBVIOUS
<1>1. Left \subseteq Nat /\ Left # {}
  BY <1>0
<1>2. PICK x \in Left : \A y \in Left : x <= y
  BY <1>1, NatLeast
<1>3. PICK m \in T : x = n - m
  BY <1>2
<1>4. \A y \in T : n - m <= n - y
  BY <1>2, <1>3
<1>5. \A y \in T : m >= y
  BY <1>4
<1>. QED BY <1>5 DEF Max

\* The sets a fold goes through, from the last entry down to none.
LEMMA Downward ==
  ASSUME NEW k \in Nat, k # 0
  PROVE  Max(1..k) = k /\ 1..k # {} /\ (1..k) \ {k} = 1..(k - 1)
<1>1. k \in 1..k /\ 1..k # {} /\ (1..k) \ {k} = 1..(k - 1)
  OBVIOUS
<1>2. Max(1..k) \in 1..k /\ \A y \in 1..k : Max(1..k) >= y
  BY <1>1, MaxIn
<1>3. PICK x : x = Max(1..k)
  OBVIOUS
<1>4. x \in 1..k /\ x >= k
  BY <1>1, <1>2, <1>3
<1>5. x = k
  BY <1>4
<1>. QED BY <1>1, <1>3, <1>5

\* The form of the negation of each branch of a chain.
LEMMA Negations ==
  ASSUME NoneApart, NEW priors \in Seq(Exprs), NEW i \in 1..Len(priors)
  PROVE  /\ priors[i] \in Exprs
         /\ Dnf[priors[i]][TRUE] \in Forms \cup {None}
         /\ Dnf[priors[i]][TRUE] # None => Models(Dnf[priors[i]][TRUE]) = Worlds \ Sat[priors[i]]
<1>1. priors[i] \in Exprs
  BY ElementOfSeq
<1>2. TRUE \in BOOLEAN
  OBVIOUS
<1>3. Dnf[priors[i]][TRUE] \in Forms \cup {None}
  BY <1>1, <1>2, DnfIs
<1>4. Dnf[priors[i]][TRUE] # None => Models(Dnf[priors[i]][TRUE]) = Meant(priors[i], TRUE)
  BY <1>1, <1>2, FormsMean
<1>. QED BY <1>1, <1>3, <1>4 DEF Meant

\* The conjunction of two forms is a form or None.
LEMMA AndForm ==
  ASSUME NoneApart, NEW a \in Forms \cup {None}, NEW b \in Forms \cup {None}
  PROVE  And(a, b) \in Forms \cup {None}
BY AndExact

\* conjoin, unfolded.
LEMMA ConjoinSteps ==
  ASSUME NoneApart, NEW acc \in Forms \cup {None}, NEW priors \in Seq(Exprs)
  PROVE  \E h : /\ h[0] = acc
                /\ \A k \in 1..Len(priors) : h[k] = And(h[k - 1], Dnf[priors[k]][TRUE])
                /\ Conjoined(acc, priors) = h[Len(priors)]
<1>. DEFINE n == Len(priors)
            V == Forms \cup {None}
            D == SUBSET (1..n)
            Step(g, s) == IF s = {} THEN acc ELSE And(g[s \ {Max(s)}], Dnf[priors[Max(s)]][TRUE])
            rank == [s \in D |-> IF s = {} THEN 0 ELSE Max(s)]
            F == [p \in [D -> V] \X D |-> Step(p[1], p[2])]
            iter[s \in SUBSET DOMAIN priors] ==
              IF s = {} THEN acc ELSE And(iter[s \ {Max(s)}], Dnf[priors[Max(s)]][TRUE])
<1>1. n \in Nat /\ DOMAIN priors = 1..n
  BY LenProperties
<1>2. ASSUME NEW s \in D, s # {}
      PROVE  /\ Max(s) \in 1..n /\ Max(s) \in s
             /\ s \ {Max(s)} \in D
             /\ \A y \in s : Max(s) >= y
  BY <1>1, <1>2, MaxIn
<1>3. rank \in [D -> Nat]
  <2>. HIDE DEF n
  <2>1. \A s \in D : s # {} => Max(s) \in Nat
    BY <1>2
  <2>. QED BY <2>1
<1>4. ASSUME NEW s \in D, s # {} PROVE rank[s \ {Max(s)}] < rank[s]
  <2>. DEFINE r == s \ {Max(s)}
  <2>1. r \in D /\ Max(s) \in 1..n /\ \A y \in s : Max(s) >= y
    BY <1>2, <1>4
  <2>2. rank[s] = Max(s)
    BY <1>4
  <2>3. CASE r = {}
    <3>1. rank[r] = 0
      BY <2>1, <2>3
    <3>. HIDE DEF rank, n
    <3>. QED BY <2>1, <2>2, <3>1
  <2>4. CASE r # {}
    <3>1. Max(r) \in r /\ rank[r] = Max(r)
      BY <1>2, <2>1, <2>4
    <3>2. Max(r) \in s /\ Max(r) # Max(s) /\ Max(r) \in 1..n
      BY <1>2, <2>1, <2>4, <3>1
    <3>3. Max(s) >= Max(r)
      BY <2>1, <3>2
    <3>. HIDE DEF rank, n
    <3>. QED BY <2>1, <2>2, <3>1, <3>2, <3>3
  <2>. QED BY <2>3, <2>4
<1>5. ASSUME NEW g \in [D -> V], NEW s \in D PROVE Step(g, s) \in V
  <2>1. CASE s = {}
    BY <2>1
  <2>2. CASE s # {}
    <3>1. Max(s) \in 1..n /\ s \ {Max(s)} \in D
      BY <1>2, <2>2
    <3>2. g[s \ {Max(s)}] \in V
      <4>. HIDE DEF V, D
      <4>. QED BY <3>1
    <3>3. Dnf[priors[Max(s)]][TRUE] \in V
      BY <3>1, Negations
    <3>. QED BY <2>2, <3>2, <3>3, AndForm
  <2>. QED BY <2>1, <2>2
<1>6. ASSUME NEW g \in [D -> V], NEW s \in D PROVE F[<<g, s>>] = Step(g, s)
  <2>. HIDE DEF V, D, Step
  <2>. QED OBVIOUS
<1>7. F \in [[D -> V] \X D -> V]
  <2>. HIDE DEF V, D, Step
  <2>. QED BY <1>5
<1>8. ASSUME NEW f \in [D -> V], NEW g \in [D -> V], NEW s \in D,
             \A d \in D : rank[d] < rank[s] => f[d] = g[d]
      PROVE  F[<<f, s>>] = F[<<g, s>>]
  <2>1. s # {} => f[s \ {Max(s)}] = g[s \ {Max(s)}]
    <3>. HIDE DEF D, V, rank, F
    <3>. QED BY <1>2, <1>4, <1>8
  <2>2. Step(f, s) = Step(g, s)
    BY <2>1
  <2>. HIDE DEF F, V, D, Step
  <2>. QED BY <1>6, <2>2
<1>9. PICK g \in [D -> V] : Solves(g, F, D)
  <2>1. acc \in V
    OBVIOUS
  <2>. HIDE DEF F, V, D, rank
  <2>2. Descends(F, D, V, rank)
    BY <1>3, <1>7, <1>8 DEF Descends
  <2>. QED BY <2>1, <2>2, Solved
<1>10. g = [s \in SUBSET DOMAIN priors |-> Step(g, s)]
  <2>1. g = [s \in D |-> Step(g, s)]
    <3>. HIDE DEF F, V, D, Step
    <3>. QED BY <1>6, <1>9 DEF Solves
  <2>. HIDE DEF Step
  <2>. QED BY <1>1, <2>1
<1>11. iter = [s \in SUBSET DOMAIN priors |-> Step(iter, s)]
  BY <1>10, Zenon
<1>12. Conjoined(acc, priors) = iter[DOMAIN priors]
  BY DEF Conjoined, FoldLeft, MapThenFoldSet
<1>. DEFINE h == [k \in 0..n |-> iter[1..k]]
<1>. HIDE DEF iter
<1>13. h[0] = acc
  <2>1. 1..0 = {} /\ {} \in SUBSET DOMAIN priors /\ 0 \in 0..n
    BY <1>1
  <2>2. iter[{}] = acc
    BY <1>11, <2>1
  <2>. QED BY <2>1, <2>2
<1>14. ASSUME NEW k \in 1..n PROVE h[k] = And(h[k - 1], Dnf[priors[k]][TRUE])
  <2>1. k \in Nat /\ k # 0 /\ k \in 0..n /\ k - 1 \in 0..n
    BY <1>1
  <2>2. Max(1..k) = k /\ 1..k # {} /\ (1..k) \ {k} = 1..(k - 1)
    BY <2>1, Downward
  <2>3. (1..k) \in SUBSET DOMAIN priors
    BY <1>1
  <2>4. iter[1..k] = Step(iter, 1..k)
    <3>. HIDE DEF Step
    <3>. QED BY <1>11, <2>3
  <2>5. iter[1..k] = And(iter[1..(k - 1)], Dnf[priors[k]][TRUE])
    BY <2>2, <2>4
  <2>6. h[k] = iter[1..k] /\ h[k - 1] = iter[1..(k - 1)]
    BY <2>1
  <2>. HIDE DEF h
  <2>. QED BY <2>5, <2>6
<1>15. h[n] = iter[DOMAIN priors]
  <2>1. n \in 0..n
    BY <1>1
  <2>. QED BY <1>1, <2>1
<1>. HIDE DEF h
<1>. QED BY <1>12, <1>13, <1>14, <1>15

\* The worlds in which no branch of a chain is taken.
Unmet(priors) == {w \in Worlds : \A i \in 1..Len(priors) : w \notin Sat[priors[i]]}

\* conjoin: a form of what acc says and no prior does.
LEMMA ConjoinExact ==
  ASSUME NoneApart, NEW acc \in Forms \cup {None}, NEW priors \in Seq(Exprs)
  PROVE  /\ Conjoined(acc, priors) \in Forms \cup {None}
         /\ Conjoined(acc, priors) # None =>
              acc \in Forms /\ Models(Conjoined(acc, priors)) = Models(acc) \cap Unmet(priors)
<1>. DEFINE n == Len(priors)
            Left(k) == {w \in Worlds : \A i \in 1..k : w \notin Sat[priors[i]]}
            Good(x, k) == /\ x \in Forms \cup {None}
                          /\ x # None => acc \in Forms /\ Models(x) = Models(acc) \cap Left(k)
<1>1. PICK h : /\ h[0] = acc
               /\ \A k \in 1..n : h[k] = And(h[k - 1], Dnf[priors[k]][TRUE])
               /\ Conjoined(acc, priors) = h[n]
  BY ConjoinSteps
<1>2. n \in Nat
  BY LenProperties
<1>. DEFINE T == {k \in Nat : k <= n => Good(h[k], k)}
<1>3. 0 \in T
  <2>1. Left(0) = Worlds
    OBVIOUS
  <2>2. Models(acc) \subseteq Worlds
    BY DEF Models
  <2>3. Good(acc, 0)
    <3>. HIDE DEF Left
    <3>. QED BY <2>1, <2>2
  <2>. HIDE DEF Good
  <2>. QED BY <1>1, <2>3
<1>4. ASSUME NEW k \in Nat, k \in T PROVE k + 1 \in T
  <2>. SUFFICES ASSUME k + 1 <= n PROVE Good(h[k + 1], k + 1)
    <3>. HIDE DEF Good, n
    <3>. QED OBVIOUS
  <2>1. k + 1 \in 1..n /\ k + 1 - 1 = k /\ k <= n
    BY <1>2
  <2>. DEFINE b == Dnf[priors[k + 1]][TRUE]
  <2>2. h[k + 1] = And(h[k], b)
    <3>. HIDE DEF n
    <3>1. PICK j \in 1..n : j = k + 1
      BY <2>1
    <3>2. h[j] = And(h[j - 1], Dnf[priors[j]][TRUE])
      BY <1>1, Zenon
    <3>3. j - 1 = k
      BY <3>1
    <3>. QED BY <3>1, <3>2, <3>3
  <2>3. Good(h[k], k)
    <3>. HIDE DEF Good, n
    <3>. QED BY <1>4, <2>1
  <2>4. /\ b \in Forms \cup {None}
        /\ b # None => Models(b) = Worlds \ Sat[priors[k + 1]]
    BY <2>1, Negations
  <2>5. Left(k + 1) = Left(k) \cap (Worlds \ Sat[priors[k + 1]])
    <3>1. \A i \in 1..k + 1 : i \in 1..k \/ i = k + 1
      OBVIOUS
    <3>2. 1..k \subseteq 1..k + 1 /\ k + 1 \in 1..k + 1
      OBVIOUS
    <3>. QED BY <3>1, <3>2
  <2>. HIDE DEF b, Left
  <2>6. h[k] \in Forms \cup {None}
    BY <2>3
  <2>7. And(h[k], b) \in Forms \cup {None}
    BY <2>4, <2>6, AndForm
  <2>8. ASSUME And(h[k], b) # None
        PROVE  acc \in Forms /\ Models(And(h[k], b)) = Models(acc) \cap Left(k + 1)
    <3>1. /\ h[k] \in Forms /\ b \in Forms
          /\ Models(And(h[k], b)) = Models(h[k]) \cap Models(b)
      BY <2>4, <2>6, <2>8, AndExact
    <3>2. h[k] # None /\ b # None
      BY <3>1 DEF NoneApart, Forms
    <3>. QED BY <2>3, <2>4, <2>5, <3>1, <3>2
  <2>. QED BY <2>2, <2>7, <2>8
<1>5. n \in T
  <2>. HIDE DEF T
  <2>. QED BY <1>2, <1>3, <1>4, AllNat
<1>6. Good(Conjoined(acc, priors), n)
  <2>. HIDE DEF Good
  <2>. QED BY <1>1, <1>2, <1>5
<1>7. Left(n) = Unmet(priors)
  BY DEF Unmet
<1>. HIDE DEF Left
<1>. QED BY <1>6, <1>7

\* branch_effective_dnf: a form of what the head says and no prior does.
LEMMA BranchExact ==
  ASSUME NoneApart, NEW e \in Exprs, NEW priors \in Seq(Exprs)
  PROVE  /\ BranchEffective(e, priors) \in Forms \cup {None}
         /\ BranchEffective(e, priors) # None =>
              Models(BranchEffective(e, priors)) = Sat[e] \cap Unmet(priors)
<1>1. FALSE \in BOOLEAN
  OBVIOUS
<1>2. Dnf[e][FALSE] \in Forms \cup {None}
  BY <1>1, DnfIs
<1>3. Dnf[e][FALSE] # None => Models(Dnf[e][FALSE]) = Sat[e]
  BY <1>1, FormsMean DEF Meant
<1>4. ASSUME Dnf[e][FALSE] \in Forms PROVE Dnf[e][FALSE] # None
  BY <1>4 DEF Forms, NoneApart
<1>. QED BY <1>2, <1>3, <1>4, ConjoinExact DEF BranchEffective

\* The form that is always true.
LEMMA TautologyForm == Tautology \in Forms /\ Models(Tautology) = Worlds
<1>1. IsFiniteSet(Tautology)
  BY FS_Singleton DEF Tautology
<1>2. \A c \in Tautology : c \subseteq Literals /\ ~Contradictory(c)
  BY DEF Tautology, Contradictory
<1>3. \A w : Holds({}, w)
  BY DEF Holds
<1>. QED BY <1>1, <1>2, <1>3, FormIs DEF Models, Tautology

\* else_effective_dnf: a form of what no prior says.
LEMMA ElseExact ==
  ASSUME NoneApart, NEW priors \in Seq(Exprs)
  PROVE  /\ ElseEffective(priors) \in Forms \cup {None}
         /\ ElseEffective(priors) # None => Models(ElseEffective(priors)) = Unmet(priors)
<1>1. Unmet(priors) \subseteq Worlds
  BY DEF Unmet
<1>. QED BY <1>1, TautologyForm, ConjoinExact DEF ElseEffective

\* compute_frame: of what the parent and the branch say; a parent that was not
\* read says nothing.
LEMMA FrameExact ==
  ASSUME NoneApart, NEW parent \in Forms \cup {None}, NEW extra \in Forms \cup {None}
  PROVE  /\ Frame(parent, extra) \in Forms \cup {None}
         /\ Frame(parent, extra) # None => extra # None
         /\ Frame(parent, extra) # None =>
              Models(Frame(parent, extra)) =
                Models(extra) \cap IF parent = None THEN Worlds ELSE Models(parent)
<1>1. CASE parent = None
  <2>1. Models(extra) \subseteq Worlds
    BY DEF Models
  <2>. QED BY <1>1, <2>1 DEF Frame
<1>2. CASE parent # None
  <2>1. Frame(parent, extra) = And(parent, extra)
    BY <1>2 DEF Frame
  <2>2. And(parent, extra) \in Forms \cup {None}
    BY AndForm
  <2>3. ASSUME And(parent, extra) # None
        PROVE  extra # None /\ Models(And(parent, extra)) = Models(parent) \cap Models(extra)
    <3>1. extra \in Forms /\ Models(And(parent, extra)) = Models(parent) \cap Models(extra)
      BY <2>3, AndExact
    <3>. QED BY <3>1 DEF Forms, NoneApart
  <2>. QED BY <1>2, <2>1, <2>2, <2>3
<1>. QED BY <1>1, <1>2
-----------------------------------------------------------------------------
(* The stack of the visitor.                                               *)

\* The heads the visitor reads as they are: it takes %ifnarch for %ifarch.
NoneNegated == \A c \in Conditions : c.kind # "ifnarch"

Paths == Forms \cup {None}

Frames ==
  [path : Paths, loose : Paths, archs : (SUBSET Atoms) \cup {None}, priors : Seq(Exprs),
   left : SUBSET Worlds, else : BOOLEAN, reach : SUBSET Worlds, doubt : BOOLEAN]

\* What a frame knows is so where builds get; without a doubt it is all.
Sound(f) ==
  /\ f.path # None => f.reach \subseteq Models(f.path)
  /\ f.loose # None => f.reach \subseteq Models(f.loose)
  /\ ~f.doubt => f.path # None /\ Models(f.path) = f.reach
  /\ f.archs # None => \A w \in f.reach : f.archs \cap w # {}

\* Where builds get around the branch number i.
Around(s, i) == IF i = 1 THEN Worlds ELSE s[i - 1].reach

\* Each frame knows what is so; it is inside the one around it; its chain has
\* left the worlds that got to the chain and took none of its branches.
Fits(s) ==
  /\ s \in Seq(Frames)
  /\ \A i \in 1..Len(s) :
       /\ Sound(s[i])
       /\ s[i].reach \subseteq Around(s, i)
       /\ s[i].left = Around(s, i) \cap Unmet(s[i].priors)

\* What holds at the top of a stack that fits.
LEMMA Top ==
  ASSUME NEW s, Fits(s)
  PROVE  /\ s = <<>> =>
              /\ Current(s) = None /\ CurrentLoose(s) = None
              /\ Reach(s) = Worlds /\ ~Doubt(s)
         /\ s # <<>> =>
              /\ Len(s) \in 1..Len(s) /\ Last(s) = s[Len(s)]
              /\ Last(s) \in Frames /\ Sound(Last(s))
              /\ Current(s) = Last(s).path /\ CurrentLoose(s) = Last(s).loose
              /\ Reach(s) = Last(s).reach /\ Doubt(s) = Last(s).doubt
<1>1. CASE s = <<>>
  BY <1>1 DEF Current, CurrentLoose, Reach, Doubt
<1>2. CASE s # <<>>
  <2>1. s \in Seq(Frames)
    BY DEF Fits
  <2>2. Len(s) \in 1..Len(s)
    BY <1>2, <2>1, EmptySeq, LenProperties
  <2>3. s[Len(s)] \in Frames
    BY <2>1, <2>2, ElementOfSeq
  <2>4. Sound(s[Len(s)])
    BY <2>2 DEF Fits
  <2>5. s[Len(s)].doubt \in BOOLEAN
    BY <2>3 DEF Frames
  <2>6. Current(s) = Last(s).path /\ CurrentLoose(s) = Last(s).loose /\ Reach(s) = Last(s).reach
    BY <1>2 DEF Current, CurrentLoose, Reach
  <2>7. Doubt(s) = Last(s).doubt
    BY <1>2, <2>5 DEF Doubt, Last
  <2>. QED BY <1>2, <2>2, <2>3, <2>4, <2>6, <2>7 DEF Last
<1>. QED BY <1>1, <1>2

\* What is known at the top.
LEMMA Known ==
  ASSUME NEW s, Fits(s)
  PROVE  /\ Current(s) \in Paths /\ CurrentLoose(s) \in Paths
         /\ Reach(s) \subseteq Worlds
         /\ Current(s) # None => Reach(s) \subseteq Models(Current(s))
         /\ CurrentLoose(s) # None => Reach(s) \subseteq Models(CurrentLoose(s))
         /\ s # <<>> /\ ~Doubt(s) => Current(s) # None /\ Models(Current(s)) = Reach(s)
         /\ Doubt(s) \in BOOLEAN
<1>1. CASE s = <<>>
  BY <1>1, Top DEF Paths, Doubt
<1>2. CASE s # <<>>
  <2>1. PICK f : f = Last(s)
    OBVIOUS
  <2>2. f \in Frames /\ Sound(f)
    BY <1>2, <2>1, Top
  <2>3. /\ Current(s) = f.path /\ CurrentLoose(s) = f.loose
        /\ Reach(s) = f.reach /\ Doubt(s) = f.doubt
    BY <1>2, <2>1, Top
  <2>4. f.path \in Paths /\ f.loose \in Paths /\ f.reach \subseteq Worlds /\ f.doubt \in BOOLEAN
    BY <2>2 DEF Frames
  <2>. QED BY <1>2, <2>2, <2>3, <2>4 DEF Sound
<1>. QED BY <1>1, <1>2

\* A frame on top of a stack that fits.
LEMMA Pushed ==
  ASSUME NEW s, Fits(s), NEW f \in Frames, Sound(f), f.reach \subseteq Reach(s),
         f.left = Reach(s) \cap Unmet(f.priors)
  PROVE  Fits(Append(s, f))
<1>. DEFINE t == Append(s, f)
            n == Len(s)
<1>1. s \in Seq(Frames) /\ n \in Nat
  BY LenProperties DEF Fits
<1>2. t \in Seq(Frames) /\ Len(t) = n + 1 /\ t[n + 1] = f /\ \A i \in 1..n : t[i] = s[i]
  BY <1>1, AppendProperties
<1>3. Reach(s) = Around(t, n + 1)
  <2>1. CASE s = <<>>
    BY <2>1, Top DEF Around
  <2>2. CASE s # <<>>
    <3>1. n \in 1..n /\ n # 0
      BY <1>1, <2>2, Top
    <3>2. Around(t, n + 1) = t[n].reach
      BY <3>1 DEF Around
    <3>3. Reach(s) = s[n].reach
      BY <2>2, Top
    <3>. HIDE DEF t, n
    <3>. QED BY <1>2, <3>1, <3>2, <3>3
  <2>. QED BY <2>1, <2>2
<1>4. ASSUME NEW i \in 1..n
      PROVE  /\ Sound(t[i]) /\ t[i].reach \subseteq Around(t, i)
             /\ t[i].left = Around(t, i) \cap Unmet(t[i].priors)
  <2>1. t[i] = s[i]
    BY <1>2
  <2>2. Around(t, i) = Around(s, i)
    <3>1. i # 1 => i - 1 \in 1..n
      BY <1>1
    <3>. HIDE DEF t, n
    <3>. QED BY <1>2, <3>1 DEF Around
  <2>3. /\ Sound(s[i]) /\ s[i].reach \subseteq Around(s, i)
        /\ s[i].left = Around(s, i) \cap Unmet(s[i].priors)
    BY DEF Fits
  <2>. QED BY <2>1, <2>2, <2>3
<1>5. \A i \in 1..n + 1 : i \in 1..n \/ i = n + 1
  BY <1>1
<1>. HIDE DEF t, n
<1>6. Fits(t)
  BY <1>2, <1>3, <1>4, <1>5 DEF Fits
<1>. QED BY <1>6 DEF t

\* A stack that fits without its top.
LEMMA Popped ==
  ASSUME NEW s, Fits(s), s # <<>>
  PROVE  /\ Fits(Front(s))
         /\ Last(s).reach \subseteq Reach(Front(s))
         /\ Last(s).left = Reach(Front(s)) \cap Unmet(Last(s).priors)
<1>. DEFINE t == Front(s)
            n == Len(s)
<1>1. s \in Seq(Frames) /\ n \in Nat /\ n # 0
  BY EmptySeq, LenProperties DEF Fits
<1>2. t \in Seq(Frames) /\ Len(t) = n - 1 /\ \A i \in 1..n - 1 : t[i] = s[i]
  <2>1. \A i \in 1..n - 1 : s[i] \in Frames
    BY <1>1, ElementOfSeq
  <2>2. t = SubSeq(s, 1, n - 1)
    BY DEF Front
  <2>. HIDE DEF n, t
  <2>3. PICK k \in Nat : k = n - 1
    BY <1>1
  <2>4. /\ SubSeq(s, 1, k) \in Seq(Frames)
        /\ Len(SubSeq(s, 1, k)) = IF 1 <= k THEN k - 1 + 1 ELSE 0
        /\ \A i \in 1..k - 1 + 1 : SubSeq(s, 1, k)[i] = s[1 + i - 1]
    BY <2>1, <2>3, SubSeqProperties
  <2>5. Len(SubSeq(s, 1, k)) = k
    BY <2>4
  <2>6. ASSUME NEW i \in 1..k PROVE SubSeq(s, 1, k)[i] = s[i]
    <3>1. i \in 1..k - 1 + 1 /\ 1 + i - 1 = i
      OBVIOUS
    <3>. QED BY <2>4, <3>1
  <2>. QED BY <2>2, <2>3, <2>4, <2>5, <2>6
<1>3. ASSUME NEW i \in 1..n - 1
      PROVE  /\ Sound(t[i]) /\ t[i].reach \subseteq Around(t, i)
             /\ t[i].left = Around(t, i) \cap Unmet(t[i].priors)
  <2>1. t[i] = s[i] /\ i \in 1..n
    BY <1>1, <1>2
  <2>2. Around(t, i) = Around(s, i)
    <3>1. i # 1 => i - 1 \in 1..n - 1
      BY <1>1
    <3>. HIDE DEF t, n
    <3>. QED BY <1>2, <3>1 DEF Around
  <2>3. /\ Sound(s[i]) /\ s[i].reach \subseteq Around(s, i)
        /\ s[i].left = Around(s, i) \cap Unmet(s[i].priors)
    BY <2>1 DEF Fits
  <2>. QED BY <2>1, <2>2, <2>3
<1>4. Fits(t)
  <2>. HIDE DEF t, n
  <2>. QED BY <1>2, <1>3 DEF Fits
<1>5. Reach(t) = Around(s, n)
  <2>1. CASE t = <<>>
    <3>1. n = 1
      BY <1>1, <1>2, <2>1, EmptySeq
    <3>2. Reach(t) = Worlds
      BY <1>4, <2>1, Top
    <3>. QED BY <3>1, <3>2 DEF Around
  <2>2. CASE t # <<>>
    <3>1. Len(t) \in 1..Len(t)
      BY <1>4, <2>2, Top
    <3>2. Reach(t) = t[n - 1].reach
      BY <1>2, <1>4, <2>2, Top
    <3>3. n - 1 \in 1..n - 1 /\ n # 1
      BY <1>1, <1>2, <3>1
    <3>. HIDE DEF t, n
    <3>. QED BY <1>2, <3>2, <3>3 DEF Around
  <2>. QED BY <2>1, <2>2
<1>6. n \in 1..n /\ Last(s) = s[n]
  BY <1>1 DEF Last
<1>7. s[n].reach \subseteq Around(s, n) /\ s[n].left = Around(s, n) \cap Unmet(s[n].priors)
  <2>. HIDE DEF n
  <2>. QED BY <1>6 DEF Fits, n
<1>. QED BY <1>4, <1>5, <1>6, <1>7

\* A chain with one branch more.
LEMMA UnmetMore ==
  /\ Unmet(<<>>) = Worlds
  /\ \A priors \in Seq(Exprs), e \in Exprs : Unmet(Append(priors, e)) = Unmet(priors) \ Sat[e]
<1>1. Unmet(<<>>) = Worlds
  BY EmptySeq DEF Unmet
<1>2. ASSUME NEW priors \in Seq(Exprs), NEW e \in Exprs
      PROVE  Unmet(Append(priors, e)) = Unmet(priors) \ Sat[e]
  <2>. DEFINE n == Len(priors)
              t == Append(priors, e)
  <2>1. n \in Nat /\ Len(t) = n + 1 /\ t[n + 1] = e /\ \A i \in 1..n : t[i] = priors[i]
    BY LenProperties, AppendProperties
  <2>2. /\ \A i \in 1..n + 1 : i \in 1..n \/ i = n + 1
        /\ 1..n \subseteq 1..n + 1 /\ n + 1 \in 1..n + 1
    BY <2>1
  <2>. HIDE DEF n, t
  <2>3. Unmet(t) = {w \in Worlds : \A i \in 1..n + 1 : w \notin Sat[t[i]]}
    BY <2>1 DEF Unmet
  <2>4. Unmet(priors) = {w \in Worlds : \A i \in 1..n : w \notin Sat[priors[i]]}
    BY DEF Unmet, n
  <2>5. ASSUME NEW w \in Worlds
        PROVE  (\A i \in 1..n + 1 : w \notin Sat[t[i]])
                 <=> (\A i \in 1..n : w \notin Sat[priors[i]]) /\ w \notin Sat[e]
    BY <2>1, <2>2
  <2>6. Unmet(t) = Unmet(priors) \ Sat[e]
    BY <2>3, <2>4, <2>5
  <2>. QED BY <2>6 DEF t
<1>. QED BY <1>1, <1>2

\* The head of a branch: what it means, and the architectures it names.
LEMMA Heads ==
  ASSUME NoneNegated, NEW c \in Conditions
  PROVE  /\ c.expr \in Exprs /\ Taken(c) = Sat[c.expr] /\ Taken(c) \subseteq Worlds
         /\ ArchList(c) \in (SUBSET Atoms) \cup {None}
         /\ ArchList(c) # None => Taken(c) = {w \in Worlds : ArchList(c) \cap w # {}}
<1>1. c.expr \in Exprs /\ Taken(c) = Sat[c.expr]
  BY BranchRulesAssumption DEF NoneNegated, Taken
<1>2. Sat[c.expr] \subseteq Worlds /\ Sat[c.expr] = SatStep(Sat, c.expr)
  BY <1>1, SatIs
<1>3. CASE c.kind = "ifarch" /\ c.expr[1] = "arch"
  <2>1. ArchList(c) = c.expr[2] /\ c.expr[2] \subseteq Atoms
    BY <1>1, <1>3, Kinds DEF ArchList
  <2>2. SatStep(Sat, c.expr) = {w \in Worlds : c.expr[2] \cap w # {}}
    BY <1>3 DEF SatStep
  <2>. QED BY <1>1, <1>2, <2>1, <2>2
<1>4. CASE ~(c.kind = "ifarch" /\ c.expr[1] = "arch")
  <2>1. ArchList(c) = None
    BY <1>4 DEF ArchList
  <2>. QED BY <1>1, <1>2, <2>1
<1>. QED BY <1>3, <1>4

\* The frame of a branch, and that of an else.
BranchFrame(outer, c, priors, left) ==
  LET eff == BranchEffective(c.expr, priors)
      path == Frame(Current(outer), eff)
  IN [path |-> path, loose |-> Frame(CurrentLoose(outer), eff), archs |-> ArchList(c),
      priors |-> Append(priors, c.expr), left |-> left \ Taken(c), else |-> FALSE,
      reach |-> left \cap Taken(c), doubt |-> Doubt(outer) \/ path = None]

ElseFrame(outer, top) ==
  LET eff == ElseEffective(top.priors)
      path == Frame(Current(outer), eff)
  IN [top EXCEPT !.path = path, !.archs = None, !.else = TRUE, !.reach = top.left,
        !.loose = Frame(CurrentLoose(outer), IF eff = None THEN Tautology ELSE eff),
        !.doubt = Doubt(outer) \/ path = None]

\* What a path is made of: with what is known around, of the worlds that got
\* to the chain and are meant.
LEMMA PathIs ==
  ASSUME NoneApart, NEW s, Fits(s), NEW eff \in Paths, NEW m, m \subseteq Worlds,
         eff # None => Models(eff) = m
  PROVE  /\ Frame(Current(s), eff) \in Paths /\ Frame(CurrentLoose(s), eff) \in Paths
         /\ Frame(Current(s), eff) # None =>
              Reach(s) \cap m \subseteq Models(Frame(Current(s), eff))
         /\ Frame(CurrentLoose(s), eff) # None =>
              Reach(s) \cap m \subseteq Models(Frame(CurrentLoose(s), eff))
         /\ ~Doubt(s) /\ Frame(Current(s), eff) # None =>
              Models(Frame(Current(s), eff)) = Reach(s) \cap m
<1>. DEFINE a == Current(s)
            b == CurrentLoose(s)
<1>1. /\ a \in Paths /\ b \in Paths /\ Reach(s) \subseteq Worlds
      /\ a # None => Reach(s) \subseteq Models(a)
      /\ b # None => Reach(s) \subseteq Models(b)
      /\ s # <<>> /\ ~Doubt(s) => a # None /\ Models(a) = Reach(s)
      /\ s = <<>> => a = None /\ Reach(s) = Worlds
  BY Known, Top
<1>. HIDE DEF a, b
<1>2. /\ Frame(a, eff) \in Paths
      /\ Frame(a, eff) # None =>
           /\ eff # None
           /\ Models(Frame(a, eff)) = Models(eff) \cap IF a = None THEN Worlds ELSE Models(a)
  BY <1>1, FrameExact DEF Paths
<1>3. /\ Frame(b, eff) \in Paths
      /\ Frame(b, eff) # None =>
           /\ eff # None
           /\ Models(Frame(b, eff)) = Models(eff) \cap IF b = None THEN Worlds ELSE Models(b)
  BY <1>1, FrameExact DEF Paths
<1>4. ASSUME Frame(a, eff) # None
      PROVE  /\ Reach(s) \cap m \subseteq Models(Frame(a, eff))
             /\ ~Doubt(s) => Models(Frame(a, eff)) = Reach(s) \cap m
  BY <1>1, <1>2, <1>4
<1>5. ASSUME Frame(b, eff) # None
      PROVE  Reach(s) \cap m \subseteq Models(Frame(b, eff))
  BY <1>1, <1>3, <1>5
<1>. QED BY <1>2, <1>3, <1>4, <1>5 DEF a, b

\* A branch entered.
LEMMA Entered ==
  ASSUME NoneApart, NoneNegated, NEW s, Fits(s), NEW c \in Conditions,
         NEW priors \in Seq(Exprs), NEW left, left = Reach(s) \cap Unmet(priors)
  PROVE  Fits(Append(s, BranchFrame(s, c, priors, left)))
<1>. DEFINE eff == BranchEffective(c.expr, priors)
            m == Sat[c.expr] \cap Unmet(priors)
            path == Frame(Current(s), eff)
            loose == Frame(CurrentLoose(s), eff)
            f == BranchFrame(s, c, priors, left)
<1>1. /\ c.expr \in Exprs /\ Taken(c) = Sat[c.expr] /\ Taken(c) \subseteq Worlds
      /\ ArchList(c) \in (SUBSET Atoms) \cup {None}
      /\ ArchList(c) # None => Taken(c) = {w \in Worlds : ArchList(c) \cap w # {}}
  BY Heads
<1>2. eff \in Paths /\ (eff # None => Models(eff) = m)
  BY <1>1, BranchExact DEF Paths
<1>3. m \subseteq Worlds
  BY DEF Unmet
<1>4. Reach(s) \subseteq Worlds /\ Doubt(s) \in BOOLEAN
  BY Known
<1>5. /\ left \cap Taken(c) = Reach(s) \cap m
      /\ left \ Taken(c) = Reach(s) \cap Unmet(Append(priors, c.expr))
  BY <1>1, UnmetMore
<1>6. Append(priors, c.expr) \in Seq(Exprs)
  BY <1>1, AppendProperties
<1>. HIDE DEF eff, m
<1>7. /\ path \in Paths /\ loose \in Paths
      /\ path # None => Reach(s) \cap m \subseteq Models(path)
      /\ loose # None => Reach(s) \cap m \subseteq Models(loose)
      /\ ~Doubt(s) /\ path # None => Models(path) = Reach(s) \cap m
  BY <1>2, <1>3, PathIs
<1>8. f = [path |-> path, loose |-> loose, archs |-> ArchList(c),
           priors |-> Append(priors, c.expr), left |-> left \ Taken(c), else |-> FALSE,
           reach |-> left \cap Taken(c), doubt |-> Doubt(s) \/ path = None]
  BY DEF BranchFrame, eff
<1>. HIDE DEF f, path, loose
<1>9. /\ f.path = path /\ f.loose = loose /\ f.archs = ArchList(c)
      /\ f.priors = Append(priors, c.expr) /\ f.left = left \ Taken(c)
      /\ f.reach = left \cap Taken(c) /\ f.doubt = (Doubt(s) \/ path = None)
  BY <1>8
<1>10. f \in Frames
  <2>1. left \ Taken(c) \in SUBSET Worlds /\ left \cap Taken(c) \in SUBSET Worlds
    BY <1>4
  <2>2. (Doubt(s) \/ path = None) \in BOOLEAN
    OBVIOUS
  <2>. QED BY <1>1, <1>6, <1>7, <1>8, <2>1, <2>2 DEF Frames
<1>11. Sound(f)
  <2>1. f.archs # None => \A w \in f.reach : f.archs \cap w # {}
    BY <1>1, <1>9
  <2>2. f.path # None => f.reach \subseteq Models(f.path)
    BY <1>5, <1>7, <1>9
  <2>3. f.loose # None => f.reach \subseteq Models(f.loose)
    BY <1>5, <1>7, <1>9
  <2>4. ~f.doubt => f.path # None /\ Models(f.path) = f.reach
    BY <1>5, <1>7, <1>9
  <2>. QED BY <2>1, <2>2, <2>3, <2>4 DEF Sound
<1>12. f.reach \subseteq Reach(s) /\ f.left = Reach(s) \cap Unmet(f.priors)
  BY <1>5, <1>9
<1>13. Fits(Append(s, f))
  BY <1>10, <1>11, <1>12, Pushed
<1>. QED BY <1>13 DEF f

\* An else entered.
LEMMA ElseEntered ==
  ASSUME NoneApart, NEW s, Fits(s), NEW top \in Frames,
         top.left = Reach(s) \cap Unmet(top.priors)
  PROVE  Fits(Append(s, ElseFrame(s, top)))
<1>. DEFINE eff == ElseEffective(top.priors)
            eff2 == IF eff = None THEN Tautology ELSE eff
            m == Unmet(top.priors)
            path == Frame(Current(s), eff)
            loose == Frame(CurrentLoose(s), eff2)
            f == ElseFrame(s, top)
<1>1. top.priors \in Seq(Exprs) /\ top.left \in SUBSET Worlds
  BY DEF Frames
<1>2. eff \in Paths /\ (eff # None => Models(eff) = m)
  BY <1>1, ElseExact DEF Paths
<1>3. m \subseteq Worlds
  BY DEF Unmet
<1>4. Reach(s) \subseteq Worlds /\ Doubt(s) \in BOOLEAN
  BY Known
<1>. DEFINE m2 == IF eff = None THEN Worlds ELSE m
<1>5. eff2 \in Paths /\ Models(eff2) = m2 /\ m \subseteq m2 /\ m2 \subseteq Worlds
  BY <1>2, <1>3, TautologyForm DEF Paths
<1>. HIDE DEF eff, eff2, m, m2
<1>6. /\ path \in Paths
      /\ path # None => Reach(s) \cap m \subseteq Models(path)
      /\ ~Doubt(s) /\ path # None => Models(path) = Reach(s) \cap m
  BY <1>2, <1>3, PathIs
<1>7. loose \in Paths /\ (loose # None => Reach(s) \cap m2 \subseteq Models(loose))
  BY <1>5, PathIs
<1>8. f = [top EXCEPT !.path = path, !.archs = None, !.else = TRUE, !.reach = top.left,
             !.loose = loose, !.doubt = Doubt(s) \/ path = None]
  BY DEF ElseFrame, eff, eff2
<1>. HIDE DEF f, path, loose
<1>9. /\ f.path = path /\ f.loose = loose /\ f.archs = None
      /\ f.priors = top.priors /\ f.left = top.left
      /\ f.reach = top.left /\ f.doubt = (Doubt(s) \/ path = None)
  BY <1>8 DEF Frames
<1>10. f \in Frames
  <2>1. (Doubt(s) \/ path = None) \in BOOLEAN
    OBVIOUS
  <2>. QED BY <1>1, <1>6, <1>7, <1>8, <2>1 DEF Frames
<1>0. top.left = Reach(s) \cap m
  BY DEF m
<1>11. Sound(f)
  <2>2. f.path # None => f.reach \subseteq Models(f.path)
    BY <1>0, <1>6, <1>9
  <2>3. f.loose # None => f.reach \subseteq Models(f.loose)
    BY <1>0, <1>5, <1>7, <1>9
  <2>4. ~f.doubt => f.path # None /\ Models(f.path) = f.reach
    BY <1>0, <1>6, <1>9
  <2>. QED BY <1>9, <2>2, <2>3, <2>4 DEF Sound
<1>12. f.reach \subseteq Reach(s) /\ f.left = Reach(s) \cap Unmet(f.priors)
  BY <1>0, <1>9 DEF m
<1>13. Fits(Append(s, f))
  BY <1>10, <1>11, <1>12, Pushed
<1>. QED BY <1>13 DEF f
-----------------------------------------------------------------------------
(* The claims of the rules.                                                *)

\* A claim that is so: where it was made without a doubt no world speaks
\* against it.
IsSo(claim) == ~claim.doubt => claim.against = {}

\* A claim made is the one proposed, and its condition held.
LEMMA Made ==
  ASSUME NEW cond \in BOOLEAN, NEW x, NEW claim \in When(cond, x)
  PROVE  cond /\ claim = x
BY DEF When

\* A claim about one branch is so if no world speaks against it.
LEMMA ClaimIsSo ==
  ASSUME NEW cond \in BOOLEAN, NEW rule, NEW against, cond => against = {},
         NEW claim \in When(cond, Claim(rule, against))
  PROVE  IsSo(claim)
<1>1. cond /\ claim = Claim(rule, against)
  BY Made
<1>. QED BY <1>1 DEF Claim, IsSo

\* Below every cube of a form is one that absorption keeps.
LEMMA KeptBelow ==
  ASSUME NEW dnf \in Forms, NEW c \in dnf
  PROVE  \E m \in Simplified(dnf) : m \subseteq c
<1>. DEFINE Below(x) == {d \in dnf : d \subseteq x}
            size(x) == Cardinality(Below(x))
            T == {size(x) : x \in Below(c)}
<1>0. IsFiniteSet(dnf)
  BY DEF Forms
<1>1. \A x : IsFiniteSet(Below(x)) /\ size(x) \in Nat
  <2>1. \A x : Below(x) \in SUBSET dnf
    OBVIOUS
  <2>. HIDE DEF Below
  <2>. QED BY <1>0, <2>1, FS_Subset, FS_CardinalityType
<1>2. T \subseteq Nat /\ T # {}
  <2>1. c \in Below(c)
    OBVIOUS
  <2>. HIDE DEF Below, size
  <2>. QED BY <1>1, <2>1
<1>3. PICK k \in T : \A y \in T : k <= y
  <2>. HIDE DEF T
  <2>. QED BY <1>2, NatLeast
<1>4. PICK m \in Below(c) : k = size(m)
  OBVIOUS
<1>5. ASSUME NEW d \in dnf, d \subseteq m, d # m PROVE FALSE
  <2>1. Below(d) \in SUBSET Below(m) /\ m \in Below(m) /\ m \notin Below(d) /\ d \in Below(c)
    BY <1>4, <1>5
  <2>2. size(d) \in T
    <3>. HIDE DEF Below, size
    <3>. QED BY <2>1
  <2>. HIDE DEF Below, T
  <2>3. k <= size(d)
    BY <1>3, <2>2
  <2>4. Cardinality(Below(d)) <= Cardinality(Below(m))
        /\ (Cardinality(Below(m)) = Cardinality(Below(d)) => Below(m) = Below(d))
    BY <1>1, <2>1, FS_Subset
  <2>5. size(d) \in Nat /\ size(m) \in Nat
    BY <1>1
  <2>. QED BY <1>4, <2>1, <2>3, <2>4, <2>5
<1>6. m \in Simplified(dnf) /\ m \subseteq c
  BY <1>5 DEF Simplified
<1>. QED BY <1>6

\* Absorption: a form that says the same.
LEMMA SimplifiedExact ==
  ASSUME NEW dnf \in Forms
  PROVE  /\ Simplified(dnf) \in Forms
         /\ Models(Simplified(dnf)) = Models(dnf)
<1>1. Simplified(dnf) \in SUBSET dnf
  BY DEF Simplified
<1>2. Simplified(dnf) \in Forms
  <2>1. IsFiniteSet(dnf)
    BY DEF Forms
  <2>2. IsFiniteSet(Simplified(dnf))
    BY <1>1, <2>1, FS_Subset
  <2>. QED BY <1>1, <2>2 DEF Forms
<1>3. ASSUME NEW w \in Models(dnf) PROVE w \in Models(Simplified(dnf))
  <2>1. PICK c \in dnf : Holds(c, w)
    BY DEF Models
  <2>2. PICK m \in Simplified(dnf) : m \subseteq c
    BY KeptBelow
  <2>3. Holds(m, w)
    BY <2>1, <2>2 DEF Holds
  <2>4. w \in Worlds
    BY DEF Models
  <2>. QED BY <2>2, <2>3, <2>4 DEF Models
<1>4. Models(Simplified(dnf)) \subseteq Models(dnf)
  BY <1>1 DEF Models
<1>. QED BY <1>2, <1>3, <1>4

\* The form of a head that was read.
LEMMA HeadForm ==
  ASSUME NoneApart, NEW e \in Exprs, Dnf[e][FALSE] # None
  PROVE  /\ Dnf[e][FALSE] \in Forms /\ Models(Dnf[e][FALSE]) = Sat[e]
         /\ Simplified(Dnf[e][FALSE]) \in Forms
         /\ Models(Simplified(Dnf[e][FALSE])) = Sat[e]
<1>1. FALSE \in BOOLEAN
  OBVIOUS
<1>2. Dnf[e][FALSE] \in Forms /\ Models(Dnf[e][FALSE]) = Meant(e, FALSE)
  BY <1>1, FormsMean
<1>. QED BY <1>2, SimplifiedExact DEF Meant

\* RPM110, RPM111 and RPM112.
LEMMA BooleanClaimsSo ==
  ASSUME NoneApart, NEW e \in Exprs, NEW claim \in BooleanClaims(e)
  PROVE  IsSo(claim)
<1>. DEFINE raw == Dnf[e][FALSE]
            dnf == Simplified(raw)
            operands == {Cardinality(raw), OrOperands[e]}
            absorbed == dnf # {} /\ {} \notin dnf /\ \E n \in operands : n > Cardinality(dnf)
            always == Implies(Tautology, dnf, Interned[e])
            never == dnf = {}
<1>1. /\ raw # None
      /\ \/ claim \in When(absorbed, Claim("RPM110", SymDiff(Sat[e], Models(dnf))))
         \/ claim \in When(always, Claim("RPM111", Worlds \ Sat[e]))
         \/ claim \in When(never, Claim("RPM112", Sat[e]))
  BY DEF BooleanClaims
<1>2. Models(dnf) = Sat[e]
  BY <1>1, HeadForm
<1>3. absorbed \in BOOLEAN /\ SymDiff(Sat[e], Models(dnf)) = {}
  BY <1>2 DEF SymDiff
<1>4. always \in BOOLEAN /\ (always => Worlds \ Sat[e] = {})
  BY <1>2, TautologyForm DEF Implies
<1>5. never \in BOOLEAN /\ (never => Sat[e] = {})
  BY <1>2 DEF Models
<1>. HIDE DEF absorbed, always, never, dnf
<1>. QED BY <1>1, <1>3, <1>4, <1>5, ClaimIsSo

\* RPM432.
LEMMA FactorClaimsSo ==
  ASSUME NoneApart, NEW e \in Exprs, NEW claim \in FactorClaims(e)
  PROVE  IsSo(claim)
<1>. DEFINE dnf == Simplified(Dnf[e][FALSE])
            common == {l \in UNION dnf : \A c \in dnf : l \in c}
            rest == {c \ common : c \in dnf}
            cond == Cardinality(dnf) > 1 /\ common # {} /\ {} \notin rest
            against == SymDiff(Sat[e], Models({common}) \cap Models(rest))
<1>1. Dnf[e][FALSE] # None /\ claim \in When(cond, Claim("RPM432", against))
  BY DEF FactorClaims
<1>2. Models(dnf) = Sat[e]
  BY <1>1, HeadForm
<1>. HIDE DEF dnf
<1>3. ASSUME NEW c \in dnf, NEW w
      PROVE  Holds(c, w) <=> Holds(common, w) /\ Holds(c \ common, w)
  <2>1. c = common \cup (c \ common)
    OBVIOUS
  <2>. HIDE DEF common
  <2>. QED BY <2>1, HoldsBoth
<1>. HIDE DEF common
<1>4. Models({common}) \cap Models(rest) = Models(dnf)
  <2>1. ASSUME NEW w \in Worlds
        PROVE  w \in Models({common}) /\ w \in Models(rest) <=> w \in Models(dnf)
    <3>1. w \in Models({common}) <=> Holds(common, w)
      BY DEF Models
    <3>2. w \in Models(rest) <=> \E c \in dnf : Holds(c \ common, w)
      BY DEF Models
    <3>3. w \in Models(dnf) <=> \E c \in dnf : Holds(c, w)
      BY DEF Models
    <3>. QED BY <1>3, <3>1, <3>2, <3>3
  <2>2. Models({common}) \subseteq Worlds /\ Models(dnf) \subseteq Worlds
    BY DEF Models
  <2>. QED BY <2>1, <2>2
<1>5. against = {}
  BY <1>2, <1>4 DEF SymDiff
<1>6. cond \in BOOLEAN
  OBVIOUS
<1>. HIDE DEF cond, against
<1>. QED BY <1>1, <1>5, <1>6, ClaimIsSo

\* The form of a branch with the branches before it, and where builds get.
Branching(s, c, priors, left) ==
  LET eff == BranchEffective(c.expr, priors)
      m == Sat[c.expr] \cap Unmet(priors)
  IN /\ eff \in Paths /\ (eff # None => Models(eff) = m)
     /\ left \cap Taken(c) = Reach(s) \cap m /\ m \subseteq Worlds

\* They are so of what got to the chain and took none of its branches.
LEMMA BranchIs ==
  ASSUME NoneApart, NoneNegated, NEW s, Fits(s), NEW c \in Conditions,
         NEW priors \in Seq(Exprs), NEW left, left = Reach(s) \cap Unmet(priors)
  PROVE  Branching(s, c, priors, left)
<1>1. c.expr \in Exprs /\ Taken(c) = Sat[c.expr]
  BY Heads
<1>2. Unmet(priors) \subseteq Worlds
  BY DEF Unmet
<1>. QED BY <1>1, <1>2, BranchExact DEF Paths, Branching

\* RPM113 and RPM115.
LEMMA DeadClaimsSo ==
  ASSUME NoneApart, NoneNegated, NEW s, Fits(s), NEW c \in Conditions,
         NEW priors \in Seq(Exprs), NEW left, left = Reach(s) \cap Unmet(priors),
         NEW claim \in DeadClaims(s, c, priors, left)
  PROVE  IsSo(claim)
<1>. DEFINE eff == BranchEffective(c.expr, priors)
            m == Sat[c.expr] \cap Unmet(priors)
            cond == ~Tainted(s) /\ Frame(Current(s), eff) = {}
            rule == IF priors = <<>> THEN "RPM113" ELSE "RPM115"
            against == left \cap Taken(c)
<1>1. claim \in When(cond, Claim(rule, against))
  BY DEF DeadClaims
<1>2. /\ eff \in Paths /\ (eff # None => Models(eff) = m)
      /\ against = Reach(s) \cap m /\ m \subseteq Worlds
  <2>1. Branching(s, c, priors, left)
    BY BranchIs
  <2>. QED BY <2>1 DEF Branching
<1>. HIDE DEF eff, m, against
<1>3. Frame(Current(s), eff) # None => Reach(s) \cap m \subseteq Models(Frame(Current(s), eff))
  BY <1>2, PathIs
<1>4. cond => against = {}
  <2>1. {} # None /\ Models({}) = {}
    BY DEF NoneApart, Models
  <2>. QED BY <1>2, <1>3, <2>1
<1>5. cond \in BOOLEAN
  OBVIOUS
<1>. HIDE DEF cond, rule
<1>. QED BY <1>1, <1>4, <1>5, ClaimIsSo

\* RPM114.
LEMMA AlwaysClaimsSo ==
  ASSUME NoneApart, NoneNegated, NEW s, Fits(s), NEW c \in Conditions,
         NEW priors \in Seq(Exprs), NEW left, left = Reach(s) \cap Unmet(priors),
         NEW seen, NEW claim \in AlwaysClaims(s, c, priors, left, seen)
  PROVE  IsSo(claim)
<1>. DEFINE eff == BranchEffective(c.expr, priors)
            m == Sat[c.expr] \cap Unmet(priors)
            cond == Current(s) \notin {None, {}} /\ eff # None /\ Implies(Current(s), eff, seen)
            against == Reach(s) \ (left \cap Taken(c))
<1>1. claim \in When(cond, Claim("RPM114", against))
  BY DEF AlwaysClaims
<1>2. (eff # None => Models(eff) = m) /\ left \cap Taken(c) = Reach(s) \cap m
  <2>1. Branching(s, c, priors, left)
    BY BranchIs
  <2>. QED BY <2>1 DEF Branching
<1>3. Current(s) # None => Reach(s) \subseteq Models(Current(s))
  BY Known
<1>. HIDE DEF eff, m
<1>4. cond => against = {}
  BY <1>2, <1>3 DEF Implies
<1>5. cond \in BOOLEAN
  OBVIOUS
<1>. HIDE DEF cond, against
<1>. QED BY <1>1, <1>4, <1>5, ClaimIsSo

\* RPM430 and RPM431, over a path that leaves out no build that gets here: a
\* literal the path implies can be dropped where they get.
LEMMA PartClaimsSo ==
  ASSUME NoneApart, NoneNegated, NEW c \in Conditions, NEW rule, NEW path, NEW seen,
         NEW here \in SUBSET Worlds, path # None => here \subseteq Models(path),
         NEW claim \in PartClaims(rule, c, path, seen, here)
  PROVE  IsSo(claim)
<1>. DEFINE head == Dnf[c.expr][FALSE]
            cube == UNION head
            kept == {l \in cube : ~Implies(path, {{l}}, seen)}
            cond == /\ Cardinality(head) = 1 /\ Cardinality(seen) <= MaxAtoms
                    /\ kept \notin {{}, cube}
            against == here \cap SymDiff(Taken(c), Models({kept}))
<1>1. path \notin {None, {}} /\ head # None /\ claim \in When(cond, Claim(rule, against))
  BY DEF PartClaims
<1>2. head \in Forms /\ Models(head) = Taken(c)
  BY <1>1, Heads, HeadForm
<1>3. ASSUME cond PROVE against = {}
  <2>1. head = {cube}
    <3>1. IsFiniteSet(head) /\ Cardinality(head) = 1
      BY <1>2, <1>3 DEF Forms
    <3>. HIDE DEF head
    <3>2. PICK x : head = {x}
      BY <3>1, FS_Singleton
    <3>. QED BY <3>2
  <2>. HIDE DEF head, cube
  <2>2. ASSUME NEW w \in here, NEW l \in cube, l \notin kept PROVE (l[1] \in w) = l[2]
    <3>1. Models(path) \subseteq Models({{l}})
      BY <2>2 DEF Implies
    <3>2. w \in Models({{l}})
      BY <1>1, <2>2, <3>1
    <3>3. Holds({l}, w)
      BY <3>2 DEF Models
    <3>. QED BY <3>3 DEF Holds
  <2>3. kept \subseteq cube
    OBVIOUS
  <2>. HIDE DEF kept
  <2>4. ASSUME NEW w \in here PROVE Holds(cube, w) <=> Holds(kept, w)
    BY <2>2, <2>3 DEF Holds
  <2>5. ASSUME NEW w \in here PROVE w \in Taken(c) <=> w \in Models({kept})
    BY <1>2, <2>1, <2>4 DEF Models
  <2>. QED BY <2>5 DEF SymDiff
<1>4. cond \in BOOLEAN
  OBVIOUS
<1>. HIDE DEF cond, against
<1>. QED BY <1>1, <1>3, <1>4, ClaimIsSo

\* RPM430.
LEMMA ContextClaimsSo ==
  ASSUME NoneApart, NoneNegated, NEW s, Fits(s), NEW c \in Conditions, NEW seen,
         NEW claim \in ContextClaims(s, c, seen)
  PROVE  IsSo(claim)
<1>1. Reach(s) \in SUBSET Worlds /\ (Current(s) # None => Reach(s) \subseteq Models(Current(s)))
  BY Known
<1>2. claim \in PartClaims("RPM430", c, Current(s), seen, Reach(s))
  BY DEF ContextClaims
<1>. QED BY <1>1, <1>2, PartClaimsSo

\* RPM431.
LEMMA HistoryClaimsSo ==
  ASSUME NoneApart, NoneNegated, NEW s, Fits(s), NEW c \in Conditions,
         NEW priors \in Seq(Exprs), NEW left, left = Reach(s) \cap Unmet(priors),
         NEW seen, NEW claim \in HistoryClaims(s, c, priors, left, seen)
  PROVE  IsSo(claim)
<1>. DEFINE history == ElseEffective(priors)
            path == Frame(CurrentLoose(s), history)
<1>1. history # None /\ claim \in PartClaims("RPM431", c, path, seen, left)
  BY DEF HistoryClaims
<1>2. history \in Paths /\ Models(history) = Unmet(priors) /\ Unmet(priors) \subseteq Worlds
  BY <1>1, ElseExact DEF Paths, Unmet
<1>. HIDE DEF history
<1>3. path # None => left \subseteq Models(path)
  BY <1>2, PathIs
<1>4. left \in SUBSET Worlds
  BY <1>2
<1>. HIDE DEF path
<1>. QED BY <1>1, <1>3, <1>4, PartClaimsSo

\* Builds that get inside a branch got inside all those around it.
LEMMA Nested ==
  ASSUME NEW s, Fits(s), NEW i \in 1..Len(s)
  PROVE  Reach(s) \subseteq s[i].reach
<1>. DEFINE n == Len(s)
            T == {k \in Nat : k < n => s[n].reach \subseteq s[n - k].reach}
<1>1. n \in Nat
  BY LenProperties DEF Fits
<1>2. 0 \in T
  BY <1>1
<1>3. ASSUME NEW k \in Nat, k \in T PROVE k + 1 \in T
  <2>. SUFFICES ASSUME k + 1 < n PROVE s[n].reach \subseteq s[n - (k + 1)].reach
    OBVIOUS
  <2>1. k < n /\ n - k \in 1..n /\ n - k # 1 /\ n - k - 1 = n - (k + 1)
    BY <1>1
  <2>2. s[n].reach \subseteq s[n - k].reach
    BY <1>3, <2>1
  <2>3. PICK j \in 1..n : j = n - k
    BY <2>1
  <2>4. s[j].reach \subseteq Around(s, j)
    BY DEF Fits
  <2>. HIDE DEF n
  <2>5. s[j].reach \subseteq s[j - 1].reach
    BY <2>1, <2>3, <2>4 DEF Around
  <2>. QED BY <2>1, <2>2, <2>3, <2>5
<1>4. \A k \in Nat : k \in T
  <2>. HIDE DEF T
  <2>. QED BY <1>2, <1>3, AllNat
<1>5. s # <<>>
  BY EmptySeq, LenProperties DEF Fits
<1>6. Reach(s) = s[n].reach
  BY <1>5, Top
<1>7. n - i \in Nat /\ n - i < n /\ n - (n - i) = i
  BY <1>1
<1>8. n - i \in T
  <2>. HIDE DEF T, n
  <2>. QED BY <1>4, <1>7
<1>. HIDE DEF n
<1>. QED BY <1>6, <1>7, <1>8

\* RPM442.
LEMMA SubsetClaimsSo ==
  ASSUME NoneApart, NoneNegated, NEW s, Fits(s), NEW c \in Conditions,
         NEW claim \in SubsetClaims(s, c)
  PROVE  IsSo(claim)
<1>. DEFINE cond == /\ ArchList(c) # None
                    /\ \E i \in DOMAIN s : s[i].archs # None /\ s[i].archs \subseteq ArchList(c)
            against == Reach(s) \ Taken(c)
<1>1. claim \in When(cond, Claim("RPM442", against))
  BY DEF SubsetClaims
<1>2. ASSUME cond PROVE against = {}
  <2>1. DOMAIN s = 1..Len(s)
    BY LenProperties DEF Fits
  <2>2. PICK i \in 1..Len(s) : s[i].archs # None /\ s[i].archs \subseteq ArchList(c)
    BY <1>2, <2>1
  <2>3. \A w \in s[i].reach : s[i].archs \cap w # {}
    BY <2>2 DEF Fits, Sound
  <2>4. Taken(c) = {w \in Worlds : ArchList(c) \cap w # {}}
    BY <1>2, Heads
  <2>5. Reach(s) \subseteq s[i].reach /\ Reach(s) \subseteq Worlds
    BY Nested, Known
  <2>. QED BY <2>2, <2>3, <2>4, <2>5
<1>3. cond \in BOOLEAN
  OBVIOUS
<1>. HIDE DEF cond, against
<1>. QED BY <1>1, <1>2, <1>3, ClaimIsSo

\* RPM116.
LEMMA EndifClaimsSo ==
  ASSUME NoneApart, NEW s, Fits(s), NEW priors \in Seq(Exprs), NEW left,
         left = Reach(s) \cap Unmet(priors), NEW cond \in BOOLEAN,
         cond => Frame(Current(s), ElseEffective(priors)) = {},
         NEW claim \in When(cond, Claim("RPM116", left))
  PROVE  IsSo(claim)
<1>. DEFINE eff == ElseEffective(priors)
            path == Frame(Current(s), eff)
<1>1. /\ eff \in Paths /\ (eff # None => Models(eff) = Unmet(priors))
      /\ Unmet(priors) \subseteq Worlds
  BY ElseExact DEF Paths, Unmet
<1>. HIDE DEF eff
<1>2. path # None => left \subseteq Models(path)
  BY <1>1, PathIs
<1>3. {} # None /\ Models({}) = {}
  BY DEF NoneApart, Models
<1>. HIDE DEF path
<1>4. cond => left = {}
  BY <1>2, <1>3 DEF path, eff
<1>. QED BY <1>4, ClaimIsSo
-----------------------------------------------------------------------------
(* The walk.                                                               *)

Copies == [path : Paths, guarded : BOOLEAN, reach : SUBSET Worlds, doubt : BOOLEAN]

\* What is known of a copy is so where builds get; without a doubt it is all.
CopyFits(copy) ==
  /\ copy.path # None => copy.reach \subseteq Models(copy.path)
  /\ copy.guarded /\ ~copy.doubt => copy.path # None /\ Models(copy.path) = copy.reach

CopiesFit == copies \in Seq(Copies) /\ \A i \in 1..Len(copies) : CopyFits(copies[i])

\* The inductive invariant: what the rules know of each open branch and of each
\* copy is so, and so is what they said last.
WalkInv == Fits(stack) /\ CopiesFit /\ ClaimsHold

\* Nothing is read yet.
LEMMA InitWalk == Init => WalkInv
<1>. SUFFICES ASSUME Init PROVE WalkInv
  OBVIOUS
<1>1. stack = <<>> /\ copies = <<>> /\ claims = {}
  BY DEF Init
<1>2. Fits(stack) /\ CopiesFit
  BY <1>1, EmptySeq DEF Fits, CopiesFit
<1>3. ClaimsHold
  BY <1>1 DEF ClaimsHold
<1>. QED BY <1>2, <1>3 DEF WalkInv

\* A branch is entered: by %if and %elif.
LEMMA EnterStep ==
  ASSUME NoneApart, NoneNegated, NEW s, Fits(s), NEW c \in Conditions,
         NEW priors \in Seq(Exprs), NEW left, left = Reach(s) \cap Unmet(priors),
         Enter(s, c, priors, left)
  PROVE  /\ stack' = Append(s, BranchFrame(s, c, priors, left))
         /\ Fits(stack') /\ ClaimsHold' /\ UNCHANGED copies
         /\ DeadClaims(s, c, priors, left) \subseteq claims'
<1>1. stack' = Append(s, BranchFrame(s, c, priors, left)) /\ UNCHANGED copies
  BY DEF Enter, BranchFrame
<1>2. Fits(stack')
  BY <1>1, Entered
<1>3. c.expr \in Exprs
  BY Heads
<1>4. claims' = BooleanClaims(c.expr) \cup FactorClaims(c.expr)
                  \cup DeadClaims(s, c, priors, left)
                  \cup AlwaysClaims(s, c, priors, left, atoms')
                  \cup ContextClaims(s, c, atoms')
                  \cup HistoryClaims(s, c, priors, left, atoms')
                  \cup SubsetClaims(s, c)
  BY DEF Enter
<1>5. ASSUME NEW claim \in claims' PROVE IsSo(claim)
  <2>1. CASE claim \in BooleanClaims(c.expr)
    BY <1>3, <2>1, BooleanClaimsSo
  <2>2. CASE claim \in FactorClaims(c.expr)
    BY <1>3, <2>2, FactorClaimsSo
  <2>3. CASE claim \in DeadClaims(s, c, priors, left)
    BY <2>3, DeadClaimsSo
  <2>4. CASE claim \in AlwaysClaims(s, c, priors, left, atoms')
    BY <2>4, AlwaysClaimsSo
  <2>5. CASE claim \in ContextClaims(s, c, atoms')
    BY <2>5, ContextClaimsSo
  <2>6. CASE claim \in HistoryClaims(s, c, priors, left, atoms')
    BY <2>6, HistoryClaimsSo
  <2>7. CASE claim \in SubsetClaims(s, c)
    BY <2>7, SubsetClaimsSo
  <2>. QED BY <1>4, <2>1, <2>2, <2>3, <2>4, <2>5, <2>6, <2>7
<1>6. ClaimsHold'
  BY <1>5 DEF ClaimsHold, IsSo
<1>. QED BY <1>1, <1>2, <1>4, <1>6

\* The chain a line belongs to: what is around its %if, what its branches left.
LEMMA ChainIs ==
  ASSUME Fits(stack), stack # <<>>
  PROVE  /\ Fits(Front(stack)) /\ Last(stack) \in Frames
         /\ Last(stack).priors \in Seq(Exprs)
         /\ Last(stack).left = Reach(Front(stack)) \cap Unmet(Last(stack).priors)
<1>1. Last(stack) \in Frames
  BY Top
<1>2. Last(stack).priors \in Seq(Exprs)
  BY <1>1 DEF Frames
<1>. QED BY <1>1, <1>2, Popped

\* %if.
LEMMA IfStep ==
  ASSUME NoneApart, NoneNegated, WalkInv, NEW c \in Conditions, OnIf(c)
  PROVE  WalkInv'
<1>1. Enter(stack, c, <<>>, Reach(stack)) /\ Fits(stack)
  BY DEF OnIf, WalkInv
<1>2. <<>> \in Seq(Exprs) /\ Reach(stack) = Reach(stack) \cap Unmet(<<>>)
  BY <1>1, EmptySeq, Known, UnmetMore
<1>3. Fits(stack') /\ ClaimsHold' /\ UNCHANGED copies
  BY <1>1, <1>2, EnterStep
<1>. QED BY <1>3 DEF WalkInv, CopiesFit

\* %elif.
LEMMA ElifStep ==
  ASSUME NoneApart, NoneNegated, WalkInv, NEW c \in Conditions, OnElif(c)
  PROVE  WalkInv'
<1>1. Enter(Front(stack), c, Last(stack).priors, Last(stack).left) /\ Fits(stack) /\ stack # <<>>
  BY DEF OnElif, InChain, WalkInv
<1>2. /\ Fits(Front(stack)) /\ Last(stack).priors \in Seq(Exprs)
      /\ Last(stack).left = Reach(Front(stack)) \cap Unmet(Last(stack).priors)
  BY <1>1, ChainIs
<1>3. Fits(stack') /\ ClaimsHold' /\ UNCHANGED copies
  BY <1>1, <1>2, EnterStep
<1>. QED BY <1>3 DEF WalkInv, CopiesFit

\* %else.
LEMMA ElseStep ==
  ASSUME NoneApart, WalkInv, OnElse
  PROVE  WalkInv'
<1>1. Fits(stack) /\ stack # <<>>
  BY DEF OnElse, InChain, WalkInv
<1>2. /\ stack' = Append(Front(stack), ElseFrame(Front(stack), Last(stack)))
      /\ claims' = {} /\ UNCHANGED copies
  BY DEF OnElse, ElseFrame
<1>3. /\ Fits(Front(stack)) /\ Last(stack) \in Frames
      /\ Last(stack).left = Reach(Front(stack)) \cap Unmet(Last(stack).priors)
  BY <1>1, ChainIs
<1>4. Fits(stack')
  BY <1>2, <1>3, ElseEntered
<1>. QED BY <1>2, <1>4 DEF WalkInv, CopiesFit, ClaimsHold

\* %endif.
LEMMA EndifStep ==
  ASSUME NoneApart, WalkInv, OnEndif
  PROVE  WalkInv'
<1>. DEFINE s == Front(stack)
            top == Last(stack)
            cond == /\ ~top.else /\ Len(top.priors) > 1 /\ ~Tainted(s)
                    /\ Frame(Current(s), ElseEffective(top.priors)) = {}
<1>1. Fits(stack) /\ stack # <<>>
  BY DEF OnEndif, WalkInv
<1>2. stack' = s /\ claims' = When(cond, Claim("RPM116", top.left)) /\ UNCHANGED copies
  BY DEF OnEndif
<1>3. Fits(s) /\ top.priors \in Seq(Exprs) /\ top.left = Reach(s) \cap Unmet(top.priors)
  BY <1>1, ChainIs
<1>4. cond \in BOOLEAN /\ (cond => Frame(Current(s), ElseEffective(top.priors)) = {})
  OBVIOUS
<1>. HIDE DEF cond, s, top
<1>5. ASSUME NEW claim \in claims' PROVE IsSo(claim)
  BY <1>2, <1>3, <1>4, <1>5, EndifClaimsSo
<1>. QED BY <1>2, <1>3, <1>5 DEF WalkInv, CopiesFit, ClaimsHold, IsSo

\* A dependency.
LEMMA ItemStep ==
  ASSUME WalkInv, OnItem
  PROVE  WalkInv'
<1>. DEFINE copy == [path |-> Current(stack), guarded |-> stack # <<>>,
                     reach |-> Reach(stack), doubt |-> Doubt(stack)]
            n == Len(copies)
<1>1. /\ copies' = Append(copies, copy) /\ claims' = {} /\ UNCHANGED stack
  BY DEF OnItem
<1>2. Fits(stack) /\ copies \in Seq(Copies) /\ \A i \in 1..n : CopyFits(copies[i])
  BY DEF WalkInv, CopiesFit
<1>3. /\ Current(stack) \in Paths /\ Reach(stack) \in SUBSET Worlds /\ Doubt(stack) \in BOOLEAN
      /\ Current(stack) # None => Reach(stack) \subseteq Models(Current(stack))
      /\ stack # <<>> /\ ~Doubt(stack) =>
           Current(stack) # None /\ Models(Current(stack)) = Reach(stack)
  BY <1>2, Known
<1>4. copy \in Copies /\ CopyFits(copy)
  <2>1. (stack # <<>>) \in BOOLEAN
    OBVIOUS
  <2>2. copy \in Copies
    BY <1>3, <2>1 DEF Copies
  <2>. QED BY <1>3, <2>2 DEF CopyFits
<1>. HIDE DEF copy
<1>5. /\ n \in Nat /\ Append(copies, copy) \in Seq(Copies) /\ Len(Append(copies, copy)) = n + 1
      /\ Append(copies, copy)[n + 1] = copy
      /\ \A i \in 1..n : Append(copies, copy)[i] = copies[i]
  BY <1>2, <1>4, LenProperties, AppendProperties
<1>6. ASSUME NEW i \in 1..n + 1 PROVE CopyFits(Append(copies, copy)[i])
  <2>1. i \in 1..n \/ i = n + 1
    BY <1>5
  <2>. QED BY <1>2, <1>4, <1>5, <2>1
<1>. HIDE DEF n
<1>7. CopiesFit'
  BY <1>1, <1>5, <1>6 DEF CopiesFit
<1>. QED BY <1>1, <1>2, <1>7 DEF WalkInv, ClaimsHold

\* What is known of a guarded copy.
LEMMA GuardedFits ==
  ASSUME CopiesFit, NEW i \in Guarded
  PROVE  /\ copies[i].path # None /\ copies[i].reach \subseteq Models(copies[i].path)
         /\ ~copies[i].doubt => Models(copies[i].path) = copies[i].reach
<1>1. i \in 1..Len(copies) /\ copies[i].guarded /\ copies[i].path # None
  BY LenProperties DEF Guarded, CopiesFit
<1>. QED BY <1>1 DEF CopiesFit, CopyFits

\* RPM451.
LEMMA DominatedClaimsSo ==
  ASSUME CopiesFit, NEW claim \in DominatedClaims
  PROVE  IsSo(claim)
<1>1. PICK p \in Guarded \X Guarded :
        /\ Implies(copies[p[1]].path, copies[p[2]].path, atoms)
        /\ claim = [rule |-> "RPM451", against |-> copies[p[1]].reach \ copies[p[2]].reach,
                    doubt |-> copies[p[2]].doubt]
  BY DEF DominatedClaims
<1>2. p[1] \in Guarded /\ p[2] \in Guarded
  OBVIOUS
<1>3. copies[p[1]].reach \subseteq Models(copies[p[1]].path)
  BY <1>2, GuardedFits
<1>4. ~copies[p[2]].doubt => Models(copies[p[2]].path) = copies[p[2]].reach
  BY <1>2, GuardedFits
<1>5. Models(copies[p[1]].path) \subseteq Models(copies[p[2]].path)
  BY <1>1 DEF Implies
<1>6. claim.doubt = copies[p[2]].doubt /\ claim.against = copies[p[1]].reach \ copies[p[2]].reach
  BY <1>1
<1>. QED BY <1>3, <1>4, <1>5, <1>6 DEF IsSo

\* RPM452.
LEMMA ComplementClaimsSo ==
  ASSUME CopiesFit, NEW claim \in ComplementClaims
  PROVE  IsSo(claim)
<1>. DEFINE union == UNION {copies[i].path : i \in Possible}
            cond == Cardinality(Possible) > 1 /\ Implies(Tautology, union, atoms)
            against == Worlds \ UNION {copies[i].reach : i \in Possible}
            doubt == \E i \in Possible : copies[i].doubt
<1>1. cond /\ claim = [rule |-> "RPM452", against |-> against, doubt |-> doubt]
  BY DEF ComplementClaims, When
<1>2. ASSUME ~doubt, NEW w \in Worlds PROVE \E i \in Possible : w \in copies[i].reach
  <2>1. w \in Models(union)
    BY <1>1, TautologyForm DEF Implies
  <2>2. PICK cube \in union : Holds(cube, w)
    BY <2>1 DEF Models
  <2>3. PICK i \in Possible : cube \in copies[i].path
    OBVIOUS
  <2>4. w \in Models(copies[i].path)
    BY <2>2, <2>3 DEF Models
  <2>5. i \in Guarded /\ ~copies[i].doubt
    BY <1>2 DEF Possible
  <2>. QED BY <2>4, <2>5, GuardedFits
<1>3. ~doubt => against = {}
  BY <1>2
<1>. HIDE DEF doubt, against, cond
<1>. QED BY <1>1, <1>3 DEF IsSo

\* The end of the file.
LEMMA FinishStep ==
  ASSUME WalkInv, Finish
  PROVE  WalkInv'
<1>1. CopiesFit /\ Fits(stack) /\ UNCHANGED <<stack, copies>>
  BY DEF Finish, WalkInv
<1>2. claims' = DominatedClaims \cup ComplementClaims
  BY DEF Finish
<1>3. ASSUME NEW claim \in claims' PROVE IsSo(claim)
  BY <1>1, <1>2, <1>3, DominatedClaimsSo, ComplementClaimsSo
<1>. QED BY <1>1, <1>3 DEF WalkInv, CopiesFit, ClaimsHold, IsSo

\* Every line keeps the invariant.
LEMMA WalkStep ==
  ASSUME NoneApart, NoneNegated, WalkInv, [Next]_vars
  PROVE  WalkInv'
<1>1. ASSUME NEW c \in Conditions, OnIf(c) PROVE WalkInv'
  BY <1>1, IfStep
<1>2. ASSUME NEW c \in Conditions, OnElif(c) PROVE WalkInv'
  BY <1>2, ElifStep
<1>3. CASE OnElse
  BY <1>3, ElseStep
<1>4. CASE OnEndif
  BY <1>4, EndifStep
<1>5. CASE OnItem
  BY <1>5, ItemStep
<1>6. CASE Finish
  BY <1>6, FinishStep
<1>7. CASE UNCHANGED vars
  BY <1>7 DEF vars, WalkInv, CopiesFit, ClaimsHold
<1>. QED BY <1>1, <1>2, <1>3, <1>4, <1>5, <1>6, <1>7 DEF Next

\* The invariant holds of every file.
THEOREM WalkInvariant ==
  ASSUME NoneApart, NoneNegated PROVE Spec => []WalkInv
<1>1. WalkInv /\ [Next]_vars => WalkInv'
  BY WalkStep
<1>. QED BY <1>1, InitWalk, PTL DEF Spec

\* A path condition leaves out no build that gets to its branch, and where all
\* guards around were read it is true of no other, as long as no %ifnarch is
\* taken for an %ifarch.
THEOREM PathsAreExact ==
  ASSUME NoneApart, NoneNegated PROVE Spec => []PathExact
<1>1. WalkInv => PathExact
  <2>. SUFFICES ASSUME WalkInv, NEW i \in DOMAIN stack PROVE Sound(stack[i])
    BY DEF PathExact, Sound
  <2>1. Fits(stack)
    BY DEF WalkInv
  <2>2. i \in 1..Len(stack)
    BY <2>1, LenProperties DEF Fits
  <2>. QED BY <2>1, <2>2 DEF Fits
<1>. QED BY <1>1, WalkInvariant, PTL

\* Whatever a rule claims of a branch or of the copies of a dependency is so in
\* every build.
THEOREM ClaimsAreTrue ==
  ASSUME NoneApart, NoneNegated PROVE Spec => []ClaimsHold
<1>1. WalkInv => ClaimsHold
  BY DEF WalkInv
<1>. QED BY <1>1, WalkInvariant, PTL

\* A frame that knows all and where no build gets was reported.
LEMMA DeadReported ==
  ASSUME NoneApart, NoneNegated, NEW s, Fits(s), NEW c \in Conditions,
         NEW priors \in Seq(Exprs), NEW left, left = Reach(s) \cap Unmet(priors),
         Enter(s, c, priors, left), ~Last(stack').doubt, Last(stack').reach = {}
  PROVE  \E claim \in claims' : claim.rule \in {"RPM113", "RPM115"}
<1>. DEFINE eff == BranchEffective(c.expr, priors)
            path == Frame(Current(s), eff)
            f == BranchFrame(s, c, priors, left)
<1>1. /\ stack' = Append(s, f) /\ DeadClaims(s, c, priors, left) \subseteq claims'
      /\ Fits(stack')
  BY EnterStep
<1>2. Last(stack') = f /\ stack' # <<>>
  <2>1. s \in Seq(Frames) /\ Len(s) \in Nat
    BY LenProperties DEF Fits
  <2>. HIDE DEF f
  <2>2. Len(Append(s, f)) = Len(s) + 1 /\ Append(s, f)[Len(s) + 1] = f
    BY <2>1
  <2>3. Append(s, f) # <<>>
    BY <2>1, <2>2, EmptySeq
  <2>. QED BY <1>1, <2>2, <2>3 DEF Last
<1>3. f.path = path /\ f.doubt = (Doubt(s) \/ path = None)
  BY DEF BranchFrame
<1>4. f \in Frames /\ Sound(f)
  BY <1>1, <1>2, Top
<1>. HIDE DEF f, path
<1>5. path \in Forms /\ Models(path) = {} /\ ~Doubt(s)
  BY <1>2, <1>3, <1>4 DEF Sound, Frames, Paths
<1>6. path = {}
  BY <1>5, NoModelsEmpty
<1>7. ~Tainted(s)
  <2>1. s # <<>> => Current(s) # None
    BY <1>5, Known
  <2>. QED BY <2>1 DEF Tainted, Current
<1>8. PICK rule \in {"RPM113", "RPM115"} :
        Claim(rule, left \cap Taken(c)) \in DeadClaims(s, c, priors, left)
  BY <1>6, <1>7 DEF DeadClaims, When, path
<1>9. Claim(rule, left \cap Taken(c)).rule = rule
  BY DEF Claim
<1>. QED BY <1>1, <1>8, <1>9

\* A branch no build reaches is reported at its line, when its own guard and
\* all those around can be read.
THEOREM DeadIsReported ==
  ASSUME NoneApart, NoneNegated PROVE Spec => DeadIsFound
<1>. DEFINE Found == \A c \in Conditions :
              /\ OnIf(c) \/ OnElif(c)
              /\ ~Last(stack').doubt /\ Last(stack').reach = {}
              => \E claim \in claims' : claim.rule \in {"RPM113", "RPM115"}
<1>1. ASSUME WalkInv PROVE Found
  <2>. SUFFICES ASSUME NEW c \in Conditions, OnIf(c) \/ OnElif(c),
                       ~Last(stack').doubt, Last(stack').reach = {}
                PROVE  \E claim \in claims' : claim.rule \in {"RPM113", "RPM115"}
    OBVIOUS
  <2>0. Fits(stack)
    BY <1>1 DEF WalkInv
  <2>1. CASE OnIf(c)
    <3>1. Enter(stack, c, <<>>, Reach(stack))
      BY <2>1 DEF OnIf
    <3>2. <<>> \in Seq(Exprs) /\ Reach(stack) = Reach(stack) \cap Unmet(<<>>)
      BY <2>0, EmptySeq, Known, UnmetMore
    <3>. QED BY <2>0, <3>1, <3>2, DeadReported
  <2>2. CASE OnElif(c)
    <3>1. Enter(Front(stack), c, Last(stack).priors, Last(stack).left) /\ stack # <<>>
      BY <2>2 DEF OnElif, InChain
    <3>2. /\ Fits(Front(stack)) /\ Last(stack).priors \in Seq(Exprs)
          /\ Last(stack).left = Reach(Front(stack)) \cap Unmet(Last(stack).priors)
      BY <2>0, <3>1, ChainIs
    <3>. QED BY <3>1, <3>2, DeadReported
  <2>. QED BY <2>1, <2>2
<1>2. WalkInv => [Found]_vars
  BY <1>1
<1>3. ([][Found]_vars) <=> DeadIsFound
  BY DEF DeadIsFound
<1>. HIDE DEF Found
<1>. QED BY <1>2, <1>3, WalkInvariant, PTL
=============================================================================
