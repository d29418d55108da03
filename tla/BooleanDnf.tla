------------------------------ MODULE BooleanDnf ------------------------------
(***************************************************************************)
(* The disjunctive normal forms of the condition rules.  A literal is an   *)
(* atom and its sign, a cube a set of literals, a DNF a set of cubes; None *)
(* stands for a condition the rules cannot read.  A world is the set of    *)
(* the atoms that are true in some build, Sat what a condition means.      *)
(***************************************************************************)
EXTENDS Integers, FiniteSets, SequencesExt

CONSTANTS
  Atoms,      \* what a build decides: macros, comparisons, architectures
  Exprs,      \* conditions, closed under operands
  MaxCubes,   \* explosion guard
  MaxAtoms,   \* atoms beyond which no truth table is made
  None

\* A condition is a finite tree, a list of architectures finite.
Depth[e \in Exprs] ==
  CASE e[1] = "not" -> 1 + Depth[e[2]]
    [] e[1] \in {"and", "or"} -> 1 + Depth[e[2]] + Depth[e[3]]
    [] OTHER -> 0

ASSUME BooleanDnfAssumption ==
  /\ MaxCubes \in Nat /\ MaxAtoms \in Nat
  /\ \A e \in Exprs :
       CASE e[1] \in {"atom", "raw"} -> e[2] \in Atoms
         [] e[1] = "arch" -> e[2] \subseteq Atoms /\ IsFiniteSet(e[2])
         [] e[1] = "not" -> e[2] \in Exprs
         [] OTHER -> e[1] \in {"and", "or"} /\ {e[2], e[3]} \subseteq Exprs
  /\ \A e \in Exprs :
       /\ Depth[e] \in Nat
       /\ e[1] \in {"not", "and", "or"} => Depth[e[2]] < Depth[e]
       /\ e[1] \in {"and", "or"} => Depth[e[3]] < Depth[e]

Worlds == SUBSET Atoms

\* The worlds in which a condition holds; that of a raw one is anybody's guess.
Sat[e \in Exprs] ==
  CASE e[1] \in {"atom", "raw"} -> {w \in Worlds : e[2] \in w}
    [] e[1] = "arch" -> {w \in Worlds : e[2] \cap w # {}}
    [] e[1] = "not" -> Worlds \ Sat[e[2]]
    [] e[1] = "and" -> Sat[e[2]] \cap Sat[e[3]]
    [] OTHER -> Sat[e[2]] \cup Sat[e[3]]

Holds(cube, w) == \A l \in cube : (l[1] \in w) = l[2]
Models(dnf) == {w \in Worlds : \E cube \in dnf : Holds(cube, w)}
-----------------------------------------------------------------------------
Contradictory(cube) == \E l \in cube : <<l[1], ~l[2]>> \in cube

Tautology == {{}}

Capped(dnf) == IF Cardinality(dnf) > MaxCubes THEN None ELSE dnf

\* Mutant: contradictions are kept.
AndUnfiltered(a, b) ==
  IF a = None \/ b = None THEN None ELSE Capped({c \cup d : c \in a, d \in b})

\* distribute_and, conjoin.
And(a, b) ==
  IF a = None \/ b = None THEN None
  ELSE Capped({m \in {c \cup d : c \in a, d \in b} : ~Contradictory(m)})

Or(a, b) == IF a = None \/ b = None THEN None ELSE Capped(a \cup b)

\* cond_to_dnf of a condition and of its negation, the negation pushed to the
\* atoms by De Morgan's laws; the cap is not asked of a list of architectures.
Dnf[e \in Exprs] ==
  [neg \in BOOLEAN |->
    CASE e[1] = "atom" -> {{<<e[2], ~neg>>}}
      [] e[1] = "raw" -> None
      [] e[1] = "arch" -> IF neg THEN {{<<a, FALSE>> : a \in e[2]}}
                                 ELSE {{<<a, TRUE>>} : a \in e[2]}
      [] e[1] = "not" -> Dnf[e[2]][~neg]
      [] e[1] = (IF neg THEN "or" ELSE "and") -> And(Dnf[e[2]][neg], Dnf[e[3]][neg])
      [] OTHER -> Or(Dnf[e[2]][neg], Dnf[e[3]][neg])]

\* The atoms interned on the way: none behind an operand that failed.
Interned[e \in Exprs] ==
  CASE e[1] = "atom" -> {e[2]}
    [] e[1] = "raw" -> {}
    [] e[1] = "arch" -> e[2]
    [] e[1] = "not" -> Interned[e[2]]
    [] OTHER -> Interned[e[2]]
                  \cup IF Dnf[e[2]][FALSE] = None THEN {} ELSE Interned[e[3]]

\* e and none of the priors; then none of the priors alone.
Conjoined(acc, priors) ==
  FoldLeft(LAMBDA a, p : And(a, Dnf[p][TRUE]), acc, priors)

BranchEffective(e, priors) == Conjoined(Dnf[e][FALSE], priors)
ElseEffective(priors) == Conjoined(Tautology, priors)

\* compute_frame: a parent that cannot be read is no obstacle.
Frame(parent, extra) == IF parent = None THEN extra ELSE And(parent, extra)

\* path_implies, made of a truth table over the atoms seen so far.
Implies(path, dnf, seen) ==
  Cardinality(seen) <= MaxAtoms /\ Models(path) \subseteq Models(dnf)

\* simplify_subsumption.
Simplified(dnf) == {c \in dnf : \A d \in dnf : ~(d \subseteq c /\ d # c)}
-----------------------------------------------------------------------------
\* What the rules about one condition say of it: each claim comes with the
\* worlds that speak against it.

Claim(rule, against) == [rule |-> rule, against |-> against, doubt |-> FALSE]

When(condition, claim) == IF condition THEN {claim} ELSE {}

OrOperands[e \in Exprs] ==
  IF e[1] = "or" THEN OrOperands[e[2]] + OrOperands[e[3]] ELSE 1

\* RPM110, RPM111 and RPM112, over analyse_branch: absorbed operands, always
\* true, never true.
BooleanClaims(e) ==
  LET raw == Dnf[e][FALSE]
      dnf == Simplified(raw)
      operands == {Cardinality(raw), OrOperands[e]}
  IN IF e[1] \notin {"and", "or", "not"} \/ raw = None THEN {}
     ELSE When(dnf # {} /\ {} \notin dnf /\ \E n \in operands : n > Cardinality(dnf),
               Claim("RPM110", SymDiff(Sat[e], Models(dnf))))
            \cup When(Implies(Tautology, dnf, Interned[e]), Claim("RPM111", Worlds \ Sat[e]))
            \cup When(dnf = {}, Claim("RPM112", Sat[e]))

\* RPM432: a factor all cubes share, and what is left of them.
FactorClaims(e) ==
  LET dnf == Simplified(Dnf[e][FALSE])
      common == {l \in UNION dnf : \A c \in dnf : l \in c}
      rest == {c \ common : c \in dnf}
  IN IF Dnf[e][FALSE] = None THEN {}
     ELSE When(Cardinality(dnf) > 1 /\ common # {} /\ {} \notin rest,
               Claim("RPM432", SymDiff(Sat[e], Models({common}) \cap Models(rest))))
=============================================================================
