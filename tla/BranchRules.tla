------------------------------ MODULE BranchRules ------------------------------
(***************************************************************************)
(* The rules that follow the conditions of nested %if, %elif and %else.    *)
(* The visitor walks the file line by line and keeps a stack of path       *)
(* conditions; beside it goes what is really true: the worlds in which a   *)
(* build gets there.  Every claim of a rule comes with the worlds that     *)
(* speak against it.                                                       *)
(***************************************************************************)
EXTENDS BooleanDnf

CONSTANTS
  Conditions,   \* heads of branches: kind (if, ifarch, ifnarch) and expression
  MaxLines,     \* bound on the lines of a file, else and endif not counted
  MaxDepth      \* bound on the nesting, below MAX_PATH_STACK_DEPTH

ASSUME BranchRulesAssumption ==
  /\ MaxLines \in Nat /\ MaxDepth \in Nat \ {0}
  /\ \A c \in Conditions : c.kind \in {"if", "ifarch", "ifnarch"} /\ c.expr \in Exprs

VARIABLES
  lines,    \* lines read, else and endif not counted
  stack,    \* the open branches
  atoms,    \* the atoms interned
  copies,   \* the places of one dependency, in order
  claims,   \* what the rules said at the last line
  done

vars == <<lines, stack, atoms, copies, claims, done>>

\* Where a build takes the branch.
Taken(c) == IF c.kind = "ifnarch" THEN Worlds \ Sat[c.expr] ELSE Sat[c.expr]

\* PathConditions::current, is_tainted; loose is the stack of RPM431, which
\* takes an else it cannot read for always true.
Current(s) == IF s = <<>> THEN None ELSE Last(s).path
CurrentLoose(s) == IF s = <<>> THEN None ELSE Last(s).loose
Tainted(s) == s # <<>> /\ Last(s).path = None
TaintedLoose(s) == s # <<>> /\ Last(s).loose = None

\* Where a build gets inside the innermost branch of s, and whether some guard
\* around was not read.
Reach(s) == IF s = <<>> THEN Worlds ELSE Last(s).reach
Doubt(s) == s # <<>> /\ Last(s).doubt

Init ==
  /\ lines = 0 /\ stack = <<>> /\ atoms = {} /\ copies = <<>> /\ claims = {}
  /\ done = FALSE
-----------------------------------------------------------------------------
\* What is said of a branch with head c, after the branches with the heads
\* priors, which left the worlds left, in the body of outer.

\* RPM113, RPM115: no build gets here.
DeadClaims(outer, c, priors, left) ==
  LET eff == BranchEffective(c.expr, priors)
  IN When(~Tainted(outer) /\ Frame(Current(outer), eff) = {},
          Claim(IF priors = <<>> THEN "RPM113" ELSE "RPM115", left \cap Taken(c)))

\* Mutant: a path that cannot be satisfied is not passed over, nor is the top.
AlwaysClaimsConversely(outer, c, priors, left, seen) ==
  LET eff == BranchEffective(c.expr, priors)
  IN When(Current(outer) \notin {None, {}} /\ eff # None
            /\ Implies(eff, Current(outer), seen),
          Claim("RPM114", Reach(outer) \ (left \cap Taken(c))))

\* RPM114: every build that gets to the chain gets here.
AlwaysClaims(outer, c, priors, left, seen) ==
  LET eff == BranchEffective(c.expr, priors)
  IN When(Current(outer) \notin {None, {}} /\ eff # None
            /\ Implies(Current(outer), eff, seen),
          Claim("RPM114", Reach(outer) \ (left \cap Taken(c))))

\* Some literals of a head of one cube are implied by the path, some are not:
\* the kept ones say the same where the builds get.
PartClaims(rule, c, path, seen, here) ==
  LET head == Dnf[c.expr][FALSE]
      cube == UNION head
      kept == {l \in cube : ~Implies(path, {{l}}, seen)}
  IN IF path \in {None, {}} \/ head = None THEN {}
     ELSE When(/\ Cardinality(head) = 1 /\ Cardinality(seen) <= MaxAtoms
               /\ kept \notin {{}, cube},
               Claim(rule, here \cap SymDiff(Taken(c), Models({kept}))))

\* RPM430 looks at the path of the outer body, RPM431 also at what the
\* earlier branches of the chain left.
ContextClaims(outer, c, seen) ==
  PartClaims("RPM430", c, Current(outer), seen, Reach(outer))

HistoryClaims(outer, c, priors, left, seen) ==
  LET history == ElseEffective(priors)
  IN IF priors = <<>> \/ TaintedLoose(outer) \/ history = None THEN {}
     ELSE PartClaims("RPM431", c, Frame(CurrentLoose(outer), history), seen, left)

\* RPM442: the list names every architecture some %ifarch around names.
ArchList(c) == IF c.kind = "ifarch" /\ c.expr[1] = "arch" THEN c.expr[2] ELSE None

SubsetClaims(outer, c) ==
  When(/\ ArchList(c) # None
       /\ \E i \in DOMAIN outer : outer[i].archs # None /\ outer[i].archs \subseteq ArchList(c),
       Claim("RPM442", Reach(outer) \ Taken(c)))
-----------------------------------------------------------------------------
Line == lines < MaxLines /\ ~done /\ lines' = lines + 1 /\ UNCHANGED done

InChain == stack # <<>> /\ ~Last(stack).else

\* A frame: what the rules know (path, loose, archs), the chain so far, and
\* what is so.
Enter(outer, c, priors, left) ==
  LET eff == BranchEffective(c.expr, priors)
      path == Frame(Current(outer), eff)
  IN /\ atoms' = atoms \cup Interned[c.expr]
     /\ claims' = BooleanClaims(c.expr) \cup FactorClaims(c.expr)
                    \cup DeadClaims(outer, c, priors, left)
                    \cup AlwaysClaims(outer, c, priors, left, atoms')
                    \cup ContextClaims(outer, c, atoms')
                    \cup HistoryClaims(outer, c, priors, left, atoms')
                    \cup SubsetClaims(outer, c)
     /\ stack' = Append(outer,
          [path |-> path, loose |-> Frame(CurrentLoose(outer), eff), archs |-> ArchList(c),
           priors |-> Append(priors, c.expr), left |-> left \ Taken(c), else |-> FALSE,
           reach |-> left \cap Taken(c), doubt |-> Doubt(outer) \/ path = None])
     /\ UNCHANGED copies

OnIf(c) == Line /\ Len(stack) < MaxDepth /\ Enter(stack, c, <<>>, Reach(stack))

OnElif(c) ==
  /\ Line /\ InChain
  /\ Enter(Front(stack), c, Last(stack).priors, Last(stack).left)

\* Mutant: the else body is entered under the path of the last branch.
OnElseSamePath ==
  /\ InChain
  /\ stack' = Append(Front(stack), [Last(stack) EXCEPT !.else = TRUE, !.reach = Last(stack).left])
  /\ claims' = {} /\ UNCHANGED <<lines, atoms, copies, done>>

OnElse ==
  /\ InChain
  /\ LET outer == Front(stack)
         top == Last(stack)
         eff == ElseEffective(top.priors)
         path == Frame(Current(outer), eff)
     IN stack' = Append(outer,
          [top EXCEPT !.path = path, !.archs = None, !.else = TRUE, !.reach = top.left,
             !.loose = Frame(CurrentLoose(outer), IF eff = None THEN Tautology ELSE eff),
             !.doubt = Doubt(outer) \/ path = None])
  /\ claims' = {} /\ UNCHANGED <<lines, atoms, copies, done>>

\* RPM116: the branches of a chain without else leave nothing over.
OnEndif ==
  /\ stack # <<>> /\ stack' = Front(stack)
  /\ LET top == Last(stack)
         rest == Frame(Current(Front(stack)), ElseEffective(top.priors))
     IN claims' = When(~top.else /\ Len(top.priors) > 1 /\ ~Tainted(Front(stack)) /\ rest = {},
                       Claim("RPM116", top.left))
  /\ UNCHANGED <<lines, atoms, copies, done>>

\* A dependency on the same package, once more.
OnItem ==
  /\ Line
  /\ copies' = Append(copies, [path |-> Current(stack), guarded |-> stack # <<>>,
                               reach |-> Reach(stack), doubt |-> Doubt(stack)])
  /\ claims' = {} /\ UNCHANGED <<stack, atoms>>

\* RPM451: the copy adds nothing to another one under a weaker guard; RPM452:
\* the copies together are there in every build.
Guarded == {i \in DOMAIN copies : copies[i].guarded /\ copies[i].path # None}
Possible == {i \in Guarded : copies[i].path # {}}

DominatedClaims ==
  {[rule |-> "RPM451", against |-> copies[p[1]].reach \ copies[p[2]].reach,
    doubt |-> copies[p[2]].doubt] :
     p \in {q \in Guarded \X Guarded :
              /\ Implies(copies[q[1]].path, copies[q[2]].path, atoms)
              /\ ~Implies(copies[q[2]].path, copies[q[1]].path, atoms)}}

ComplementClaims ==
  When(Cardinality(Possible) > 1
         /\ Implies(Tautology, UNION {copies[i].path : i \in Possible}, atoms),
       [rule |-> "RPM452", against |-> Worlds \ UNION {copies[i].reach : i \in Possible},
        doubt |-> \E i \in Possible : copies[i].doubt])

Finish ==
  /\ stack = <<>> /\ ~done /\ done' = TRUE
  /\ claims' = DominatedClaims \cup ComplementClaims
  /\ UNCHANGED <<lines, stack, atoms, copies>>

Next ==
  \/ \E c \in Conditions : OnIf(c) \/ OnElif(c)
  \/ OnElse \/ OnEndif \/ OnItem \/ Finish

Spec == Init /\ [][Next]_vars
-----------------------------------------------------------------------------
\* "Two atoms sharing an AtomId can produce wrong UNSAT/SAT verdicts": a path
\* condition never leaves out a build that gets there, whatever was lost on the
\* way to the explosion guard or to a guard that cannot be read; and as long as
\* all guards around were read it is true of no other build.
PathExact ==
  \A i \in DOMAIN stack :
    LET f == stack[i]
    IN /\ f.path # None => f.reach \subseteq Models(f.path)
       /\ f.loose # None => f.reach \subseteq Models(f.loose)
       /\ ~f.doubt => f.path # None /\ Models(f.path) = f.reach

\* What a rule says of a branch or of the copies of a dependency is so in every
\* build; for the rules about copies, as long as the guards around the copies
\* were all read.
ClaimsHold == \A claim \in claims : ~claim.doubt => claim.against = {}

\* A branch no build reaches is reported where the line stands, when all guards
\* around and its own can be read: nothing is lost between elif and nesting.
DeadIsFound ==
  [][ \A c \in Conditions :
        /\ OnIf(c) \/ OnElif(c)
        /\ ~Last(stack').doubt /\ Last(stack').reach = {}
        => \E claim \in claims' : claim.rule \in {"RPM113", "RPM115"} ]_vars
=============================================================================
