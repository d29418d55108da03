---------------------------- MODULE BranchCoverage ----------------------------
(***************************************************************************)
(* matrix coverage: for which profiles is the condition of a branch true?  *)
(* A file is read line by line.  On one side goes rpm, with the macros as  *)
(* they are at that line, in every build: a profile, alone or with a value *)
(* for each macro the project declares variants of.  On the other side goes *)
(* the scan of spec_locals, once for each profile; at the end of the file  *)
(* every branch is judged with what the scan left.                         *)
(***************************************************************************)
EXTENDS Integers, FiniteSets, SequencesExt

CONSTANTS
  Profiles,
  Macros,
  Registry,          \* the macros a profile defines, None for the others
  Archs,             \* the architectures a profile is compatible with
  Numbers,           \* the texts that are numbers, and which
  Variants,          \* declared variants: sequence of a macro and its values
  MaxCombinations,   \* MAX_VARIANT_COMBINATIONS
  Exprs,             \* expressions, closed under operands
  Heads,             \* conditions: kind and expression, or list of architectures
  Definitions,       \* lines that define a macro: kind, name and value
  Bconds,            \* names of build conditions
  Declarations,      \* %bcond lines: name and default
  ForcedOn,          \* --with on the command line
  ForcedOff,         \* --without
  MaxLines,          \* bound on the lines of a file, else and endif not counted
  MaxDepth,          \* bound on the nesting
  Unknown,           \* a value only a build would tell
  None

\* An expression is a finite tree.
Depth[e \in Exprs] ==
  CASE e[1] = "not" -> 1 + Depth[e[2]]
    [] e[1] \in {"eq", "lt", "and", "or"} -> 1 + Depth[e[2]] + Depth[e[3]]
    [] OTHER -> 0

ASSUME ExprsAssumption ==
  \A e \in Exprs :
    /\ CASE e[1] \in {"int", "text", "shell"} -> TRUE
         [] e[1] \in {"quoted", "macro", "optional", "concat"} -> e[2] \in Macros
         [] e[1] \in {"with", "without"} -> e[2] \in Bconds
         [] e[1] = "not" -> e[2] \in Exprs
         [] OTHER -> e[1] \in {"eq", "lt", "and", "or"} /\ {e[2], e[3]} \subseteq Exprs
    /\ Depth[e] \in Nat
    /\ e[1] \in {"not", "eq", "lt", "and", "or"} => Depth[e[2]] < Depth[e]
    /\ e[1] \in {"eq", "lt", "and", "or"} => Depth[e[3]] < Depth[e]

ASSUME HeadsAssumption ==
  \A h \in Heads :
    \/ h.kind = "if" /\ h.expr \in Exprs
    \/ /\ h.kind \in {"ifarch", "ifnarch"}
       /\ \A i \in ToSet(h.expr[2]) : i[1] # "text" => i[1] = "macro" /\ i[2] \in Macros

ASSUME BranchCoverageAssumption ==
  /\ DOMAIN Registry = Profiles /\ DOMAIN Archs = Profiles
  /\ \A p \in Profiles :
       DOMAIN Registry[p] = Macros /\ {Unknown, None} \cap Archs[p] = {}
  /\ Len(Variants) \in Nat /\ DOMAIN Variants = 1..Len(Variants)
  /\ \A k \in DOMAIN Variants :
       /\ Variants[k].name \in Macros
       /\ Len(Variants[k].values) \in Nat \ {0}
       /\ \A v \in 1..Len(Variants[k].values) : Variants[k].values[v] # None
       /\ \A j \in DOMAIN Variants : Variants[j].name = Variants[k].name => j = k
  /\ \A d \in Definitions : d.kind \in {"global", "default"} /\ d.name \in Macros /\ d.value # None
  /\ \A d \in Declarations : d.name \in Bconds /\ d.value \in {"0", "1", Unknown}
  /\ Bconds \cap Macros = {} /\ ForcedOn \cap ForcedOff = {}
  /\ None \notin {"0", "1", Unknown} /\ Unknown \notin {"0", "1"}
  /\ {MaxCombinations, MaxLines, MaxDepth} \subseteq Nat

VARIABLES
  bcond,     \* the defaults BcondMap::from_spec finds in the whole file
  entries,   \* the defaults declared up to here
  lines,     \* lines read, else and endif not counted
  stack,     \* the open conditionals: where rpm is, where the scan is
  env,       \* rpm's macros, for each build
  locals,    \* what the scan collected, for each profile
  rows,      \* the branches: head and its value in each build
  defined,   \* macros the file defined
  shaky,     \* what the scan or the first pass may know otherwise than rpm
  report     \* the coverage of the rows, None before the end of the file

vars == <<bcond, entries, lines, stack, env, locals, rows, defined, shaky, report>>
-----------------------------------------------------------------------------
\* The value of a condition: a number, a text, or an error and the macro that has
\* no definition, or none that expands.
Num(n) == [type |-> "int", val |-> n]
Str(s) == [type |-> "str", val |-> s]
Err(m) == [type |-> "err", lacks |-> m]
Bool(b) == Num(IF b THEN 1 ELSE 0)

Parsed(s) == IF s \in DOMAIN Numbers THEN Num(Numbers[s]) ELSE Str(s)

NonZero(v) == v.type = "int" /\ v.val # 0
NonEmpty(v) == v.type = "str" /\ v.val # ""

\* apply_binop: errors first, from the left; no coercion.
Binary(op, l, r) ==
  IF l.type = "err" THEN l
  ELSE IF r.type = "err" THEN r
  ELSE IF l.type # r.type \/ (l.type = "str" /\ op # "eq") THEN Err(None)
  ELSE Bool(CASE op = "eq" -> l.val = r.val
              [] op = "lt" -> l.val < r.val
              [] op = "and" -> NonZero(l) /\ NonZero(r)
              [] op = "or" -> NonZero(l) \/ NonZero(r))

\* expand_raw_string, of %{m} and %{?m}.
Expanded(m, optional, macros) ==
  CASE macros[m] = Unknown -> Err(m)
    [] macros[m] = None -> IF optional THEN Str("") ELSE Err(m)
    [] OTHER -> Str(macros[m])

\* evaluate_numeric_concat, of 0%{?m}: nothing is zero, text is an error.
Concat(m, macros) ==
  LET s == Expanded(m, TRUE, macros)
  IN IF s.type = "err" THEN s
     ELSE IF s.val = "" THEN Num(0)
     ELSE IF s.val \in DOMAIN Numbers THEN Parsed(s.val) ELSE Err(None)

\* A bare %{m} or %{?m} is a number if it can be.
Bare(m, optional, macros) ==
  LET s == Expanded(m, optional, macros) IN IF s.type = "err" THEN s ELSE Parsed(s.val)

\* resolve_bcond
Gate(state) == IF state = Unknown THEN Err(None) ELSE Parsed(state)

Negated(v) == IF v.type = "err" THEN v ELSE Bool(~NonZero(v) /\ ~NonEmpty(v))

\* evaluate_expr_ast; shell stands for every form that is not analysed.
Value(expr, macros) ==
  LET value[e \in Exprs] ==
        CASE e[1] = "int" -> Num(e[2])
          [] e[1] = "text" -> Str(e[2])
          [] e[1] = "shell" -> Err(None)
          [] e[1] = "quoted" -> Expanded(e[2], FALSE, macros)
          [] e[1] = "macro" -> Bare(e[2], FALSE, macros)
          [] e[1] = "optional" -> Bare(e[2], TRUE, macros)
          [] e[1] = "concat" -> Concat(e[2], macros)
          [] e[1] = "with" -> Gate(macros[e[2]])
          [] e[1] = "without" -> Negated(Gate(macros[e[2]]))
          [] e[1] = "not" -> Negated(value[e[2]])
          [] OTHER -> Binary(e[1], value[e[2]], value[e[3]])
  IN value[expr]

\* The macros and build conditions an expression reads.
Reads[e \in Exprs] ==
  CASE e[1] = "not" -> Reads[e[2]]
    [] e[1] \in {"eq", "lt", "and", "or"} -> Reads[e[2]] \cup Reads[e[3]]
    [] e[1] \in {"int", "text", "shell"} -> {}
    [] OTHER -> {e[2]}

\* Those a head reads; an entry of a list of architectures is a text or a macro.
Uses(h) ==
  IF h.kind = "if" THEN Reads[h.expr]
  ELSE {i[2] : i \in {j \in ToSet(h.expr[2]) : j[1] = "macro"}}

\* The entries of the list, expanded: a hit anywhere wins over an entry that
\* cannot be expanded.
ArchVerdict(items, p, macros, negate) ==
  LET texts == {IF i[1] = "text" THEN i[2] ELSE macros[i[2]] : i \in ToSet(items)}
      lacking == {k \in DOMAIN items : items[k][1] = "macro" /\ macros[items[k][2]] \in {Unknown, None}}
  IN IF Archs[p] = {} THEN Err(None)
     ELSE IF texts \cap Archs[p] # {} THEN Bool(~negate)
     ELSE IF lacking # {} THEN Err(items[Min(lacking)][2])
     ELSE Bool(negate)

\* evaluate_branch: a number, 1 or 0, or an error.
Verdict(h, p, macros) ==
  IF h.kind \in {"ifarch", "ifnarch"}
  THEN ArchVerdict(h.expr[2], p, macros, h.kind = "ifnarch")
  ELSE LET v == Value(h.expr, macros)
       IN IF v.type = "err" THEN v ELSE Bool(NonZero(v) \/ NonEmpty(v))

Yes == Bool(TRUE)
No == Bool(FALSE)
Undecided(v) == v.type = "err"
-----------------------------------------------------------------------------
\* Combination i of the variants numbered in ks, the first macro turning fastest:
\* by how many combinations variant k turns.
Stride(ks) ==
  LET stride[k \in 1..Len(Variants) + 1] ==
        IF k = 1 THEN 1
        ELSE stride[k - 1] * IF k - 1 \in ks THEN Len(Variants[k - 1].values) ELSE 1
  IN stride

Total(ks) == Stride(ks)[Len(Variants) + 1]
Combination(ks, i) ==
  [k \in ks |->
     Variants[k].values[((i \div Stride(ks)[k]) % Len(Variants[k].values)) + 1]]

With(macros, ks, i) ==
  [m \in Macros |-> IF \E k \in ks : Variants[k].name = m
                    THEN Combination(ks, i)[CHOOSE k \in ks : Variants[k].name = m]
                    ELSE macros[m]]

Declared == DOMAIN Variants

\* from_spec and with_state: the command line decides, then the declaration,
\* and a name nobody declares is off.
Resolved(b) ==
  CASE b \in ForcedOn -> "1"
    [] b \in ForcedOff \/ bcond[b] = None -> "0"
    [] OTHER -> bcond[b]

\* What a condition is evaluated with: macros, and the build conditions.
Scope(macros, gates) ==
  [m \in Macros \cup Bconds |-> IF m \in Bconds THEN gates[m] ELSE macros[m]]
Known(macros) == Scope(macros, [b \in Bconds |-> Resolved(b)])

\* A build: the profile as it is (-1), or with a combination of all variants.
Builds == Profiles \X (-1 .. Total(Declared) - 1)

Off == [b \in Bconds |-> "0"]
Undeclared == [b \in Bconds |-> None]

\* The build conditions are known from a first pass over the file.
Init ==
  /\ entries = Undeclared
  /\ bcond \in {u \in [Bconds -> {"0", "1", Unknown, None}] :
                 /\ \A b \in Bconds : u[b] = None \/ [name |-> b, value |-> u[b]] \in Declarations
                 /\ Cardinality({b \in Bconds : u[b] # None}) <= MaxLines}
  /\ lines = 0 /\ stack = <<>> /\ rows = {} /\ defined = {} /\ report = None
  /\ shaky = {b \in ForcedOn : bcond[b] = None}
  /\ env = [b \in Builds |->
              Scope(IF b[2] = -1 THEN Registry[b[1]] ELSE With(Registry[b[1]], Declared, b[2]), Off)]
  /\ locals = [p \in Profiles |-> [m \in Macros |-> None]]

\* The builds rpm is with, those of which nobody knows, the profiles whose scan
\* is here, and what the heads on the way read.
Whole == [in |-> Builds, doubt |-> {}, walks |-> Profiles, reads |-> {}]
Here(s) == IF s = <<>> THEN Whole ELSE Last(s)

\* The declarations still to come fit into the file.
Awaited == {b \in Bconds : entries[b] # bcond[b]}
Reading(awaited) ==
  /\ report = None /\ lines + Cardinality(awaited) < MaxLines /\ lines' = lines + 1
  /\ UNCHANGED <<bcond, report>>

\* A branch is entered: by the builds of rest whose value is true; and by the
\* scan, which takes a true branch and none after it, and every branch it
\* cannot judge.
Enter(outer, h, rest, doubt, seen, reads) ==
  LET truth == [b \in Builds |-> Verdict(h, b[1], env[b])]
      scan == [p \in Profiles |-> Verdict(h, p, Known(Registry[p]))]
      puzzled == {b \in rest : Undecided(truth[b])}
  IN /\ rows' = rows \cup {[head |-> h, truth |-> truth]}
     /\ stack' = Append(outer,
          [in |-> {b \in rest : truth[b] = Yes}, rest |-> {b \in rest : truth[b] = No},
           doubt |-> doubt \cup puzzled, reads |-> reads \cup Uses(h), else |-> FALSE,
           walks |-> {p \in seen.open : scan[p] # No},
           open |-> {p \in seen.open : scan[p] # Yes},
           puzzled |-> seen.puzzled \cup {p \in seen.open : Undecided(scan[p])}])
     /\ UNCHANGED <<entries, env, locals, defined, shaky>>

OnIf(h) ==
  /\ Reading(Awaited) /\ Len(stack) < MaxDepth
  /\ LET o == Here(stack)
     IN Enter(stack, h, o.in, o.doubt, [open |-> o.walks, puzzled |-> {}], o.reads)

InChain == stack # <<>> /\ ~Last(stack).else

OnElif(h) ==
  /\ Reading(Awaited) /\ InChain
  /\ LET chain == Last(stack)
     IN Enter(Front(stack), h, chain.rest, chain.doubt, chain, chain.reads)

OnElse ==
  /\ report = None /\ InChain
  /\ stack' = Append(Front(stack),
       [Last(stack) EXCEPT !.else = TRUE, !.in = Last(stack).rest,
          !.walks = Last(stack).open \ Last(stack).puzzled])
  /\ UNCHANGED <<bcond, entries, lines, env, locals, rows, defined, shaky, report>>

OnEndif ==
  /\ report = None /\ stack # <<>> /\ stack' = Front(stack)
  /\ UNCHANGED <<bcond, entries, lines, env, locals, rows, defined, shaky, report>>

\* The scan keeps what it meets first, and no value that is not literal.
Collected(d, walks) ==
  [p \in Profiles |->
     IF p \in walks /\ d.value # Unknown /\ locals[p][d.name] = None
     THEN [locals[p] EXCEPT ![d.name] = d.value] ELSE locals[p]]

\* %global, %define and %{!?m:%global m v}.  The scan may know better or worse
\* than rpm when a value is replaced, when it was read before it was there, and
\* under a guard whose value the file itself or a variant decides, or a build
\* condition of which the scan has another value.
OnDefinition(d) ==
  /\ Reading(Awaited)
  /\ LET here == Here(stack)
         m == d.name
         decided == defined \cup {Variants[k].name : k \in Declared} \cup Awaited \cup (Bconds \cap shaky)
         sets == {b \in here.in \cup here.doubt : d.kind = "global" \/ env[b][m] = None}
     IN /\ env' = [b \in Builds |->
                     IF b \notin sets THEN env[b]
                     ELSE [env[b] EXCEPT ![m] = IF b \in here.doubt THEN Unknown ELSE d.value]]
        /\ locals' = Collected(d, here.walks)
        /\ defined' = defined \cup {m}
        /\ shaky' = IF \/ \E b \in sets : env[b][m] # None
                       \/ \E r \in rows : m \in Uses(r.head)
                       \/ here.reads \cap decided # {}
                    THEN shaky \cup {m} ELSE shaky
  /\ UNCHANGED <<entries, stack, rows>>

\* record_declaration: the first declaration of a name wins, whatever encloses
\* it.
Recorded(d) ==
  IF entries[d.name] # None THEN entries ELSE [entries EXCEPT ![d.name] = d.value]

\* %bcond_with, %bcond_without and %bcond.  rpm only knows the condition from
\* here on, if it gets here, and what switched it on is never undone.
OnDeclaration(d) ==
  /\ Reading(Awaited \ {d.name})
  /\ entries' = Recorded(d) /\ entries'[d.name] = bcond[d.name]
  /\ LET here == Here(stack)
         b == d.name
         value == IF b \in ForcedOn THEN "1" ELSE IF b \in ForcedOff THEN "0" ELSE d.value
     IN /\ env' = [x \in Builds |->
                     IF x \notin here.in \cup here.doubt \/ env[x][b] = "1" THEN env[x]
                     ELSE [env[x] EXCEPT ![b] = IF x \in here.doubt THEN Unknown ELSE value]]
        /\ shaky' = IF \/ entries[b] # None
                       \/ \E r \in rows : b \in Uses(r.head)
                       \/ here.in # Builds
                    THEN shaky \cup {b} ELSE shaky
  /\ UNCHANGED <<stack, locals, rows, defined>>
-----------------------------------------------------------------------------
\* Mutant: what the file sets replaces what the profile says.
AugmentedByFile(p) ==
  [m \in Macros |-> IF locals[p][m] # None THEN locals[p][m] ELSE Registry[p][m]]

\* augment_targets_with_spec_locals: what the profile says stays.
Augmented(p) ==
  [m \in Macros |-> IF Registry[p][m] # None THEN Registry[p][m] ELSE locals[p][m]]

\* evaluate_conditional: the three verdicts and the macros that were missing.
Judged(h) ==
  LET verdict == [p \in Profiles |-> Verdict(h, p, Known(Augmented(p)))]
      puzzled == {p \in Profiles : Undecided(verdict[p])}
  IN [active |-> {p \in Profiles : verdict[p] = Yes},
      inactive |-> {p \in Profiles : verdict[p] = No},
      indeterminate |-> puzzled,
      lacks |-> [p \in puzzled |-> verdict[p].lacks],
      conditional |-> {}, reachable |-> {}]

Applicable(h) == {k \in Declared : Variants[k].name \in Uses(h)}

\* Mutant: also the profiles for which the branch is active are tried.
CandidatesAll(c) == Profiles

\* Mutant: only the profiles nothing was found out about are tried.
CandidatesOpen(c) == c.indeterminate

Candidates(c) == Profiles \ c.active

\* The profiles that no combination activates and none fails for.
Exhausted(trial, ks) ==
  {p \in Profiles : \A i \in 0 .. Total(ks) - 1 : trial[p][i] = No}

\* augment_with_variants: a profile for which some combination activates the
\* branch is rescued, by the first one; what no combination activates or fails
\* for is inactive; a rescued profile no longer lacks the macro.
Rescued(h, c) ==
  LET ks == Applicable(h)
      all == 0 .. Total(ks) - 1
      trial == [p \in Profiles |-> [i \in all |-> Verdict(h, p, Known(With(Augmented(p), ks, i)))]]
      first == [p \in {q \in Candidates(c) : \E i \in all : trial[q][i] = Yes} |->
                  CHOOSE i \in all : trial[p][i] = Yes /\ \A j \in 0 .. i - 1 : trial[p][j] # Yes]
      demoted == c.indeterminate \cap (Exhausted(trial, ks) \ DOMAIN first)
      supplied == {p \in c.indeterminate \cap DOMAIN first :
                     \E k \in Declared : Variants[k].name = c.lacks[p]}
  IN IF ks = {} \/ Total(ks) > MaxCombinations THEN c
     ELSE [c EXCEPT !.inactive = @ \cup demoted,
                    !.indeterminate = @ \ (demoted \cup supplied),
                    !.conditional = DOMAIN first,
                    !.reachable = {<<Variants[k].name, Combination(ks, first[p])[k]>> :
                                     k \in ks, p \in DOMAIN first}]

Finish ==
  /\ report = None /\ stack = <<>> /\ Awaited = {}
  /\ report' = {[row |-> r, coverage |-> Rescued(r.head, Judged(r.head))] : r \in rows}
  /\ UNCHANGED <<bcond, entries, lines, stack, env, locals, rows, defined, shaky>>

Next ==
  \/ \E h \in Heads : OnIf(h) \/ OnElif(h)
  \/ \E d \in Definitions : OnDefinition(d)
  \/ \E d \in Declarations : OnDeclaration(d)
  \/ OnElse \/ OnEndif \/ Finish

Spec == Init /\ [][Next]_vars
-----------------------------------------------------------------------------
Reported == IF report = None THEN {} ELSE report
Settled == {r \in Reported : Uses(r.row.head) \cap shaky = {}}
Enumerated(h) == Total(Applicable(h)) <= MaxCombinations

Is(r, p, i, verdict) == r.row.truth[<<p, i>>] = verdict

\* rpm does not tell, since the file sets one of the macros, where it may.
LeftOpen(r, p) ==
  Undecided(r.row.truth[<<p, -1>>]) /\ Uses(r.row.head) \cap defined # {}

\* is_dead
Dead(c) == c.active = {} /\ c.indeterminate = {} /\ c.conditional = {}

\* "RPM evaluates conditionals short-circuit ... so we mirror that": two passes
\* over the file, one for definitions and one for conditions, find for each
\* profile what rpm finds in one, and leave open only what rpm's own run leaves
\* open; a variant is said to reach a branch only if some build with it does.
VerdictsHold ==
  \A r \in Settled :
    LET c == r.coverage
    IN /\ \A p \in c.active : Is(r, p, -1, Yes) \/ LeftOpen(r, p)
       /\ \A p \in c.inactive :
            \/ Is(r, p, -1, No) \/ LeftOpen(r, p)
            \/ Applicable(r.row.head) # {} /\ ~Is(r, p, -1, Yes)
       /\ \A p \in c.indeterminate : Undecided(r.row.truth[<<p, -1>>])
       /\ \A p \in c.conditional :
            /\ ~Is(r, p, -1, Yes)
            /\ \E i \in 0 .. Total(Declared) - 1 : ~Is(r, p, i, No)
       /\ \A found \in c.reachable :
            \E p \in c.conditional, i \in 0 .. Total(Declared) - 1 :
              ~Is(r, p, i, No)
              /\ \E k \in Declared :
                   found = <<Variants[k].name, Combination(Declared, i)[k]>>

\* "[DEAD]: branch is inactive on every profile and no variant rescues it": no
\* build takes it, unless the combinations were too many to look.
DeadIsDead ==
  \A r \in Settled :
    Dead(r.coverage) /\ Enumerated(r.row.head) => \A b \in Builds : r.row.truth[b] # Yes

\* Demotion and rescue move profiles between the lists: none gets lost, none
\* is both active and something else, none both inactive and open.
NobodyLost ==
  \A r \in Reported :
    LET c == r.coverage
    IN /\ c.active \cup c.inactive \cup c.indeterminate \cup c.conditional = Profiles
       /\ c.active \cap (c.inactive \cup c.indeterminate \cup c.conditional) = {}
       /\ c.inactive \cap c.indeterminate = {}
=============================================================================
