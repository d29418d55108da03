--------------------------- MODULE ResolverProofs ---------------------------
(***************************************************************************)
(* What the buildroot solver guarantees for every repository content and   *)
(* every request.  The walk's invariant has four parts: the shape of the   *)
(* state, the agreement of the closure with its summaries, the account of  *)
(* every dependency needed, and the provenance of everything listed.       *)
(***************************************************************************)
EXTENDS Resolver, SequenceTheorems, FiniteSetTheorems, TLAPS

-----------------------------------------------------------------------------
(* Sequences, seen as the set of their entries. *)

(* What popping the worklist takes and leaves: the last item, and the others. *)
LEMMA PopRange ==
    ASSUME NEW S, NEW s \in Seq(S), s # <<>>
    PROVE  LET rest == SubSeq(s, 1, Len(s) - 1)
           IN  /\ s[Len(s)] \in S /\ s[Len(s)] \in Range(s)
               /\ rest \in Seq(S)
               /\ Range(rest) \subseteq Range(s)
               /\ Range(s) \subseteq Range(rest) \cup {s[Len(s)]}
<1> DEFINE rest == SubSeq(s, 1, Len(s) - 1)
<1>1. Len(s) \in Nat /\ Len(s) >= 1 /\ DOMAIN s = 1 .. Len(s)
  BY EmptySeq, LenProperties
<1>2. s[Len(s)] \in S
  BY <1>1, ElementOfSeq
<1>3. \A i \in 1 .. Len(s) - 1 : s[1 + i - 1] \in S /\ s[1 + i - 1] = s[i] /\ s[i] \in S
  BY <1>1, ElementOfSeq
<1>4. rest \in Seq(S) /\ Len(rest) = Len(s) - 1 /\ \A i \in 1 .. Len(s) - 1 : rest[i] = s[i]
  BY <1>1, <1>3, SubSeqProperties
<1>5. DOMAIN rest = 1 .. Len(s) - 1
  BY <1>4, LenProperties
<1>6. \A i \in DOMAIN s : i \in DOMAIN rest \/ i = Len(s)
  BY <1>1, <1>5
<1>7. \A i \in DOMAIN rest : i \in DOMAIN s /\ rest[i] = s[i]
  BY <1>1, <1>4, <1>5
<1> HIDE DEF rest
<1>8. Range(rest) \subseteq Range(s)
  BY <1>7 DEF Range
<1>9. Range(s) \subseteq Range(rest) \cup {s[Len(s)]}
  BY <1>6, <1>7 DEF Range
<1>10. s[Len(s)] \in Range(s)
  BY <1>1 DEF Range
<1> QED BY <1>2, <1>4, <1>8, <1>9, <1>10 DEF rest

(* Appending adds one entry.                                                  *)
LEMMA AppendRange ==
    ASSUME NEW S, NEW s \in Seq(S), NEW x \in S
    PROVE  /\ Append(s, x) \in Seq(S)
           /\ Range(Append(s, x)) = Range(s) \cup {x}
<1> DEFINE t == Append(s, x)
<1>1. /\ t \in Seq(S)
      /\ Len(s) \in Nat /\ Len(t) = Len(s) + 1
      /\ \A i \in 1 .. Len(s) : t[i] = s[i]
      /\ t[Len(s) + 1] = x
  BY AppendProperties, LenProperties
<1>2. DOMAIN s = 1 .. Len(s) /\ DOMAIN t = 1 .. Len(s) + 1
  BY <1>1, LenProperties
<1>3. \A i \in DOMAIN t : i \in DOMAIN s \/ i = Len(s) + 1
  BY <1>1, <1>2
<1>4. \A i \in DOMAIN s : i \in DOMAIN t /\ t[i] = s[i]
  BY <1>1, <1>2
<1>5. Len(s) + 1 \in DOMAIN t
  BY <1>1, <1>2
<1> HIDE DEF t
<1>6. Range(t) = Range(s) \cup {x}
  BY <1>1, <1>3, <1>4, <1>5 DEF Range
<1> QED BY <1>1, <1>6 DEF t

(* A concatenation has the entries of both parts.                             *)
LEMMA ConcatRange ==
    ASSUME NEW S, NEW s \in Seq(S), NEW t \in Seq(S)
    PROVE  /\ s \o t \in Seq(S)
           /\ Range(s \o t) = Range(s) \cup Range(t)
BY ConcatProperties, RangeConcatenation

(* The items made of an ordering of dependencies.                             *)
LEMMA ItemsOf ==
    ASSUME NEW n \in Nat, NEW S \in SUBSET Dependencies, NEW deps \in [1 .. n -> S],
           NEW chain \in Chains
    PROVE  LET items == [i \in DOMAIN deps |-> Item(deps[i], chain)]
           IN  /\ items \in Seq(Items)
               /\ Range(items) = {Item(dep, chain) : dep \in Range(deps)}
<1> DEFINE items == [i \in DOMAIN deps |-> Item(deps[i], chain)]
<1>1. items \in [1 .. n -> Items]
  BY DEF Item, Items
<1>2. items \in Seq(Items)
  BY <1>1, SeqDef
<1>3. Range(items) = {Item(dep, chain) : dep \in Range(deps)}
  BY DEF Range
<1> QED BY <1>2, <1>3

(* The initial worklist is made of what was asked, each item without a chain. *)
LEMMA FromSpecItems ==
    ASSUME NEW deps \in Seq(Dependencies)
    PROVE  /\ FromSpec(deps) \in Seq(Items)
           /\ Range(FromSpec(deps)) = {Item(dep, <<>>) : dep \in Range(deps)}
<1>1. Len(deps) \in Nat /\ deps \in [1 .. Len(deps) -> Dependencies]
  BY LenProperties
<1>2. <<>> \in Chains
  BY EmptySeq DEF Chains
<1> QED BY <1>1, <1>2, ItemsOf DEF FromSpec

-----------------------------------------------------------------------------
(* The universe and the choice of a provider. *)

LEMMA UniverseTyped ==
    ASSUME universe \in Universes, NEW p \in Packages
    PROVE  universe[p] \in PackageRecords /\ IsFiniteSet(universe[p].requires)
BY UniversesAssumption

(* A provider that can be picked is a package that carries the name asked for,*)
(* or owns the file.                                                          *)
LEMMA PicksProvide ==
    ASSUME NEW dep, NEW p \in Picks(dep)
    PROVE  /\ p \in Packages
           /\ \/ dep.name \in Names(p)
              \/ dep.name \in FilePaths /\ dep.name \in universe[p].files
<1>1. CASE dep.name \notin FilePaths
  BY <1>1 DEF Picks, Best, Candidates
<1>2. CASE dep.name \in FilePaths /\ FileOwners(dep.name) = {}
  BY <1>2 DEF Picks, Best, Candidates
<1>3. CASE dep.name \in FilePaths /\ FileOwners(dep.name) # {}
  <2>1. PICK q \in FileOwners(dep.name) : p \in Best(Candidates(dep) \cup {q})
    BY <1>3 DEF Picks
  <2>2. q \in Packages /\ dep.name \in universe[q].files
    BY <2>1 DEF FileOwners
  <2>3. p \in Candidates(dep) \cup {q}
    BY <2>1 DEF Best
  <2> QED BY <1>3, <2>2, <2>3 DEF Candidates
<1> QED BY <1>1, <1>2, <1>3

-----------------------------------------------------------------------------
(* What a turn of the loop does to the worklist and to the closure. *)

\* The shape of the state; TypeOK is this and the agreement of the summaries.
Shape ==
    /\ universe \in Universes /\ request \in Requests
    /\ work \in Seq(Items) /\ unsatisfied \in Seq(Items)
    /\ pinned \in Seq(Pins)
    /\ clashes \in Seq([cause: Pins, victim: Pins])
    /\ skipped \in Nat
    /\ result \in {"running", "ok", "unsatisfiable", "error"}

Summaries ==
    /\ met = UNION {Names(p) : p \in PinnedPackages}
    /\ provider_for \in [PinnedNames -> PinnedPackages]

LEMMA TypeParts == TypeOK <=> Shape /\ Summaries
BY DEF TypeOK, Shape, Summaries

(* The dependency popped is an item of the worklist, and the rest of the      *)
(* worklist is what was there without it.                                     *)
LEMMA Pop ==
    ASSUME Shape, work # <<>>
    PROVE  /\ Top \in Items /\ Top \in Range(work)
           /\ Top.dep \in Dependencies /\ Top.chain \in Chains
           /\ Rest \in Seq(Items)
           /\ Range(Rest) \subseteq Range(work)
           /\ Range(work) \subseteq Range(Rest) \cup {Top}
<1>1. work \in Seq(Items)
  BY DEF Shape
<1>2. /\ Top \in Items /\ Top \in Range(work)
      /\ Rest \in Seq(Items)
      /\ Range(Rest) \subseteq Range(work)
      /\ Range(work) \subseteq Range(Rest) \cup {Top}
  BY <1>1, PopRange DEF Top, Rest
<1> QED BY <1>2 DEF Items

(* Pinning adds one package to the closure and puts exactly its unmet Requires*)
(* on the worklist, each with the package at the head of its chain.           *)
LEMMA PinEffect ==
    ASSUME Shape, NEW p \in Packages, Pin(p)
    PROVE  LET chain == <<p>> \o Top.chain
           IN  /\ chain \in Chains
               /\ [pkg |-> p, chain |-> Top.chain] \in Pins
               /\ pinned' \in Seq(Pins)
               /\ Range(pinned') = Range(pinned) \cup {[pkg |-> p, chain |-> Top.chain]}
               /\ PinnedPackages' = PinnedPackages \cup {p}
               /\ work' \in Seq(Items)
               /\ Range(work') = Range(Rest) \cup {Item(dep, chain) : dep \in StillUnmet(p)}
<1> DEFINE chain == <<p>> \o Top.chain
           pin == [pkg |-> p, chain |-> Top.chain]
<1>1. work # <<>> /\ UNCHANGED universe
  BY DEF Pin, Agreed, Unmet, Popped, inputs
<1>2. Top.chain \in Chains /\ Rest \in Seq(Items)
  BY <1>1, Pop
<1>3. <<p>> \in Seq(Packages)
  OBVIOUS
<1>4. chain \in Chains
  BY <1>2, <1>3, ConcatProperties DEF Chains
<1>5. pin \in Pins
  BY <1>2 DEF Pins
<1>6. pinned' \in Seq(Pins) /\ Range(pinned') = Range(pinned) \cup {pin}
  BY <1>5, AppendRange DEF Pin, Shape
<1>7. PinnedPackages' = PinnedPackages \cup {p}
  <2>1. pin.pkg = p
    OBVIOUS
  <2> HIDE DEF pin
  <2> QED BY <1>6, <2>1 DEF PinnedPackages
<1>8. /\ StillUnmet(p) \in SUBSET Dependencies
      /\ Cardinality(StillUnmet(p)) \in Nat
  <2>1. universe[p] \in PackageRecords /\ IsFiniteSet(universe[p].requires)
    BY UniverseTyped DEF Shape
  <2>2. StillUnmet(p) \subseteq universe[p].requires /\ universe[p].requires \subseteq Dependencies
    BY <2>1 DEF StillUnmet, PackageRecords
  <2> QED BY <2>1, <2>2, FS_Subset, FS_CardinalityType
<1>9. PICK deps \in Orders(StillUnmet(p)) :
         work' = Rest \o [i \in DOMAIN deps |-> Item(deps[i], chain)]
  BY DEF Pin
<1>10. deps \in [1 .. Cardinality(StillUnmet(p)) -> StillUnmet(p)] /\ Range(deps) = StillUnmet(p)
  BY <1>9 DEF Orders
<1> DEFINE items == [i \in DOMAIN deps |-> Item(deps[i], chain)]
<1>11. items \in Seq(Items) /\ Range(items) = {Item(dep, chain) : dep \in StillUnmet(p)}
  BY <1>4, <1>8, <1>10, ItemsOf
<1> HIDE DEF items
<1>12. work' \in Seq(Items) /\ Range(work') = Range(Rest) \cup Range(items)
  BY <1>2, <1>9, <1>11, ConcatRange DEF items
<1> QED BY <1>4, <1>5, <1>6, <1>7, <1>11, <1>12

LEMMA EmptyRange == Range(<<>>) = {}
BY DEF Range

(* Nothing in the loop touches the universe or the request.                   *)
LEMMA InputsFixed == [Next]_vars => UNCHANGED inputs
BY DEF Next, SkipRich, SkipMet, NoProvider, Refuse, Pin, PassOver, Finish, QueryFails,
       Returned, Agreed, Unmet, Popped, vars

(* What is said of the universe and of the request stays so.                  *)
LEMMA Frozen ==
    ASSUME UNCHANGED inputs
    PROVE  /\ \A p : Names(p)' = Names(p)
           /\ \A dep : Picks(dep)' = Picks(dep)
           /\ \A p, q : (ConflictsWith(p, q))' <=> ConflictsWith(p, q)
           /\ \A p, q : (Clash(p, q))' <=> Clash(p, q)
           /\ Requested' = Requested
<1>1. UNCHANGED <<universe, request>>
  BY DEF inputs
<1>2. \A p : Names(p)' = Names(p)
  BY <1>1 DEF Names
<1>3. \A dep : Picks(dep)' = Picks(dep)
  <2>1. \A S : Best(S)' = Best(S)
    BY <1>1 DEF Best, Better
  <2>2. \A dep : Candidates(dep)' = Candidates(dep)
    BY <1>1, <1>2 DEF Candidates
  <2>3. \A path : FileOwners(path)' = FileOwners(path)
    BY <1>1 DEF FileOwners
  <2>4. \A p, dep : Satisfies(p, dep)' <=> Satisfies(p, dep)
    BY <1>1 DEF Satisfies, ProvidesMatch
  <2>5. \A dep : {p \in Candidates(dep) : Satisfies(p, dep)}'
                  = {p \in Candidates(dep) : Satisfies(p, dep)}
    BY <2>2, <2>4
  <2> QED BY <2>1, <2>2, <2>3, <2>5 DEF Picks
<1>4. \A p, q : (ConflictsWith(p, q))' <=> ConflictsWith(p, q)
  BY <1>1 DEF ConflictsWith, ProvidesSatisfies, ProvidesMatch
<1>5. \A p, q : (Clash(p, q))' <=> Clash(p, q)
  BY <1>4 DEF Clash
<1>6. Requested' = Requested
  BY <1>1 DEF Requested
<1> QED BY <1>2, <1>3, <1>4, <1>5, <1>6

-----------------------------------------------------------------------------
(* Type correctness. *)

LEMMA InitTyped == Init => TypeOK
<1> SUFFICES ASSUME Init PROVE TypeOK
  OBVIOUS
<1>1. request \in RequestRecords
  BY RequestsAssumption DEF Init
<1>2. /\ FromSpec(request.base) \in Seq(Items)
      /\ FromSpec(request.implicit) \in Seq(Items)
      /\ FromSpec(request.requirements) \in Seq(Items)
  BY <1>1, FromSpecItems DEF RequestRecords
<1>3. work \in Seq(Items)
  BY <1>2, ConcatProperties DEF Init
<1>4. PinnedPackages = {} /\ PinnedNames = {}
  BY EmptyRange DEF Init, PinnedPackages, PinnedNames
<1>5. met = UNION {Names(p) : p \in PinnedPackages}
  BY <1>4 DEF Init
<1>6. provider_for \in [PinnedNames -> PinnedPackages]
  BY <1>4 DEF Init
<1> QED BY <1>3, <1>5, <1>6, EmptySeq DEF Init, TypeOK

(* The two sides of a recorded conflict are a pinned package and the candidate*)
(* with the chain of the dependency it was picked for.                        *)
LEMMA ClashParts ==
    ASSUME Shape, work # <<>>, NEW p \in Packages, NEW i \in PinnedAt
    PROVE  /\ pinned[i] \in Range(pinned) /\ pinned[i] \in Pins
           /\ [pkg |-> p, chain |-> Top.chain] \in Pins
           /\ ClashRecord(p, i) \in [cause: Pins, victim: Pins]
           /\ {ClashRecord(p, i).cause, ClashRecord(p, i).victim}
                = {pinned[i], [pkg |-> p, chain |-> Top.chain]}
<1>1. Top.chain \in Chains
  BY Pop
<1>2. [pkg |-> p, chain |-> Top.chain] \in Pins
  BY <1>1 DEF Pins
<1>3. pinned[i] \in Range(pinned)
  BY DEF PinnedAt, Range
<1>4. pinned[i] \in Pins
  BY <1>3, RangeOfSeq DEF Shape
<1> QED BY <1>2, <1>3, <1>4 DEF ClashRecord

LEMMA NextTyped == TypeOK /\ [Next]_vars => TypeOK'
<1> SUFFICES ASSUME TypeOK, [Next]_vars PROVE TypeOK'
  OBVIOUS
<1>1. Shape /\ Summaries
  BY TypeParts
<1>2. UNCHANGED inputs /\ \A p : Names(p)' = Names(p)
  BY InputsFixed, Frozen
\* A step that keeps the closure keeps what the summaries say of it.
<1>3. ASSUME UNCHANGED solverState PROVE Summaries'
  BY <1>1, <1>2, <1>3 DEF Summaries, solverState, PinnedPackages, PinnedNames, inputs
<1>4. CASE SkipRich
  <2>1. work # <<>>
    BY <1>4 DEF SkipRich, Popped
  <2>2. work' \in Seq(Items) /\ skipped' \in Nat
    BY <1>1, <1>4, <2>1, Pop DEF SkipRich, Shape
  <2> QED BY <1>1, <1>3, <1>4, <2>2 DEF SkipRich, Popped, Shape, TypeOK, inputs, solverState, Summaries
<1>5. CASE SkipMet
  <2>1. work # <<>>
    BY <1>5 DEF SkipMet, Popped
  <2>2. work' \in Seq(Items)
    BY <1>1, <1>5, <2>1, Pop DEF SkipMet
  <2> QED BY <1>1, <1>3, <1>5, <2>2 DEF SkipMet, Popped, Shape, TypeOK, inputs, solverState, report, Summaries
<1>6. CASE NoProvider
  <2>1. work # <<>>
    BY <1>6 DEF NoProvider, Unmet, Popped
  <2>2. work' \in Seq(Items) /\ unsatisfied' \in Seq(Items)
    BY <1>1, <1>6, <2>1, Pop, AppendRange DEF NoProvider, Shape
  <2> QED BY <1>1, <1>3, <1>6, <2>2 DEF NoProvider, Unmet, Popped, Shape, TypeOK, inputs, solverState, Summaries
<1>7. ASSUME NEW p \in Packages, Refuse(p) PROVE TypeOK'
  <2>1. work # <<>>
    BY <1>7 DEF Refuse, Unmet, Popped
  <2>2. work' \in Seq(Items) /\ unsatisfied' \in Seq(Items)
    BY <1>1, <1>7, <2>1, Pop, AppendRange DEF Refuse, Shape
  <2>3. PICK i \in PinnedAt : clashes' = Append(clashes, ClashRecord(p, i))
    BY <1>7 DEF Refuse
  <2>4. clashes' \in Seq([cause: Pins, victim: Pins])
    BY <1>1, <2>1, <2>3, ClashParts, AppendRange DEF Shape
  <2> QED BY <1>1, <1>3, <1>7, <2>2, <2>4 DEF Refuse, Unmet, Popped, Shape, TypeOK, inputs, solverState, Summaries
<1>8. ASSUME NEW p \in Packages, Pin(p) PROVE TypeOK'
  <2>1. /\ pinned' \in Seq(Pins) /\ work' \in Seq(Items)
        /\ PinnedPackages' = PinnedPackages \cup {p}
    BY <1>1, <1>8, PinEffect
  <2>2. met' = UNION {Names(q)' : q \in PinnedPackages'}
    BY <1>1, <1>2, <1>8, <2>1 DEF Pin, Summaries
  <2>3. PinnedNames' = PinnedNames \cup {universe[p].name}
    BY <1>2, <2>1 DEF PinnedNames, inputs
  <2>4. provider_for' \in [PinnedNames' -> PinnedPackages']
    BY <1>1, <1>8, <2>1, <2>3 DEF Pin, Summaries
  <2> QED BY <1>1, <1>8, <2>1, <2>2, <2>4 DEF Pin, Agreed, Unmet, Popped, Shape, TypeOK, inputs, report
<1>9. ASSUME NEW p \in Packages, PassOver(p) PROVE TypeOK'
  <2>1. work # <<>>
    BY <1>9 DEF PassOver, Agreed, Unmet, Popped
  <2>2. work' \in Seq(Items)
    BY <1>1, <1>9, <2>1, Pop DEF PassOver
  <2> QED BY <1>1, <1>3, <1>9, <2>2 DEF PassOver, Agreed, Unmet, Popped, Shape, TypeOK, inputs, report, solverState, Summaries
<1>10. CASE Finish
  BY <1>1, <1>3, <1>10 DEF Finish, Shape, TypeOK, inputs, report, solverState, Summaries
<1>11. CASE QueryFails
  BY <1>1, <1>3, <1>11 DEF QueryFails, Shape, TypeOK, inputs, report, solverState, Summaries
<1>12. CASE UNCHANGED vars
  BY <1>1, <1>3, <1>12 DEF vars, Shape, TypeOK, inputs, report, solverState, Summaries
<1> QED
  BY <1>4, <1>5, <1>6, <1>7, <1>8, <1>9, <1>10, <1>11, <1>12 DEF Next, Returned

(* The worklist and the reports stay well formed, and met_caps and            *)
(* provider_for always say what the pinned packages say.                      *)
THEOREM SolverTypes == Spec => []TypeOK
<1>1. Init => TypeOK
  BY InitTyped
<1>2. TypeOK /\ [Next]_vars => TypeOK'
  BY NextTyped
<1> QED BY <1>1, <1>2, PTL DEF Spec

-----------------------------------------------------------------------------
(* How the closure grows: it never loses a package. *)

\* What one step does to the closure: nothing, or one pin.
Grows(p) == PinnedPackages' = PinnedPackages \cup {p} /\ met' = met \cup Names(p)

(* The closure changes only by pinning a package whose name is new and that   *)
(* clashes with nothing in it.                                                *)
LEMMA ClosureSteps ==
    ASSUME TypeOK, [Next]_vars
    PROVE  \/ UNCHANGED solverState
           \/ \E p \in Packages : Pin(p)
BY DEF Next, SkipRich, SkipMet, NoProvider, Refuse, PassOver, Finish, QueryFails, Returned, vars,
       solverState

LEMMA PinGrows ==
    ASSUME TypeOK, NEW p \in Packages, Pin(p)
    PROVE  Grows(p)
BY TypeParts, PinEffect DEF Pin, Grows

LEMMA ClosureOnlyGrows ==
    ASSUME TypeOK, [Next]_vars
    PROVE  PinnedPackages \subseteq PinnedPackages' /\ met \subseteq met'
<1>1. CASE UNCHANGED solverState
  BY <1>1 DEF solverState, PinnedPackages
<1>2. ASSUME NEW p \in Packages, Pin(p)
      PROVE  PinnedPackages \subseteq PinnedPackages' /\ met \subseteq met'
  BY <1>2, PinGrows DEF Grows
<1> QED BY <1>1, <1>2, ClosureSteps

-----------------------------------------------------------------------------
(* The closure has no conflict inside and one package of a name. *)

LEMMA NextNoConflict == TypeOK /\ NoConflictInside /\ [Next]_vars => NoConflictInside'
<1> SUFFICES ASSUME TypeOK, NoConflictInside, [Next]_vars PROVE NoConflictInside'
  OBVIOUS
<1>1. \A p, q : (ConflictsWith(p, q))' <=> ConflictsWith(p, q)
  BY InputsFixed, Frozen
<1>2. CASE UNCHANGED solverState
  <2>1. PinnedPackages' = PinnedPackages
    BY <1>2 DEF solverState, PinnedPackages
  <2> QED BY <1>1, <2>1 DEF NoConflictInside
<1>3. ASSUME NEW p \in Packages, Pin(p) PROVE NoConflictInside'
  <2>1. PinnedPackages' = PinnedPackages \cup {p}
    BY <1>3, PinGrows DEF Grows
  <2>2. \A q \in PinnedPackages : ~ConflictsWith(p, q) /\ ~ConflictsWith(q, p)
    BY <1>3 DEF Pin, Agreed, Clash
  <2> QED BY <1>1, <2>1, <2>2 DEF NoConflictInside
<1> QED BY <1>2, <1>3, ClosureSteps

(* However the repositories look and in whatever order packages are pulled in,*)
(* no two packages of the closure conflict, in either direction.              *)
THEOREM ClosureConsistent == Spec => []NoConflictInside
<1>1. Init => TypeOK /\ NoConflictInside
  BY InitTyped, EmptyRange DEF Init, NoConflictInside, PinnedPackages
<1>2. (TypeOK /\ NoConflictInside) /\ [Next]_vars => (TypeOK /\ NoConflictInside)'
  BY NextTyped, NextNoConflict
<1> QED BY <1>1, <1>2, PTL DEF Spec

LEMMA NextOnePerName == TypeOK /\ OnePerName /\ [Next]_vars => OnePerName'
<1> SUFFICES ASSUME TypeOK, OnePerName, [Next]_vars PROVE OnePerName'
  OBVIOUS
<1>1. UNCHANGED universe
  BY InputsFixed DEF inputs
<1>2. CASE UNCHANGED solverState
  BY <1>1, <1>2 DEF solverState, PinnedPackages, PinnedAt, OnePerName
<1>3. ASSUME NEW p \in Packages, Pin(p) PROVE OnePerName'
  <2> DEFINE pin == [pkg |-> p, chain |-> Top.chain]
             n == Len(pinned) + 1
  <2>1. pin \in Pins /\ pin.pkg = p /\ pinned \in Seq(Pins) /\ pinned' = Append(pinned, pin)
    BY <1>3, TypeParts, PinEffect DEF Pin, Shape
  <2> HIDE DEF pin
  <2>2. /\ Len(pinned) \in Nat
        /\ PinnedAt = 1 .. Len(pinned) /\ PinnedAt' = 1 .. n
        /\ \A i \in PinnedAt : pinned'[i] = pinned[i]
        /\ pinned'[n] = pin
    BY <2>1, AppendProperties, LenProperties DEF PinnedAt
  <2>3. \A i \in PinnedAt : pinned[i].pkg \in PinnedPackages
    BY DEF PinnedAt, PinnedPackages, Range
  <2>4. universe[p].name \notin PinnedNames
    BY <1>3 DEF Pin
  <2>5. \A i \in PinnedAt : universe[pinned[i].pkg].name # universe[p].name
    BY <2>3, <2>4 DEF PinnedNames
  <2>6. \A i \in PinnedAt' : i \in PinnedAt \/ i = n
    BY <2>2
  <2>7. \A i, j \in PinnedAt' :
           universe[pinned'[i].pkg].name = universe[pinned'[j].pkg].name => i = j
    BY <2>1, <2>2, <2>5, <2>6 DEF OnePerName
  <2>8. PinnedPackages' = PinnedPackages \cup {p}
    BY <1>3, PinGrows DEF Grows
  <2>9. \A q \in PinnedPackages : q # p /\ universe[q].name # universe[p].name
    BY <2>4 DEF PinnedNames
  <2>10. DOMAIN provider_for = PinnedNames
    BY DEF TypeOK
  <2>11. \A q \in PinnedPackages : provider_for'[universe[q].name] = q
    BY <1>3, <2>10 DEF Pin, PinnedNames, OnePerName
  <2>12. provider_for'[universe[p].name] = p
    BY <1>3, <2>4, <2>10 DEF Pin
  <2> QED BY <1>1, <2>7, <2>8, <2>11, <2>12 DEF OnePerName
<1> QED BY <1>2, <1>3, ClosureSteps

(* Two versions of one package never meet in a closure, and provider_for names*)
(* for each package name the version that is there.                           *)
THEOREM OneVersionEach == Spec => []OnePerName
<1>1. Init => TypeOK /\ OnePerName
  BY InitTyped, EmptyRange DEF Init, OnePerName, PinnedPackages, PinnedAt
<1>2. (TypeOK /\ OnePerName) /\ [Next]_vars => (TypeOK /\ OnePerName)'
  BY NextTyped, NextOnePerName
<1> QED BY <1>1, <1>2, PTL DEF Spec

-----------------------------------------------------------------------------
(* Every dependency is accounted for. *)

Pending == {item.dep : item \in Range(work)}
GivenUp == {item.dep : item \in Range(unsatisfied)}

Settled(dep) == IsRich(dep) \/ IsMet(dep) \/ OwnedByPinned(dep) \/ Shadowed(dep)

\* Each dependency needed so far is settled, still to be looked at, or reported;
\* an "ok" leaves nothing to look at and nothing reported.
Account ==
    /\ \A dep \in Needed : Settled(dep) \/ dep \in Pending \/ dep \in GivenUp
    /\ result = "ok" => work = <<>> /\ unsatisfied = <<>>

(* What is settled stays settled.                                             *)
LEMMA SettledStays ==
    ASSUME TypeOK, [Next]_vars, NEW dep, Settled(dep)
    PROVE  Settled(dep)'
<1>1. PinnedPackages \subseteq PinnedPackages' /\ met \subseteq met'
  BY ClosureOnlyGrows
<1>2. UNCHANGED universe /\ Picks(dep)' = Picks(dep)
  BY InputsFixed, Frozen DEF inputs
<1>3. PinnedNames \subseteq PinnedNames'
  BY <1>1, <1>2 DEF PinnedNames
<1>4. IsRich(dep) => IsRich(dep)'
  BY DEF IsRich
<1>5. IsMet(dep) => IsMet(dep)'
  BY <1>1 DEF IsMet
<1>6. OwnedByPinned(dep) => OwnedByPinned(dep)'
  BY <1>1, <1>2 DEF OwnedByPinned
<1>7. Shadowed(dep) => Shadowed(dep)'
  BY <1>2, <1>3 DEF Shadowed
<1> QED BY <1>4, <1>5, <1>6, <1>7 DEF Settled

(* A step that pops the worklist, reports no less and adds no need keeps the  *)
(* account if it settles or reports what it popped.                           *)
LEMMA PopKeepsAccount ==
    ASSUME TypeOK, Account, [Next]_vars, work # <<>>, result' = "running",
           UNCHANGED solverState, work' = Rest,
           Range(unsatisfied) \subseteq Range(unsatisfied'),
           NEW top, top = Top, Settled(top.dep)' \/ top \in Range(unsatisfied')
    PROVE  Account'
<1>1. Range(work) \subseteq Range(work') \cup {top}
  BY TypeParts, Pop
<1>2. Needed' = Needed
  <2>1. UNCHANGED universe /\ Requested' = Requested
    BY InputsFixed, Frozen DEF inputs
  <2>2. PinnedPackages' = PinnedPackages
    BY DEF solverState, PinnedPackages
  <2> QED BY <2>1, <2>2 DEF Needed
<1>3. ASSUME NEW dep \in Needed
      PROVE  (Settled(dep) \/ dep \in Pending \/ dep \in GivenUp)'
  <2>1. CASE Settled(dep)
    BY <2>1, SettledStays
  <2>2. CASE dep \in GivenUp
    BY <2>2 DEF GivenUp
  <2>3. CASE dep \in Pending
    <3>1. PICK item \in Range(work) : dep = item.dep
      BY <2>3 DEF Pending
    <3>2. CASE item \in Range(work')
      BY <3>1, <3>2 DEF Pending
    <3>3. CASE item = top /\ Settled(top.dep)'
      BY <3>1, <3>3
    <3>4. CASE item = top /\ top \in Range(unsatisfied')
      BY <3>1, <3>4 DEF GivenUp
    <3> QED BY <1>1, <3>1, <3>2, <3>3, <3>4
  <2> QED BY <1>3, <2>1, <2>2, <2>3 DEF Account
<1> QED BY <1>2, <1>3 DEF Account

(* The first worklist is what was asked, each dependency without a chain.     *)
LEMMA InitWork ==
    ASSUME Init
    PROVE  Range(work) = {Item(dep, <<>>) : dep \in Requested}
<1>1. request \in RequestRecords
  BY RequestsAssumption DEF Init
<1> DEFINE b == FromSpec(request.base)
           m == FromSpec(request.implicit)
           r == FromSpec(request.requirements)
<1>2. /\ b \in Seq(Items) /\ Range(b) = {Item(dep, <<>>) : dep \in Range(request.base)}
      /\ m \in Seq(Items) /\ Range(m) = {Item(dep, <<>>) : dep \in Range(request.implicit)}
      /\ r \in Seq(Items) /\ Range(r) = {Item(dep, <<>>) : dep \in Range(request.requirements)}
  BY <1>1, FromSpecItems DEF RequestRecords
<1>3. work = b \o m \o r
  BY DEF Init
<1> HIDE DEF b, m, r
<1>4. Range(work) = Range(b) \cup Range(m) \cup Range(r)
  <2> DEFINE bm == b \o m
  <2>1. bm \in Seq(Items) /\ Range(bm) = Range(b) \cup Range(m)
    BY <1>2, ConcatRange
  <2>2. work = bm \o r
    BY <1>3
  <2> HIDE DEF bm
  <2>3. Range(work) = Range(bm) \cup Range(r)
    BY <1>2, <2>1, <2>2, ConcatRange
  <2> QED BY <2>1, <2>3
<1> QED BY <1>2, <1>4 DEF Requested

LEMMA InitAccount == Init => Account
<1> SUFFICES ASSUME Init PROVE Account
  OBVIOUS
<1>1. Range(work) = {Item(dep, <<>>) : dep \in Requested}
  BY InitWork
<1>2. \A dep \in Requested : Item(dep, <<>>).dep = dep
  BY DEF Item
<1>3. Requested \subseteq Pending
  BY <1>1, <1>2 DEF Pending
<1>4. Needed = Requested
  BY EmptyRange DEF Init, Needed, PinnedPackages
<1> QED BY <1>3, <1>4 DEF Account, Init

LEMMA NextAccount == TypeOK /\ Account /\ [Next]_vars => Account'
<1> SUFFICES ASSUME TypeOK, Account, [Next]_vars PROVE Account'
  OBVIOUS
<1>1. UNCHANGED inputs
  BY InputsFixed
<1>2. Shape
  BY TypeParts
<1>3. PICK top : top = Top
  OBVIOUS
<1>4. CASE SkipRich \/ SkipMet
  <2>1. Settled(top.dep)
    BY <1>3, <1>4 DEF SkipRich, SkipMet, Settled
  <2>2. Settled(top.dep)'
    BY <2>1, SettledStays
  <2> QED
    BY <1>3, <1>4, <2>2, PopKeepsAccount DEF SkipRich, SkipMet, Popped, report, solverState
<1>5. CASE NoProvider
  <2>1. work # <<>>
    BY <1>5 DEF NoProvider, Unmet, Popped
  <2>2. Range(unsatisfied') = Range(unsatisfied) \cup {top}
    BY <1>2, <1>3, <1>5, <2>1, Pop, AppendRange DEF NoProvider, Shape
  <2> QED BY <1>3, <1>5, <2>1, <2>2, PopKeepsAccount DEF NoProvider, Unmet, Popped
<1>6. ASSUME NEW p \in Packages, Refuse(p) PROVE Account'
  <2>1. work # <<>>
    BY <1>6 DEF Refuse, Unmet, Popped
  <2>2. Range(unsatisfied') = Range(unsatisfied) \cup {top}
    BY <1>2, <1>3, <1>6, <2>1, Pop, AppendRange DEF Refuse, Shape
  <2> QED BY <1>3, <1>6, <2>1, <2>2, PopKeepsAccount DEF Refuse, Unmet, Popped
<1>7. ASSUME NEW p \in Packages, PassOver(p) PROVE Account'
  <2>1. Settled(top.dep)
    BY <1>3, <1>7 DEF PassOver, Agreed, Settled, Shadowed
  <2>2. Settled(top.dep)'
    BY <2>1, SettledStays
  <2> QED BY <1>3, <1>7, <2>2, PopKeepsAccount DEF PassOver, Agreed, Unmet, Popped, report
<1>8. ASSUME NEW p \in Packages, Pin(p) PROVE Account'
  <2> DEFINE chain == <<p>> \o Top.chain
  <2>1. work # <<>> /\ result' = "running" /\ UNCHANGED <<universe, unsatisfied>>
    BY <1>8 DEF Pin, Agreed, Unmet, Popped, inputs, report
  <2>2. Range(work) \subseteq Range(Rest) \cup {top}
    BY <1>2, <1>3, <2>1, Pop
  <2>3. Range(work') = Range(Rest) \cup {Item(dep, chain) : dep \in StillUnmet(p)}
    BY <1>2, <1>8, PinEffect
  <2>4. Grows(p)
    BY <1>8, PinGrows
  <2>5. Settled(top.dep)'
    <3>1. p \in Picks(top.dep) /\ p \in PinnedPackages'
      BY <1>3, <1>8, <2>4 DEF Pin, Agreed, Grows
    <3>2. Picks(top.dep)' = Picks(top.dep)
      BY <1>1, Frozen
    <3> QED BY <2>1, <3>1, <3>2 DEF Settled, Shadowed, PinnedNames
  <2>6. ASSUME NEW dep \in Needed' PROVE (Settled(dep) \/ dep \in Pending \/ dep \in GivenUp)'
    <3>1. dep \in Needed \/ dep \in universe[p].requires
      BY <1>1, <2>1, <2>4, Frozen DEF Needed, Grows
    <3>2. CASE Settled(dep)
      BY <3>2, SettledStays
    <3>3. CASE dep \in GivenUp
      BY <2>1, <3>3 DEF GivenUp
    <3>4. CASE dep \in Pending
      <4>1. PICK item \in Range(work) : dep = item.dep
        BY <3>4 DEF Pending
      <4>2. CASE item \in Range(Rest)
        BY <2>3, <4>1, <4>2 DEF Pending
      <4>3. CASE item = top
        BY <2>5, <4>1, <4>3
      <4> QED BY <2>2, <4>1, <4>2, <4>3
    <3>5. CASE dep \in StillUnmet(p)
      <4>1. Item(dep, chain) \in Range(work') /\ Item(dep, chain).dep = dep
        BY <2>3, <3>5 DEF Item
      <4> QED BY <4>1 DEF Pending
    <3>6. CASE dep \in universe[p].requires /\ dep \notin StillUnmet(p)
      <4>1. dep.name \in met'
        BY <2>4, <3>6 DEF StillUnmet, Grows
      <4> QED BY <4>1 DEF Settled, IsMet
    <3> QED BY <3>1, <3>2, <3>3, <3>4, <3>5, <3>6 DEF Account
  <2> QED BY <2>1, <2>6 DEF Account
\* A step that leaves worklist, closure and reports alone.
<1>9. ASSUME UNCHANGED <<work, unsatisfied, solverState>>,
             result' = "ok" => work = <<>> /\ unsatisfied = <<>>
      PROVE  Account'
  <2>1. Needed' = Needed
    BY <1>1, <1>9, Frozen DEF Needed, solverState, PinnedPackages, inputs
  <2>2. \A dep : Settled(dep) => Settled(dep)'
    BY SettledStays
  <2>3. Pending' = Pending /\ GivenUp' = GivenUp
    BY <1>9 DEF Pending, GivenUp
  <2> QED BY <1>9, <2>1, <2>2, <2>3 DEF Account
<1>10. CASE Finish
  BY <1>9, <1>10 DEF Finish, report
<1>11. CASE QueryFails
  BY <1>9, <1>11 DEF QueryFails, report
<1>12. CASE UNCHANGED vars
  BY <1>9, <1>12 DEF vars, report, Account
<1> QED
  BY <1>4, <1>5, <1>6, <1>7, <1>8, <1>10, <1>11, <1>12 DEF Next, Returned

(* A solve that says "ok" has forgotten nothing: whatever the repositories    *)
(* hold, each dependency of the request and of the closure is rich, met by    *)
(* name, owned as a file, or has its provider's name in the closure.          *)
THEOREM NoneForgotten == Spec => []NothingForgotten
<1>1. Init => TypeOK /\ Account
  BY InitTyped, InitAccount
<1>2. (TypeOK /\ Account) /\ [Next]_vars => (TypeOK /\ Account)'
  BY NextTyped, NextAccount
<1>3. Account => NothingForgotten
  <2> SUFFICES ASSUME Account, result = "ok", NEW dep \in Needed PROVE Settled(dep)
    BY DEF NothingForgotten, Settled
  <2>1. Pending = {} /\ GivenUp = {}
    BY EmptyRange DEF Account, Pending, GivenUp
  <2> QED BY <2>1 DEF Account
<1> QED BY <1>1, <1>2, <1>3, PTL DEF Spec

(* Where every package has one version, an "ok" closure is closed under       *)
(* Requires: every dependency is met by name or by a file of the closure.     *)
THEOREM ClosedUnderRequires == Spec => []ClosureClosed
<1>1. TypeOK /\ NothingForgotten => ClosureClosed
  <2> SUFFICES ASSUME TypeOK, NothingForgotten, result = "ok", UniqueNames,
                      NEW dep \in Needed, Shadowed(dep)
               PROVE  IsMet(dep) \/ OwnedByPinned(dep)
    BY DEF NothingForgotten, ClosureClosed
  <2>1. PICK p \in Picks(dep) : universe[p].name \in PinnedNames
    BY DEF Shadowed
  <2>2. /\ p \in Packages
        /\ \/ dep.name \in Names(p)
           \/ dep.name \in FilePaths /\ dep.name \in universe[p].files
    BY <2>1, PicksProvide
  <2>3. PinnedPackages \subseteq Packages
    <3>1. Range(pinned) \subseteq Pins
      BY RangeOfSeq DEF TypeOK
    <3> QED BY <3>1 DEF PinnedPackages, Pins
  <2>4. p \in PinnedPackages
    <3>1. PICK q \in PinnedPackages : universe[p].name = universe[q].name
      BY <2>1 DEF PinnedNames
    <3> QED BY <2>2, <2>3, <3>1 DEF UniqueNames
  <2>5. met = UNION {Names(q) : q \in PinnedPackages}
    BY DEF TypeOK
  <2> QED BY <2>2, <2>4, <2>5 DEF IsMet, OwnedByPinned
<1> QED BY <1>1, SolverTypes, NoneForgotten, PTL

-----------------------------------------------------------------------------
(* Every unsatisfied dependency has its reason. *)

\* What UnsatJustified says of one dependency.
Justified(dep) ==
    \/ Picks(dep) = {}
    \/ \E p \in Picks(dep), q \in PinnedPackages : Clash(p, q)

(* A reason stays one: providers and conflicts are fixed, the closure grows.  *)
LEMMA JustifiedStays ==
    ASSUME TypeOK, [Next]_vars, NEW dep, Justified(dep)
    PROVE  Justified(dep)'
<1>1. /\ Picks(dep)' = Picks(dep)
      /\ \A p, q : (Clash(p, q))' <=> Clash(p, q)
  BY InputsFixed, Frozen
<1>2. PinnedPackages \subseteq PinnedPackages'
  BY ClosureOnlyGrows
<1> QED BY <1>1, <1>2 DEF Justified

(* A dependency is given up when nobody provides it, or when its provider has *)
(* just been found to clash with a pinned package; nothing else is reported.  *)
LEMMA NextJustified == TypeOK /\ UnsatJustified /\ [Next]_vars => UnsatJustified'
<1> SUFFICES ASSUME TypeOK, UnsatJustified, [Next]_vars,
                    NEW item \in Range(unsatisfied')
             PROVE  Justified(item.dep)'
  BY DEF UnsatJustified, Justified
<1>1. Shape
  BY TypeParts
<1>2. CASE item \in Range(unsatisfied)
  <2>1. Justified(item.dep)
    BY <1>2 DEF UnsatJustified, Justified
  <2> QED BY <2>1, JustifiedStays
<1>3. CASE UNCHANGED unsatisfied
  BY <1>2, <1>3
<1>4. PICK top : top = Top
  OBVIOUS
<1>5. CASE NoProvider
  <2>1. Range(unsatisfied') = Range(unsatisfied) \cup {top}
    BY <1>1, <1>4, <1>5, Pop, AppendRange DEF NoProvider, Unmet, Popped, Shape
  <2>2. Justified(top.dep)
    BY <1>4, <1>5 DEF NoProvider, Justified
  <2> QED BY <1>2, <2>1, <2>2, JustifiedStays
<1>6. ASSUME NEW p \in Packages, Refuse(p) PROVE Justified(item.dep)'
  <2>1. Range(unsatisfied') = Range(unsatisfied) \cup {top}
    BY <1>1, <1>4, <1>6, Pop, AppendRange DEF Refuse, Unmet, Popped, Shape
  <2>2. p \in Picks(top.dep)
    BY <1>4, <1>6 DEF Refuse
  <2>3. PICK i \in PinnedAt : Clash(p, pinned[i].pkg)
    BY <1>6 DEF Refuse, FirstClash
  <2>4. pinned[i].pkg \in PinnedPackages
    BY DEF PinnedAt, PinnedPackages, Range
  <2>5. Justified(top.dep)
    BY <2>2, <2>3, <2>4 DEF Justified
  <2> QED BY <1>2, <2>1, <2>5, JustifiedStays
<1> QED
  BY <1>3, <1>5, <1>6 DEF Next, SkipRich, SkipMet, Pin, PassOver, Finish, QueryFails,
     Returned, Agreed, report, vars

(* Whatever the repositories hold, an unsatisfied dependency has no provider  *)
(* or one that conflicts with the final closure: no reason is ever withdrawn. *)
THEOREM ReasonsHold == Spec => []UnsatJustified
<1>1. Init => TypeOK /\ UnsatJustified
  BY InitTyped, EmptyRange DEF Init, UnsatJustified
<1>2. (TypeOK /\ UnsatJustified) /\ [Next]_vars => (TypeOK /\ UnsatJustified)'
  BY NextTyped, NextJustified
<1> QED BY <1>1, <1>2, PTL DEF Spec

-----------------------------------------------------------------------------
(* Every chain is a real path of Requires. *)

\* What ProvenanceReal says of one dependency listed with its chain.
ExplainedItem(item) ==
    /\ Explains(item.dep, item.chain)
    /\ Range(item.chain) \subseteq PinnedPackages

\* ProvenanceReal, of the dependencies still to be looked at and of the packages
\* already pinned as well: a report takes its chains from these.
Provenance ==
    /\ \A item \in Range(work) \cup Range(unsatisfied) : ExplainedItem(item)
    /\ \A pin \in Range(pinned) : ExplainsPin(pin)
    /\ \A clash \in Range(clashes) : ExplainsPin(clash.cause) /\ ExplainsPin(clash.victim)

(* A package at the head of a chain that explains what it was picked for makes*)
(* a chain that explains each of its own Requires.                            *)
LEMMA ChainGrows ==
    ASSUME NEW p \in Packages, NEW chain \in Chains, NEW pulled,
           Explains(pulled, chain), p \in Picks(pulled), NEW dep \in universe[p].requires
    PROVE  /\ Explains(dep, <<p>> \o chain)
           /\ Range(<<p>> \o chain) = Range(chain) \cup {p}
<1> DEFINE c == <<p>> \o chain
           n == Len(chain)
\* Who requires the dependency that the i-th package of the chain was picked for.
           Source(s, i) == IF i = Len(s) THEN Requested ELSE universe[s[i + 1]].requires
<1>1. chain \in Seq(Packages) /\ <<p>> \in Seq(Packages) /\ Len(<<p>>) = 1 /\ <<p>>[1] = p
  BY DEF Chains
<1>2. n \in Nat /\ DOMAIN chain = 1 .. n
  BY <1>1, LenProperties
<1>3. /\ c \in Seq(Packages) /\ Len(c) = 1 + n
      /\ \A i \in 1 .. 1 + n : c[i] = IF i <= 1 THEN <<p>>[i] ELSE chain[i - 1]
  BY <1>1, ConcatProperties
<1>4. DOMAIN c = 1 .. 1 + n /\ c # <<>> /\ c[1] = p
  BY <1>1, <1>2, <1>3, LenProperties, EmptySeq
<1>5. \A j \in 1 .. n : c[j + 1] = chain[j]
  BY <1>2, <1>3
<1>6. \A j \in 1 .. n : chain[j] \in Range(chain)
  BY <1>2 DEF Range
<1> HIDE DEF c, n
<1>7. pulled \in Source(c, 1)
  <2>1. CASE n = 0
    <3>1. chain = <<>>
      BY <1>1, <2>1, EmptySeq DEF n
    <3> QED BY <1>3, <2>1, <3>1 DEF Explains
  <2>2. CASE n # 0
    <3>1. chain # <<>> /\ c[2] = chain[1] /\ 1 # Len(c)
      BY <1>2, <1>3, <1>5, <2>2, EmptySeq DEF n
    <3> QED BY <3>1 DEF Explains
  <2> QED BY <2>1, <2>2
<1>8. \A i \in DOMAIN c : \E d \in Source(c, i) : c[i] \in Picks(d)
  <2> SUFFICES ASSUME NEW i \in DOMAIN c PROVE \E d \in Source(c, i) : c[i] \in Picks(d)
    OBVIOUS
  <2>1. CASE i = 1
    BY <1>4, <1>7, <2>1
  <2>2. CASE i # 1
    <3>1. /\ i - 1 \in 1 .. n /\ (i - 1) + 1 = i
          /\ i = Len(c) <=> i - 1 = n
          /\ i # Len(c) => i \in 1 .. n
      BY <1>2, <1>3, <1>4, <2>2
    <3>2. c[i] = chain[i - 1] /\ Source(c, i) = Source(chain, i - 1)
      BY <1>5, <3>1 DEF n
    <3>3. \E d \in Source(chain, i - 1) : chain[i - 1] \in Picks(d)
      BY <1>2, <3>1 DEF Explains
    <3> QED BY <3>2, <3>3
  <2> QED BY <2>1, <2>2
<1>9. Explains(dep, c)
  BY <1>4, <1>8 DEF Explains
<1>10. Range(<<p>>) = {p}
  BY <1>1 DEF Range
<1>11. Range(c) = Range(chain) \cup {p}
  <2>1. \A s, t \in Seq(Packages) : Range(s \o t) = Range(s) \cup Range(t)
    BY ConcatRange
  <2>2. Range(<<p>> \o chain) = Range(<<p>>) \cup Range(chain)
    BY <1>1, <2>1, Zenon
  <2> QED BY <1>10, <2>2 DEF c
<1> QED BY <1>9, <1>11 DEF c

(* The package picked for an explained dependency is explained by its chain.  *)
LEMMA PinExplained ==
    ASSUME NEW p, NEW chain, NEW pulled, Explains(pulled, chain), p \in Picks(pulled)
    PROVE  ExplainsPin([pkg |-> p, chain |-> chain])
BY DEF Explains, ExplainsPin

(* What is explained stays explained.                                         *)
LEMMA ExplanationsStay ==
    ASSUME TypeOK, [Next]_vars
    PROVE  /\ \A item : ExplainedItem(item) => ExplainedItem(item)'
           /\ \A pin : ExplainsPin(pin) => ExplainsPin(pin)'
<1>1. /\ UNCHANGED universe
      /\ \A dep : Picks(dep)' = Picks(dep)
      /\ Requested' = Requested
  BY InputsFixed, Frozen DEF inputs
<1>2. PinnedPackages \subseteq PinnedPackages'
  BY ClosureOnlyGrows
<1>3. \A dep, chain : Explains(dep, chain) => Explains(dep, chain)'
  BY <1>1 DEF Explains
<1>4. \A item : ExplainedItem(item) => ExplainedItem(item)'
  BY <1>2, <1>3 DEF ExplainedItem
<1>5. \A pin : ExplainsPin(pin) => ExplainsPin(pin)'
  BY <1>1, <1>3 DEF ExplainsPin
<1> QED BY <1>4, <1>5

LEMMA InitProvenance == Init => Provenance
<1> SUFFICES ASSUME Init PROVE Provenance
  OBVIOUS
<1>1. ASSUME NEW item \in Range(work) PROVE ExplainedItem(item)
  <2>1. PICK dep \in Requested : item = Item(dep, <<>>)
    BY <1>1, InitWork
  <2>2. item.dep = dep /\ item.chain = <<>>
    BY <2>1 DEF Item
  <2>3. Explains(dep, <<>>)
    BY <2>1 DEF Explains
  <2> QED BY <2>2, <2>3, EmptyRange DEF ExplainedItem
<1> QED BY <1>1, EmptyRange DEF Init, Provenance

LEMMA NextProvenance == TypeOK /\ Provenance /\ [Next]_vars => Provenance'
<1> SUFFICES ASSUME TypeOK, Provenance, [Next]_vars PROVE Provenance'
  OBVIOUS
<1>1. Shape
  BY TypeParts
<1>2. /\ \A item : ExplainedItem(item) => ExplainedItem(item)'
      /\ \A pin : ExplainsPin(pin) => ExplainsPin(pin)'
  BY ExplanationsStay
<1>3. PICK top : top = Top
  OBVIOUS
\* A step that lists no item, pin or conflict that was not listed before.
<1>4. ASSUME Range(work') \cup Range(unsatisfied') \subseteq Range(work) \cup Range(unsatisfied),
             UNCHANGED <<pinned, clashes>>
      PROVE  Provenance'
  BY <1>2, <1>4 DEF Provenance
\* A step that pops the worklist and reports what it popped, or nothing.
<1>5. ASSUME work # <<>>, work' = Rest
      PROVE  /\ top \in Items /\ ExplainedItem(top)
             /\ Range(work') \subseteq Range(work)
             /\ unsatisfied' = Append(unsatisfied, top) =>
                  Range(work') \cup Range(unsatisfied') \subseteq Range(work) \cup Range(unsatisfied)
  <2>1. top \in Items /\ top \in Range(work) /\ Range(work') \subseteq Range(work)
    BY <1>1, <1>3, <1>5, Pop
  <2>2. ExplainedItem(top)
    BY <2>1 DEF Provenance
  <2>3. unsatisfied' = Append(unsatisfied, top) => Range(unsatisfied') = Range(unsatisfied) \cup {top}
    BY <1>1, <2>1, AppendRange DEF Shape
  <2> QED BY <2>1, <2>2, <2>3
<1>6. CASE SkipRich \/ SkipMet
  BY <1>4, <1>5, <1>6 DEF SkipRich, SkipMet, Popped, solverState, report
<1>7. CASE NoProvider
  BY <1>3, <1>4, <1>5, <1>7 DEF NoProvider, Unmet, Popped, solverState
<1>8. ASSUME NEW p \in Packages, PassOver(p) PROVE Provenance'
  BY <1>4, <1>5, <1>8 DEF PassOver, Agreed, Unmet, Popped, solverState, report
\* The candidate refused is explained like the dependency, the other side of the
\* conflict like every pinned package.
<1>9. ASSUME NEW p \in Packages, Refuse(p) PROVE Provenance'
  <2>1. /\ work # <<>> /\ work' = Rest /\ unsatisfied' = Append(unsatisfied, top)
        /\ p \in Picks(top.dep) /\ UNCHANGED pinned
    BY <1>3, <1>9 DEF Refuse, Unmet, Popped, solverState
  <2>2. PICK i \in PinnedAt : clashes' = Append(clashes, ClashRecord(p, i))
    BY <1>9 DEF Refuse
  <2>3. PICK new : new = ClashRecord(p, i)
    OBVIOUS
  <2>4. /\ pinned[i] \in Range(pinned)
        /\ new \in [cause: Pins, victim: Pins]
        /\ {new.cause, new.victim} = {pinned[i], [pkg |-> p, chain |-> top.chain]}
    BY <1>1, <1>3, <2>1, <2>3, ClashParts, Zenon
  <2>5. ExplainsPin(pinned[i])
    BY <2>4 DEF Provenance
  <2>6. ExplainsPin([pkg |-> p, chain |-> top.chain])
    BY <1>5, <2>1, PinExplained DEF ExplainedItem
  <2>7. ExplainsPin(new.cause) /\ ExplainsPin(new.victim)
    BY <2>4, <2>5, <2>6
  <2>8. Range(clashes') = Range(clashes) \cup {new}
    <3> DEFINE Records == [cause: Pins, victim: Pins]
    <3>1. clashes \in Seq(Records) /\ new \in Records
      BY <1>1, <2>4 DEF Shape
    <3> HIDE DEF Records
    <3>2. Range(Append(clashes, new)) = Range(clashes) \cup {new}
      BY <3>1, AppendRange
    <3> QED BY <2>2, <2>3, <3>2
  <2>9. \A clash \in Range(clashes') : ExplainsPin(clash.cause)' /\ ExplainsPin(clash.victim)'
    BY <1>2, <2>7, <2>8 DEF Provenance
  <2> QED BY <1>2, <1>5, <2>1, <2>9 DEF Provenance
\* The Requires of the package pinned go on the worklist with the longer chain.
<1>10. ASSUME NEW p \in Packages, Pin(p) PROVE Provenance'
  <2> DEFINE chain == <<p>> \o top.chain
             pin == [pkg |-> p, chain |-> top.chain]
  <2>1. /\ work # <<>> /\ p \in Picks(top.dep)
        /\ UNCHANGED <<universe, unsatisfied, clashes>>
    BY <1>3, <1>10 DEF Pin, Agreed, Unmet, Popped, inputs, report
  <2>2. /\ top \in Range(work) /\ top.chain \in Chains
        /\ Range(Rest) \subseteq Range(work)
    BY <1>1, <1>3, <2>1, Pop
  <2>3. /\ Range(pinned') = Range(pinned) \cup {pin}
        /\ PinnedPackages' = PinnedPackages \cup {p}
        /\ Range(work') = Range(Rest) \cup {Item(dep, chain) : dep \in StillUnmet(p)}
    <3>1. /\ Range(pinned') = Range(pinned) \cup {[pkg |-> p, chain |-> Top.chain]}
          /\ Range(work') = Range(Rest) \cup {Item(dep, <<p>> \o Top.chain) : dep \in StillUnmet(p)}
          /\ PinnedPackages' = PinnedPackages \cup {p}
      BY <1>1, <1>10, PinEffect
    <3> QED BY <1>3, <3>1
  <2>4. ExplainedItem(top)
    BY <2>2 DEF Provenance
  <2>5. ExplainsPin(pin)
    BY <2>1, <2>4, PinExplained DEF ExplainedItem
  <2>6. ASSUME NEW dep \in StillUnmet(p) PROVE ExplainedItem(Item(dep, chain))'
    <3>1. dep \in universe[p].requires
      BY <2>6 DEF StillUnmet
    <3>2. Explains(dep, chain) /\ Range(chain) = Range(top.chain) \cup {p}
      BY <2>1, <2>2, <2>4, <3>1, ChainGrows DEF ExplainedItem
    <3>3. Explains(dep, chain)'
      <4>1. /\ \A d : Picks(d)' = Picks(d)
            /\ Requested' = Requested
        BY InputsFixed, Frozen
      <4>2. PICK c : c = chain
        OBVIOUS
      <4>3. Explains(dep, c)'
        BY <2>1, <3>2, <4>1, <4>2 DEF Explains
      <4> QED BY <4>2, <4>3
    <3>4. Range(chain) \subseteq PinnedPackages'
      BY <2>3, <2>4, <3>2 DEF ExplainedItem
    <3> QED BY <3>3, <3>4 DEF ExplainedItem, Item
  <2>7. \A item \in Range(work') : ExplainedItem(item)'
    BY <1>2, <2>2, <2>3, <2>6 DEF Provenance
  <2>8. \A q \in Range(pinned') : ExplainsPin(q)'
    BY <1>2, <2>3, <2>5 DEF Provenance
  <2> QED BY <1>2, <2>1, <2>7, <2>8 DEF Provenance
<1> QED
  BY <1>4, <1>6, <1>7, <1>8, <1>9, <1>10 DEF Next, Finish, QueryFails, Returned, solverState,
     report, vars

(* The provenance printed with an unsatisfied dependency or with either side  *)
(* of a conflict is a real path of Requires back to the request, whatever the *)
(* repositories hold and in whatever order the worklist was walked.           *)
THEOREM ChainsReal == Spec => []ProvenanceReal
<1>1. Init => TypeOK /\ Provenance
  BY InitTyped, InitProvenance
<1>2. (TypeOK /\ Provenance) /\ [Next]_vars => (TypeOK /\ Provenance)'
  BY NextTyped, NextProvenance
<1>3. Provenance => ProvenanceReal
  BY DEF Provenance, ProvenanceReal, ExplainedItem
<1> QED BY <1>1, <1>2, <1>3, PTL DEF Spec

=============================================================================
