------------------------------ MODULE Resolver ------------------------------
(***************************************************************************)
(* The buildroot solver: `solve` of crates/repo-resolver/src/solver.rs.    *)
(*                                                                         *)
(* A worklist of dependencies is popped from its end.  Each one is skipped *)
(* (rich expression, already met, file already owned), refused (nobody     *)
(* provides it, or its best provider clashes with a pinned package) or     *)
(* answered by pinning its best provider, whose unmet Requires go on the   *)
(* worklist.  One step of the model is one turn of that loop.              *)
(*                                                                         *)
(* Names of packages, of virtual capabilities and of files share one name  *)
(* space, as in the code; they are numbers in lexicographic order.  An EVR *)
(* is a version (the epoch folded in) and a release, 0 when absent.  ALT's *)
(* `set:` versions are left out.  The order of a package's Requires lines  *)
(* is left open: the step that pins it takes any.                          *)
(***************************************************************************)
EXTENDS Naturals, Sequences, FiniteSets, Functions

CONSTANTS
    Packages,    \* the rows of the repositories' `packages` tables
    Universes,   \* the repository contents considered
    Requests,    \* the calls of `solve` considered
    FilePaths,   \* the names that start with '/'
    RichNames    \* the names that start with '('

Operators == {"any", "=", "<", "<=", ">", ">="}
Evrs == [version: Nat, release: Nat]

\* A versionless capability carries NoEvr: version 0 is no real version.
NoEvr == [version |-> 0, release |-> 0]

Dependencies == [name: Nat, op: Operators, evr: Evrs]
Capabilities == [name: Nat, evr: Evrs]

\* `repo` is the place of the package's repository in priority order and
\* `accepted` says whether the profile's architecture filter lets it through.
PackageRecords ==
    [name: Nat, evr: Evrs, repo: Nat, accepted: BOOLEAN,
     provides: SUBSET Capabilities, requires: SUBSET Dependencies,
     conflicts: SUBSET Dependencies, files: SUBSET FilePaths]

RequestRecords ==
    [base: Seq(Dependencies), implicit: Seq(Dependencies),
     requirements: Seq(Dependencies)]

ASSUME UniversesAssumption ==
    /\ Universes \subseteq [Packages -> PackageRecords]
    /\ \A u \in Universes, p \in Packages : IsFiniteSet(u[p].requires)
ASSUME RequestsAssumption == Requests \subseteq RequestRecords

VARIABLES
    universe,      \* RepoUniverse: the contents of every package
    request,       \* SolveRequest
    work,          \* the worklist, popped from its end
    pinned,        \* SolverState.pinned, each package with its provenance
    met,           \* SolverState.met_caps
    provider_for,  \* SolverState.provider_for
    unsatisfied,   \* dependencies nobody could be pinned for
    clashes,       \* conflict chains
    skipped,       \* rich_deps_skipped
    result         \* "running", or what solve returned

inputs == <<universe, request>>
solverState == <<pinned, met, provider_for>>
report == <<unsatisfied, clashes, skipped>>
vars == <<inputs, work, solverState, report, result>>

-----------------------------------------------------------------------------
(* Versions and dependencies (evr.rs, package.rs, predicates.rs). *)

\* EVR::cmp_strict: version, then release.
NewerStrict(a, b) ==
    \/ a.version > b.version
    \/ a.version = b.version /\ a.release > b.release

\* EVR::compare_rpm: an absent release on either side decides nothing.
Older(a, b) ==
    \/ a.version < b.version
    \/ /\ a.version = b.version
       /\ a.release # 0 /\ b.release # 0
       /\ a.release < b.release

\* CapVersion::matches.
Matches(evr, dep) ==
    CASE dep.op = "any" -> TRUE
      [] dep.op = "="   -> ~Older(evr, dep.evr) /\ ~Older(dep.evr, evr)
      [] dep.op = "<"   -> Older(evr, dep.evr)
      [] dep.op = "<="  -> ~Older(dep.evr, evr)
      [] dep.op = ">"   -> Older(dep.evr, evr)
      [] dep.op = ">="  -> ~Older(evr, dep.evr)

ProvidesMatch(p, dep) ==
    \E cap \in universe[p].provides :
       /\ cap.name = dep.name
       /\ dep.op = "any" \/ (cap.evr # NoEvr /\ Matches(cap.evr, dep))

\* RepoDb::package_satisfies, which judges the candidates for a dependency: the
\* package's own EVR may answer it, and so may any of its Provides.
Satisfies(p, dep) ==
    \/ universe[p].name = dep.name /\ Matches(universe[p].evr, dep)
    \/ ProvidesMatch(p, dep)

\* provides_satisfies, which judges a Conflicts line: for a package of that name
\* its own EVR decides alone.  The packages it sees have no file list loaded.
ProvidesSatisfies(p, dep) ==
    IF universe[p].name = dep.name THEN Matches(universe[p].evr, dep)
                                   ELSE ProvidesMatch(p, dep)

\* What pinning p adds to met_caps.
Names(p) == {universe[p].name} \cup {cap.name : cap \in universe[p].provides}

-----------------------------------------------------------------------------
(* Choosing a provider. *)

\* RepoUniverse::candidates_with_nevra.
Candidates(dep) == {p \in Packages : universe[p].accepted /\ dep.name \in Names(p)}

\* RepoUniverse::file_owner: an owner in the first repository that has one.
FileOwners(path) ==
    LET owners == {p \in Packages : universe[p].accepted /\ path \in universe[p].files}
    IN  {p \in owners : \A q \in owners : universe[p].repo <= universe[q].repo}

\* The order of pick_provider: repository, EVR descending, name.
Better(p, q) ==
    LET a == universe[p]
        b == universe[q]
    IN  \/ a.repo < b.repo
        \/ /\ a.repo = b.repo
           /\ \/ NewerStrict(a.evr, b.evr)
              \/ ~NewerStrict(b.evr, a.evr) /\ a.name < b.name

Best(S) == {p \in S : \A q \in S : ~Better(q, p)}

\* pick_provider: the packages it can return.  Rows that tie, and owners of a
\* path in one repository, come in no stated order.  A file dependency takes
\* every candidate unchecked, the owner among them.
Picks(dep) ==
    IF dep.name \notin FilePaths
    THEN Best({p \in Candidates(dep) : Satisfies(p, dep)})
    ELSE IF FileOwners(dep.name) = {}
    THEN Best(Candidates(dep))
    ELSE UNION {Best(Candidates(dep) \cup {p}) : p \in FileOwners(dep.name)}

-----------------------------------------------------------------------------
(* The state the loop works on. *)

PinnedAt == DOMAIN pinned
PinnedPackages == {pin.pkg : pin \in Range(pinned)}
PinnedNames == {universe[p].name : p \in PinnedPackages}

\* conflict_between, one way.
ConflictsWith(p, q) == \E dep \in universe[p].conflicts : ProvidesSatisfies(q, dep)
\* Mutant: only the package already pinned is asked what it conflicts with.
ClashOneWay(p, q) == ConflictsWith(q, p)

Clash(p, q) == ConflictsWith(p, q) \/ ConflictsWith(q, p)

Item(dep, chain) == [dep |-> dep, chain |-> chain]
FromSpec(deps) == [i \in DOMAIN deps |-> Item(deps[i], <<>>)]

Top == work[Len(work)]
Rest == SubSeq(work, 1, Len(work) - 1)

IsRich(dep) == dep.name \in RichNames
OwnedByPinned(dep) ==
    dep.name \in FilePaths /\ \E p \in PinnedPackages : dep.name \in universe[p].files
IsMet(dep) == dep.name \in met

\* The orders in which the members of a finite set can be listed.
Orders(S) ==
    {s \in [1 .. Cardinality(S) -> S] : Range(s) = S}

Init ==
    /\ universe \in Universes
    /\ request \in Requests
    /\ work = FromSpec(request.base) \o FromSpec(request.implicit)
                \o FromSpec(request.requirements)
    /\ pinned = <<>> /\ met = {} /\ provider_for = [n \in {} |-> n]
    /\ unsatisfied = <<>> /\ clashes = <<>> /\ skipped = 0
    /\ result = "running"

\* The loop has popped a dependency.
Popped ==
    /\ result = "running" /\ work # <<>>
    /\ UNCHANGED <<inputs, result>>

SkipRich ==
    /\ Popped
    /\ IsRich(Top.dep)
    /\ work' = Rest
    /\ skipped' = skipped + 1
    /\ UNCHANGED <<solverState, unsatisfied, clashes>>

SkipMet ==
    /\ Popped
    /\ ~IsRich(Top.dep)
    /\ IsMet(Top.dep) \/ OwnedByPinned(Top.dep)
    /\ work' = Rest
    /\ UNCHANGED <<solverState, report>>

\* The dependency popped needs a provider.
Unmet ==
    /\ Popped
    /\ ~IsRich(Top.dep) /\ ~IsMet(Top.dep) /\ ~OwnedByPinned(Top.dep)

\* Mutant: the dependency is dropped and not reported.
NoProviderUnreported ==
    /\ Unmet
    /\ Picks(Top.dep) = {}
    /\ work' = Rest
    /\ UNCHANGED <<solverState, report>>

\* Mutant: only the first repository is looked at.
NoProviderAtFirst ==
    /\ Unmet
    /\ \A p \in Picks(Top.dep) : universe[p].repo > 0
    /\ work' = Rest
    /\ unsatisfied' = Append(unsatisfied, Top)
    /\ UNCHANGED <<solverState, clashes, skipped>>

\* Mutant: the dependency is put back, to be tried again later.
NoProviderRetried ==
    /\ Unmet
    /\ Picks(Top.dep) = {}
    /\ work' = <<Top>> \o Rest
    /\ UNCHANGED <<solverState, report>>

NoProvider ==
    /\ Unmet
    /\ Picks(Top.dep) = {}
    /\ work' = Rest
    /\ unsatisfied' = Append(unsatisfied, Top)
    /\ UNCHANGED <<solverState, clashes, skipped>>

\* would_conflict: the first pinned package that clashes with p; its own
\* Conflicts are looked at after those of p.
FirstClash(p, i) ==
    /\ Clash(p, pinned[i].pkg)
    /\ \A j \in 1 .. i - 1 : ~Clash(p, pinned[j].pkg)

ClashRecord(p, i) ==
    LET candidate == [pkg |-> p, chain |-> Top.chain]
    IN  IF ConflictsWith(p, pinned[i].pkg)
        THEN [cause |-> candidate, victim |-> pinned[i]]
        ELSE [cause |-> pinned[i], victim |-> candidate]

Refuse(p) ==
    /\ Unmet
    /\ p \in Picks(Top.dep)
    /\ \E i \in PinnedAt :
          /\ FirstClash(p, i)
          /\ clashes' = Append(clashes, ClashRecord(p, i))
    /\ work' = Rest
    /\ unsatisfied' = Append(unsatisfied, Top)
    /\ UNCHANGED <<solverState, skipped>>

\* A provider has been picked and clashes with nothing pinned.
Agreed(p) ==
    /\ Unmet
    /\ p \in Picks(Top.dep)
    /\ \A q \in PinnedPackages : ~Clash(p, q)
    /\ UNCHANGED report

\* The Requires of a package just pinned that go on the worklist.
\* Mutant: file requirements are taken for met.
StillUnmetPackages(p) ==
    {dep \in universe[p].requires :
        dep.name \notin met \cup Names(p) \cup FilePaths}

StillUnmet(p) == {dep \in universe[p].requires : dep.name \notin met \cup Names(p)}

\* Mutant: the chain grows at its far end.
PinChainReversed(p) ==
    /\ Agreed(p)
    /\ universe[p].name \notin PinnedNames
    /\ pinned' = Append(pinned, [pkg |-> p, chain |-> Top.chain])
    /\ met' = met \cup Names(p)
    /\ provider_for' = [n \in DOMAIN provider_for \cup {universe[p].name} |->
                          IF n \in DOMAIN provider_for THEN provider_for[n] ELSE p]
    /\ \E deps \in Orders(StillUnmet(p)) :
          work' = Rest \o [i \in DOMAIN deps |-> Item(deps[i], Top.chain \o <<p>>)]

Pin(p) ==
    /\ Agreed(p)
    /\ universe[p].name \notin PinnedNames
    /\ pinned' = Append(pinned, [pkg |-> p, chain |-> Top.chain])
    /\ met' = met \cup Names(p)
    /\ provider_for' = [n \in DOMAIN provider_for \cup {universe[p].name} |->
                          IF n \in DOMAIN provider_for THEN provider_for[n] ELSE p]
    /\ \E deps \in Orders(StillUnmet(p)) :
          work' = Rest \o [i \in DOMAIN deps |-> Item(deps[i], <<p>> \o Top.chain)]

\* Mutant: the capabilities are recorded before the name is looked at.
PassOverRecording(p) ==
    /\ Agreed(p)
    /\ universe[p].name \in PinnedNames
    /\ work' = Rest
    /\ met' = met \cup Names(p)
    /\ UNCHANGED <<pinned, provider_for>>

\* Mutant: a second version of a package is pinned beside the first.
PassOverPinning(p) ==
    /\ Agreed(p)
    /\ universe[p].name \in PinnedNames
    /\ work' = Rest
    /\ pinned' = Append(pinned, [pkg |-> p, chain |-> Top.chain])
    /\ met' = met \cup Names(p)
    /\ UNCHANGED provider_for

\* `pin` returns false: a package of that name is pinned already.
PassOver(p) ==
    /\ Agreed(p)
    /\ universe[p].name \in PinnedNames
    /\ work' = Rest
    /\ UNCHANGED solverState

Finish ==
    /\ result = "running" /\ work = <<>>
    /\ result' = IF unsatisfied = <<>> /\ clashes = <<>> THEN "ok" ELSE "unsatisfiable"
    /\ UNCHANGED <<inputs, work, solverState, report>>

\* A query of a repository's database fails and `?` gives up the solve.  Only
\* a dependency that is neither rich nor met by name asks the database.
QueryFails ==
    /\ result = "running" /\ work # <<>>
    /\ ~IsRich(Top.dep) /\ ~IsMet(Top.dep)
    /\ result' = "error"
    /\ UNCHANGED <<inputs, work, solverState, report>>

Returned == result # "running" /\ UNCHANGED vars

Next ==
    \/ SkipRich \/ SkipMet \/ NoProvider
    \/ \E p \in Packages : Refuse(p) \/ Pin(p) \/ PassOver(p)
    \/ Finish \/ QueryFails \/ Returned

Spec == Init /\ [][Next]_vars

\* The loop is ordinary sequential code: it keeps running.
FairSpec == Spec /\ WF_vars(Next)
-----------------------------------------------------------------------------
(* Properties. *)

Chains == Seq(Packages)
Items == [dep: Dependencies, chain: Chains]
Pins == [pkg: Packages, chain: Chains]

(* The worklist and everything reported is made of dependencies and packages  *)
(* of the universe; met_caps and provider_for say what the pinned packages    *)
(* say, for the loop asks only the two summaries (is_met, the closure).       *)
TypeOK ==
    /\ universe \in Universes /\ request \in Requests
    /\ work \in Seq(Items) /\ unsatisfied \in Seq(Items)
    /\ pinned \in Seq(Pins)
    /\ clashes \in Seq([cause: Pins, victim: Pins])
    /\ skipped \in Nat
    /\ result \in {"running", "ok", "unsatisfiable", "error"}
    /\ met = UNION {Names(p) : p \in PinnedPackages}
    /\ provider_for \in [PinnedNames -> PinnedPackages]

(* No two packages of the closure conflict, whichever of the two declares it  *)
(* and whichever was pinned first: would_conflict looks both ways, and only   *)
(* at the moment the second one is pinned.                                    *)
NoConflictInside ==
    \A p, q \in PinnedPackages : p # q => ~ConflictsWith(p, q)

(* A closure has one package of a name, and provider_for names that one.      *)
OnePerName ==
    /\ \A i, j \in PinnedAt :
          universe[pinned[i].pkg].name = universe[pinned[j].pkg].name => i = j
    /\ \A p \in PinnedPackages : provider_for[universe[p].name] = p

\* Everything the closure needs: what was asked, and what its packages require.
Requested ==
    Range(request.base) \cup Range(request.implicit) \cup Range(request.requirements)
Needed == Requested \cup UNION {universe[p].requires : p \in PinnedPackages}

\* A dependency whose every possible provider bears the name of a pinned package.
Shadowed(dep) ==
    \E p \in Picks(dep) : universe[p].name \in PinnedNames

(* A solve that says "ok" has forgotten no dependency: each one asked for, or *)
(* required by a package of the closure, is a rich expression, or is met by   *)
(* name, or is a file some pinned package owns, unless its provider shares    *)
(* the name of a package already pinned.                                      *)
NothingForgotten ==
    result = "ok" =>
        \A dep \in Needed :
            IsRich(dep) \/ IsMet(dep) \/ OwnedByPinned(dep) \/ Shadowed(dep)

\* The repositories hold one version of every package.
UniqueNames ==
    \A p, q \in Packages : universe[p].name = universe[q].name => p = q

(* With one version of each package in the repositories that last case never  *)
(* arises: the closure is closed under Requires.                              *)
ClosureClosed ==
    result = "ok" /\ UniqueNames =>
        \A dep \in Needed : IsRich(dep) \/ IsMet(dep) \/ OwnedByPinned(dep)

\* A chain explains a dependency: the nearest puller requires it and was itself
\* picked for a dependency the rest of the chain explains, down to the request.
Explains(dep, chain) ==
    /\ chain = <<>> => dep \in Requested
    /\ chain # <<>> => dep \in universe[chain[1]].requires
    /\ \A i \in DOMAIN chain :
          \E d \in IF i = Len(chain) THEN Requested ELSE universe[chain[i + 1]].requires :
             chain[i] \in Picks(d)

ExplainsPin(pin) ==
    \E dep \in IF pin.chain = <<>> THEN Requested ELSE universe[pin.chain[1]].requires :
        pin.pkg \in Picks(dep) /\ Explains(dep, pin.chain)

(* The provenance of every unsatisfied dependency, and of both sides of every *)
(* conflict, is a real path of Requires through packages of the closure back  *)
(* to the request, nearest puller first (unsat.rs: "nearest puller first, root*)
(* cause last").                                                              *)
ProvenanceReal ==
    /\ \A item \in Range(unsatisfied) :
          /\ Explains(item.dep, item.chain)
          /\ Range(item.chain) \subseteq PinnedPackages
    /\ \A clash \in Range(clashes) : ExplainsPin(clash.cause) /\ ExplainsPin(clash.victim)

(* An unsatisfiable verdict has a reason that the final state still shows: an *)
(* unsatisfied dependency has no provider at all, or the best one it has      *)
(* conflicts with a package of the closure.                                   *)
UnsatJustified ==
    \A item \in Range(unsatisfied) :
        \/ Picks(item.dep) = {}
        \/ \E p \in Picks(item.dep), q \in PinnedPackages : Clash(p, q)

(* The walk ends, cyclic Requires and all: pins are finitely many and every   *)
(* other turn shortens the worklist.                                          *)
Terminates == <>(result # "running")
-----------------------------------------------------------------------------
(* What the matrix says of the verdict and the walk does not keep. *)

(* The closure of an "ok" is "a satisfying closure": some package of it       *)
(* satisfies every dependency, version included.                              *)
ClosureSatisfies ==
    result = "ok" =>
        \A dep \in Needed :
            \/ IsRich(dep) \/ OwnedByPinned(dep)
            \/ \E p \in PinnedPackages : Satisfies(p, dep)
=============================================================================
