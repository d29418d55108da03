# TLA+ models of rpm-spec-tool

Formal models of the parts of `rpm-spec-tool` whose correctness depends on the
order in which things happen (the repository cache that several processes share,
the metadata fetch over a changing mirror, the buildroot solver's worklist, the
language server and its client, the shellcheck subprocess, the fix loop between
an editor and a power loss) and of the algorithms that walk a spec file with a
state of their own (the rules about branches, branch coverage). Every definition
of a model is translated from the Rust source; `PROJECT.json` names the lines.
Paths below are relative to `crates/`.

## 1. Inventory

`rpm-spec-tool` lints, fixes and formats RPM spec files, resolves them against
profiles of distributions, and checks their build dependencies against cached
repository metadata. It is a command (`cli`), a language server (`lsp`) and five
libraries. There is no daemon: the only state shared between processes is on disk.

| component | state it keeps | operations | interacts with |
|---|---|---|---|
| snapshot cache (`repo-metadata/src/cache.rs`, `util.rs`) | `repos/<sha>/snapshots/<rev>/{manifest.json,repo.db}`, `current` link | `write_snapshot`, `write_repo_db`, `atomic_write` | sync writes; status, show, matrix read without lock |
| locks (`repo-metadata/src/locks.rs`) | `repos/<sha>/.lock`, an flock | `acquire`, drop | sync, gc, prune |
| `repo sync` (`cli/src/commands/repo/sync.rs`) | none of its own | loop over profiles and repositories | locks, backends, cache |
| `repo cache` (`cli/src/commands/repo/cache.rs`) | none | list, gc, prune | locks, cache, a user who confirms |
| HTTP cache (`repo-metadata/src/http.rs`) | `http/<sha-url>/{body,meta.json}` | `fetch` | the mirror; only sync uses it |
| backends (`rpmmd.rs`, `aptrpm/`) | none | `fetch_revision`, `fetch_index` | HTTP cache |
| repository database (`repo-core/src/db`) | SQLite file | create, ingest, open, queries | cache, solver, lints |
| solver (`repo-resolver`) | worklist, pins, met capabilities | `solve`, `lookup` | universe of databases |
| LSP server (`lsp/src/server.rs`) | open documents, analyses, config and profile caches | one message at a time | client, configuration files |
| shellcheck lint (`analyzer/src/rules/shellcheck.rs`) | probe result, failure flags | one subprocess and three threads a section | an external program |
| lint session, registry, ~200 rules (`analyzer`) | one syntax tree, diagnostics | a pass of visitors | config, profile |
| fix loop (`cli/src/fixer.rs`, `io.rs`) | the text | rounds of lint and edits, atomic write | lint session |
| matrix, baseline, coverage, bcond (`analyzer`) | findings by signature | aggregate, suppress, evaluate branches | profiles |
| profiles (`profile`) | layers of macros and tags | autodetect, resolve, merge | configuration |
| CLI commands and output | none | parse, call, print | all |

What is hard, and what must hold:

* **Cache.** Syncs, gcs and prunes race for one directory; readers take no lock;
  a process may be killed between any two system calls. `current` must name a
  complete snapshot; a reader must open a committed database; a sync that reports
  success must have published its own index; a waiter must get the lock.
* **Fetch.** The mirror changes during a sync, one file at a time; the process
  may die between the two writes of a cache entry. What is fetched must be what
  was served; a published index must belong to the revision it is labelled with.
* **Solver.** The result depends on the order in which dependencies are popped
  and on what was pinned before. The closure must be consistent, nothing must be
  forgotten, verdicts must have reasons, the walk must end on cyclic Requires.
* **LSP.** Client and server run apart; four caches (parse, analysis, config,
  profile) are invalidated by different messages. What is shown must settle on
  the buffer; answers must be about the text asked of; every request is answered.
* **Shellcheck.** A process, three threads, three bounded pipes and a deadline.
  No deadlock, no lost output, no process left, one notice a session, an end.
* **Fixing.** Suggestions overlap, rounds feed one another, a file may be named
  twice, saved by an editor meanwhile, or written half when the power goes. The
  loop must not spoil the text; a file must hold some whole text; the report must
  be about what the files hold, and the exit code about all of them.
* **Branch rules.** A path through nested `%if`/`%elif`/`%else` is kept as a
  normal form with a guard against explosion, a budget of atoms and conditions
  that cannot be read. What a rule claims of a branch must be so in every build.
* **Branch coverage.** Definitions are collected in one pass and conditions judged
  in another, per profile, then repaired by declared variants. A verdict must be
  what rpm would find on the way through the file.
* **Profiles, baselines.** Sequential merges and lookups (see the plan).

## 2. Modules

| module | models |
|---|---|
| `SnapshotStore` | what the cache promises its readers: commit, show the newest, withdraw |
| `RepoCache` | sync, gc, prune and readers on one repository, a system call a step; implements `SnapshotStore` |
| `RepoCacheProofs` | its theorems |
| `MetadataFetch` | one repository's fetch through the HTTP cache from a changing mirror |
| `MetadataFetchProofs` | its theorems |
| `Resolver` | `solve` over every small universe of packages |
| `ResolverProofs` | its theorems |
| `LspServer` | the server, its client and the configuration file |
| `LspServerProofs` | its theorems |
| `Shellcheck` | the lint thread, its three helpers, the program and the pipes |
| `ShellcheckProofs` | its theorems |
| `SpecText` | a spec as cells, four rules with edits, the rounds of the fix loop |
| `LintFix` | `lint`, `lint --fix`, `check`, `format --in-place` over several sources |
| `LintFixProofs` | its theorems |
| `BooleanDnf` | the normal forms of conditions: conjunction, negation, implication, the guard and the budget |
| `BranchRules` | the thirteen rules that follow path conditions, on one walk through a file |
| `BranchRulesProofs` | their theorems |
| `BranchCoverage` | `matrix coverage`: the scan for definitions, the evaluator, the variants, beside rpm itself |
| `BranchCoverageProofs` | its theorems |
| `MC…` | the instances TLC checks; the `.cfg` of a run gives the rest |

### RepoCache

A process runs one command once; `pc` says where it is. One action is one system
call, or a run of calls no other process can tell apart. Paths are resolved at
every call, as the kernel does: `dir` numbers the directory now found at
`repos/<sha>`, `fd[p]` the one whose `.lock` a process has open. That is what
makes prune interesting: it renames a directory away while others hold or await
the lock inside. A file is named by the process that wrote it, so a snapshot is a
record of three writers (manifest, database, temporary); the symlink is the
spelling of the root it was written with and a revision; `age` is the mtime
order gc sorts by. `sync` takes the lock, fetches some revision (any one: the
fetch is the business of `MetadataFetch`), and runs the eight steps of
`write_snapshot`. `gc` previews, prompts, locks, sweeps, removes file by file.
`Crash` kills a process anywhere: its flock goes, its files stay.

Left out: other repositories (nothing is shared between two directories), the
`.removing-*` leftovers of prune (no command visits them), SQLite's sidecar
files beyond the mtime they move, power loss (the model's writes survive a
process, not the machine; the code does not fsync the cache).

### MetadataFetch

`step` is where the running fetch is, `at` the file it fetches; `body` and
`meta` are the two files of each cache entry, `mirror` what each URL serves
now. Contents are named by the revision that published them, and a validator
identifies a content. `Hashed` is the set of files whose names carry checksums
(most rpm-md repositories' do; apt-rpm's names are fixed), `Declares` which files
a revision lists, `Optional` those whose failure only warns. The mirror may change
between any two steps, backwards too. Only one sync runs at a time, because of
the repository lock. `torn` is a history variable: the URLs with a new body and an
old sidecar; `asked` remembers what the mirror had when it answered.

Left out: the offline modes, the scheme check, the cut at `MAX_RESPONSE_BYTES`,
a corrupt sidecar (`atomic_write` renames whole files into place).

### Resolver

A state is a turn of `solve`'s loop: the worklist with its provenance chains,
`pinned`, `met_caps`, `provider_for`, and the three parts of the report. The
universe is a variable that never changes, so one run covers many repositories
and the theorems hold for all of them. `Picks(dep)` is the set of packages
`pick_provider` may return: more than one where the code's order leaves a tie to
the rows' order. `Pin` takes the unmet Requires in any order (the code takes the
order of the rows). Names of packages, capabilities and files are one space of
numbers in lexicographic order; an EVR is a version and a release, 0 if absent;
the epoch is folded into the version; ALT's `set:` versions, installed sizes and
the debug log are left out. `QueryFails` is every `?` of a turn.

### LspServer

Client and server communicate by two queues. The client sends a whole text a
change, as the server asks for, and does not wait. `disk` is the sequence of
contents `rpmspec.toml` has had, so that a configuration is named by its place
and a stale one shows. `analyses`, the memoised parse, `configCache` and
`profileCache` are kept as the code keeps them, including that a failed load is
not memoised while the profile resolved from it is. A configuration event
re-analyses the documents one at a time, while messages wait; `handle_shutdown`
and the client are external: modelled from how the server uses them.

Left out: the position encoding, showrc files that a profile includes, requests that read nothing but
the text (one of each kind that uses a cache stands for them), the application
of workspace edits.

### Shellcheck

`main` is the linting thread; the writer and the two readers are actions on
bounded pipes of blocks; the program reads, prints and exits in any order its
`todo` allows (it may print all before it reads), and may hang. `wrapper`, chosen
once, lets it leave a helper that holds the pipes. `prompt`, chosen once, too, is
a program that does what it can and is given the time it takes. Blocks are counted, not named:
order within a pipe is the kernel's. `try_wait` can fail only once the child has
gone; the probe (`--version`) is taken to return.

### SpecText and LintFix

A text is a sequence of cells: letters, blanks, line ends, and one cell each for
what four rules look for. The rules (trailing whitespace, duplicated arch, the
deprecated `%clean`, an unescaped macro in a comment) were chosen because their
edits overlap, need several rounds, reach past the end of the text or depend on
the profile; `SpecText` translates their edits, `collect_edits`, the dropping of
overlaps edit by edit, `apply_edits` and the rounds. `LintFix` is a command: it
reads all sources, then fixes, writes (`write_atomic`: temporary, sync, rename,
sync of the directory), resolves the profile and reports each in turn. `denied` is
the set of rules whose severity resolves to deny, by configuration or `--deny`; the
others warn, and what they find is reported without a bearing on the exit code: 1
needs a finding of a denied rule, or under `check` a source that would be
reformatted; 2 a source that failed or a report that could not be written. `disk` is
what a reader sees, `durable` what a power loss leaves; `whole`, `read` and
`overtaken` are histories. The pretty-printer belongs to the parser crate and is
external: any function of texts.

Left out: the other rules, severities that differ from source to source, file modes, the text of reports, stdin's encoding.

### BooleanDnf and BranchRules

A condition is an expression over atoms; a world is the set of atoms true in a
build. `Dnf`, `And`, `Or`, `Implies` translate `boolean_dnf.rs` with its two
limits, `Sat` is what the condition means. The visitor of `BranchRules` reads one
line a step and keeps, beside `PathConditions` as the code keeps it (`path`, and
`loose` of RPM431), `reach`: the worlds that get there. `claims` is what the
rules said at the last line, each with the worlds that speak against it. Atoms
are taken not to change within a file, as the rules take them.

### BranchCoverage

A file is read line by line, by rpm in every build (`env`: each profile alone and
with each combination of variants) and by the scan once per profile (`locals`,
with the guards it passes). At the end `Finish` judges each row as
`evaluate_conditional` does, with the profile augmented by the scan, and
`augment_with_variants` moves profiles about. A condition is an expression of the
evaluator's own cases; a value is a number, a text or an error that names the
macro that has no definition or none that expands. `shaky` collects the macros of which one pass cannot know what two
interleaved ones would: redefined, read before they are set, or set under a guard
that the file or a variant decides. `VerdictsHold` and `DeadIsDead` leave the
branches that read them out, `NobodyLost` does not.

The code reads the build conditions of the whole file before it judges anything.
`bcond` is what that first pass finds, chosen at the start; `OnDeclaration` records
(`entries`), and a file ends only when the two agree. On rpm's side a condition
is off until a declaration is executed and never goes off again; `shaky` collects
the names declared twice, late, under a guard, or nowhere but on the command line.

Left out: macros with arguments, `%(…)` and Lua (one error for all).

## 3. Runs

Passing runs:

| run | bounds | shows |
|---|---|---|
| `cache_sync_gc` | 3 syncs, 2 gcs (one prompting), 1 reader, 3 revisions, `--keep 1`, 1 crash | one writer; `current` complete; readers sound; own index published; a gc leaves at most `--keep` snapshots besides the current one and no removal leaves fewer than `--keep`; implements `SnapshotStore` |
| `cache_lock_wait` | 1 sync, a prompting gc, 2 prunes, 1 crash, fair | a directory's lock has one holder, renames included; everyone waiting gets on |
| `fetch_index` | 2 revisions, 2 files named by checksum and an optional one that is not, 2 mirror changes, 1 death or failed write | what is fetched was served; a validator has a body; an index is of one revision; a still mirror is published as it is |
| `lsp_session` | 2 documents, 2 texts, 4 moves of the client, 3 configurations on disk | diagnostics settle on the buffer; answers fit their requests; the two caches agree; a reload is fresh; no request is left over |
| `shell_session` | 2 sections, 2 blocks, pipes of 1, with and without helpers, fair threads | output complete, one notice and nothing after it, no process left; without a helper the lint returns, and needs no deadline if the program is prompt |
| `resolver_walk` | 697 universes of 3 packages, 5 requests, fair | consistent, complete, explained, justified; the walk ends |
| `fix_batch` | one file of up to three lines, named twice or with stdin after it, 4 commands, one rule denied or all four, 1 save of an editor, failing writes, power loss, 3 rounds | fixing changes only what the rules are about and converges when it says so; files whole; the report fits the disk; 1 exactly if a denied finding is left or, under `check`, a source would be reformatted |
| `branch_walk` | 4 heads or items, 3 deep, 10 conditions over 5 atoms, 3 cubes, 3 atoms | path conditions exact, claims true in every build, dead branches found |
| `coverage_matrix` | 4 heads, definitions or declarations, 2 deep, 12 conditions, 3 build conditions (one `--with`, one `--without`), 2 profiles, 3 variants, 2 combinations | every profile accounted for; verdicts are rpm's; a dead branch is dead |

Why the bounds are enough for the interesting cases: two syncs and a gc are
what a race for one directory takes; three syncs of three revisions let the current
snapshot be the oldest of three, so that `--keep 1` spares two and removes one, and a
gc that spares one more than it should leaves three; two prunes make a third directory, and let a gc find its victim
gone; one crash is what strands a file. Two mirror changes go forward and back;
four moves of the client open, ask, change and ask again. With pipes of one
block two blocks already fill them. Three lines make edits of
two rules overlap and a third round necessary, and the loop stops at its bound
with the same code at 3 rounds as at 8. Four heads make an `%elif` chain within a
branch within another; with three cubes and three atoms the guard and the budget
are met by conditions of two operators. Two combinations are fewer than three
variants make. Three packages make cycles, alternatives,
shadowing versions and conflicts in either direction. The symmetries (syncs and
revisions; documents, texts and configurations) are of values that the models
only compare, in runs without liveness.

Runs that show where the code and what is said of it part:

| run | what it shows |
|---|---|
| `cache_prune_race` | a waiter on the lock of a directory prune renamed works beside another sync; `current` names a snapshot whose database is the other sync's, uncommitted |
| `fix_profile` | `lint --fix` fixes under the default profile and deletes `%clean` where the configured one forbids it |
| `resolver_versions` | a version constraint ignored, verdict Ok |

Each is a finding in `PROJECT.json` with the line of the code and the sentence it
contradicts. The runs and proofs that claim of the cache more than lock exclusion
have no prune, because of the first.

### Known divergences

Found while modelling and not kept as runs. The cache and the fetch:

* `repo-metadata/src/cache.rs:239-244` unlinks `current` before it links anew: a
  reader in between reports MISSING, though the header says "Atomic snapshot writes".
* `repo-metadata/src/cache.rs:228-233` renames the manifest and the database apart
  ("atomically", line 201): a death in between leaves them of two syncs.
* `cli/src/commands/repo/cache.rs:224-257`: gc lists before the prompt and again
  under the lock, so it may remove what it did not show.
* `cli/src/commands/repo/cache.rs:27-29` says that gc by default keeps "only the
  current snapshot", `doc/repos.md:132` that it keeps one. Lines 246-253 keep the
  newest by mtime and the current one besides: after a sync that failed between making
  its directory and moving `current`, the default gc leaves that directory, without
  manifest or database, and the current snapshot. `GcBound` states what the code
  keeps: at most `--keep` besides the current one.
* The same comment says that gc spares what a "known lockfile" pins; it looks at no
  lockfile, and nothing in the repository writes one.
* `repo-metadata/src/aptrpm/mod.rs:202`: an optional file whose fetch fails is left
  out with a warning, so a second sync of a revision may replace its snapshot by a
  poorer one of the same name. Indexes may lack optional files in the model too.
* `repo-metadata/src/cache.rs:244` writes the link's target as spelled: with the
  relative root of `doc/repos.md:104` the link dangles. For the same reason gc,
  which compares spellings (`cli/src/commands/repo/cache.rs:249`), removes the
  current snapshot if it reaches the cache by another path. Runs and proofs
  therefore spell the root one way (`Root`).
* `repo-metadata/src/rpmmd.rs:60`: no declared checksum is compared with what was
  fetched, so an index of fixed names may mix two revisions; `IndexMatchesRevision`
  speaks of the names with checksums only.
* `repo-metadata/src/http.rs:246-260` writes body and sidecar one after the other: a
  death in between leaves a new body with the old validators, and if the mirror
  then goes back the 304 returns the wrong bytes. `FetchesServed` leaves out
  exactly those URLs (`torn`).

The server and shellcheck:

* `lsp/src/server.rs:122`: the watcher's glob does not match every name a
  configuration is found under, so saving such a file never reaches the server.
* `analyzer/src/rules/shellcheck.rs:795`: after the timeout the joins wait for the
  pipes to close, so a wrapper's helper that keeps them holds the lint up for as
  long as it lives. `Returns` is stated without one.
* `lsp/src/server.rs:93-146`: the capabilities announce UTF-16 before the client's
  offer is looked at; with a client that offers UTF-8 the server counts bytes.
* `lsp/src/server.rs:189`: a reply to the watcher's registration that arrives after
  `shutdown` ends the server with an error, though line 201 says replies are ignored.
* `analyzer/src/rules/shellcheck.rs:723`: the probe has no timeout.

The solver:

* `repo-resolver/src/solver.rs:202`: a dependency whose best provider is another
  version of a pinned package is dropped, neither met nor reported
  (`NothingForgotten` states the exception; `ClosureClosed` excludes it).
* `repo-resolver/src/solver.rs:112`: the worklist is a stack, so requirements are
  settled before the base packages that lines 55-58 say come first.
* `repo-resolver/src/solver.rs:113-117`: the count of rich dependencies is lost in
  an Ok; `SolveError::RichDep` of line 16 does not exist.
* `repo-resolver/src/solver.rs:211`: `provider_for` is keyed by package names, so
  a requirement met by a virtual capability has no entry (line 39 says it has).
* `repo-resolver/src/predicates.rs:29` lets a package of the dependency's name
  answer by its own EVR only, `repo-core/src/db/mod.rs:509-594` also by its
  Provides; the latter calls the two equivalent.

Fixing:

* `cli/src/commands/lint.rs:94-98` and `146-156`: with `--fix` on stdin and JSON the
  fixed text goes to stdout before the report, and with nothing to fix no text at
  all goes there.
* `cli/src/commands/lint.rs`: a file saved by an editor between the reading of the
  sources and the rename is overwritten (`overtaken`).
* `cli/src/fixer.rs:3-6` prefers machine-applicable edits to others, but no
  suggestion of lower applicability carries an edit, so `--fix-suggested` adds
  nothing; a suggestion about an emptied conditional has none either.
* A profile that cannot be resolved after the write leaves the file fixed and
  unreported; the exit code is 2.

Branch rules (`analyzer/src/rules`):

* `path_cond.rs:205` starts a clean path under a branch that cannot be read, though
  lines 12-15 and 198-201 promise to make no claim there; a claim made so is about
  the inner guards alone and holds all the same (`ClaimsHold`), except for the
  rules about copies, whose claims in doubt the property leaves out.
* `path_cond.rs:102` takes `%ifnarch` and `%ifnos` for `%ifarch` and `%ifos`: the
  run has none.
* `exhaustive_chain.rs:42-45,59-61,78`: the anchor of RPM116 is one field, which a
  nested chain overwrites.

Branch coverage (`analyzer/src`):

* `branch_coverage.rs:314-324` says that a branch of every profile is active on all;
  a rescue makes one `[ALWAYS]` of which a profile is only conditional.
* `spec_locals.rs:126-184` judges guards with the profile alone, so a macro set
  under a guard on another macro of the file is missed, and a branch every build
  takes may be called `[DEAD]`.
* The first definition wins over a later one, the profile's value over the file's,
  a use before the definition sees it, and what is defined under a guard nobody can
  judge counts as defined, though `branch_coverage.rs:20-23` would not guess.
* `bcond.rs:328-341` collects the declarations of every branch because "RPM
  evaluates `%bcond` at parse time, before %if resolution", and keeps the first. rpm
  does not execute what a false `%if` encloses, so of `%bcond_with x` for one
  distribution and `%bcond_without x` in the `%else` the other gets the wrong one.
* `bcond.rs:270-295` switches on a condition only `--with` names; in rpm it is off.
* A branch of more combinations than the cap may be called dead (documented).

### Fairness

`FairSpec` is weak fairness where the code's own scheduling gives it: each
process of the cache runs on; the solver's loop is sequential code; the server's
loop and the client's reader take their messages; the lint and its threads run
and time passes. The user, the mirror, crashes, other people's edits and the
external program, unless it is `prompt`, are never fair. In `cache_lock_wait`
a prompting gc holds no lock while it waits for its answer, and flock serves
whoever asks when it is free: weak fairness of a waiter suffices because each
process runs one command once.

## 4. Proofs

| theorem | states | for every |
|---|---|---|
| `RepoCacheProofs!TypeCorrect`, `LockExclusion` | types; a lock has one holder | set of processes and revisions, roots, prunes, crashes |
| `Serialised`, `CurrentIsComplete`, `ReadersAreSound`, `SyncPublishes`, `GcKeepsEnough`, `Refinement` | the cache's safety, what gc leaves, and that it implements `SnapshotStore` | the same, assuming `Undisturbed`: no prune, canonical roots |
| `MetadataFetchProofs!FetchTypes`, `FetchServes`, `BodyBehindValidator` | types; what is fetched was served; a validator has a body | files, revisions, bounds |
| `IndexOfOneRevision`, `StillPublished` | in an index, files named by checksum are of its revision; of a mirror that stands still the index is what is stored | the same |
| `ShellcheckProofs!NothingLost`, `ChildrenReaped`, `FailureFinal` (and `TypeCorrect`) | what is parsed is all that was printed; no process left; the first notice is the last | number of sections, outputs, pipes, programs and helpers |
| `ResolverProofs!SolverTypes`, `ClosureConsistent`, `OneVersionEach`, `NoneForgotten`, `ClosedUnderRequires` | types and summaries; no conflict inside; one version each; nothing forgotten | universe and request |
| `ReasonsHold`, `ChainsReal` | an unsatisfied dependency has the reason given; every chain of requirements is one of the repository's | the same |
| `LintFixProofs!CollectedEdits`, `EveryEditApplied` | the edits the loop keeps lie inside the text and apart; each of them is in the text that comes out | text, positions, edits |
| `FixKeepsEssence` | whatever edits overlap and are dropped, the loop changes only what its rules are about, and converged means done: `FixSound` | texts, rules switched on, rounds |
| `TypeCorrect`, `NoTornFile`, `ExitTellsTruth`, `ReportTellsDisk`, `ConvergedMeansDone` | types; the disk never holds half a file; exit code 1 means a denied finding left or a source `check` would reformat, 0 neither; the report is of what is on disk; a loop that says it converged has nothing left to fix | files, texts, denied rules, passes, crashes and other editors |
| `LspServerProofs!TypeCorrect`, `ProfileOfItsConfig` | types; a cached profile belongs to the cached configuration | documents, configurations, bounds |
| `EveryRequestAnswered`, `AnswersFit`, `DisplaysSettle` | each request is answered once or still queued; an answer is about the text the client had; with nothing on its way the client shows the diagnostics of its text | the same |
| `BranchRulesProofs!FormsMean` | a normal form says what its condition says, or its negation | condition, however deep, guard against explosion |
| `PathsAreExact`, `ClaimsAreTrue`, `DeadIsReported` | path conditions are exact; every claim is so in every build; no readable dead branch is missed | conditions, files, nesting, guard and budget, assuming `NoneNegated` (no `%ifnarch`) and `NoneApart` (`None` is no form) |
| `BranchCoverageProofs!Covers` (and `TypeCorrect`) | what the scan, the first pass and rpm have of a name that is not shaky is the same, or open for rpm; the scan is where the builds are | profiles, macros, variants, conditions, files, nesting, command line |
| `VerdictsAlwaysHold`, `DeadStaysDead`, `NobodyEverLost` | what is reported of a branch is what rpm finds in each build; a dead branch is taken by none; no profile is lost | the same, cap on combinations included |

How they go. For the cache the invariant is `TypeInv /\ LockInv /\ CacheInv`.
`LockInv` says a holder's descriptor is of a directory that was created and that
holders of one directory are equal; it is inductive by itself. Without prunes
the directory never changes once made, so holders exclude one another outright,
and `CacheInv` can say of each place in `write_snapshot` what is on disk: which
writer's file is under which name, what `current` names, what a reader that has
got so far will find. `SingleWriter`, `CurrentComplete` and `ReaderSound` follow,
`SyncPublishesOwnIndex` and the refinement are step properties of the same
invariant. For `GcBound` the ages are ranks, so a gc's list is what has at
least `keep` younger snapshots (`KeepSplit`: `keep` are left). `Sweep` counts those
that are neither on the list nor chosen: never fewer than `keep`, and one more only
once the snapshot under `current` was skipped, which is the one that `GcBound` does
not count (`SpareOfKept`). For the fetch, `FetchInv` relates
body, validator and `torn` at each step, `MirrorInv` says that under a name with a checksum there is one content, and
`StillInv` that as long as the mirror has stood still a file is of the revision
of the index it was asked for. For the solver, `Account` is the heart: every
dependency of the request and of a pinned package is settled, or on the worklist,
or reported, or shadowed; `Finish` with an empty worklist and an empty report
leaves only the first and the last. `Summaries` (part of `TypeOK`) ties `met_caps`
and `provider_for` to the pins. `ProvenanceReal` and `UnsatJustified` need the order
of the picks: a pick is for a dependency of the request or of an earlier pick.
For shellcheck, `PipeInv` is a conservation law (what was printed is in the pipe
or in the buffer, and a reader at its end has left nothing), `ProcessInv` says by
the place of `main` what has become of the child, and `NoticeInv` ties the two
reporting flags to the one notice: a notice means that one of them is set, which
is more than the property says and what makes it inductive. Each part is
preserved by itself, so the proof treats the lint and the pipes apart.

The fix loop rests on `SpecText`: edits that are inside the text and apart from one
another, applied from the last to the first, do not move what is still to be
done. `BatchInv` says by the place of `pc` which of the loop, the temporary file and the
target holds which text; `FitInv` that a report is of the text it stands next to,
which holds because the loop is a function of text and rules.

`FixKeepsEssence` compares two texts, so it needs to know of every cell of one which
cell of the other it is and why it counts. `Kept` says it cell by cell (`EssentialIs`;
the reasons not to count are `Cleaned`, `Repeated`, `Trailing` and `Doubled`), and
`SameEssence` that cells taken out, none of which counts, leave the essence if the
others count as before. Two lemmas meet its hypotheses: `NeedlessCells` for cells taken
out within a line, `CleanGone` for a whole %clean section; putting in a percent sign is the former, read
backwards. Both look at the cells before the gap (`Agree`: a text's first cells say how
its lines, sections and words begin) and behind it (the `Gap` lemmas). But an
edit is computed for the text as it was and applied to what the edits behind it have
left. `FixedFrom` says what that is: the cells before the last edit are as they were, and
the next is one at which an edit may have begun, so that a word that ended there still
does. Under it each of the four edits leaves the essence and `FixedFrom` one edit further
on (`OneFix`). It takes the edits backwards and apart, and no two equal (`AcceptedOnce`:
two percent signs put in at one place are one too many). `SameSense` carries the
essence from round to round.

The language
server's proofs first sort the steps: each either leaves a queue alone, posts one
message or receives one (`Following`), so that an invariant about a whole queue
is proved for these three kinds and not for each handler. `TextInv` follows the
queue message by message: what the first n messages will make of a
document (`Reaches`) is what the client had when it sent the next one. `DisplayInv`
is the same for the way back: the last publication on its way, or what is shown if there is
none, is of the text and configuration the server has, unless an event that
brings on another one is still to come. `CacheInv` says a cache is no older than the last
event the server has read.

For the branch rules the ground is `FormsMean`, an induction over the depth of
conditions. `Sat` and `Dnf` are recursive functions, and nothing tells the
provers that one exists, so `Solved` builds the solution rank by rank first. The
path of a branch is a fold over the branches before it (`ConjoinExact`), and
`Fits` says of each open branch, by the worlds in which a build gets there, what
its path knows (`Sound`), that it is inside the branch around it, and what its chain
has left; `%if`, `%elif` and `%else` push such a frame, `%endif` pops one. With
`Fits` and the same of the copies every claim is one lemma; that a dead branch
is found rests on `NoModelsEmpty`: a form without contradictory cubes that says
nothing is possible is the empty one the rules look for. The hypothesis
`NoneNegated` is there because the code takes `%ifnarch` for `%ifarch` (section 3),
under which `PathExact` is false.

For branch coverage, `CoverInv` sets rpm's side beside the coverage's, name by name.
`Untouched`: a macro the file has not defined is as the build was given it. `MacrosFit`:
one that is not shaky is in each build what the profile augmented by the scan
says, or open; `GatesFit` says it of the build conditions. `FramesFit` follows the scan
through the open conditionals: as long as no head on the way read what the
file, a variant or a shaky condition decides, the scan is in a branch for exactly
the profiles whose builds are or may be there (`Together`), so that a definition reaches both
sides or neither. `RowsHold` keeps the truth of a row until the end although
the macros change: what a settled row reads is not set after it. `Traced`
(what a frame reads, some row reads) makes a declaration under a guard that reads its
name shaky, without which `FramesFit` would not be inductive. At `Finish` the invariant
is applied to each row: where rpm's macros are those of the coverage, or open, its verdict
is that of the coverage, or open (`VerdictUnder`, over the depth of conditions). The
coverage tries only the variants that the head reads, rpm has all: `Restriction`
shows that every combination of the ones is part of one of the others, which is
arithmetic with mixed bases (`DigitsUpTo`, `EveryChoice`). `NobodyLost` needs no
invariant, only that a verdict is yes, no or open and what `Rescued` moves (`RescuedIs`).

Where an induction is needed, for folds and for the length of a queue, the
proofs take the least counterexample (`NatLeast`, from the well-foundedness of
the naturals): the library's induction rules take an operator as a parameter,
which the installed provers cannot instantiate.

Assumptions on constants are named `ASSUME`s in the modules that declare them;
TLC evaluates them in every run.

Model-checked only: liveness (`LockWaitEnds`, `Returns`, `Terminates`), which is out
of the provers' reach. Every safety invariant and action property of a passing run is proved, some
under the hypotheses named in the table. The three properties of the runs that expect
a violation do not hold.

## 5. Plan

Done, in this order: the cache, because its failures lose data and no test of the
repository runs two processes; the fetch, the solver, the server, shellcheck; the
fix loop, the branch rules and branch coverage, because each keeps a state along
a file and promises something about every build.

To model next:

1. `SyncRun`: the loop over profiles and repositories, the error paths that leave
   it, the exit code, `--keep-going`; two processes that take the locks of several
   repositories one at a time, composed with `SnapshotStore` per repository.
2. `Evr`: `rpmvercmp` and `compare_rpm` as functions over bounded strings, against a
   reference order; where it is not a total order (`~`, `^`, empty releases).
3. `Lookup`: `lookup`'s outcome against the solver's pick for one dependency.
4. `ProfileResolve`: built-in, showrc, overrides, target defines, command line, with
   the identity that is detected in between.
5. `Baseline`: what it suppresses after an edit.

To prove next, with the modules above: what they promise. Of the present ones no safety
property is left.

## 6. What is not modelled, and why

The lint rules but those of section 2, the language server's pure features, the output formats, the
parsers of repository metadata, macros and showrc files are functions of one
input without state; their tests are the right tool. The GPG stub, compression
and backend detection are calls into libraries or a match on a setting.
`repo cache list`, `repo show` and the matrix reports print; diff, impact and
portability compare the findings of finished runs. The offline modes of the HTTP
cache are not reached: `repo sync`, its only user, refuses them first. The hazards of
`PROJECT.json` without a property are either planned above or say why not.
