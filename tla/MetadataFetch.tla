---------------------------- MODULE MetadataFetch ----------------------------
(***************************************************************************)
(* How `repo sync` obtains one repository: fetch_revision reads the top    *)
(* document (repomd.xml or base/release), fetch_index reads the files it   *)
(* leads to, each through HttpCache::fetch, which keeps a body and a       *)
(* sidecar with the validators of the response under http/<sha-url>/.      *)
(*                                                                         *)
(* The mirror changes while the sync runs, one file at a time, forwards    *)
(* and backwards (a round-robin name answers from a lagging host).  The    *)
(* content of a file is named by the revision that published it.  One      *)
(* process works at a time, as the repository lock ensures; it may die     *)
(* anywhere, and the next one starts from what is on disk.                 *)
(***************************************************************************)
EXTENDS Naturals

CONSTANTS
  Revs,         \* revisions of the repository
  Last,         \* how many files an index is read from, fetched in order
  Declares,     \* the files a revision lists
  Optional,     \* the files whose failed fetch is only warned about
  Hashed,       \* the files whose names carry their checksums
  MaxUpdates,   \* bound on changes of the mirror
  MaxFailures,  \* bound on deaths and failed writes
  None

Places == 1..Last

ASSUME FetchAssumption ==
  /\ None \notin Revs
  /\ Last \in Nat
  /\ Declares \in [Revs -> SUBSET Places]
  /\ Optional \subseteq Places
  /\ Hashed \subseteq Places
  /\ MaxUpdates \in Nat /\ MaxFailures \in Nat

VARIABLES
  mirror,     \* what the mirror serves at each URL, None for 404
  body,       \* http/<sha-url>/body
  meta,       \* the validator in http/<sha-url>/meta.json, which names a content
  step,       \* where the running fetch is, "idle" if no sync runs
  at,         \* the file being fetched: 0 the top document, i the i-th file
  got,        \* the response, in memory
  rev,        \* the revision of this sync
  index,      \* what it has parsed
  published,  \* the last snapshot written
  asked,      \* what the mirror served when the request was answered
  moved,      \* whether the mirror changed during this sync
  torn,       \* the URLs with a new body and an old sidecar
  updates, failures

cache == <<body, meta, torn>>
sync == <<step, at, got, rev, index>>
vars == <<mirror, cache, sync, published, asked, moved, updates, failures>>

\* rpm-md takes the names from the top document, which most mirrors give
\* checksums; apt-rpm has fixed names.
Href(r, i) == [file |-> i, rev |-> IF i \in Hashed THEN r ELSE None]
Top == [file |-> 0, rev |-> None]
Urls == {Top} \cup {Href(r, i) : r \in Revs, i \in Places}

\* What may be found at a URL: under a name with a checksum, one content.
Contents(u) == IF u.rev = None THEN Revs ELSE {u.rev}

Steps == {"idle", "request", "body", "meta", "got"}

Nothing == [i \in Places |-> None]

Init ==
  /\ mirror \in [Urls -> Revs \cup {None}]
  /\ \A u \in Urls : mirror[u] \in Contents(u) \cup {None}
  /\ body = [u \in Urls |-> None] /\ meta = [u \in Urls |-> None]
  /\ step = "idle" /\ at = 0 /\ got = None /\ rev = None /\ index = Nothing
  /\ published = None
  /\ asked = None /\ moved = FALSE /\ torn = {}
  /\ updates = 0 /\ failures = 0

-----------------------------------------------------------------------------
(* The mirror.                                                             *)

MirrorChanges ==
  /\ updates < MaxUpdates
  /\ \E u \in Urls : \E c \in Contents(u) \cup {None} :
       /\ c # mirror[u]
       /\ mirror' = [mirror EXCEPT ![u] = c]
  /\ updates' = updates + 1 /\ moved' = TRUE
  /\ UNCHANGED <<cache, sync, published, asked, failures>>

-----------------------------------------------------------------------------
(* HttpCache::fetch                                                        *)

\* Mutant: the cache is keyed by the name of the file alone.
UrlByName == IF at = 0 THEN Top ELSE CHOOSE u \in Urls : u.file = at

Url == IF at = 0 THEN Top ELSE Href(rev, at)

\* 304, and the body is read back: ValidatorHasBody says there is one.
NotModified ==
  /\ step = "request"
  /\ mirror[Url] # None /\ meta[Url] = mirror[Url]
  /\ got' = body[Url] /\ asked' = mirror[Url]
  /\ step' = "got"
  /\ UNCHANGED <<mirror, cache, at, rev, index, published, moved, updates, failures>>

\* Mutant: the sidecar is written and the body is not.
AnsweredSidecarOnly ==
  /\ step = "request"
  /\ mirror[Url] # None /\ meta[Url] # mirror[Url]
  /\ got' = mirror[Url] /\ asked' = mirror[Url]
  /\ step' = "meta"
  /\ UNCHANGED <<mirror, cache, at, rev, index, published, moved, updates, failures>>

\* 200: the body arrives in memory.
Answered ==
  /\ step = "request"
  /\ mirror[Url] # None /\ meta[Url] # mirror[Url]
  /\ got' = mirror[Url] /\ asked' = mirror[Url]
  /\ step' = "body"
  /\ UNCHANGED <<mirror, cache, at, rev, index, published, moved, updates, failures>>

\* Mutant: the sidecar is kept when the body is already there.
WriteBodyOnly ==
  /\ step = "body"
  /\ body' = [body EXCEPT ![Url] = got]
  /\ step' = IF body[Url] = None THEN "meta" ELSE "got"
  /\ UNCHANGED <<mirror, meta, torn, at, got, rev, index, published, asked, moved,
                 updates, failures>>

WriteBody ==
  /\ step = "body"
  /\ body' = [body EXCEPT ![Url] = got]
  /\ step' = "meta"
  /\ UNCHANGED <<mirror, meta, torn, at, got, rev, index, published, asked, moved,
                 updates, failures>>

\* The server may send no validator.
WriteMeta ==
  /\ step = "meta"
  /\ \E tag \in {got, None} : meta' = [meta EXCEPT ![Url] = tag]
  /\ torn' = torn \ {Url}
  /\ step' = "got"
  /\ UNCHANGED <<mirror, body, at, got, rev, index, published, asked, moved,
                 updates, failures>>

\* What a death or a failed write leaves behind.
Leaves == torn' = torn \cup (IF step = "meta" THEN {Url} ELSE {})

\* Only fetch_index of the apt-rpm backend survives a failed fetch.
MayMiss == at \in Optional

\* fetch returns an error.
FetchFails ==
  IF MayMiss THEN at' = at + 1 /\ step' = "request" /\ UNCHANGED <<got, rev, index>>
             ELSE step' = "idle" /\ UNCHANGED <<at, got, rev, index>>

\* Refused, 404, or a timeout of the connection or of a read.
NetworkFails ==
  /\ step \in {"request", "body"}
  /\ FetchFails
  /\ UNCHANGED <<mirror, cache, published, asked, moved, updates, failures>>

WriteFails ==
  /\ step \in {"body", "meta"} /\ failures < MaxFailures
  /\ failures' = failures + 1
  /\ Leaves /\ FetchFails
  /\ UNCHANGED <<mirror, body, meta, published, asked, moved, updates>>

-----------------------------------------------------------------------------
(* The backend: fetch_revision, fetch_index, and what sync does with them  *)

Start ==
  /\ step = "idle"
  /\ step' = "request" /\ at' = 0 /\ rev' = None /\ index' = Nothing /\ moved' = FALSE
  /\ UNCHANGED <<mirror, cache, got, published, asked, updates, failures>>

\* The revision does not list the file.
Skip ==
  /\ step = "request" /\ at \in Places /\ at \notin Declares[rev]
  /\ at' = at + 1
  /\ UNCHANGED <<mirror, cache, step, got, rev, index, published, asked, moved,
                 updates, failures>>

\* Mutant: the index is labelled with the revision of the last file.
TakeLatest ==
  /\ step = "got"
  /\ rev' = got
  /\ index' = IF at = 0 THEN index ELSE [index EXCEPT ![at] = got]
  /\ at' = at + 1 /\ step' = "request"
  /\ UNCHANGED <<mirror, cache, got, published, asked, moved, updates, failures>>

\* The body is decompressed, parsed and merged.
Take ==
  /\ step = "got"
  /\ IF at = 0 THEN rev' = got /\ UNCHANGED index
               ELSE index' = [index EXCEPT ![at] = got] /\ UNCHANGED rev
  /\ at' = at + 1 /\ step' = "request"
  /\ UNCHANGED <<mirror, cache, got, published, asked, moved, updates, failures>>

\* It does not parse: not tolerated for any file.
ParseFails ==
  /\ step = "got"
  /\ step' = "idle"
  /\ UNCHANGED <<mirror, cache, at, got, rev, index, published, asked, moved,
                 updates, failures>>

\* Mutant: a sync that stopped half-way writes what it has.
PublishUnfinished ==
  /\ step = "request"
  /\ published' = [rev |-> rev, index |-> index]
  /\ step' = "idle"
  /\ UNCHANGED <<mirror, cache, at, got, rev, index, asked, moved, updates, failures>>

Publish ==
  /\ step = "request" /\ at = Last + 1
  /\ published' = [rev |-> rev, index |-> index]
  /\ step' = "idle"
  /\ UNCHANGED <<mirror, cache, at, got, rev, index, asked, moved, updates, failures>>

Crash ==
  /\ step # "idle" /\ failures < MaxFailures
  /\ failures' = failures + 1
  /\ Leaves /\ step' = "idle"
  /\ UNCHANGED <<mirror, body, meta, at, got, rev, index, published, asked, moved, updates>>

\* A fetch runs for a file of the plan that the revision lists.
Fetch ==
  /\ at \in {0} \cup Places /\ (at # 0 => at \in Declares[rev])
  /\ NotModified \/ Answered \/ WriteBody \/ WriteMeta \/ NetworkFails \/ WriteFails

Next ==
  \/ MirrorChanges
  \/ Start \/ Fetch \/ Skip \/ Take \/ ParseFails \/ Publish
  \/ Crash

Spec == Init /\ [][Next]_vars
-----------------------------------------------------------------------------
(* Properties.                                                             *)

TypeOK ==
  /\ mirror \in [Urls -> Revs \cup {None}]
  /\ body \in [Urls -> Revs \cup {None}] /\ meta \in [Urls -> Revs \cup {None}]
  /\ step \in Steps /\ at \in 0..Last + 1
  /\ got \in Revs \cup {None} /\ asked \in Revs \cup {None}
  /\ rev \in Revs \cup {None} /\ index \in [Places -> Revs \cup {None}]
  /\ published \in [rev : Revs, index : [Places -> Revs \cup {None}]] \cup {None}
  /\ moved \in BOOLEAN /\ torn \in SUBSET Urls
  /\ updates \in 0..MaxUpdates /\ failures \in 0..MaxFailures

\* A fetch returns what the mirror served when it answered, also when the
\* answer was 304 and the bytes are an earlier process's, unless a process died
\* or failed between the two writes of that very URL.
FetchesServed == step = "got" /\ Url \notin torn => got = asked

\* A 304 always finds a body to return: the sidecar is written second.
ValidatorHasBody == \A u \in Urls : meta[u] # None => body[u] # None

\* Every file of a published index whose name carries a checksum belongs to the
\* revision the index is labelled with, and only optional or unlisted ones are
\* missing, whatever the mirror does meanwhile and wherever an earlier sync died.
IndexMatchesRevision ==
  published # None =>
    \A i \in Hashed :
      \/ published.index[i] = published.rev
      \/ published.index[i] = None /\ (i \in Optional \/ i \notin Declares[published.rev])

\* Fixed names included: a sync during which the mirror did not change publishes
\* what the mirror holds, if no earlier write was cut in two.
StillMirrorPublished ==
  [][ step = "request" /\ published' # published /\ ~moved /\ torn = {} =>
        /\ published'.rev = mirror[Top]
        /\ \A i \in Places : published'.index[i] \in {None, mirror[Href(rev, i)]} ]_vars
=============================================================================
