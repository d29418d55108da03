------------------------- MODULE MetadataFetchProofs -------------------------
(***************************************************************************)
(* Proofs about MetadataFetch: a 304 returns what the mirror has, and an   *)
(* index read under names with checksums is of one revision.               *)
(***************************************************************************)
EXTENDS MetadataFetch, TLAPS

\* A file of the plan is only read once the revision is known, and a fetch
\* runs for the top document or for a file of the plan.
PlanInv ==
  /\ step # "idle" /\ at # 0 => rev \in Revs
  /\ step \in {"body", "meta", "got"} => at \in {0} \cup Places

\* What is stored at a URL can be found there.
StoredInv == \A u \in Urls : body[u] \in Contents(u) \cup {None}

\* The sidecar describes the body, except where a write was cut in two and
\* between the two writes.
PairInv ==
  /\ ValidatorHasBody
  /\ \A u \in Urls : meta[u] # None /\ u \notin torn =>
       body[u] = meta[u] \/ (step = "meta" /\ Url = u)

\* The response in memory is the one the mirror gave.
ResponseInv ==
  /\ step \in {"body", "meta"} => got \in Contents(Url) /\ got \in Revs /\ got = asked
  /\ step = "meta" => body[Url] = got
  /\ step = "got" => got \in Contents(Url) /\ got \in Revs
  /\ FetchesServed

FetchInv == TypeOK /\ PlanInv /\ StoredInv /\ PairInv /\ ResponseInv

LEMMA UrlType ==
  ASSUME NEW r \in Revs, NEW i \in Places
  PROVE  Href(r, i) \in Urls /\ Top \in Urls /\ Href(r, i) # Top
BY DEF Urls, Href, Top, Places

\* The fetch of a file is for a URL of the repository.
LEMMA UrlIsUrl ==
  ASSUME TypeOK, PlanInv, step # "idle", at \in {0} \cup Places
  PROVE  Url \in Urls
BY FetchAssumption DEF TypeOK, PlanInv, Url, Urls, Places

LEMMA ContentsAreRevs ==
  ASSUME NEW u \in Urls
  PROVE  Contents(u) \subseteq Revs
<1>1. CASE u = Top
  BY <1>1 DEF Contents, Top
<1>2. CASE \E r \in Revs, i \in Places : u = Href(r, i)
  BY <1>2, FetchAssumption DEF Contents, Href
<1>. QED BY <1>1, <1>2 DEF Urls

LEMMA NothingType == Nothing \in [Places -> Revs \cup {None}]
BY DEF Nothing

\* Everything is well-typed under every step.
LEMMA TypeStep ==
  ASSUME TypeOK, PlanInv, [Next]_vars
  PROVE  TypeOK'
<1>. USE FetchAssumption DEF TypeOK, Steps
<1>1. CASE MirrorChanges
  <2>1. PICK u \in Urls, c \in Revs \cup {None} : mirror' = [mirror EXCEPT ![u] = c]
    BY <1>1, ContentsAreRevs DEF MirrorChanges
  <2>2. mirror' \in [Urls -> Revs \cup {None}]
    BY <2>1
  <2>3. UNCHANGED <<body, meta, step, at, got, asked, rev, index, published, torn, failures>>
    BY <1>1 DEF MirrorChanges, cache, sync
  <2>4. moved' \in BOOLEAN /\ updates' \in 0..MaxUpdates
    BY <1>1 DEF MirrorChanges
  <2>. QED BY <2>2, <2>3, <2>4
<1>2. CASE Start
  <2>1. index' \in [Places -> Revs \cup {None}] /\ step' = "request" /\ at' = 0
        /\ rev' = None /\ moved' = FALSE
    BY <1>2, NothingType DEF Start
  <2>2. UNCHANGED <<mirror, body, meta, torn, got, published, asked, updates, failures>>
    BY <1>2 DEF Start, cache
  <2>3. 0 \in 0..Last + 1
    OBVIOUS
  <2>. QED BY <2>1, <2>2, <2>3
<1>3. CASE Fetch
  <2>. Url \in Urls /\ at \in {0} \cup Places
    BY <1>3, UrlIsUrl DEF Fetch, NotModified, Answered, WriteBody, WriteMeta,
       NetworkFails, WriteFails
  <2>1. CASE NotModified \/ Answered
    BY <2>1 DEF NotModified, Answered, cache
  <2>2. CASE WriteBody \/ WriteMeta
    BY <2>2 DEF WriteBody, WriteMeta
  <2>3. CASE NetworkFails
    BY <2>3 DEF NetworkFails, FetchFails, MayMiss, cache, Places
  <2>4. CASE WriteFails
    BY <2>4 DEF WriteFails, Leaves, FetchFails, MayMiss, Places
  <2>. QED BY <1>3, <2>1, <2>2, <2>3, <2>4 DEF Fetch
<1>4. CASE Skip
  BY <1>4 DEF Skip, cache, Places
<1>5. CASE Take
  BY <1>5 DEF Take, cache, Places, PlanInv
<1>6. CASE ParseFails
  BY <1>6 DEF ParseFails, cache
<1>7. CASE Publish
  BY <1>7 DEF Publish, cache, PlanInv
<1>8. CASE Crash
  <2>1. step = "meta" => Url \in Urls
    BY UrlIsUrl DEF PlanInv
  <2>. QED BY <1>8, <2>1 DEF Crash, Leaves
<1>9. CASE UNCHANGED vars
  BY <1>9 DEF vars, cache, sync
<1>. QED
  BY <1>1, <1>2, <1>3, <1>4, <1>5, <1>6, <1>7, <1>8, <1>9 DEF Next

LEMMA PlanStep ==
  ASSUME FetchInv, [Next]_vars
  PROVE  PlanInv'
<1>. USE FetchAssumption DEF FetchInv, TypeOK, PlanInv, Places
<1>1. CASE Fetch
  BY <1>1 DEF Fetch, NotModified, Answered, WriteBody, WriteMeta, NetworkFails,
     WriteFails, FetchFails, MayMiss
<1>2. CASE Take
  BY <1>2 DEF Take, ResponseInv
<1>. QED
  BY <1>1, <1>2 DEF Next, MirrorChanges, Start, Skip, ParseFails, Publish, Crash,
     vars, sync

-----------------------------------------------------------------------------
(* What is stored, and what is in memory.                                  *)

\* The mirror only serves at a URL what may be found there.
MirrorInv == \A u \in Urls : mirror[u] \in Contents(u) \cup {None}

FullInv == FetchInv /\ MirrorInv

LEMMA MirrorStep ==
  ASSUME FullInv, [Next]_vars
  PROVE  MirrorInv'
<1>. USE DEF FullInv, FetchInv, TypeOK, MirrorInv
<1>1. CASE MirrorChanges
  BY <1>1 DEF MirrorChanges
<1>2. CASE UNCHANGED mirror
  BY <1>2
<1>. QED
  BY <1>1, <1>2 DEF Next, Start, Fetch, NotModified, Answered, WriteBody, WriteMeta,
     NetworkFails, WriteFails, Skip, Take, ParseFails, Publish, Crash, vars

\* A step that writes nothing to the cache and starts with no response.
LEMMA Quiet ==
  ASSUME FullInv, UNCHANGED cache, step # "meta", step' \in {"idle", "request"}
  PROVE  StoredInv' /\ PairInv' /\ ResponseInv'
BY DEF FullInv, FetchInv, StoredInv, PairInv, ResponseInv, ValidatorHasBody,
   FetchesServed, cache

LEMMA DiesBetween ==
  ASSUME FullInv, UNCHANGED <<body, meta>>, Leaves, step' \in {"idle", "request"}
  PROVE  StoredInv' /\ PairInv' /\ ResponseInv'
BY DEF FullInv, FetchInv, StoredInv, PairInv, ResponseInv, ValidatorHasBody,
   FetchesServed, Leaves

LEMMA StoreStep ==
  ASSUME FullInv, [Next]_vars
  PROVE  StoredInv' /\ PairInv' /\ ResponseInv'
<1>. USE FetchAssumption DEF FullInv, FetchInv
<1>1. CASE MirrorChanges
  BY <1>1 DEF MirrorChanges, cache, sync, StoredInv, PairInv, ResponseInv,
     ValidatorHasBody, FetchesServed, Url
<1>2. CASE Fetch
  <2>. DEFINE u0 == Url
  <2>1. u0 \in Urls /\ Contents(u0) \subseteq Revs /\ None \notin Contents(u0)
    BY <1>2, UrlIsUrl, ContentsAreRevs DEF Fetch, NotModified, Answered, WriteBody,
       WriteMeta, NetworkFails, WriteFails
  <2>2. CASE NotModified
    <3>1. Url' = u0 /\ cache' = cache /\ step' = "got" /\ got' = body[u0]
          /\ asked' = meta[u0] /\ meta[u0] # None /\ step = "request"
      BY <2>2 DEF NotModified, Url
    <3>2. body[u0] \in Contents(u0)
      BY <2>1, <3>1 DEF StoredInv, PairInv, ValidatorHasBody
    <3>3. u0 \notin torn => body[u0] = meta[u0]
      BY <2>1, <3>1 DEF PairInv
    <3>. QED BY <2>1, <3>1, <3>2, <3>3
             DEF StoredInv, PairInv, ResponseInv, ValidatorHasBody, FetchesServed, cache
  <2>3. CASE Answered
    <3>1. Url' = u0 /\ cache' = cache /\ step' = "body" /\ got' = mirror[u0]
          /\ asked' = mirror[u0] /\ mirror[u0] # None /\ step = "request"
      BY <2>3 DEF Answered, Url
    <3>2. got' \in Contents(u0)
      BY <2>1, <3>1 DEF MirrorInv
    <3>. QED BY <2>1, <3>1, <3>2
             DEF StoredInv, PairInv, ResponseInv, ValidatorHasBody, FetchesServed, cache
  <2>4. CASE WriteBody
    <3>1. Url' = u0 /\ body' = [body EXCEPT ![u0] = got] /\ meta' = meta
          /\ torn' = torn /\ step' = "meta" /\ got' = got /\ asked' = asked
          /\ step = "body"
      BY <2>4 DEF WriteBody, Url
    <3>. QED BY <2>1, <3>1
             DEF StoredInv, PairInv, ResponseInv, ValidatorHasBody, FetchesServed, TypeOK
  <2>5. CASE WriteMeta
    <3>1. PICK tag \in {got, None} : meta' = [meta EXCEPT ![u0] = tag]
      BY <2>5 DEF WriteMeta
    <3>2. Url' = u0 /\ body' = body /\ torn' = torn \ {u0} /\ step' = "got"
          /\ got' = got /\ asked' = asked /\ step = "meta"
      BY <2>5 DEF WriteMeta, Url
    <3>. QED BY <2>1, <3>1, <3>2
             DEF StoredInv, PairInv, ResponseInv, ValidatorHasBody, FetchesServed, TypeOK
  <2>6. CASE NetworkFails
    BY <2>6, Quiet DEF NetworkFails, FetchFails
  <2>7. CASE WriteFails
    BY <2>7, DiesBetween DEF WriteFails, FetchFails
  <2>. QED BY <1>2, <2>2, <2>3, <2>4, <2>5, <2>6, <2>7 DEF Fetch
<1>3. CASE Start \/ Skip \/ Take \/ ParseFails \/ Publish
  BY <1>3, Quiet DEF Start, Skip, Take, ParseFails, Publish
<1>4. CASE Crash
  BY <1>4, DiesBetween DEF Crash
<1>5. CASE UNCHANGED vars
  BY <1>5 DEF vars, cache, sync, StoredInv, PairInv, ResponseInv,
     ValidatorHasBody, FetchesServed, Url
<1>. QED BY <1>1, <1>2, <1>3, <1>4, <1>5 DEF Next

THEOREM FetchInvariant == Spec => []FullInv
<1>1. Init => FullInv
  <2>. SUFFICES ASSUME Init PROVE FullInv
    OBVIOUS
  <2>1. TypeOK
    <3>1. index \in [Places -> Revs \cup {None}]
      BY NothingType DEF Init
    <3>2. body \in [Urls -> Revs \cup {None}] /\ meta \in [Urls -> Revs \cup {None}]
      BY DEF Init
    <3>3. at \in 0..Last + 1 /\ updates \in 0..MaxUpdates /\ failures \in 0..MaxFailures
      BY FetchAssumption DEF Init
    <3>4. mirror \in [Urls -> Revs \cup {None}] /\ step \in Steps /\ got = None
          /\ asked = None /\ rev = None /\ published = None /\ moved = FALSE /\ torn = {}
      BY DEF Init, Steps
    <3>. QED BY <3>1, <3>2, <3>3, <3>4 DEF TypeOK
  <2>2. PlanInv /\ ResponseInv
    BY DEF Init, PlanInv, ResponseInv, FetchesServed
  <2>3. StoredInv /\ PairInv /\ MirrorInv
    BY DEF Init, StoredInv, PairInv, MirrorInv, ValidatorHasBody
  <2>. QED BY <2>1, <2>2, <2>3 DEF FullInv, FetchInv
<1>2. FullInv /\ [Next]_vars => FullInv'
  BY TypeStep, PlanStep, MirrorStep, StoreStep DEF FullInv, FetchInv
<1>. QED BY <1>1, <1>2, PTL DEF Spec

\* Every variable keeps its type, for any number of files and revisions.
THEOREM FetchTypes == Spec => []TypeOK
<1>1. FullInv => TypeOK
  BY DEF FullInv, FetchInv
<1>. QED BY <1>1, FetchInvariant, PTL

\* What a fetch returns is what the mirror answered with, from the cache or not,
\* except at a URL whose two writes were once cut apart.
THEOREM FetchServes == Spec => []FetchesServed
<1>1. FullInv => FetchesServed
  BY DEF FullInv, FetchInv, ResponseInv
<1>. QED BY <1>1, FetchInvariant, PTL

\* A 304 finds a body, after any number of deaths.
THEOREM BodyBehindValidator == Spec => []ValidatorHasBody
<1>1. FullInv => ValidatorHasBody
  BY DEF FullInv, FetchInv, PairInv
<1>. QED BY <1>1, FetchInvariant, PTL

-----------------------------------------------------------------------------
(* The index is of one revision.                                           *)

Belongs(file, r, i) ==
  file = r \/ (file = None /\ (i \in Optional \/ i \notin Declares[r]))

\* The files read so far belong to the revision, if named by checksum; those
\* to come are still missing.
IndexInv ==
  /\ step # "idle" =>
       /\ \A i \in Hashed : i < at => Belongs(index[i], rev, i)
       /\ \A i \in Places : i >= at => index[i] = None
  /\ IndexMatchesRevision

LEMMA IndexStep ==
  ASSUME FullInv, IndexInv, [Next]_vars
  PROVE  IndexInv'
<1>. USE FetchAssumption DEF FullInv, FetchInv, TypeOK, Places
<1>1. CASE MirrorChanges
  BY <1>1 DEF MirrorChanges, sync, IndexInv, IndexMatchesRevision
<1>2. CASE Start
  BY <1>2 DEF Start, IndexInv, IndexMatchesRevision, Nothing
<1>3. CASE Fetch
  <2>1. CASE at' = at /\ UNCHANGED <<rev, index, published>> /\ step # "idle"
    BY <2>1 DEF IndexInv, IndexMatchesRevision
  <2>2. CASE at' = at + 1 /\ at \in Optional /\ UNCHANGED <<rev, index, published>>
             /\ step # "idle"
    BY <2>2 DEF IndexInv, IndexMatchesRevision, Belongs
  <2>. QED
    BY <1>3, <2>1, <2>2 DEF Fetch, NotModified, Answered, WriteBody, WriteMeta,
       NetworkFails, WriteFails, FetchFails, MayMiss
<1>4. CASE Skip
  <2>1. at \in Places /\ at \notin Declares[rev] /\ at' = at + 1 /\ step # "idle"
        /\ UNCHANGED <<rev, index, published>>
    BY <1>4 DEF Skip
  <2>2. \A i \in Hashed : i < at' => Belongs(index[i], rev, i)
    BY <2>1 DEF IndexInv, Belongs
  <2>3. \A i \in Places : i >= at' => index[i] = None
    BY <2>1 DEF IndexInv
  <2>. QED BY <2>1, <2>2, <2>3 DEF IndexInv, IndexMatchesRevision
<1>5. CASE Take
  <2>1. CASE at = 0
    BY <1>5, <2>1 DEF Take, IndexInv, IndexMatchesRevision
  <2>2. CASE at \in Hashed
    <3>1. at \in Places /\ rev \in Revs
      BY <1>5, <2>2 DEF Take, PlanInv
    <3>2. Url = Href(rev, at) /\ Contents(Url) = {rev}
      BY <2>2, <3>1 DEF Url, Contents, Href
    <3>3. got = rev
      BY <1>5, <3>2 DEF Take, ResponseInv
    <3>4. index' = [index EXCEPT ![at] = rev] /\ rev' = rev /\ at' = at + 1
          /\ published' = published /\ step # "idle"
      BY <1>5, <2>2, <3>3 DEF Take
    <3>5. \A i \in Places : index'[i] = IF i = at THEN rev ELSE index[i]
      BY <3>4
    <3>6. \A i \in Hashed : i < at' => Belongs(index'[i], rev', i)
      BY <3>1, <3>4, <3>5 DEF IndexInv, Belongs
    <3>7. \A i \in Places : i >= at' => index'[i] = None
      BY <3>1, <3>4, <3>5 DEF IndexInv
    <3>. QED BY <3>4, <3>6, <3>7 DEF IndexInv, IndexMatchesRevision
  <2>3. CASE at # 0 /\ at \notin Hashed
    <3>1. index' = [index EXCEPT ![at] = got] /\ rev' = rev /\ at' = at + 1
          /\ published' = published /\ step # "idle"
      BY <1>5, <2>3 DEF Take
    <3>2. at \in Places
      BY <1>5, <2>3 DEF Take, PlanInv
    <3>3. \A i \in Places : index'[i] = IF i = at THEN got ELSE index[i]
      BY <3>1
    <3>4. \A i \in Hashed : i < at' => Belongs(index'[i], rev', i)
      BY <2>3, <3>1, <3>2, <3>3 DEF IndexInv, Belongs
    <3>5. \A i \in Places : i >= at' => index'[i] = None
      BY <3>1, <3>2, <3>3 DEF IndexInv
    <3>. QED BY <3>1, <3>4, <3>5 DEF IndexInv, IndexMatchesRevision
  <2>. QED BY <2>1, <2>2, <2>3
<1>6. CASE Publish
  <2>1. rev \in Revs /\ \A i \in Hashed : Belongs(index[i], rev, i)
    BY <1>6 DEF Publish, PlanInv, IndexInv
  <2>2. published' = [rev |-> rev, index |-> index]
    BY <1>6 DEF Publish
  <2>3. IndexMatchesRevision'
    BY <2>1, <2>2 DEF IndexMatchesRevision, Belongs
  <2>. QED BY <1>6, <2>3 DEF Publish, IndexInv
<1>7. CASE ParseFails \/ Crash
  BY <1>7 DEF ParseFails, Crash, IndexInv, IndexMatchesRevision
<1>8. CASE UNCHANGED vars
  BY <1>8 DEF vars, sync, IndexInv, IndexMatchesRevision
<1>. QED BY <1>1, <1>2, <1>3, <1>4, <1>5, <1>6, <1>7, <1>8 DEF Next

\* In a published index the files named by checksum are of its revision, whatever
\* the mirror did and wherever earlier syncs died.
THEOREM IndexOfOneRevision == Spec => []IndexMatchesRevision
<1>1. Init => IndexInv
  BY DEF Init, IndexInv, IndexMatchesRevision
<1>2. FullInv /\ IndexInv /\ [Next]_vars => IndexInv'
  BY IndexStep
<1>3. IndexInv => IndexMatchesRevision
  BY DEF IndexInv
<1>. QED BY <1>1, <1>2, <1>3, FetchInvariant, PTL DEF Spec
-----------------------------------------------------------------------------
(* A mirror that stands still is published as it is.                       *)

\* While the mirror has not changed, what this sync has read is what the mirror
\* holds, unless the URL it came from was once cut between its two writes.
StillInv ==
  step # "idle" /\ ~moved =>
    /\ at # 0 /\ Top \notin torn => rev = mirror[Top]
    /\ \A i \in Places : i < at /\ Href(rev, i) \notin torn =>
         index[i] \in {None, mirror[Href(rev, i)]}
    /\ step \in {"body", "meta", "got"} => asked = mirror[Url]

LEMMA UrlsDiffer ==
  ASSUME NEW r, NEW i \in Places, NEW j, i # j
  PROVE  Href(r, i) # Href(r, j) /\ Href(r, i) # Top
BY DEF Href, Top, Places

\* A step that learns nothing from the mirror and forgets no cut.
LEMMA StillFrame ==
  ASSUME StillInv, step # "idle", UNCHANGED <<mirror, rev, index, moved, asked>>,
         torn \subseteq torn',
         \/ step' \in {"idle", "request"}
         \/ step \in {"body", "meta", "got"} /\ at' = at,
         at' = at \/ (at' = at + 1 /\ at \in Places /\ index[at] = None)
  PROVE  StillInv'
BY DEF StillInv, Url, Places

LEMMA StillStep ==
  ASSUME FullInv, IndexInv, StillInv, [Next]_vars
  PROVE  StillInv'
<1>. USE FetchAssumption DEF FullInv, FetchInv, TypeOK
<1>1. CASE MirrorChanges
  BY <1>1 DEF MirrorChanges, StillInv
<1>2. CASE Start
  BY <1>2 DEF Start, StillInv, Places
\* A file given up or passed over stays missing.
<1>3. step # "idle" /\ at \in Places => index[at] = None
  BY DEF IndexInv, Places
<1>4. CASE Fetch
  <2>1. step # "idle"
    BY <1>4 DEF Fetch, NotModified, Answered, WriteBody, WriteMeta, NetworkFails, WriteFails
  <2>2. CASE NotModified \/ Answered
    <3>1. /\ asked' = mirror[Url] /\ Url' = Url /\ step' \in {"got", "body"}
          /\ UNCHANGED <<mirror, torn, at, rev, index, moved>>
      BY <2>2 DEF NotModified, Answered, cache, Url
    <3>. QED BY <2>1, <3>1 DEF StillInv
  <2>3. CASE WriteBody
    <3>1. /\ step \in {"body", "meta", "got"}
          /\ UNCHANGED <<mirror, rev, index, moved, asked>>
          /\ torn \subseteq torn' /\ at' = at
      BY <2>3 DEF WriteBody
    <3>. QED BY <2>1, <3>1, StillFrame, Zenon
  <2>4. CASE WriteMeta
    <3>1. /\ step = "meta" /\ step' = "got" /\ torn' = torn \ {Url} /\ Url' = Url
          /\ UNCHANGED <<mirror, at, rev, index, moved, asked>>
      BY <2>4 DEF WriteMeta, Url
    <3>2. at # 0 => Url # Top
      BY <3>1, UrlsDiffer DEF Url, PlanInv
    <3>3. \A i \in Places : i < at => Url # Href(rev, i)
      BY UrlsDiffer DEF Url, Places
    <3>. QED BY <3>1, <3>2, <3>3 DEF StillInv
  <2>5. CASE NetworkFails \/ WriteFails
    <3>1. /\ UNCHANGED <<mirror, rev, index, moved, asked>> /\ torn \subseteq torn'
          /\ FetchFails
      BY <2>5 DEF NetworkFails, WriteFails, FetchFails, Leaves, cache
    <3>2. /\ step' \in {"idle", "request"}
          /\ at' = at \/ (at' = at + 1 /\ at \in Places)
      BY <3>1 DEF FetchFails, MayMiss
    <3>. QED BY <1>3, <2>1, <3>1, <3>2, StillFrame, Zenon
  <2>. QED BY <1>4, <2>2, <2>3, <2>4, <2>5 DEF Fetch
<1>5. CASE Skip
  BY <1>3, <1>5, StillFrame DEF Skip, cache
<1>6. CASE Take
  <2>1. /\ step = "got" /\ step' = "request" /\ at' = at + 1 /\ at \in {0} \cup Places
        /\ UNCHANGED <<mirror, torn, moved>>
    BY <1>6 DEF Take, cache, PlanInv
  <2>2. Url \notin torn /\ ~moved => got = mirror[Url]
    BY <2>1 DEF ResponseInv, FetchesServed, StillInv
  <2>3. CASE at = 0
    <3>1. rev' = got /\ Url = Top /\ UNCHANGED index
      BY <1>6, <2>3 DEF Take, Url
    <3>2. \A i \in Places : ~(i < at')
      BY <2>1, <2>3 DEF Places
    <3>. QED BY <2>1, <2>2, <3>1, <3>2 DEF StillInv
  <2>4. CASE at # 0
    <3>1. /\ at \in Places /\ UNCHANGED rev /\ Url = Href(rev, at)
          /\ \A i \in Places : index'[i] = IF i = at THEN got ELSE index[i]
      BY <1>6, <2>1, <2>4 DEF Take, Url
    <3>2. ASSUME NEW i \in Places, i < at', Href(rev, i) \notin torn, ~moved
          PROVE  index'[i] \in {None, mirror[Href(rev, i)]}
      <4>1. i = at \/ i < at
        BY <2>1, <3>1, <3>2 DEF Places
      <4>. QED BY <2>1, <2>2, <3>1, <3>2, <4>1 DEF StillInv
    <3>. QED BY <2>1, <2>4, <3>1, <3>2 DEF StillInv
  <2>. QED BY <2>3, <2>4
<1>7. CASE ParseFails \/ Publish \/ Crash
  BY <1>7 DEF ParseFails, Publish, Crash, StillInv
<1>8. CASE UNCHANGED vars
  BY <1>8 DEF vars, cache, sync, StillInv, Url
<1>. QED BY <1>1, <1>2, <1>4, <1>5, <1>6, <1>7, <1>8 DEF Next

\* If the mirror did not change during a sync and no write of the cache is cut in
\* two, the index published is the mirror's: files under fixed names included, 304
\* answers and the leftovers of any number of dead syncs included.
THEOREM StillPublished == Spec => StillMirrorPublished
<1>. DEFINE Still == step = "request" /\ published' # published /\ ~moved /\ torn = {} =>
                       /\ published'.rev = mirror[Top]
                       /\ \A i \in Places : published'.index[i] \in {None, mirror[Href(rev, i)]}
<1>1. Init => IndexInv /\ StillInv
  BY DEF Init, IndexInv, IndexMatchesRevision, StillInv
<1>2. FullInv /\ IndexInv /\ [Next]_vars => IndexInv'
  BY IndexStep
<1>3. FullInv /\ IndexInv /\ StillInv /\ [Next]_vars => StillInv'
  BY StillStep
<1>4. FullInv /\ StillInv /\ [Next]_vars => Still
  <2>. SUFFICES ASSUME FullInv, StillInv, [Next]_vars, published' # published,
                       step = "request", ~moved, torn = {}
                PROVE  /\ published'.rev = mirror[Top]
                       /\ \A i \in Places : published'.index[i] \in {None, mirror[Href(rev, i)]}
    OBVIOUS
  <2>1. Publish
    BY DEF Next, MirrorChanges, Start, Fetch, NotModified, Answered, WriteBody, WriteMeta,
       NetworkFails, WriteFails, Skip, Take, ParseFails, Crash, vars
  <2>2. published' = [rev |-> rev, index |-> index] /\ at = Last + 1
    BY <2>1 DEF Publish
  <2>3. at # 0 /\ \A i \in Places : i < at
    BY <2>2, FetchAssumption DEF Places
  <2>. QED BY <2>2, <2>3 DEF StillInv
<1>5. Spec => [][Still]_vars
  BY <1>1, <1>2, <1>3, <1>4, FetchInvariant, PTL DEF Spec
<1>. QED BY <1>5 DEF StillMirrorPublished
=============================================================================
