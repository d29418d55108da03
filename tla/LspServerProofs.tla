--------------------------- MODULE LspServerProofs ---------------------------
(***************************************************************************)
(* What the language server guarantees whatever the documents, the texts   *)
(* and the contents of rpmspec.toml are, and however long the client goes  *)
(* on: the two queues are followed message by message.                     *)
(***************************************************************************)
EXTENDS LspServer, SequenceTheorems, TLAPS

\* The methods that ask for an answer, and those that change a document.
Requests == {"codeAction", "documentSymbol", "unknown"}
Edits == {"didOpen", "didChange", "didClose"}

\* What the queue to the server carries, and what the one to the client does.
ServerBound ==
  [method : {"initialize", "initialized", "response", "shutdown", "exit",
             "didChangeWatchedFiles"}]
  \cup [method : {"didOpen", "didChange"}, uri : Docs, text : Texts, version : Nat]
  \cup [method : {"didClose"}, uri : Docs]
  \cup [method : Requests, id : Nat, uri : Docs]

ClientBound ==
  [method : {"capabilities", "register", "goodbye"}]
  \cup [method : {"publish"}, uri : Docs, found : Found \cup {None}]
  \cup [method : {"answer"}, id : Nat, text : Texts \cup {None}, source : Texts \cup {None}]

Contents == Configs \cup {"absent", "broken"}

\* The client's side, the disk included, and the queues.
ClientTypes ==
  /\ client \in {"new", "starting", "running", "leaving", "gone"}
  /\ buffer \in [Docs -> Buffer \cup {None}] /\ shown \in [Docs -> Found \cup {None}]
  /\ pending \subseteq [id : Nat, uri : Docs, kind : Requests, text : Texts]
  /\ moves \in Nat
  /\ disk \in Seq(Contents) /\ told \in 0..Now /\ Now \in Nat \ {0}

QueueTypes == toServer \in Seq(ServerBound) /\ toClient \in Seq(ClientBound)

\* Only open documents wait for the reload loop.
ServerTypes ==
  /\ phase \in {"new", "starting", "running", "stopping", "exited", "failed"}
  /\ documents \in [Docs -> Document \cup {None}]
  /\ analyses \in [Docs -> Analysis \cup {None}]
  /\ reload \subseteq Docs /\ \A d \in reload : documents[d] # None

\* The two caches.  Without a file nothing was loaded, and the one profile, of
\* the working directory, comes from what was there when the cache was made.
\* With one, the profile of its directory comes from the config loaded, and
\* those of documents from configs that did not load.
CacheInv ==
  /\ configCache = [explicit |-> configCache.explicit, since |-> configCache.since,
                    cached |-> configCache.cached]
  /\ configCache.since \in 1..Now
  /\ configCache.explicit <=> disk[configCache.since] # "absent"
  /\ configCache.cached # None =>
       /\ configCache.explicit /\ configCache.cached \in configCache.since..Now
       /\ disk[configCache.cached] \in Configs
  /\ profileCache \in [Bases -> 1..Now \cup {None}]
  /\ profileCache["cwd"] # None =>
       ~configCache.explicit /\ profileCache["cwd"] = configCache.since
  /\ profileCache["config_dir"] # None => profileCache["config_dir"] = configCache.cached
  /\ \A d \in Docs : profileCache[d] # None => disk[profileCache[d]] \notin Configs

TypeOK == ClientTypes /\ QueueTypes /\ ServerTypes /\ CacheInv

\* An analysis that fits.
Fitting(found) ==
  /\ found.analysis.config \in 1..Now /\ found.analysis.profile \in 1..Now
  /\ Effective(found.analysis.profile) = Effective(found.analysis.config)

\* Every analysis on display or on its way fits.
ProfileInv ==
  /\ \A d \in Docs : shown[d] # None => Fitting(shown[d])
  /\ \A i \in 1..Len(toClient) :
       toClient[i].method = "publish" /\ toClient[i].found # None => Fitting(toClient[i].found)

\* The handshake, and the end: nothing is asked after a shutdown.
Handshake ==
  /\ client \in {"new", "starting"} => reload = {}
  /\ client = "new" => phase = "new" /\ toServer = <<>> /\ toClient = <<>>
  /\ client = "starting" =>
       \/ phase = "new" /\ toServer = <<[method |-> "initialize"]>> /\ toClient = <<>>
       \/ phase = "starting" /\ toServer = <<>> /\ toClient = <<[method |-> "capabilities"]>>
  /\ client \notin {"new", "starting"} =>
       phase # "new" /\ \A i \in 1..Len(toClient) : toClient[i].method # "capabilities"

Ending ==
  /\ client \in {"new", "starting", "running"} =>
       /\ phase \in {"new", "starting", "running"}
       /\ \A i \in 1..Len(toServer) : toServer[i].method # "shutdown"
  /\ \A i, j \in 1..Len(toServer) :
       i < j /\ toServer[i].method = "shutdown" => toServer[j].method \in {"response", "exit"}
  /\ phase \in {"stopping", "exited", "failed"} =>
       \A i \in 1..Len(toServer) : toServer[i].method \in {"response", "exit"}

\* The numbers of the requests, or of the answers, in a queue.
Ids(q, methods) == {q[i].id : i \in {j \in 1..Len(q) : q[j].method \in methods}}

\* Requests are numbered, and one without an answer is on its way, there or
\* back.
RequestInv ==
  /\ Ids(toServer, Requests) \cup Ids(toClient, {"answer"}) \subseteq 0..moves
  /\ {r.id : r \in pending} \subseteq Ids(toServer, Requests) \cup Ids(toClient, {"answer"})

\* What a message makes of a buffer.
View(m) == IF m.method = "didClose" THEN None ELSE [text |-> m.text, version |-> m.version]
\* What the server has of a document.
Had(d) == IF documents[d] = None THEN None
          ELSE [text |-> documents[d].text, version |-> documents[d].version]

\* A message that changes d.
IsEdit(m, d) == m.method \in Edits /\ m.uri = d

\* What the first n messages of q make of d, which the server has as had: the
\* last edit of d among them, if there is one, leaves v.
Leads(q, had, d, n, v) ==
  /\ (\A j \in 1..n : ~IsEdit(q[j], d)) => v = had
  /\ \A j \in 1..n : IsEdit(q[j], d) /\ (\A k \in j + 1..n : ~IsEdit(q[k], d)) => v = View(q[j])

\* With the first n messages dealt with, the server will have v of d.
Reaches(d, n, v) == Leads(toServer, Had(d), d, n, v)

\* The buffers are what the server will have once it has dealt with the queue.
BuffersReached == \A d \in Docs : Reaches(d, Len(toServer), buffer[d])

\* The server will have the text t of d when it comes to the i-th message.
Finds(i, d, t) == \E v \in Buffer : Reaches(d, i - 1, v) /\ v.text = t

\* A request arrives where the server has the text asked about.
AsksReached ==
  \A i \in 1..Len(toServer) : \A r \in pending :
    toServer[i].method \in Requests /\ toServer[i].id = r.id =>
      toServer[i].uri = r.uri /\ toServer[i].method = r.kind /\ Finds(i, r.uri, r.text)

\* What is kept of a document is of its text.
Derived ==
  \A d \in Docs : documents[d] # None =>
    /\ documents[d].parsed \in {None, documents[d].text}
    /\ d \notin reload => analyses[d] # None /\ analyses[d].text = documents[d].text

\* The inductive invariant of the texts.
TextInv == BuffersReached /\ AsksReached /\ Derived

\* No configuration event waits in the queue.
NoEvents(q) == \A i \in 1..Len(q) : q[i].method # "didChangeWatchedFiles"

\* The diagnostics a display of d may settle on: those of what the server has
\* of it, with no older config than the client told of, unless an event or the
\* reload loop has yet to renew them.
SettledOn(d) ==
  {f \in Found \cup {None} :
     IF documents[d] = None THEN f = None
     ELSE /\ f # None /\ f.version = documents[d].version
          /\ f.analysis.text = documents[d].text
          /\ d \notin reload /\ NoEvents(toServer) => f.analysis.config >= told}

\* A message that changes the display of d.
IsPublish(m, d) == m.method = "publish" /\ m.uri = d

\* A display of d that will be in X when the client has heard all of q: the
\* last publish for d, and without one the present display, is.
Displays(q, now, d, X) ==
  /\ (\A j \in 1..Len(q) : ~IsPublish(q[j], d)) => now \in X
  /\ \A j \in 1..Len(q) :
       IsPublish(q[j], d) /\ (\A k \in j + 1..Len(q) : ~IsPublish(q[k], d)) => q[j].found \in X

\* Every display is on its way to one it may settle on.
DisplaysReached == \A d \in Docs : Displays(toClient, shown[d], d, SettledOn(d))

\* A cache made since the last event is of a config no older.
Fresh == NoEvents(toServer) => configCache.since >= told

\* The inductive invariant of the diagnostics.
DisplayInv == DisplaysReached /\ Fresh
-----------------------------------------------------------------------------
(* Queues and messages.                                                    *)

\* A queue with a message added.
LEMMA Added ==
  ASSUME NEW S, NEW q \in Seq(S), NEW m \in S, NEW r, r = Append(q, m)
  PROVE  /\ r \in Seq(S) /\ Len(q) \in Nat /\ Len(r) = Len(q) + 1 /\ r[Len(r)] = m
         /\ \A i \in 1..Len(q) : r[i] = q[i]
BY AppendProperties, LenProperties

\* A queue with its first message taken.
LEMMA Taken ==
  ASSUME NEW S, NEW q \in Seq(S), q # <<>>, NEW r, r = Tail(q)
  PROVE  /\ r \in Seq(S) /\ Len(q) \in Nat \ {0} /\ Len(r) = Len(q) - 1
         /\ Head(q) = q[1] /\ q[1] \in S
         /\ \A i \in 1..Len(r) : r[i] = q[i + 1]
<1>1. Len(q) \in Nat \ {0} /\ Head(q) = q[1] /\ q[1] \in S
  BY EmptySeq, LenProperties, ElementOfSeq
<1>2. r \in Seq(S) /\ Len(r) = Len(q) - 1 /\ \A i \in 1..Len(r) : r[i] = q[i + 1]
  BY <1>1, HeadTailProperties
<1>. QED BY <1>1, <1>2

\* What a message to the server carries.
LEMMA ServerMessage ==
  ASSUME NEW m \in ServerBound
  PROVE  /\ m.method \in {"didOpen", "didChange"} => m.uri \in Docs /\ m.text \in Texts /\ m.version \in Nat
         /\ m.method = "didClose" => m.uri \in Docs
         /\ m.method \in Requests => m.uri \in Docs /\ m.id \in Nat
BY DEF ServerBound, Requests

\* What a message to the client carries.
LEMMA ClientMessage ==
  ASSUME NEW m \in ClientBound
  PROVE  /\ m.method = "publish" => m.uri \in Docs /\ m.found \in Found \cup {None}
         /\ m.method = "answer" => m.id \in Nat
BY DEF ClientBound

\* What each side sends is a message.
LEMMA Messages ==
  /\ \A method \in {"initialize", "initialized", "response", "shutdown", "exit", "didChangeWatchedFiles"} :
       [method |-> method] \in ServerBound
  /\ \A method \in {"capabilities", "register", "goodbye"} : [method |-> method] \in ClientBound
  /\ \A method \in {"didOpen", "didChange"}, d \in Docs, t \in Texts, v \in Nat :
       [method |-> method, uri |-> d, text |-> t, version |-> v] \in ServerBound
  /\ \A d \in Docs : [method |-> "didClose", uri |-> d] \in ServerBound
  /\ \A kind \in Requests, d \in Docs, n \in Nat : [method |-> kind, id |-> n, uri |-> d] \in ServerBound
  /\ \A d \in Docs, f \in Found \cup {None} : [method |-> "publish", uri |-> d, found |-> f] \in ClientBound
  /\ \A n \in Nat, t, u \in Texts \cup {None} :
       [method |-> "answer", id |-> n, text |-> t, source |-> u] \in ClientBound
BY DEF ServerBound, ClientBound

\* The message the server takes.
LEMMA HeadOf ==
  ASSUME QueueTypes, NEW method, Takes(method)
  PROVE  /\ toServer # <<>> /\ Head(toServer) = toServer[1] /\ toServer[1] \in ServerBound
         /\ toServer[1].method = method /\ reload = {} /\ toServer' = Tail(toServer)
BY Taken DEF QueueTypes, Takes

\* The message the client takes.
LEMMA HeadHeard ==
  ASSUME QueueTypes, NEW method, Hears(method)
  PROVE  /\ toClient # <<>> /\ Head(toClient) = toClient[1] /\ toClient[1] \in ClientBound
         /\ toClient[1].method = method /\ toClient' = Tail(toClient)
BY Taken DEF QueueTypes, Hears
-----------------------------------------------------------------------------
(* An analysis.                                                            *)

\* What is loaded is of a config there was, and not older than the cache.
LEMMA LoadedIs ==
  ASSUME ClientTypes, CacheInv
  PROVE  /\ Loaded \in configCache.since..Now /\ Loaded \in 1..Now
         /\ ~configCache.explicit => Loaded = configCache.since
         /\ configCache.cached # None => Loaded = configCache.cached
BY DEF ClientTypes, CacheInv, Loaded

\* Whatever the base directory, the profile taken is worth what its config is.
LEMMA ProfileFits ==
  ASSUME ClientTypes, CacheInv, NEW d \in Docs
  PROVE  /\ ResolveProfile(BaseDir(d)) \in 1..Now /\ BaseDir(d) \in Bases
         /\ Effective(ResolveProfile(BaseDir(d))) = Effective(Loaded)
<1>1. Loaded \in 1..Now
  BY LoadedIs
<1>2. CASE ~configCache.explicit
  <2>1. BaseDir(d) = "cwd" /\ Loaded = configCache.since
    BY <1>2, LoadedIs DEF BaseDir
  <2>2. ResolveProfile("cwd") = Loaded
    BY <2>1 DEF ResolveProfile, CacheInv
  <2>. QED BY <1>1, <2>1, <2>2 DEF Bases
<1>3. CASE configCache.explicit /\ disk[Loaded] \in Configs
  <2>1. BaseDir(d) = "config_dir"
    BY <1>3 DEF BaseDir
  <2>2. ResolveProfile("config_dir") = Loaded
    <3>1. CASE profileCache["config_dir"] = None
      BY <3>1 DEF ResolveProfile
    <3>2. CASE profileCache["config_dir"] # None
      BY <3>2, LoadedIs DEF ResolveProfile, CacheInv
    <3>. QED BY <3>1, <3>2
  <2>. QED BY <1>1, <2>1, <2>2 DEF Bases
<1>4. CASE configCache.explicit /\ disk[Loaded] \notin Configs
  <2>1. BaseDir(d) = d
    BY <1>4 DEF BaseDir
  <2>2. CASE profileCache[d] = None
    BY <1>1, <2>1, <2>2 DEF ResolveProfile, Bases
  <2>3. CASE profileCache[d] # None
    <3>1. profileCache[d] \in 1..Now /\ disk[profileCache[d]] \notin Configs
      BY <2>3 DEF CacheInv, Bases
    <3>. QED BY <1>4, <2>1, <2>3, <3>1 DEF ResolveProfile, Effective, Bases
  <2>. QED BY <2>2, <2>3
<1>. QED BY <1>2, <1>3, <1>4

\* An analysis is published as it is kept, and keeps the caches in order.
LEMMA Analysed ==
  ASSUME TypeOK, NEW d \in Docs, NEW doc \in Document, AnalyzeAndPublish(d, doc), UNCHANGED disk
  PROVE  /\ CacheInv' /\ configCache'.since = configCache.since
         /\ \E f \in Found : /\ Fitting(f) /\ f.version = doc.version /\ f.analysis.text = doc.text
                             /\ f.analysis.config >= configCache.since
                             /\ analyses' = [analyses EXCEPT ![d] = f.analysis]
                             /\ toClient' = Append(toClient, [method |-> "publish", uri |-> d, found |-> f])
<1>. DEFINE base == BaseDir(d)
            profile == ResolveProfile(base)
            found == [text |-> doc.text, config |-> Loaded, profile |-> profile]
            f == [version |-> doc.version, analysis |-> found]
<1>1. Loaded \in configCache.since..Now /\ Loaded \in 1..Now /\ Now \in Nat /\ configCache.since \in 1..Now
  BY LoadedIs DEF TypeOK, ClientTypes, CacheInv
<1>2. profile \in 1..Now /\ base \in Bases /\ Effective(profile) = Effective(Loaded)
  BY ProfileFits DEF TypeOK
<1>3. /\ configCache' = [configCache EXCEPT !.cached = IF base = "config_dir" THEN Loaded ELSE @]
      /\ profileCache' = [profileCache EXCEPT ![base] = profile]
      /\ analyses' = [analyses EXCEPT ![d] = found]
      /\ toClient' = Append(toClient, [method |-> "publish", uri |-> d, found |-> f])
  BY DEF AnalyzeAndPublish, Send
<1>. HIDE DEF base, profile
<1>4. doc.text \in Texts /\ doc.version \in Nat
  BY DEF Document
<1>5. found \in Analysis /\ f \in Found
  BY <1>1, <1>2, <1>4 DEF Analysis, Found
<1>6. Fitting(f) /\ f.version = doc.version /\ f.analysis.text = doc.text /\ f.analysis.config >= configCache.since
  BY <1>1, <1>2 DEF Fitting
<1>7. /\ configCache'.since = configCache.since /\ configCache'.explicit = configCache.explicit
      /\ configCache'.cached = IF base = "config_dir" THEN Loaded ELSE configCache.cached
      /\ configCache' = [explicit |-> configCache'.explicit, since |-> configCache'.since,
                         cached |-> configCache'.cached]
  <2>1. configCache = [explicit |-> configCache.explicit, since |-> configCache.since,
                       cached |-> configCache.cached]
    BY DEF TypeOK, CacheInv
  <2>. QED BY <1>3, <2>1, Zenon
<1>8. CacheInv'
  <2>1. /\ profileCache \in [Bases -> 1..Now \cup {None}]
        /\ profileCache'[base] = profile /\ profileCache' \in [Bases -> 1..Now \cup {None}]
        /\ \A b \in Bases : b # base => profileCache'[b] = profileCache[b]
    BY <1>2, <1>3 DEF TypeOK, CacheInv
  <2>2. UNCHANGED Now
    BY DEF Now
  <2>3. None \notin Nat /\ "cwd" \notin Docs /\ "config_dir" \notin Docs
    BY LspAssumption
  <2>4. CASE ~configCache.explicit
    <3>1. base = "cwd" /\ Loaded = configCache.since /\ profile = Loaded
      BY <2>4, LoadedIs DEF base, BaseDir, profile, ResolveProfile, TypeOK, CacheInv
    <3>. QED BY <1>1, <1>7, <2>1, <2>2, <2>3, <2>4, <3>1 DEF TypeOK, CacheInv, Bases
  <2>5. CASE configCache.explicit /\ disk[Loaded] \in Configs
    <3>1. base = "config_dir"
      BY <2>5 DEF base, BaseDir
    <3>2. profile = Loaded
      <4>1. profileCache["config_dir"] # None => profileCache["config_dir"] = Loaded
        <5>1. profileCache["config_dir"] # None => configCache.cached # None
          BY DEF TypeOK, CacheInv
        <5>. QED BY <5>1, LoadedIs DEF TypeOK, CacheInv
      <4>. QED BY <3>1, <4>1 DEF profile, ResolveProfile
    <3>. QED BY <1>1, <1>7, <2>1, <2>2, <2>3, <2>5, <3>1, <3>2 DEF TypeOK, CacheInv, Bases
  <2>6. CASE configCache.explicit /\ disk[Loaded] \notin Configs
    <3>1. base = d /\ base # "config_dir" /\ base # "cwd"
      BY <2>3, <2>6 DEF base, BaseDir
    <3>2. disk[profile] \notin Configs
      BY <2>6, <3>1 DEF profile, ResolveProfile, TypeOK, CacheInv
    <3>. QED BY <1>1, <1>7, <2>1, <2>2, <2>3, <3>1, <3>2 DEF TypeOK, CacheInv, Bases
  <2>. QED BY <2>4, <2>5, <2>6
<1>. QED BY <1>3, <1>5, <1>6, <1>7, <1>8
-----------------------------------------------------------------------------
(* Types and caches.                                                       *)

\* Init puts the types and the caches in order.
LEMMA InitTypes == Init => TypeOK
<1>. SUFFICES ASSUME Init PROVE TypeOK
  OBVIOUS
<1>1. PICK c \in Contents : disk = <<c>>
  BY DEF Init, Contents
<1>2. disk \in Seq(Contents) /\ Len(disk) = 1 /\ disk[1] = c
  BY <1>1
<1>3. ClientTypes
  BY <1>2 DEF Init, ClientTypes, Now
<1>4. toServer \in Seq(ServerBound) /\ toClient \in Seq(ClientBound)
  BY EmptySeq DEF Init
<1>5. ServerTypes
  BY DEF Init, ServerTypes
<1>6. configCache = [explicit |-> disk[1] # "absent", since |-> 1, cached |-> None]
  BY <1>2 DEF Init, FreshCache, Now
<1>8. profileCache = [b \in Bases |-> None]
  BY DEF Init
<1>9. configCache = [explicit |-> configCache.explicit, since |-> configCache.since,
                    cached |-> configCache.cached]
  BY <1>6, Zenon
<1>10. configCache.explicit <=> disk[1] # "absent"
  BY <1>6, Zenon
<1>11. configCache.since = 1 /\ configCache.cached = None /\ Now = 1
  BY <1>2, <1>6 DEF Now
<1>12. \A b \in Bases : profileCache[b] = None
  BY <1>8
<1>13. profileCache \in [Bases -> 1..1 \cup {None}]
  BY <1>8
<1>14. CacheInv
  BY <1>9, <1>10, <1>11, <1>12, <1>13 DEF CacheInv, Bases
<1>. QED BY <1>3, <1>4, <1>5, <1>14 DEF TypeOK, QueueTypes

\* What is on disk is only ever added to.
LEMMA DiskGrows ==
  ASSUME ClientTypes, [Next]_vars
  PROVE  /\ disk' \in Seq(Contents) /\ Now' \in Nat \ {0} /\ Now <= Now' /\ Now \in Nat \ {0}
         /\ \A g \in 1..Now : disk'[g] = disk[g] /\ Effective(g)' = Effective(g)
<1>1. disk \in Seq(Contents) /\ Now \in Nat \ {0}
  BY DEF ClientTypes
<1>2. CASE \E c \in Contents : SaveConfig(c)
  <2>1. PICK c \in Contents : disk' = Append(disk, c)
    BY <1>2 DEF SaveConfig
  <2>2. disk' \in Seq(Contents) /\ Len(disk') = Len(disk) + 1 /\ \A g \in 1..Len(disk) : disk'[g] = disk[g]
    BY <1>1, <2>1, Added
  <2>. QED BY <1>1, <2>2 DEF Now, Effective
<1>3. CASE UNCHANGED disk
  BY <1>1, <1>3 DEF Now, Effective
<1>4. UNCHANGED disk \/ \E c \in Contents : SaveConfig(c)
  <2>1. CASE Begin
    BY <2>1 DEF Begin, Tell, clientVars, serverVars, caches
  <2>2. CASE Leave
    BY <2>2 DEF Leave, Moves, Tell, clientVars, serverVars, caches
  <2>3. CASE SaveProjectFile
    BY <2>3 DEF SaveProjectFile, Moves, Event, Tell, clientVars, serverVars, caches
  <2>4. CASE \E d \in Docs, t \in Texts : OpenDoc(d, t)
    BY <2>4 DEF OpenDoc, Moves, Tell, clientVars, serverVars, caches
  <2>5. CASE \E d \in Docs, t \in Texts : ChangeDoc(d, t)
    BY <2>5 DEF ChangeDoc, Moves, Tell, clientVars, serverVars, caches
  <2>6. CASE \E d \in Docs : CloseDoc(d)
    BY <2>6 DEF CloseDoc, Moves, Tell, clientVars, serverVars, caches
  <2>7. CASE \E d \in Docs, kind \in Requests : Ask(d, kind)
    BY <2>7 DEF Ask, Moves, Tell, clientVars, serverVars, caches
  <2>8. CASE HearCapabilities
    BY <2>8 DEF HearCapabilities, Hears, Tell, clientVars, serverVars, caches
  <2>9. CASE HearRegistration
    BY <2>9 DEF HearRegistration, Hears, Tell, clientVars, serverVars, caches
  <2>10. CASE HearDiagnostics
    BY <2>10 DEF HearDiagnostics, Hears, clientVars, serverVars, caches
  <2>11. CASE HearAnswer
    BY <2>11 DEF HearAnswer, Hears, clientVars, serverVars, caches
  <2>12. CASE HearGoodbye
    BY <2>12 DEF HearGoodbye, Hears, Tell, clientVars, serverVars, caches
  <2>13. CASE Initialize
    BY <2>13 DEF Initialize, Takes, Send, clientVars, serverVars, caches
  <2>14. CASE RegisterConfigWatcher
    BY <2>14 DEF RegisterConfigWatcher, Takes, Send, clientVars, serverVars, caches
  <2>15. CASE OnDidOpenOrChange
    BY <2>15 DEF OnDidOpenOrChange, Serves, Takes, clientVars, serverVars, caches
  <2>16. CASE OnDidClose
    BY <2>16 DEF OnDidClose, Serves, Takes, Send, clientVars, serverVars, caches
  <2>17. CASE OnDidChangeWatchedFiles
    BY <2>17 DEF OnDidChangeWatchedFiles, Serves, Takes, clientVars, serverVars, caches
  <2>18. CASE \E d \in Docs : Reanalyze(d)
    BY <2>18 DEF Reanalyze, clientVars, serverVars, caches
  <2>19. CASE OnCodeAction
    BY <2>19 DEF OnCodeAction, Serves, Takes, Respond, Send, clientVars, serverVars, caches
  <2>20. CASE OnDocumentSymbol
    BY <2>20 DEF OnDocumentSymbol, Serves, Takes, Respond, Send, clientVars, serverVars, caches
  <2>21. CASE MethodNotFound
    BY <2>21 DEF MethodNotFound, Serves, Takes, Respond, Send, clientVars, serverVars, caches
  <2>22. CASE IgnoreResponse
    BY <2>22 DEF IgnoreResponse, Serves, Takes, clientVars, serverVars, caches
  <2>23. CASE HandleShutdown
    BY <2>23 DEF HandleShutdown, Takes, Send, clientVars, serverVars, caches
  <2>24. CASE AwaitExit
    BY <2>24 DEF AwaitExit, clientVars, serverVars, caches
  <2>25. CASE UNCHANGED vars
    BY <2>25 DEF vars, clientVars, serverVars, caches
  <2>. QED BY <2>1, <2>2, <2>3, <2>4, <2>5, <2>6, <2>7, <2>8, <2>9, <2>10, <2>11, <2>12, <2>13,
              <2>14, <2>15, <2>16, <2>17, <2>18, <2>19, <2>20, <2>21, <2>22, <2>23, <2>24, <2>25
              DEF Next, ClientMoves, ClientHears, ServerStep, Requests, Contents
<1>. QED BY <1>2, <1>3, <1>4

\* A document opened or changed is put in place and analysed.
LEMMA Replacing ==
  ASSUME TypeOK, OnDidOpenOrChange
  PROVE  LET m == toServer[1]
         IN  /\ toServer # <<>> /\ toServer' = Tail(toServer) /\ reload = {}
             /\ m.method \in {"didOpen", "didChange"}
             /\ m.uri \in Docs /\ m.text \in Texts /\ m.version \in Nat
             /\ Replaced(m) \in Document /\ documents' = [documents EXCEPT ![m.uri] = Replaced(m)]
             /\ AnalyzeAndPublish(m.uri, Replaced(m))
             /\ UNCHANGED <<clientVars, disk, reload, phase>>
<1>. DEFINE m == toServer[1]
<1>1. PICK method \in {"didOpen", "didChange"} : Takes(method)
  BY DEF OnDidOpenOrChange, Serves
<1>2. /\ toServer # <<>> /\ Head(toServer) = m /\ m \in ServerBound
      /\ m.method = method /\ reload = {} /\ toServer' = Tail(toServer)
  BY <1>1, HeadOf DEF TypeOK
<1>3. m.uri \in Docs /\ m.text \in Texts /\ m.version \in Nat
  BY <1>1, <1>2, ServerMessage
<1>4. Replaced(m) \in Document
  BY <1>3 DEF Replaced, Document
<1>5. UNCHANGED <<clientVars, disk, reload, phase>>
  BY DEF OnDidOpenOrChange, Serves
<1>6. /\ documents' = [documents EXCEPT ![m.uri] = Replaced(m)]
      /\ AnalyzeAndPublish(m.uri, Replaced(m))
  BY <1>2 DEF OnDidOpenOrChange
<1>. QED BY <1>1, <1>2, <1>3, <1>4, <1>5, <1>6

\* A document that waits for the reload loop is open.
LEMMA Reanalysing ==
  ASSUME TypeOK, NEW d \in Docs, Reanalyze(d)
  PROVE  /\ documents[d] \in Document /\ documents[d] # None /\ AnalyzeAndPublish(d, documents[d])
         /\ d \in reload /\ reload' = reload \ {d}
         /\ UNCHANGED <<clientVars, disk, toServer, phase, documents>>
BY DEF TypeOK, ServerTypes, Reanalyze

\* The caches stay in order.
LEMMA CacheStep ==
  ASSUME TypeOK, [Next]_vars
  PROVE  CacheInv'
<1>1. CASE OnDidOpenOrChange
  BY <1>1, Replacing, Analysed
<1>2. CASE \E d \in Docs : Reanalyze(d)
  BY <1>2, Reanalysing, Analysed
<1>3. CASE OnDidChangeWatchedFiles
  <2>1. configCache' = [explicit |-> disk[Now] # "absent", since |-> Now, cached |-> None]
    BY <1>3 DEF OnDidChangeWatchedFiles, FreshCache
  <2>2. configCache' = [explicit |-> configCache'.explicit, since |-> configCache'.since,
                        cached |-> configCache'.cached]
    BY <2>1, Zenon
  <2>3. configCache'.explicit <=> disk[Now] # "absent"
    BY <2>1, Zenon
  <2>4. configCache'.since = Now /\ configCache'.cached = None
    BY <2>1
  <2>5. disk' = disk /\ profileCache' = [b \in Bases |-> None]
    BY <1>3 DEF OnDidChangeWatchedFiles
  <2>6. profileCache' \in [Bases -> 1..Now \cup {None}] /\ \A b \in Bases : profileCache'[b] = None
    BY <2>5
  <2>7. Now' = Now /\ Now \in Nat \ {0}
    BY <2>5 DEF Now, TypeOK, ClientTypes
  <2>. QED BY <2>2, <2>3, <2>4, <2>5, <2>6, <2>7 DEF CacheInv, Bases
<1>4. CASE UNCHANGED caches
  <2>1. /\ Now' \in Nat \ {0} /\ Now <= Now' /\ Now \in Nat \ {0}
        /\ \A g \in 1..Now : disk'[g] = disk[g]
    BY DiskGrows DEF TypeOK
  <2>2. \A b \in Bases : profileCache[b] # None => profileCache[b] \in 1..Now
    BY DEF TypeOK, CacheInv
  <2>3. None \notin Nat
    BY LspAssumption
  <2>4. configCache' = configCache /\ profileCache' = profileCache
    BY <1>4 DEF caches
  <2>5. configCache.cached # None => configCache.cached \in 1..Now
    BY <2>1 DEF TypeOK, CacheInv
  <2>6. profileCache \in [Bases -> 1..Now' \cup {None}]
    BY <2>1 DEF TypeOK, CacheInv
  <2>7. configCache.since \in 1..Now /\ (configCache.explicit <=> disk[configCache.since] # "absent")
    BY DEF TypeOK, CacheInv
  <2>8. disk'[configCache.since] = disk[configCache.since]
    BY <2>1, <2>7
  <2>9. configCache.cached # None => disk'[configCache.cached] = disk[configCache.cached]
    BY <2>1, <2>5
  <2>10. \A d \in Docs : profileCache[d] # None => disk'[profileCache[d]] = disk[profileCache[d]]
    BY <2>1, <2>2 DEF Bases
  <2>. QED BY <2>1, <2>4, <2>6, <2>7, <2>8, <2>9, <2>10 DEF TypeOK, CacheInv
<1>5. \/ UNCHANGED caches \/ OnDidOpenOrChange \/ OnDidChangeWatchedFiles
      \/ \E d \in Docs : Reanalyze(d)
  <2>1. CASE Begin
    BY <2>1 DEF Begin, Tell, clientVars, serverVars, caches
  <2>2. CASE Leave
    BY <2>2 DEF Leave, Moves, Tell, clientVars, serverVars, caches
  <2>3. CASE SaveProjectFile
    BY <2>3 DEF SaveProjectFile, Moves, Event, Tell, clientVars, serverVars, caches
  <2>4. CASE \E d \in Docs, t \in Texts : OpenDoc(d, t)
    BY <2>4 DEF OpenDoc, Moves, Tell, clientVars, serverVars, caches
  <2>5. CASE \E d \in Docs, t \in Texts : ChangeDoc(d, t)
    BY <2>5 DEF ChangeDoc, Moves, Tell, clientVars, serverVars, caches
  <2>6. CASE \E d \in Docs : CloseDoc(d)
    BY <2>6 DEF CloseDoc, Moves, Tell, clientVars, serverVars, caches
  <2>7. CASE \E d \in Docs, kind \in Requests : Ask(d, kind)
    BY <2>7 DEF Ask, Moves, Tell, clientVars, serverVars, caches
  <2>8. CASE HearCapabilities
    BY <2>8 DEF HearCapabilities, Hears, Tell, clientVars, serverVars, caches
  <2>9. CASE HearRegistration
    BY <2>9 DEF HearRegistration, Hears, Tell, clientVars, serverVars, caches
  <2>10. CASE HearDiagnostics
    BY <2>10 DEF HearDiagnostics, Hears, clientVars, serverVars, caches
  <2>11. CASE HearAnswer
    BY <2>11 DEF HearAnswer, Hears, clientVars, serverVars, caches
  <2>12. CASE HearGoodbye
    BY <2>12 DEF HearGoodbye, Hears, Tell, clientVars, serverVars, caches
  <2>13. CASE Initialize
    BY <2>13 DEF Initialize, Takes, Send, clientVars, serverVars, caches
  <2>14. CASE RegisterConfigWatcher
    BY <2>14 DEF RegisterConfigWatcher, Takes, Send, clientVars, serverVars, caches
  <2>15. CASE OnDidClose
    BY <2>15 DEF OnDidClose, Serves, Takes, Send, clientVars, serverVars, caches
  <2>16. CASE OnCodeAction
    BY <2>16 DEF OnCodeAction, Serves, Takes, Respond, Send, clientVars, serverVars, caches
  <2>17. CASE OnDocumentSymbol
    BY <2>17 DEF OnDocumentSymbol, Serves, Takes, Respond, Send, clientVars, serverVars, caches
  <2>18. CASE MethodNotFound
    BY <2>18 DEF MethodNotFound, Serves, Takes, Respond, Send, clientVars, serverVars, caches
  <2>19. CASE IgnoreResponse
    BY <2>19 DEF IgnoreResponse, Serves, Takes, clientVars, serverVars, caches
  <2>20. CASE HandleShutdown
    BY <2>20 DEF HandleShutdown, Takes, Send, clientVars, serverVars, caches
  <2>21. CASE AwaitExit
    BY <2>21 DEF AwaitExit, clientVars, serverVars, caches
  <2>22. CASE \E c \in Contents : SaveConfig(c)
    BY <2>22 DEF SaveConfig, Event, Tell, clientVars, serverVars, caches
  <2>23. CASE UNCHANGED vars
    BY <2>23 DEF vars, clientVars, serverVars, caches
  <2>. QED BY <2>1, <2>2, <2>3, <2>4, <2>5, <2>6, <2>7, <2>8, <2>9, <2>10, <2>11, <2>12, <2>13,
              <2>14, <2>15, <2>16, <2>17, <2>18, <2>19, <2>20, <2>21, <2>22, <2>23 DEF Next,
              ClientMoves, ClientHears, ServerStep, Requests, Contents
<1>. QED BY <1>1, <1>2, <1>3, <1>4, <1>5

\* A request is answered by its number, from what is kept of the document; at
\* most a parse is added to that.
LEMMA Answering ==
  ASSUME TypeOK, OnCodeAction \/ OnDocumentSymbol \/ MethodNotFound
  PROVE  LET m == toServer[1]
             d == m.uri
         IN  /\ toServer # <<>> /\ toServer' = Tail(toServer) /\ reload = {}
             /\ m.method \in Requests /\ d \in Docs /\ m.id \in Nat
             /\ UNCHANGED <<clientVars, disk, analyses, caches, reload, phase>>
             /\ documents' \in [Docs -> Document \cup {None}]
             /\ \A e \in Docs :
                  /\ documents'[e] = None <=> documents[e] = None
                  /\ documents[e] # None =>
                       /\ documents'[e].text = documents[e].text
                       /\ documents'[e].version = documents[e].version
                       /\ documents'[e].parsed \in {documents[e].parsed, Parsed(documents[e])}
             /\ \E t, u \in Texts \cup {None} :
                  /\ toClient' = Append(toClient, [method |-> "answer", id |-> m.id, text |-> t, source |-> u])
                  /\ m.method # "unknown" /\ documents[d] # None /\ analyses[d] # None =>
                       /\ t = documents[d].text
                       /\ u \in {analyses[d].text, Parsed(documents[d])}
<1>. DEFINE m == toServer[1]
            d == m.uri
<1>1. PICK method \in Requests : Takes(method)
  BY DEF OnCodeAction, OnDocumentSymbol, MethodNotFound, Serves, Requests
<1>2. /\ toServer # <<>> /\ Head(toServer) = m /\ m \in ServerBound
      /\ m.method = method /\ reload = {} /\ toServer' = Tail(toServer)
  BY <1>1, HeadOf DEF TypeOK
<1>3. d \in Docs /\ m.id \in Nat
  BY <1>1, <1>2, ServerMessage
<1>. HIDE DEF m
<1>4. UNCHANGED <<clientVars, disk, analyses, caches, reload, phase>>
  BY DEF OnCodeAction, OnDocumentSymbol, MethodNotFound, Serves
<1>5. documents \in [Docs -> Document \cup {None}] /\ analyses \in [Docs -> Analysis \cup {None}]
  BY DEF TypeOK, ServerTypes
<1>6. /\ documents[d] # None => documents[d].text \in Texts /\ Parsed(documents[d]) \in Texts
      /\ analyses[d] # None => analyses[d].text \in Texts
  BY <1>3, <1>5 DEF Document, Analysis, Parsed
<1>. DEFINE Same == \A e \in Docs :
                      /\ documents'[e] = None <=> documents[e] = None
                      /\ documents[e] # None =>
                           /\ documents'[e].text = documents[e].text
                           /\ documents'[e].version = documents[e].version
                           /\ documents'[e].parsed \in {documents[e].parsed, Parsed(documents[e])}
            Answers == \E t, u \in Texts \cup {None} :
                  /\ toClient' = Append(toClient, [method |-> "answer", id |-> m.id, text |-> t, source |-> u])
                  /\ m.method # "unknown" /\ documents[d] # None /\ analyses[d] # None =>
                       /\ t = documents[d].text
                       /\ u \in {analyses[d].text, Parsed(documents[d])}
            Kept == documents' \in [Docs -> Document \cup {None}] /\ Same
<1>7. ASSUME UNCHANGED documents PROVE Kept
  BY <1>5, <1>7
<1>8. ASSUME OnCodeAction PROVE Kept /\ Answers
  <2>1. ASSUME documents[d] = None \/ analyses[d] = None PROVE Answers
    BY <1>2, <1>8, <2>1 DEF OnCodeAction, Respond, Send
  <2>2. ASSUME documents[d] # None, analyses[d] # None PROVE Answers
    BY <1>2, <1>6, <1>8, <2>2 DEF OnCodeAction, Respond, Send
  <2>3. Answers
    BY <2>1, <2>2
  <2>4. UNCHANGED documents
    BY <1>8 DEF OnCodeAction
  <2>. QED BY <1>7, <2>3, <2>4
<1>9. ASSUME MethodNotFound PROVE Kept /\ Answers
  <2>1. m.method = "unknown"
    BY <1>2, <1>9, HeadOf DEF TypeOK, MethodNotFound, Serves
  <2>2. Answers
    BY <1>2, <1>9, <2>1 DEF MethodNotFound, Respond, Send
  <2>3. UNCHANGED documents
    BY <1>9 DEF MethodNotFound
  <2>. QED BY <1>7, <2>2, <2>3
<1>10. ASSUME OnDocumentSymbol PROVE Kept /\ Answers
  <2>1. CASE documents[d] = None
    <3>1. Answers
      BY <1>2, <1>10, <2>1 DEF OnDocumentSymbol, Respond, Send
    <3>2. UNCHANGED documents
      BY <1>2, <1>10, <2>1 DEF OnDocumentSymbol
    <3>. QED BY <1>7, <3>1, <3>2
  <2>2. CASE documents[d] # None
    <3>1. documents' = [documents EXCEPT ![d].parsed = Parsed(documents[d])]
      BY <1>2, <1>10, <2>2 DEF OnDocumentSymbol
    <3>2. Answers
      BY <1>2, <1>6, <1>10, <2>2 DEF OnDocumentSymbol, Respond, Send
    <3>3. documents[d] \in Document
      BY <1>3, <1>5, <2>2
    <3>4. /\ documents'[d] \in Document /\ documents'[d].text = documents[d].text
          /\ documents'[d].version = documents[d].version /\ documents'[d].parsed = Parsed(documents[d])
      BY <1>3, <1>5, <1>6, <2>2, <3>1, <3>3 DEF Document
    <3>5. documents'[d] # None
      BY <3>4, LspAssumption
    <3>6. \A e \in Docs : e # d => documents'[e] = documents[e]
      BY <1>5, <3>1
    <3>7. Same
      BY <2>2, <3>4, <3>5, <3>6
    <3>8. documents' \in [Docs -> Document \cup {None}]
      <4>1. documents' = [e \in Docs |-> documents'[e]]
        BY <1>5, <3>1
      <4>2. \A e \in Docs : documents'[e] \in Document \cup {None}
        BY <1>5, <3>4, <3>6
      <4>. QED BY <4>1, <4>2
    <3>. QED BY <3>2, <3>7, <3>8
  <2>. QED BY <2>1, <2>2
<1>11. Kept /\ Answers
  BY <1>8, <1>9, <1>10
<1>. QED BY <1>1, <1>2, <1>3, <1>4, <1>11 DEF m

-----------------------------------------------------------------------------
(* The kinds of steps.                                                     *)

\* The messages of the session itself, to the server and to the client.
Plain == {"initialize", "initialized", "response", "shutdown", "exit"}
Signals == {"capabilities", "register", "goodbye"}

\* A step that leaves alone what the client shows and asks and what the server
\* keeps: at most it sends and takes messages of the session itself.
Aside ==
  /\ UNCHANGED <<buffer, shown, pending, told, documents, analyses, caches, reload>>
  /\ moves' \in {moves, moves + 1}
  /\ \/ UNCHANGED toServer
     \/ \E k \in Plain : toServer' = Append(toServer, [method |-> k])
     \/ toServer # <<>> /\ toServer[1].method \in Plain /\ toServer' = Tail(toServer)
  /\ \/ UNCHANGED toClient
     \/ \E k \in Signals : toClient' = Append(toClient, [method |-> k])
     \/ toClient # <<>> /\ toClient[1].method \in Signals /\ toClient' = Tail(toClient)

\* An edit of the client, as the message says.
Edited ==
  /\ \E d \in Docs, m \in ServerBound :
       /\ IsEdit(m, d) /\ View(m) \in Buffer \cup {None}
       /\ toServer' = Append(toServer, m) /\ buffer' = [buffer EXCEPT ![d] = View(m)]
  /\ moves' = moves + 1
  /\ UNCHANGED <<client, shown, pending, watching, told, disk, toClient, serverVars>>

\* The client tells of a configuration file it watches.
Announced ==
  /\ told' = Now /\ toServer' = Append(toServer, [method |-> "didChangeWatchedFiles"])
  /\ moves' = moves + 1
  /\ UNCHANGED <<client, buffer, shown, pending, watching, disk, toClient, serverVars>>

\* A request is asked; a request is answered.
Asked == \E d \in Docs, kind \in Requests : Ask(d, kind)
Answered == OnCodeAction \/ OnDocumentSymbol \/ MethodNotFound

\* An edit changes the buffer as its message says.
LEMMA EditsAre ==
  ASSUME ClientTypes,
         \/ \E d \in Docs, t \in Texts : OpenDoc(d, t) \/ ChangeDoc(d, t)
         \/ \E d \in Docs : CloseDoc(d)
  PROVE  Edited
<1>1. moves' \in Nat /\ moves' = moves + 1
  <2>1. Moves
    BY Zenon DEF OpenDoc, ChangeDoc, CloseDoc
  <2>. QED BY <2>1 DEF Moves, ClientTypes
<1>2. CASE \E d \in Docs, t \in Texts : OpenDoc(d, t) \/ ChangeDoc(d, t)
  <2>1. PICK d \in Docs, t \in Texts : OpenDoc(d, t) \/ ChangeDoc(d, t)
    BY <1>2
  <2>2. PICK method \in {"didOpen", "didChange"} :
          toServer' = Append(toServer, [method |-> method, uri |-> d, text |-> t, version |-> moves'])
    BY <2>1 DEF OpenDoc, ChangeDoc, Tell
  <2>. DEFINE m == [method |-> method, uri |-> d, text |-> t, version |-> moves']
  <2>3. m \in ServerBound
    BY <1>1, Messages
  <2>4. IsEdit(m, d) /\ View(m) = [text |-> t, version |-> moves']
    BY DEF IsEdit, View, Edits
  <2>5. View(m) \in Buffer
    BY <1>1, <2>4 DEF Buffer
  <2>6. buffer' = [buffer EXCEPT ![d] = View(m)]
    BY <2>1, <2>4 DEF OpenDoc, ChangeDoc
  <2>7. UNCHANGED <<client, shown, pending, watching, told, disk, toClient, serverVars>>
    BY <2>1 DEF OpenDoc, ChangeDoc
  <2>. HIDE DEF m
  <2>8. toServer' = Append(toServer, m)
    BY <2>2 DEF m
  <2>. QED BY <1>1, <2>3, <2>4, <2>5, <2>6, <2>7, <2>8 DEF Edited
<1>3. CASE \E d \in Docs : CloseDoc(d)
  <2>1. PICK d \in Docs : CloseDoc(d)
    BY <1>3
  <2>. DEFINE m == [method |-> "didClose", uri |-> d]
  <2>2. m \in ServerBound /\ IsEdit(m, d) /\ View(m) = None
    BY Messages DEF IsEdit, View, Edits
  <2>3. toServer' = Append(toServer, m) /\ buffer' = [buffer EXCEPT ![d] = View(m)]
    BY <2>1, <2>2 DEF CloseDoc, Tell
  <2>4. UNCHANGED <<client, shown, pending, watching, told, disk, toClient, serverVars>>
    BY <2>1 DEF CloseDoc
  <2>. HIDE DEF m
  <2>. QED BY <1>1, <2>2, <2>3, <2>4 DEF Edited
<1>. QED BY <1>2, <1>3

\* A closed document is forgotten.
LEMMA Closing ==
  ASSUME TypeOK, OnDidClose
  PROVE  LET m == toServer[1]
         IN  /\ toServer # <<>> /\ toServer' = Tail(toServer) /\ reload = {}
             /\ m.method = "didClose" /\ m.uri \in Docs
             /\ documents' = [documents EXCEPT ![m.uri] = None]
             /\ analyses' = [analyses EXCEPT ![m.uri] = None]
             /\ toClient' = Append(toClient, [method |-> "publish", uri |-> m.uri, found |-> None])
             /\ UNCHANGED <<clientVars, disk, caches, reload, phase>>
<1>1. Takes("didClose") /\ UNCHANGED phase
  BY DEF OnDidClose, Serves
<1>2. /\ toServer # <<>> /\ Head(toServer) = toServer[1] /\ toServer[1] \in ServerBound
      /\ toServer[1].method = "didClose" /\ reload = {} /\ toServer' = Tail(toServer)
  BY <1>1, HeadOf DEF TypeOK
<1>3. toServer[1].uri \in Docs
  BY <1>2, ServerMessage
<1>. QED BY <1>1, <1>2, <1>3 DEF OnDidClose, Send

\* Every step is of one of these kinds.
LEMMA Kinds ==
  ASSUME TypeOK, Ending, [Next]_vars
  PROVE  \/ Aside \/ Edited \/ Announced \/ Asked \/ Answered
         \/ HearDiagnostics \/ HearAnswer
         \/ OnDidOpenOrChange \/ OnDidClose \/ OnDidChangeWatchedFiles
         \/ \E d \in Docs : Reanalyze(d)
<1>1. CASE AwaitExit
  <2>1. toServer[1].method \in Plain
    BY <1>1, Taken DEF AwaitExit, Ending, TypeOK, QueueTypes, Plain
  <2>2. toServer # <<>> /\ toServer' = Tail(toServer)
    BY <1>1 DEF AwaitExit
  <2>. QED BY <1>1, <2>1, <2>2 DEF AwaitExit, Aside, clientVars, caches
<1>2. CASE Begin \/ Leave
  BY <1>2 DEF Begin, Leave, Moves, Tell, Aside, Plain, serverVars, caches
<1>3. CASE HearCapabilities \/ HearRegistration \/ HearGoodbye
  <2>1. PICK method \in Signals : Hears(method)
    BY <1>3 DEF HearCapabilities, HearRegistration, HearGoodbye, Signals
  <2>2. toClient # <<>> /\ toClient[1].method \in Signals /\ toClient' = Tail(toClient)
    BY <2>1, HeadHeard DEF TypeOK
  <2>. QED BY <1>3, <2>2 DEF HearCapabilities, HearRegistration, HearGoodbye, Tell, Aside, Plain,
                             serverVars, caches
<1>4. CASE Initialize \/ RegisterConfigWatcher \/ HandleShutdown
  <2>1. PICK method \in Plain : Takes(method)
    BY <1>4 DEF Initialize, RegisterConfigWatcher, HandleShutdown, Plain
  <2>2. toServer # <<>> /\ toServer[1].method \in Plain /\ toServer' = Tail(toServer)
    BY <2>1, HeadOf DEF TypeOK
  <2>. QED BY <1>4, <2>2 DEF Initialize, RegisterConfigWatcher, HandleShutdown, Send, Aside,
              Signals,
                             clientVars, caches
<1>5. CASE IgnoreResponse
  <2>1. toServer # <<>> /\ toServer[1].method = "response" /\ toServer' = Tail(toServer)
    BY <1>5, HeadOf DEF IgnoreResponse, Serves, TypeOK
  <2>. QED BY <1>5, <2>1 DEF IgnoreResponse, Aside, Plain, clientVars, caches
<1>6. CASE SaveProjectFile
  <2>1. CASE watching /\ client = "running"
    <3>1. told' = Now /\ toServer' = Append(toServer, [method |-> "didChangeWatchedFiles"])
      BY <1>6, <2>1 DEF SaveProjectFile, Event, Tell, Watched, Now
    <3>. QED BY <1>6, <3>1 DEF SaveProjectFile, Moves, Announced
  <2>2. CASE ~(watching /\ client = "running")
    <3>1. UNCHANGED <<told, toServer>>
      BY <1>6, <2>2 DEF SaveProjectFile, Event
    <3>. QED BY <1>6, <3>1 DEF SaveProjectFile, Moves, Aside, serverVars, caches
  <2>. QED BY <2>1, <2>2
<1>7. CASE \E c \in Contents : SaveConfig(c)
  <2>1. PICK c : SaveConfig(c)
    BY <1>7
  <2>2. UNCHANGED <<told, toServer>>
    BY <2>1 DEF SaveConfig, Event, Watched
  <2>. QED BY <2>1, <2>2 DEF SaveConfig, Aside, serverVars, caches
<1>8. CASE UNCHANGED vars
  BY <1>8 DEF vars, clientVars, serverVars, caches, Aside
<1>9. CASE \/ \E d \in Docs, t \in Texts : OpenDoc(d, t) \/ ChangeDoc(d, t)
           \/ \E d \in Docs : CloseDoc(d)
  BY <1>9, EditsAre DEF TypeOK
<1>. QED BY <1>1, <1>2, <1>3, <1>4, <1>5, <1>6, <1>7, <1>8, <1>9
         DEF Next, ClientMoves, ClientHears, ServerStep, Contents, Requests, Asked, Answered

\* What an Ask sends and notes.
LEMMA Asking ==
  ASSUME ClientTypes, NEW d \in Docs, NEW kind \in Requests, Ask(d, kind)
  PROVE  /\ moves' = moves + 1 /\ moves' \in Nat /\ client = "running" /\ buffer[d] \in Buffer /\ buffer[d] # None
         /\ [method |-> kind, id |-> moves', uri |-> d] \in ServerBound
         /\ toServer' = Append(toServer, [method |-> kind, id |-> moves', uri |-> d])
         /\ [id |-> moves', uri |-> d, kind |-> kind, text |-> buffer[d].text]
              \in [id : Nat, uri : Docs, kind : Requests, text : Texts]
         /\ pending' = pending \cup {[id |-> moves', uri |-> d, kind |-> kind, text |-> buffer[d].text]}
         /\ UNCHANGED <<client, buffer, shown, watching, told, disk, toClient, serverVars>>
<1>1. moves' = moves + 1 /\ moves' \in Nat /\ client = "running" /\ buffer[d] # None
  BY DEF Ask, Moves, ClientTypes
<1>2. buffer[d] \in Buffer /\ buffer[d].text \in Texts
  BY <1>1 DEF ClientTypes, Buffer
<1>3. [method |-> kind, id |-> moves', uri |-> d] \in ServerBound
  BY <1>1, Messages
<1>. QED BY <1>1, <1>2, <1>3 DEF Ask, Tell

\* The two queues carry messages.
LEMMA QueueStep ==
  ASSUME TypeOK, Ending, [Next]_vars
  PROVE  QueueTypes'
<1>1. toServer \in Seq(ServerBound) /\ toClient \in Seq(ClientBound)
  BY DEF TypeOK, QueueTypes
<1>2. /\ \A m \in ServerBound : Append(toServer, m) \in Seq(ServerBound)
      /\ \A m \in ClientBound : Append(toClient, m) \in Seq(ClientBound)
      /\ toServer # <<>> => Tail(toServer) \in Seq(ServerBound)
      /\ toClient # <<>> => Tail(toClient) \in Seq(ClientBound)
  BY <1>1, Added, Taken
<1>3. CASE Aside
  BY <1>1, <1>2, <1>3, Messages DEF Aside, Plain, Signals, QueueTypes
<1>4. CASE Edited
  BY <1>1, <1>2, <1>4 DEF Edited, QueueTypes
<1>5. CASE Announced
  BY <1>1, <1>2, <1>5, Messages DEF Announced, QueueTypes
<1>6. CASE Asked
  BY <1>1, <1>2, <1>6, Asking DEF TypeOK, Asked, QueueTypes
<1>7. CASE Answered
  <2>1. PICK t \in Texts \cup {None}, u \in Texts \cup {None} :
          toClient' = Append(toClient, [method |-> "answer", id |-> toServer[1].id, text |-> t, source |-> u])
    BY <1>7, Answering DEF Answered
  <2>2. toServer[1].id \in Nat /\ toServer # <<>> /\ toServer' = Tail(toServer)
    BY <1>7, Answering DEF Answered
  <2>. QED BY <1>2, <2>1, <2>2, Messages DEF QueueTypes
<1>8. CASE HearDiagnostics \/ HearAnswer
  BY <1>1, <1>2, <1>8 DEF HearDiagnostics, HearAnswer, Hears, QueueTypes
<1>9. CASE OnDidOpenOrChange
  <2>1. PICK f \in Found : toClient' = Append(toClient, [method |-> "publish", uri |-> toServer[1].uri, found |-> f])
    BY <1>9, Replacing, Analysed
  <2>. QED BY <1>2, <1>9, <2>1, Messages, Replacing DEF QueueTypes
<1>10. CASE OnDidClose
  BY <1>2, <1>10, Closing, Messages DEF QueueTypes
<1>11. CASE OnDidChangeWatchedFiles
  BY <1>1, <1>2, <1>11 DEF OnDidChangeWatchedFiles, Serves, Takes, QueueTypes
<1>12. CASE \E d \in Docs : Reanalyze(d)
  <2>1. PICK d \in Docs : Reanalyze(d)
    BY <1>12
  <2>2. UNCHANGED <<disk, toServer>> /\ documents[d] \in Document /\ AnalyzeAndPublish(d, documents[d])
    BY <2>1, Reanalysing
  <2>3. PICK f \in Found : toClient' = Append(toClient, [method |-> "publish", uri |-> d, found |-> f])
    BY <2>2, Analysed
  <2>. QED BY <1>1, <1>2, <2>2, <2>3, Messages DEF QueueTypes
<1>. QED BY <1>3, <1>4, <1>5, <1>6, <1>7, <1>8, <1>9, <1>10, <1>11, <1>12, Kinds

\* The server's tables keep their types.
LEMMA ServerStepTypes ==
  ASSUME TypeOK, Ending, [Next]_vars
  PROVE  ServerTypes'
<1>1. /\ documents \in [Docs -> Document \cup {None}] /\ analyses \in [Docs -> Analysis \cup {None}]
      /\ reload \subseteq Docs /\ \A d \in reload : documents[d] # None
  BY DEF TypeOK, ServerTypes
<1>2. phase' \in {"new", "starting", "running", "stopping", "exited", "failed"}
  <2>1. phase \in {"new", "starting", "running", "stopping", "exited", "failed"}
    BY DEF TypeOK, ServerTypes
  <2>2. phase' \in {phase, "starting", "running", "stopping", "exited", "failed"}
    <3>1. CASE Begin
      BY <3>1 DEF Begin, Tell, clientVars, serverVars, caches
    <3>2. CASE Leave
      BY <3>2 DEF Leave, Moves, Tell, clientVars, serverVars, caches
    <3>3. CASE SaveProjectFile
      BY <3>3 DEF SaveProjectFile, Moves, Event, Tell, clientVars, serverVars, caches
    <3>4. CASE \E d \in Docs, t \in Texts : OpenDoc(d, t)
      BY <3>4 DEF OpenDoc, Moves, Tell, clientVars, serverVars, caches
    <3>5. CASE \E d \in Docs, t \in Texts : ChangeDoc(d, t)
      BY <3>5 DEF ChangeDoc, Moves, Tell, clientVars, serverVars, caches
    <3>6. CASE \E d \in Docs : CloseDoc(d)
      BY <3>6 DEF CloseDoc, Moves, Tell, clientVars, serverVars, caches
    <3>7. CASE \E d \in Docs, kind \in Requests : Ask(d, kind)
      BY <3>7 DEF Ask, Moves, Tell, clientVars, serverVars, caches
    <3>8. CASE HearCapabilities
      BY <3>8 DEF HearCapabilities, Hears, Tell, clientVars, serverVars, caches
    <3>9. CASE HearRegistration
      BY <3>9 DEF HearRegistration, Hears, Tell, clientVars, serverVars, caches
    <3>10. CASE HearDiagnostics
      BY <3>10 DEF HearDiagnostics, Hears, clientVars, serverVars, caches
    <3>11. CASE HearAnswer
      BY <3>11 DEF HearAnswer, Hears, clientVars, serverVars, caches
    <3>12. CASE HearGoodbye
      BY <3>12 DEF HearGoodbye, Hears, Tell, clientVars, serverVars, caches
    <3>13. CASE Initialize
      BY <3>13 DEF Initialize, Takes, Send, clientVars, serverVars, caches
    <3>14. CASE RegisterConfigWatcher
      BY <3>14 DEF RegisterConfigWatcher, Takes, Send, clientVars, serverVars, caches
    <3>15. CASE OnDidOpenOrChange
      BY <3>15 DEF OnDidOpenOrChange, Serves, Takes, clientVars, serverVars, caches
    <3>16. CASE OnDidClose
      BY <3>16 DEF OnDidClose, Serves, Takes, Send, clientVars, serverVars, caches
    <3>17. CASE OnDidChangeWatchedFiles
      BY <3>17 DEF OnDidChangeWatchedFiles, Serves, Takes, clientVars, serverVars, caches
    <3>18. CASE \E d \in Docs : Reanalyze(d)
      BY <3>18 DEF Reanalyze, clientVars, serverVars, caches
    <3>19. CASE OnCodeAction
      BY <3>19 DEF OnCodeAction, Serves, Takes, Respond, Send, clientVars, serverVars, caches
    <3>20. CASE OnDocumentSymbol
      BY <3>20 DEF OnDocumentSymbol, Serves, Takes, Respond, Send, clientVars, serverVars, caches
    <3>21. CASE MethodNotFound
      BY <3>21 DEF MethodNotFound, Serves, Takes, Respond, Send, clientVars, serverVars, caches
    <3>22. CASE IgnoreResponse
      BY <3>22 DEF IgnoreResponse, Serves, Takes, clientVars, serverVars, caches
    <3>23. CASE HandleShutdown
      BY <3>23 DEF HandleShutdown, Takes, Send, clientVars, serverVars, caches
    <3>24. CASE AwaitExit
      BY <3>24 DEF AwaitExit, clientVars, serverVars, caches
    <3>25. CASE \E c \in Contents : SaveConfig(c)
      BY <3>25 DEF SaveConfig, Event, Tell, clientVars, serverVars, caches
    <3>26. CASE UNCHANGED vars
      BY <3>26 DEF vars, clientVars, serverVars, caches
    <3>. QED BY <3>1, <3>2, <3>3, <3>4, <3>5, <3>6, <3>7, <3>8, <3>9, <3>10, <3>11, <3>12, <3>13,
                <3>14, <3>15, <3>16, <3>17, <3>18, <3>19, <3>20, <3>21, <3>22, <3>23, <3>24, <3>25,
                <3>26 DEF Next, ClientMoves, ClientHears, ServerStep, Requests, Contents
  <2>. QED BY <2>1, <2>2
<1>3. CASE UNCHANGED <<documents, analyses, reload>>
  BY <1>1, <1>2, <1>3 DEF ServerTypes
<1>4. CASE Answered
  <2>1. /\ documents' \in [Docs -> Document \cup {None}] /\ UNCHANGED <<analyses, reload>> /\ reload = {}
    BY <1>4, Answering DEF Answered
  <2>. QED BY <1>1, <1>2, <2>1 DEF ServerTypes
<1>5. CASE OnDidOpenOrChange
  <2>1. /\ toServer[1].uri \in Docs /\ Replaced(toServer[1]) \in Document /\ UNCHANGED reload /\ reload = {}
        /\ documents' = [documents EXCEPT ![toServer[1].uri] = Replaced(toServer[1])]
    BY <1>5, Replacing
  <2>2. PICK f \in Found : analyses' = [analyses EXCEPT ![toServer[1].uri] = f.analysis]
    BY <1>5, Replacing, Analysed
  <2>3. f.analysis \in Analysis
    BY DEF Found
  <2>. QED BY <1>1, <1>2, <2>1, <2>2, <2>3 DEF ServerTypes
<1>6. CASE OnDidClose
  <2>1. /\ toServer[1].uri \in Docs /\ UNCHANGED reload /\ reload = {}
        /\ documents' = [documents EXCEPT ![toServer[1].uri] = None]
        /\ analyses' = [analyses EXCEPT ![toServer[1].uri] = None]
    BY <1>6, Closing
  <2>. QED BY <1>1, <1>2, <2>1 DEF ServerTypes
<1>7. CASE OnDidChangeWatchedFiles
  BY <1>1, <1>2, <1>7 DEF OnDidChangeWatchedFiles, ServerTypes
<1>8. CASE \E d \in Docs : Reanalyze(d)
  <2>1. PICK d \in Docs : Reanalyze(d)
    BY <1>8
  <2>2. /\ UNCHANGED documents /\ reload' = reload \ {d} /\ UNCHANGED disk
        /\ documents[d] \in Document /\ AnalyzeAndPublish(d, documents[d])
    BY <2>1, Reanalysing
  <2>3. PICK f \in Found : analyses' = [analyses EXCEPT ![d] = f.analysis]
    BY <2>2, Analysed
  <2>4. f.analysis \in Analysis
    BY DEF Found
  <2>. QED BY <1>1, <1>2, <2>2, <2>3, <2>4 DEF ServerTypes
<1>9. CASE Aside \/ Edited \/ Announced \/ Asked \/ HearDiagnostics \/ HearAnswer
  <2>1. UNCHANGED <<documents, analyses, reload>>
    BY <1>9 DEF Aside, Edited, Announced, Asked, Ask, HearDiagnostics, HearAnswer, serverVars
  <2>. QED BY <1>3, <2>1
<1>. QED BY <1>4, <1>5, <1>6, <1>7, <1>8, <1>9, Kinds

\* The client's side keeps its types.
LEMMA ClientStepTypes ==
  ASSUME TypeOK, Ending, [Next]_vars
  PROVE  ClientTypes'
<1>1. /\ buffer \in [Docs -> Buffer \cup {None}] /\ shown \in [Docs -> Found \cup {None}]
      /\ pending \subseteq [id : Nat, uri : Docs, kind : Requests, text : Texts]
      /\ moves \in Nat /\ told \in 0..Now
  BY DEF TypeOK, ClientTypes
<1>2. client' \in {"new", "starting", "running", "leaving", "gone"}
  <2>1. client \in {"new", "starting", "running", "leaving", "gone"}
    BY DEF TypeOK, ClientTypes
  <2>2. client' \in {client, "starting", "running", "leaving", "gone"}
    <3>1. CASE Begin
      BY <3>1 DEF Begin, Tell, clientVars, serverVars, caches
    <3>2. CASE Leave
      BY <3>2 DEF Leave, Moves, Tell, clientVars, serverVars, caches
    <3>3. CASE SaveProjectFile
      BY <3>3 DEF SaveProjectFile, Moves, Event, Tell, clientVars, serverVars, caches
    <3>4. CASE \E d \in Docs, t \in Texts : OpenDoc(d, t)
      BY <3>4 DEF OpenDoc, Moves, Tell, clientVars, serverVars, caches
    <3>5. CASE \E d \in Docs, t \in Texts : ChangeDoc(d, t)
      BY <3>5 DEF ChangeDoc, Moves, Tell, clientVars, serverVars, caches
    <3>6. CASE \E d \in Docs : CloseDoc(d)
      BY <3>6 DEF CloseDoc, Moves, Tell, clientVars, serverVars, caches
    <3>7. CASE \E d \in Docs, kind \in Requests : Ask(d, kind)
      BY <3>7 DEF Ask, Moves, Tell, clientVars, serverVars, caches
    <3>8. CASE HearCapabilities
      BY <3>8 DEF HearCapabilities, Hears, Tell, clientVars, serverVars, caches
    <3>9. CASE HearRegistration
      BY <3>9 DEF HearRegistration, Hears, Tell, clientVars, serverVars, caches
    <3>10. CASE HearDiagnostics
      BY <3>10 DEF HearDiagnostics, Hears, clientVars, serverVars, caches
    <3>11. CASE HearAnswer
      BY <3>11 DEF HearAnswer, Hears, clientVars, serverVars, caches
    <3>12. CASE HearGoodbye
      BY <3>12 DEF HearGoodbye, Hears, Tell, clientVars, serverVars, caches
    <3>13. CASE Initialize
      BY <3>13 DEF Initialize, Takes, Send, clientVars, serverVars, caches
    <3>14. CASE RegisterConfigWatcher
      BY <3>14 DEF RegisterConfigWatcher, Takes, Send, clientVars, serverVars, caches
    <3>15. CASE OnDidOpenOrChange
      BY <3>15 DEF OnDidOpenOrChange, Serves, Takes, clientVars, serverVars, caches
    <3>16. CASE OnDidClose
      BY <3>16 DEF OnDidClose, Serves, Takes, Send, clientVars, serverVars, caches
    <3>17. CASE OnDidChangeWatchedFiles
      BY <3>17 DEF OnDidChangeWatchedFiles, Serves, Takes, clientVars, serverVars, caches
    <3>18. CASE \E d \in Docs : Reanalyze(d)
      BY <3>18 DEF Reanalyze, clientVars, serverVars, caches
    <3>19. CASE OnCodeAction
      BY <3>19 DEF OnCodeAction, Serves, Takes, Respond, Send, clientVars, serverVars, caches
    <3>20. CASE OnDocumentSymbol
      BY <3>20 DEF OnDocumentSymbol, Serves, Takes, Respond, Send, clientVars, serverVars, caches
    <3>21. CASE MethodNotFound
      BY <3>21 DEF MethodNotFound, Serves, Takes, Respond, Send, clientVars, serverVars, caches
    <3>22. CASE IgnoreResponse
      BY <3>22 DEF IgnoreResponse, Serves, Takes, clientVars, serverVars, caches
    <3>23. CASE HandleShutdown
      BY <3>23 DEF HandleShutdown, Takes, Send, clientVars, serverVars, caches
    <3>24. CASE AwaitExit
      BY <3>24 DEF AwaitExit, clientVars, serverVars, caches
    <3>25. CASE \E c \in Contents : SaveConfig(c)
      BY <3>25 DEF SaveConfig, Event, Tell, clientVars, serverVars, caches
    <3>26. CASE UNCHANGED vars
      BY <3>26 DEF vars, clientVars, serverVars, caches
    <3>. QED BY <3>1, <3>2, <3>3, <3>4, <3>5, <3>6, <3>7, <3>8, <3>9, <3>10, <3>11, <3>12, <3>13,
                <3>14, <3>15, <3>16, <3>17, <3>18, <3>19, <3>20, <3>21, <3>22, <3>23, <3>24, <3>25,
                <3>26 DEF Next, ClientMoves, ClientHears, ServerStep, Requests, Contents
  <2>. QED BY <2>1, <2>2
<1>3. disk' \in Seq(Contents) /\ Now' \in Nat \ {0} /\ Now <= Now' /\ Now \in Nat
  BY DiskGrows DEF TypeOK
<1>4. CASE UNCHANGED <<buffer, shown, pending, told>> /\ moves' \in {moves, moves + 1}
  BY <1>1, <1>2, <1>3, <1>4 DEF ClientTypes
<1>5. CASE Edited
  BY <1>1, <1>2, <1>3, <1>5 DEF Edited, ClientTypes
<1>6. CASE Announced
  BY <1>1, <1>2, <1>3, <1>6 DEF Announced, ClientTypes
<1>7. CASE Asked
  <2>1. PICK d \in Docs, kind \in Requests : Ask(d, kind)
    BY <1>7 DEF Asked
  <2>2. /\ moves' \in Nat
        /\ [id |-> moves', uri |-> d, kind |-> kind, text |-> buffer[d].text]
              \in [id : Nat, uri : Docs, kind : Requests, text : Texts]
         /\ pending' = pending \cup {[id |-> moves', uri |-> d, kind |-> kind, text |-> buffer[d].text]}
         /\ UNCHANGED <<buffer, shown, told, disk>>
    BY <2>1, Asking DEF TypeOK
  <2>. HIDE <2>1
  <2>. QED BY <1>1, <1>2, <1>3, <2>2 DEF ClientTypes
<1>8. CASE HearDiagnostics
  <2>1. /\ toClient[1] \in ClientBound /\ Head(toClient) = toClient[1] /\ toClient[1].method = "publish"
    BY <1>8, HeadHeard DEF HearDiagnostics, TypeOK
  <2>2. toClient[1].uri \in Docs /\ toClient[1].found \in Found \cup {None}
    BY <2>1, ClientMessage
  <2>3. shown' = [shown EXCEPT ![toClient[1].uri] = toClient[1].found] /\ UNCHANGED <<buffer, pending, moves, told, disk>>
    BY <1>8, <2>1 DEF HearDiagnostics
  <2>. QED BY <1>1, <1>2, <1>3, <2>2, <2>3 DEF ClientTypes
<1>9. CASE HearAnswer
  <2>1. pending' \subseteq pending /\ UNCHANGED <<buffer, shown, moves, told, disk>>
    BY <1>9 DEF HearAnswer
  <2>. QED BY <1>1, <1>2, <1>3, <2>1 DEF ClientTypes
<1>10. CASE Aside
  BY <1>4, <1>10 DEF Aside
<1>11. CASE OnDidOpenOrChange \/ OnDidClose \/ OnDidChangeWatchedFiles
  BY <1>4, <1>11 DEF OnDidOpenOrChange, OnDidClose, OnDidChangeWatchedFiles, clientVars
<1>12. CASE Answered \/ \E d \in Docs : Reanalyze(d)
  <2>1. UNCHANGED clientVars
    BY <1>12, Answering, Reanalysing DEF Answered
  <2>. QED BY <1>4, <2>1 DEF clientVars
<1>. QED BY <1>5, <1>6, <1>7, <1>8, <1>9, <1>10, <1>11, <1>12, Kinds

\* All types.
LEMMA TypeStep == TypeOK /\ Ending /\ [Next]_vars => TypeOK'
BY ClientStepTypes, QueueStep, ServerStepTypes, CacheStep DEF TypeOK
-----------------------------------------------------------------------------
(* The handshake and the end.                                              *)

\* Before the handshake is over nothing else happens.
LEMMA Early ==
  ASSUME TypeOK, Handshake, [Next]_vars, client \in {"new", "starting"}
  PROVE  Begin \/ HearCapabilities \/ Initialize \/ UNCHANGED <<client, phase, toServer, toClient, reload>>
<1>1. client # "running" /\ phase # "running" /\ phase # "stopping" /\ reload = {}
  BY DEF Handshake
<1>2. /\ toServer # <<>> => Head(toServer).method = "initialize"
      /\ toClient # <<>> => Head(toClient).method = "capabilities"
  BY DEF Handshake
<1>3. CASE Begin
  BY <1>1, <1>2, <1>3 DEF Begin, Tell, clientVars, serverVars, caches
<1>4. CASE Leave
  BY <1>1, <1>2, <1>4 DEF Leave, Moves, Tell, clientVars, serverVars, caches
<1>5. CASE SaveProjectFile
  BY <1>1, <1>2, <1>5 DEF SaveProjectFile, Moves, Event, Tell, clientVars, serverVars, caches
<1>6. CASE \E d \in Docs, t \in Texts : OpenDoc(d, t)
  BY <1>1, <1>2, <1>6 DEF OpenDoc, Moves, Tell, clientVars, serverVars, caches
<1>7. CASE \E d \in Docs, t \in Texts : ChangeDoc(d, t)
  BY <1>1, <1>2, <1>7 DEF ChangeDoc, Moves, Tell, clientVars, serverVars, caches
<1>8. CASE \E d \in Docs : CloseDoc(d)
  BY <1>1, <1>2, <1>8 DEF CloseDoc, Moves, Tell, clientVars, serverVars, caches
<1>9. CASE \E d \in Docs, kind \in Requests : Ask(d, kind)
  BY <1>1, <1>2, <1>9 DEF Ask, Moves, Tell, clientVars, serverVars, caches
<1>10. CASE HearCapabilities
  BY <1>1, <1>2, <1>10 DEF HearCapabilities, Hears, Tell, clientVars, serverVars, caches
<1>11. CASE HearRegistration
  BY <1>1, <1>2, <1>11 DEF HearRegistration, Hears, Tell, clientVars, serverVars, caches
<1>12. CASE HearDiagnostics
  BY <1>1, <1>2, <1>12 DEF HearDiagnostics, Hears, clientVars, serverVars, caches
<1>13. CASE HearAnswer
  BY <1>1, <1>2, <1>13 DEF HearAnswer, Hears, clientVars, serverVars, caches
<1>14. CASE HearGoodbye
  BY <1>1, <1>2, <1>14 DEF HearGoodbye, Hears, Tell, clientVars, serverVars, caches
<1>15. CASE Initialize
  BY <1>1, <1>2, <1>15 DEF Initialize, Takes, Send, clientVars, serverVars, caches
<1>16. CASE RegisterConfigWatcher
  BY <1>1, <1>2, <1>16 DEF RegisterConfigWatcher, Takes, Send, clientVars, serverVars, caches
<1>17. CASE OnDidOpenOrChange
  BY <1>1, <1>2, <1>17 DEF OnDidOpenOrChange, Serves, Takes, clientVars, serverVars, caches
<1>18. CASE OnDidClose
  BY <1>1, <1>2, <1>18 DEF OnDidClose, Serves, Takes, Send, clientVars, serverVars, caches
<1>19. CASE OnDidChangeWatchedFiles
  BY <1>1, <1>2, <1>19 DEF OnDidChangeWatchedFiles, Serves, Takes, clientVars, serverVars, caches
<1>20. CASE \E d \in Docs : Reanalyze(d)
  BY <1>1, <1>2, <1>20 DEF Reanalyze, clientVars, serverVars, caches
<1>21. CASE OnCodeAction
  BY <1>1, <1>2, <1>21 DEF OnCodeAction, Serves, Takes, Respond, Send, clientVars, serverVars,
     caches
<1>22. CASE OnDocumentSymbol
  BY <1>1, <1>2, <1>22 DEF OnDocumentSymbol, Serves, Takes, Respond, Send, clientVars, serverVars,
     caches
<1>23. CASE MethodNotFound
  BY <1>1, <1>2, <1>23 DEF MethodNotFound, Serves, Takes, Respond, Send, clientVars, serverVars,
     caches
<1>24. CASE IgnoreResponse
  BY <1>1, <1>2, <1>24 DEF IgnoreResponse, Serves, Takes, clientVars, serverVars, caches
<1>25. CASE AwaitExit
  BY <1>1, <1>2, <1>25 DEF AwaitExit, clientVars, serverVars, caches
<1>26. CASE \E c \in Contents : SaveConfig(c)
  BY <1>1, <1>2, <1>26 DEF SaveConfig, Event, Tell, clientVars, serverVars, caches
<1>27. CASE UNCHANGED vars
  BY <1>1, <1>2, <1>27 DEF vars, clientVars, serverVars, caches
<1>. QED BY <1>3, <1>4, <1>5, <1>6, <1>7, <1>8, <1>9, <1>10, <1>11, <1>12, <1>13, <1>14, <1>15,
            <1>16, <1>17, <1>18, <1>19, <1>20, <1>21, <1>22, <1>23, <1>24, <1>25, <1>26, <1>27, <1>1
            DEF Next, ClientMoves, ClientHears, ServerStep, Requests, Contents, HandleShutdown

\* The handshake goes its way.
LEMMA HandshakeStep ==
  ASSUME TypeOK, Handshake, [Next]_vars
  PROVE  Handshake'
<1>1. CASE client \in {"new", "starting"}
  <2>1. CASE Begin
    <3>1. client = "new" /\ client' = "starting" /\ toServer = <<>> /\ toClient = <<>> /\ phase = "new"
          /\ reload = {} /\ toServer' = Append(toServer, [method |-> "initialize"])
          /\ UNCHANGED <<toClient, phase, reload>>
      BY <2>1 DEF Begin, Tell, Handshake, serverVars
    <3>2. Append(<<>>, [method |-> "initialize"]) = <<[method |-> "initialize"]>>
      OBVIOUS
    <3>. QED BY <3>1, <3>2 DEF Handshake
  <2>2. CASE HearCapabilities
    <3>1. /\ toClient # <<>> /\ client' = "running" /\ UNCHANGED <<phase, reload>>
          /\ toClient' = Tail(toClient)
      BY <2>2 DEF HearCapabilities, Hears, serverVars
    <3>2. toClient = <<[method |-> "capabilities"]>> /\ phase = "starting"
      BY <1>1, <3>1 DEF Handshake
    <3>3. toClient' = <<>> /\ Len(toClient') = 0
      BY <3>1, <3>2
    <3>. QED BY <3>1, <3>2, <3>3 DEF Handshake
  <2>3. CASE Initialize
    <3>1. /\ toServer # <<>> /\ toServer' = Tail(toServer) /\ phase = "new" /\ phase' = "starting"
          /\ toClient' = Append(toClient, [method |-> "capabilities"]) /\ UNCHANGED <<client, reload>>
      BY <2>3 DEF Initialize, Takes, Send, clientVars
    <3>2. client = "starting" /\ toServer = <<[method |-> "initialize"]>> /\ toClient = <<>>
      BY <1>1, <3>1 DEF Handshake
    <3>3. toServer' = <<>> /\ toClient' = <<[method |-> "capabilities"]>>
      BY <3>1, <3>2
    <3>. QED BY <1>1, <3>1, <3>2, <3>3 DEF Handshake
  <2>4. CASE UNCHANGED <<client, phase, toServer, toClient, reload>>
    BY <1>1, <2>4 DEF Handshake
  <2>. QED BY <1>1, <2>1, <2>2, <2>3, <2>4, Early
<1>2. CASE client \notin {"new", "starting"}
  <2>1. phase # "new" /\ \A i \in 1..Len(toClient) : toClient[i].method # "capabilities"
    BY <1>2 DEF Handshake
  <2>2. toClient \in Seq(ClientBound) /\ toServer \in Seq(ServerBound)
    BY DEF TypeOK, QueueTypes
  <2>3. client' \notin {"new", "starting"}
    <3>1. CASE Begin
      BY <1>2, <3>1 DEF Begin, Tell, clientVars, serverVars, caches
    <3>2. CASE Leave
      BY <1>2, <3>2 DEF Leave, Moves, Tell, clientVars, serverVars, caches
    <3>3. CASE SaveProjectFile
      BY <1>2, <3>3 DEF SaveProjectFile, Moves, Event, Tell, clientVars, serverVars, caches
    <3>4. CASE \E d \in Docs, t \in Texts : OpenDoc(d, t)
      BY <1>2, <3>4 DEF OpenDoc, Moves, Tell, clientVars, serverVars, caches
    <3>5. CASE \E d \in Docs, t \in Texts : ChangeDoc(d, t)
      BY <1>2, <3>5 DEF ChangeDoc, Moves, Tell, clientVars, serverVars, caches
    <3>6. CASE \E d \in Docs : CloseDoc(d)
      BY <1>2, <3>6 DEF CloseDoc, Moves, Tell, clientVars, serverVars, caches
    <3>7. CASE \E d \in Docs, kind \in Requests : Ask(d, kind)
      BY <1>2, <3>7 DEF Ask, Moves, Tell, clientVars, serverVars, caches
    <3>8. CASE HearCapabilities
      BY <1>2, <3>8 DEF HearCapabilities, Hears, Tell, clientVars, serverVars, caches
    <3>9. CASE HearRegistration
      BY <1>2, <3>9 DEF HearRegistration, Hears, Tell, clientVars, serverVars, caches
    <3>10. CASE HearDiagnostics
      BY <1>2, <3>10 DEF HearDiagnostics, Hears, clientVars, serverVars, caches
    <3>11. CASE HearAnswer
      BY <1>2, <3>11 DEF HearAnswer, Hears, clientVars, serverVars, caches
    <3>12. CASE HearGoodbye
      BY <1>2, <3>12 DEF HearGoodbye, Hears, Tell, clientVars, serverVars, caches
    <3>13. CASE Initialize
      BY <1>2, <3>13 DEF Initialize, Takes, Send, clientVars, serverVars, caches
    <3>14. CASE RegisterConfigWatcher
      BY <1>2, <3>14 DEF RegisterConfigWatcher, Takes, Send, clientVars, serverVars, caches
    <3>15. CASE OnDidOpenOrChange
      BY <1>2, <3>15 DEF OnDidOpenOrChange, Serves, Takes, clientVars, serverVars, caches
    <3>16. CASE OnDidClose
      BY <1>2, <3>16 DEF OnDidClose, Serves, Takes, Send, clientVars, serverVars, caches
    <3>17. CASE OnDidChangeWatchedFiles
      BY <1>2, <3>17 DEF OnDidChangeWatchedFiles, Serves, Takes, clientVars, serverVars, caches
    <3>18. CASE \E d \in Docs : Reanalyze(d)
      BY <1>2, <3>18 DEF Reanalyze, clientVars, serverVars, caches
    <3>19. CASE OnCodeAction
      BY <1>2, <3>19 DEF OnCodeAction, Serves, Takes, Respond, Send, clientVars, serverVars, caches
    <3>20. CASE OnDocumentSymbol
      BY <1>2, <3>20 DEF OnDocumentSymbol, Serves, Takes, Respond, Send, clientVars, serverVars,
         caches
    <3>21. CASE MethodNotFound
      BY <1>2, <3>21 DEF MethodNotFound, Serves, Takes, Respond, Send, clientVars, serverVars,
         caches
    <3>22. CASE IgnoreResponse
      BY <1>2, <3>22 DEF IgnoreResponse, Serves, Takes, clientVars, serverVars, caches
    <3>23. CASE HandleShutdown
      BY <1>2, <3>23 DEF HandleShutdown, Takes, Send, clientVars, serverVars, caches
    <3>24. CASE AwaitExit
      BY <1>2, <3>24 DEF AwaitExit, clientVars, serverVars, caches
    <3>25. CASE \E c \in Contents : SaveConfig(c)
      BY <1>2, <3>25 DEF SaveConfig, Event, Tell, clientVars, serverVars, caches
    <3>26. CASE UNCHANGED vars
      BY <1>2, <3>26 DEF vars, clientVars, serverVars, caches
    <3>. QED BY <3>1, <3>2, <3>3, <3>4, <3>5, <3>6, <3>7, <3>8, <3>9, <3>10, <3>11, <3>12, <3>13,
                <3>14, <3>15, <3>16, <3>17, <3>18, <3>19, <3>20, <3>21, <3>22, <3>23, <3>24, <3>25,
                <3>26 DEF Next, ClientMoves, ClientHears, ServerStep, Requests, Contents
  <2>4. phase' # "new"
    <3>1. CASE Begin
      BY <2>1, <3>1 DEF Begin, Tell, clientVars, serverVars, caches
    <3>2. CASE Leave
      BY <2>1, <3>2 DEF Leave, Moves, Tell, clientVars, serverVars, caches
    <3>3. CASE SaveProjectFile
      BY <2>1, <3>3 DEF SaveProjectFile, Moves, Event, Tell, clientVars, serverVars, caches
    <3>4. CASE \E d \in Docs, t \in Texts : OpenDoc(d, t)
      BY <2>1, <3>4 DEF OpenDoc, Moves, Tell, clientVars, serverVars, caches
    <3>5. CASE \E d \in Docs, t \in Texts : ChangeDoc(d, t)
      BY <2>1, <3>5 DEF ChangeDoc, Moves, Tell, clientVars, serverVars, caches
    <3>6. CASE \E d \in Docs : CloseDoc(d)
      BY <2>1, <3>6 DEF CloseDoc, Moves, Tell, clientVars, serverVars, caches
    <3>7. CASE \E d \in Docs, kind \in Requests : Ask(d, kind)
      BY <2>1, <3>7 DEF Ask, Moves, Tell, clientVars, serverVars, caches
    <3>8. CASE HearCapabilities
      BY <2>1, <3>8 DEF HearCapabilities, Hears, Tell, clientVars, serverVars, caches
    <3>9. CASE HearRegistration
      BY <2>1, <3>9 DEF HearRegistration, Hears, Tell, clientVars, serverVars, caches
    <3>10. CASE HearDiagnostics
      BY <2>1, <3>10 DEF HearDiagnostics, Hears, clientVars, serverVars, caches
    <3>11. CASE HearAnswer
      BY <2>1, <3>11 DEF HearAnswer, Hears, clientVars, serverVars, caches
    <3>12. CASE HearGoodbye
      BY <2>1, <3>12 DEF HearGoodbye, Hears, Tell, clientVars, serverVars, caches
    <3>13. CASE Initialize
      BY <2>1, <3>13 DEF Initialize, Takes, Send, clientVars, serverVars, caches
    <3>14. CASE RegisterConfigWatcher
      BY <2>1, <3>14 DEF RegisterConfigWatcher, Takes, Send, clientVars, serverVars, caches
    <3>15. CASE OnDidOpenOrChange
      BY <2>1, <3>15 DEF OnDidOpenOrChange, Serves, Takes, clientVars, serverVars, caches
    <3>16. CASE OnDidClose
      BY <2>1, <3>16 DEF OnDidClose, Serves, Takes, Send, clientVars, serverVars, caches
    <3>17. CASE OnDidChangeWatchedFiles
      BY <2>1, <3>17 DEF OnDidChangeWatchedFiles, Serves, Takes, clientVars, serverVars, caches
    <3>18. CASE \E d \in Docs : Reanalyze(d)
      BY <2>1, <3>18 DEF Reanalyze, clientVars, serverVars, caches
    <3>19. CASE OnCodeAction
      BY <2>1, <3>19 DEF OnCodeAction, Serves, Takes, Respond, Send, clientVars, serverVars, caches
    <3>20. CASE OnDocumentSymbol
      BY <2>1, <3>20 DEF OnDocumentSymbol, Serves, Takes, Respond, Send, clientVars, serverVars,
         caches
    <3>21. CASE MethodNotFound
      BY <2>1, <3>21 DEF MethodNotFound, Serves, Takes, Respond, Send, clientVars, serverVars,
         caches
    <3>22. CASE IgnoreResponse
      BY <2>1, <3>22 DEF IgnoreResponse, Serves, Takes, clientVars, serverVars, caches
    <3>23. CASE HandleShutdown
      BY <2>1, <3>23 DEF HandleShutdown, Takes, Send, clientVars, serverVars, caches
    <3>24. CASE AwaitExit
      BY <2>1, <3>24 DEF AwaitExit, clientVars, serverVars, caches
    <3>25. CASE \E c \in Contents : SaveConfig(c)
      BY <2>1, <3>25 DEF SaveConfig, Event, Tell, clientVars, serverVars, caches
    <3>26. CASE UNCHANGED vars
      BY <2>1, <3>26 DEF vars, clientVars, serverVars, caches
    <3>. QED BY <3>1, <3>2, <3>3, <3>4, <3>5, <3>6, <3>7, <3>8, <3>9, <3>10, <3>11, <3>12, <3>13,
                <3>14, <3>15, <3>16, <3>17, <3>18, <3>19, <3>20, <3>21, <3>22, <3>23, <3>24, <3>25,
                <3>26 DEF Next, ClientMoves, ClientHears, ServerStep, Requests, Contents
  <2>5. \/ UNCHANGED toClient
        \/ \E m \in ClientBound : m.method # "capabilities" /\ toClient' = Append(toClient, m)
        \/ toClient # <<>> /\ toClient' = Tail(toClient)
    <3>1. CASE Answered
      <4>1. PICK t \in Texts \cup {None}, u \in Texts \cup {None} :
              toClient' = Append(toClient, [method |-> "answer", id |-> toServer[1].id, text |-> t, source |-> u])
        BY <3>1, Answering DEF Answered
      <4>2. [method |-> "answer", id |-> toServer[1].id, text |-> t, source |-> u] \in ClientBound
        BY <3>1, <4>1, Answering, Messages DEF Answered
      <4>. QED BY <4>1, <4>2
    <3>2. CASE OnDidOpenOrChange
      <4>1. PICK f \in Found : toClient' = Append(toClient, [method |-> "publish", uri |-> toServer[1].uri, found |-> f])
        BY <3>2, Replacing, Analysed
      <4>2. [method |-> "publish", uri |-> toServer[1].uri, found |-> f] \in ClientBound
        BY <3>2, Replacing, Messages
      <4>. QED BY <4>1, <4>2
    <3>3. CASE OnDidClose
      <4>1. /\ toClient' = Append(toClient, [method |-> "publish", uri |-> toServer[1].uri, found |-> None])
            /\ [method |-> "publish", uri |-> toServer[1].uri, found |-> None] \in ClientBound
        BY <3>3, Closing, Messages
      <4>. QED BY <4>1
    <3>4. CASE \E d \in Docs : Reanalyze(d)
      <4>1. PICK d \in Docs : Reanalyze(d)
        BY <3>4
      <4>2. UNCHANGED disk /\ documents[d] \in Document /\ AnalyzeAndPublish(d, documents[d])
        BY <4>1, Reanalysing
      <4>3. PICK f \in Found : toClient' = Append(toClient, [method |-> "publish", uri |-> d, found |-> f])
        BY <4>2, Analysed
      <4>4. [method |-> "publish", uri |-> d, found |-> f] \in ClientBound
        BY Messages
      <4>. QED BY <4>3, <4>4
    <3>5. CASE RegisterConfigWatcher \/ HandleShutdown
      BY <3>5, Messages DEF RegisterConfigWatcher, HandleShutdown, Send
    <3>6. CASE Initialize
      BY <2>1, <3>6 DEF Initialize
    <3>7. CASE \/ HearCapabilities \/ HearRegistration \/ HearDiagnostics \/ HearAnswer \/ HearGoodbye
      BY <3>7 DEF HearCapabilities, HearRegistration, HearDiagnostics, HearAnswer, HearGoodbye,
         Hears
    <3>8. CASE Begin
      BY <3>8 DEF Begin, Tell, clientVars, serverVars, caches
    <3>9. CASE Leave
      BY <3>9 DEF Leave, Moves, Tell, clientVars, serverVars, caches
    <3>10. CASE SaveProjectFile
      BY <3>10 DEF SaveProjectFile, Moves, Event, Tell, clientVars, serverVars, caches
    <3>11. CASE \E d \in Docs, t \in Texts : OpenDoc(d, t)
      BY <3>11 DEF OpenDoc, Moves, Tell, clientVars, serverVars, caches
    <3>12. CASE \E d \in Docs, t \in Texts : ChangeDoc(d, t)
      BY <3>12 DEF ChangeDoc, Moves, Tell, clientVars, serverVars, caches
    <3>13. CASE \E d \in Docs : CloseDoc(d)
      BY <3>13 DEF CloseDoc, Moves, Tell, clientVars, serverVars, caches
    <3>14. CASE \E d \in Docs, kind \in Requests : Ask(d, kind)
      BY <3>14 DEF Ask, Moves, Tell, clientVars, serverVars, caches
    <3>15. CASE OnDidChangeWatchedFiles
      BY <3>15 DEF OnDidChangeWatchedFiles, Serves, Takes, clientVars, serverVars, caches
    <3>16. CASE IgnoreResponse
      BY <3>16 DEF IgnoreResponse, Serves, Takes, clientVars, serverVars, caches
    <3>17. CASE AwaitExit
      BY <3>17 DEF AwaitExit, clientVars, serverVars, caches
    <3>18. CASE \E c \in Contents : SaveConfig(c)
      BY <3>18 DEF SaveConfig, Event, Tell, clientVars, serverVars, caches
    <3>19. CASE UNCHANGED vars
      BY <3>19 DEF vars, clientVars, serverVars, caches
    <3>. QED BY <3>1, <3>2, <3>3, <3>4, <3>5, <3>6, <3>7, <3>8, <3>9, <3>10, <3>11, <3>12, <3>13,
                <3>14, <3>15, <3>16, <3>17, <3>18, <3>19 DEF Next, ClientMoves, ClientHears,
                ServerStep, Requests, Contents, Answered
  <2>6. \A i \in 1..Len(toClient') : toClient'[i].method # "capabilities"
    <3>1. CASE UNCHANGED toClient
      BY <2>1, <3>1
    <3>2. CASE \E m \in ClientBound : m.method # "capabilities" /\ toClient' = Append(toClient, m)
      <4>1. PICK m \in ClientBound : m.method # "capabilities" /\ toClient' = Append(toClient, m)
        BY <3>2
      <4>2. /\ Len(toClient) \in Nat /\ Len(toClient') = Len(toClient) + 1 /\ toClient'[Len(toClient')] = m
            /\ \A i \in 1..Len(toClient) : toClient'[i] = toClient[i]
        BY <2>2, <4>1, Added
      <4>. QED BY <2>1, <4>1, <4>2
    <3>3. CASE toClient # <<>> /\ toClient' = Tail(toClient)
      <4>1. /\ Len(toClient) \in Nat /\ Len(toClient') = Len(toClient) - 1
            /\ \A i \in 1..Len(toClient') : toClient'[i] = toClient[i + 1]
        BY <2>2, <3>3, Taken
      <4>. QED BY <2>1, <4>1
    <3>. QED BY <2>5, <3>1, <3>2, <3>3
  <2>. QED BY <2>3, <2>4, <2>6 DEF Handshake
<1>. QED BY <1>1, <1>2

\* What a step may do to the messages on their way to the server.
Resting == UNCHANGED <<client, phase, toServer>>

\* A message is sent to the server: after a shutdown only what ends the session.
Sending ==
  /\ UNCHANGED phase
  /\ \E m \in ServerBound :
       /\ toServer' = Append(toServer, m)
       /\ \/ m.method \in {"response", "exit"} /\ client' \in {client, "gone"}
          \/ m.method # "shutdown" /\ client \in {"new", "starting", "running"}
          \/ m.method = "shutdown" /\ client = "running" /\ client' = "leaving"

\* The server takes a message.
Taking ==
  /\ toServer # <<>> /\ toServer' = Tail(toServer) /\ UNCHANGED client
  /\ \/ phase' \in {phase, "starting", "running"} /\ phase \in {"new", "starting", "running"}
     \/ toServer[1].method = "shutdown" /\ phase' = "stopping"
     \/ phase = "stopping" /\ phase' \in {"exited", "failed"}

\* Every step is one of the three.
LEMMA Moving ==
  ASSUME TypeOK, Handshake, [Next]_vars
  PROVE  Resting \/ Sending \/ Taking
<1>1. /\ toClient # <<>> /\ toClient[1].method = "capabilities" => client = "starting"
      /\ toClient # <<>> => Len(toClient) \in Nat \ {0}
  <2>1. toClient # <<>> => Len(toClient) \in Nat \ {0} /\ 1 \in 1..Len(toClient)
    BY Taken DEF TypeOK, QueueTypes
  <2>. QED BY <2>1 DEF Handshake, TypeOK, ClientTypes
<1>2. CASE Begin
  BY <1>2, Messages DEF Begin, Tell, Sending, serverVars
<1>3. CASE Leave
  BY <1>3, Messages DEF Leave, Moves, Tell, Sending, serverVars
<1>4. CASE HearCapabilities
  <2>1. client = "starting"
    BY <1>1, <1>4, HeadHeard DEF HearCapabilities, TypeOK
  <2>. QED BY <1>4, <2>1, Messages DEF HearCapabilities, Tell, Sending, serverVars
<1>5. CASE HearRegistration
  BY <1>5, Messages DEF HearRegistration, Tell, Sending, serverVars
<1>6. CASE HearGoodbye
  BY <1>6, Messages DEF HearGoodbye, Tell, Sending, serverVars
<1>7. CASE SaveProjectFile
  BY <1>7, Messages DEF SaveProjectFile, Moves, Event, Tell, Sending, Resting, serverVars
<1>8. CASE \/ \E d \in Docs, t \in Texts : OpenDoc(d, t) \/ ChangeDoc(d, t)
           \/ \E d \in Docs : CloseDoc(d)
  <2>1. Edited
    BY <1>8, EditsAre DEF TypeOK
  <2>2. PICK d \in Docs, m \in ServerBound : IsEdit(m, d) /\ toServer' = Append(toServer, m)
    BY <2>1 DEF Edited
  <2>3. m.method # "shutdown"
    BY <2>2 DEF IsEdit, Edits
  <2>4. client = "running"
    BY <1>8, Zenon DEF OpenDoc, ChangeDoc, CloseDoc, Moves
  <2>. QED BY <2>1, <2>2, <2>3, <2>4 DEF Edited, Sending, serverVars
<1>9. CASE Asked
  <2>1. PICK d \in Docs, kind \in Requests : Ask(d, kind)
    BY <1>9 DEF Asked
  <2>2. /\ client = "running" /\ [method |-> kind, id |-> moves', uri |-> d] \in ServerBound
        /\ toServer' = Append(toServer, [method |-> kind, id |-> moves', uri |-> d]) /\ UNCHANGED serverVars
    BY <2>1, Asking DEF TypeOK
  <2>3. kind # "shutdown"
    BY DEF Requests
  <2>. QED BY <2>2, <2>3 DEF Sending, serverVars
<1>10. CASE Initialize \/ RegisterConfigWatcher
  <2>1. toServer # <<>> /\ toServer' = Tail(toServer)
    BY <1>10 DEF Initialize, RegisterConfigWatcher, Takes
  <2>. QED BY <1>10, <2>1 DEF Initialize, RegisterConfigWatcher, Taking, clientVars
<1>11. CASE HandleShutdown
  <2>1. toServer # <<>> /\ toServer' = Tail(toServer) /\ toServer[1].method = "shutdown"
    BY <1>11, HeadOf DEF HandleShutdown, TypeOK
  <2>. QED BY <1>11, <2>1 DEF HandleShutdown, Taking, clientVars
<1>12. CASE AwaitExit
  BY <1>12 DEF AwaitExit, Taking, clientVars
<1>13. CASE \/ Answered \/ OnDidOpenOrChange \/ OnDidClose \/ OnDidChangeWatchedFiles \/ IgnoreResponse
  <2>1. /\ toServer # <<>> /\ toServer' = Tail(toServer) /\ UNCHANGED <<client, phase>> /\ phase = "running"
    BY <1>13 DEF Answered, OnCodeAction, OnDocumentSymbol, MethodNotFound, OnDidOpenOrChange,
       OnDidClose,
                 OnDidChangeWatchedFiles, IgnoreResponse, Serves, Takes, clientVars
  <2>. QED BY <2>1 DEF Taking
<1>14. CASE \E d \in Docs : Reanalyze(d)
  BY <1>14 DEF Reanalyze, Resting, clientVars
<1>15. CASE HearDiagnostics \/ HearAnswer
  BY <1>15 DEF HearDiagnostics, HearAnswer, Resting, serverVars
<1>16. CASE \E c \in Contents : SaveConfig(c)
  BY <1>16 DEF SaveConfig, Event, Watched, Resting, serverVars
<1>17. CASE UNCHANGED vars
  BY <1>17 DEF vars, clientVars, serverVars, Resting
<1>. QED BY <1>2, <1>3, <1>4, <1>5, <1>6, <1>7, <1>8, <1>9, <1>10, <1>11, <1>12, <1>13, <1>14,
            <1>15,
            <1>16, <1>17
         DEF Next, ClientMoves, ClientHears, ServerStep, Contents, Requests, Asked, Answered

\* A client that leaves asks nothing more.
LEMMA EndingStep ==
  ASSUME TypeOK, Handshake, Ending, [Next]_vars
  PROVE  Ending'
<1>1. toServer \in Seq(ServerBound) /\ Len(toServer) \in Nat
  BY LenProperties DEF TypeOK, QueueTypes
<1>2. /\ client \in {"new", "starting", "running", "leaving", "gone"}
      /\ phase \in {"new", "starting", "running", "stopping", "exited", "failed"}
  BY DEF TypeOK, ClientTypes, ServerTypes
<1>3. CASE Resting
  BY <1>3 DEF Resting, Ending
<1>4. CASE Sending
  <2>1. PICK m \in ServerBound :
          /\ toServer' = Append(toServer, m)
          /\ \/ m.method \in {"response", "exit"} /\ client' \in {client, "gone"}
             \/ m.method # "shutdown" /\ client \in {"new", "starting", "running"}
             \/ m.method = "shutdown" /\ client = "running" /\ client' = "leaving"
    BY <1>4 DEF Sending
  <2>2. /\ Len(toServer') = Len(toServer) + 1 /\ toServer'[Len(toServer')] = m
        /\ \A i \in 1..Len(toServer) : toServer'[i] = toServer[i]
    BY <1>1, <2>1, Added
  <2>3. phase' = phase
    BY <1>4 DEF Sending
  <2>4. m.method \notin {"response", "exit"} =>
          /\ client \in {"new", "starting", "running"} /\ phase \in {"new", "starting", "running"}
          /\ \A i \in 1..Len(toServer) : toServer[i].method # "shutdown"
    BY <2>1 DEF Ending
  <2>5. client' \in {"new", "starting", "running"} =>
          m.method # "shutdown" /\ client \in {"new", "starting", "running"}
    BY <2>1
  <2>6. client' \in {"new", "starting", "running"} =>
          /\ phase' \in {"new", "starting", "running"}
          /\ \A i \in 1..Len(toServer') : toServer'[i].method # "shutdown"
    BY <1>1, <2>2, <2>3, <2>5 DEF Ending
  <2>7. \A i, j \in 1..Len(toServer') :
          i < j /\ toServer'[i].method = "shutdown" => toServer'[j].method \in {"response", "exit"}
    <3>. SUFFICES ASSUME NEW i \in 1..Len(toServer'), NEW j \in 1..Len(toServer'), i < j,
                         toServer'[i].method = "shutdown"
                  PROVE  toServer'[j].method \in {"response", "exit"}
      OBVIOUS
    <3>1. i \in 1..Len(toServer) /\ toServer[i].method = "shutdown"
      BY <1>1, <2>2
    <3>2. CASE j \in 1..Len(toServer)
      BY <2>2, <3>1, <3>2 DEF Ending
    <3>3. CASE j = Len(toServer')
      BY <2>2, <2>4, <3>1, <3>3
    <3>. QED BY <1>1, <2>2, <3>2, <3>3
  <2>8. phase' \in {"stopping", "exited", "failed"} =>
          \A i \in 1..Len(toServer') : toServer'[i].method \in {"response", "exit"}
    BY <1>1, <2>2, <2>3, <2>4 DEF Ending
  <2>. QED BY <2>6, <2>7, <2>8 DEF Ending
<1>5. CASE Taking
  <2>1. /\ Len(toServer) \in Nat \ {0} /\ Len(toServer') = Len(toServer) - 1
        /\ \A i \in 1..Len(toServer') : toServer'[i] = toServer[i + 1]
    BY <1>1, <1>5, Taken DEF Taking
  <2>2. \A i \in 1..Len(toServer') : i + 1 \in 1..Len(toServer)
    BY <2>1
  <2>3. 1 \in 1..Len(toServer) /\ client' = client
    BY <1>5, <2>1 DEF Taking
  <2>4. client' \in {"new", "starting", "running"} =>
          /\ phase' \in {"new", "starting", "running"}
          /\ \A i \in 1..Len(toServer') : toServer'[i].method # "shutdown"
    BY <1>5, <2>1, <2>2, <2>3 DEF Ending, Taking
  <2>5. \A i, j \in 1..Len(toServer') :
          i < j /\ toServer'[i].method = "shutdown" => toServer'[j].method \in {"response", "exit"}
    BY <2>1, <2>2 DEF Ending
  <2>6. phase' \in {"stopping", "exited", "failed"} =>
          \A i \in 1..Len(toServer') : toServer'[i].method \in {"response", "exit"}
    <3>1. CASE toServer[1].method = "shutdown"
      BY <2>1, <2>2, <2>3, <3>1 DEF Ending
    <3>2. CASE phase \in {"stopping", "exited", "failed"}
      BY <2>1, <2>2, <3>2 DEF Ending
    <3>. QED BY <1>2, <1>5, <3>1, <3>2 DEF Taking
  <2>. QED BY <2>4, <2>5, <2>6 DEF Ending
<1>. QED BY <1>3, <1>4, <1>5, Moving

\* The control of both sides.
BaseInv == TypeOK /\ Handshake /\ Ending

\* It holds at the start.
LEMMA InitBase == Init => BaseInv
<1>1. Init => Handshake /\ Ending
  BY DEF Init, Handshake, Ending
<1>. QED BY <1>1, InitTypes DEF BaseInv

\* A step keeps it.
LEMMA BaseStep == BaseInv /\ [Next]_vars => BaseInv'
BY TypeStep, HandshakeStep, EndingStep DEF BaseInv

\* Types and control, for every set of documents, texts and configs.
THEOREM TypeCorrect == Spec => []BaseInv
<1>. QED BY InitBase, BaseStep, PTL DEF Spec
-----------------------------------------------------------------------------
(* The profile of an analysis.                                             *)

\* A message that carries an analysis.
Published(m) == m.method = "publish" /\ m.found # None

\* What is sent is a signal, an answer, the closing of a document, or an
\* analysis that fits.
LEMMA Sends ==
  ASSUME TypeOK, Ending, [Next]_vars
  PROVE  \/ UNCHANGED toClient
         \/ toClient # <<>> /\ toClient' = Tail(toClient)
         \/ \E m \in ClientBound : toClient' = Append(toClient, m) /\ (Published(m) => Fitting(m.found))
<1>. DEFINE Sent == \E m \in ClientBound : toClient' = Append(toClient, m) /\ (Published(m) => Fitting(m.found))
<1>1. CASE Aside
  <2>1. \A k \in Signals : [method |-> k] \in ClientBound /\ ~Published([method |-> k])
    BY Messages DEF Signals, Published
  <2>. QED BY <1>1, <2>1 DEF Aside
<1>2. CASE Edited \/ Announced \/ Asked \/ OnDidChangeWatchedFiles
  BY <1>2 DEF Edited, Announced, Asked, Ask, OnDidChangeWatchedFiles
<1>3. CASE HearDiagnostics \/ HearAnswer
  BY <1>3 DEF HearDiagnostics, HearAnswer, Hears
<1>4. CASE Answered
  <2>1. PICK t \in Texts \cup {None}, u \in Texts \cup {None} :
          toClient' = Append(toClient, [method |-> "answer", id |-> toServer[1].id, text |-> t, source |-> u])
    BY <1>4, Answering DEF Answered
  <2>. DEFINE m == [method |-> "answer", id |-> toServer[1].id, text |-> t, source |-> u]
  <2>2. m \in ClientBound /\ ~Published(m)
    BY <1>4, Answering, Messages DEF Answered, Published
  <2>. QED BY <2>1, <2>2
<1>5. ASSUME NEW d \in Docs, NEW f \in Found \cup {None}, f # None => Fitting(f),
             toClient' = Append(toClient, [method |-> "publish", uri |-> d, found |-> f])
      PROVE  Sent
  <2>. DEFINE m == [method |-> "publish", uri |-> d, found |-> f]
  <2>1. m \in ClientBound /\ (Published(m) => f # None) /\ m.found = f
    BY Messages DEF Published
  <2>. HIDE DEF m
  <2>2. toClient' = Append(toClient, m)
    BY <1>5 DEF m
  <2>. QED BY <1>5, <2>1, <2>2
<1>6. CASE OnDidOpenOrChange
  <2>1. PICK f \in Found : /\ Fitting(f)
                           /\ toClient' = Append(toClient, [method |-> "publish", uri |-> toServer[1].uri, found |-> f])
    BY <1>6, Replacing, Analysed
  <2>2. toServer[1].uri \in Docs
    BY <1>6, Replacing
  <2>. HIDE DEF Sent
  <2>3. Sent
    BY <1>5, <2>1, <2>2
  <2>. QED BY <2>3 DEF Sent
<1>7. CASE OnDidClose
  <2>1. /\ toServer[1].uri \in Docs
        /\ toClient' = Append(toClient, [method |-> "publish", uri |-> toServer[1].uri, found |-> None])
    BY <1>7, Closing
  <2>. HIDE DEF Sent
  <2>2. Sent
    BY <1>5, <2>1
  <2>. QED BY <2>2 DEF Sent
<1>8. CASE \E d \in Docs : Reanalyze(d)
  <2>1. PICK d \in Docs : Reanalyze(d)
    BY <1>8
  <2>2. UNCHANGED disk /\ documents[d] \in Document /\ AnalyzeAndPublish(d, documents[d])
    BY <2>1, Reanalysing
  <2>3. PICK f \in Found : /\ Fitting(f)
                           /\ toClient' = Append(toClient, [method |-> "publish", uri |-> d, found |-> f])
    BY <2>2, Analysed
  <2>. HIDE DEF Sent
  <2>4. Sent
    BY <1>5, <2>3
  <2>. QED BY <2>4 DEF Sent
<1>. QED BY <1>1, <1>2, <1>3, <1>4, <1>6, <1>7, <1>8, Kinds

\* An analysis that fits goes on fitting: no content of rpmspec.toml is taken
\* back.
LEMMA FittingStays ==
  ASSUME ClientTypes, [Next]_vars, NEW f, Fitting(f)
  PROVE  Fitting(f)'
<1>1. /\ Now' \in Nat \ {0} /\ Now <= Now' /\ Now \in Nat \ {0}
      /\ \A g \in 1..Now : Effective(g)' = Effective(g)
  BY DiskGrows
<1>2. f.analysis.config \in 1..Now /\ f.analysis.profile \in 1..Now
      /\ Effective(f.analysis.profile) = Effective(f.analysis.config)
  BY DEF Fitting
<1>3. /\ Effective(f.analysis.profile)' = Effective(f.analysis.profile)
      /\ Effective(f.analysis.config)' = Effective(f.analysis.config)
  BY <1>1, <1>2
<1>4. f.analysis.config \in 1..Now' /\ f.analysis.profile \in 1..Now'
  BY <1>1, <1>2
<1>. QED BY <1>2, <1>3, <1>4 DEF Fitting

\* Every analysis on its way and on display goes on fitting.
LEMMA ProfileStep ==
  ASSUME TypeOK, Ending, ProfileInv, [Next]_vars
  PROVE  ProfileInv'
<1>1. ASSUME NEW f, Fitting(f)
      PROVE  LET c == f.analysis.config
                 p == f.analysis.profile
             IN  /\ c \in 1..Now' /\ p \in 1..Now'
                 /\ (IF disk'[p] \in Configs THEN disk'[p] ELSE "default")
                      = IF disk'[c] \in Configs THEN disk'[c] ELSE "default"
  BY <1>1, FittingStays DEF TypeOK, Fitting, Effective
<1>2. toClient \in Seq(ClientBound) /\ Len(toClient) \in Nat
  BY LenProperties DEF TypeOK, QueueTypes
<1>3. \A i \in 1..Len(toClient') : Published(toClient'[i]) => Fitting(toClient'[i].found)
  <2>1. \A i \in 1..Len(toClient) : Published(toClient[i]) => Fitting(toClient[i].found)
    BY DEF ProfileInv, Published
  <2>2. CASE UNCHANGED toClient
    BY <2>1, <2>2
  <2>3. CASE toClient # <<>> /\ toClient' = Tail(toClient)
    <3>1. /\ Len(toClient') = Len(toClient) - 1
          /\ \A i \in 1..Len(toClient') : toClient'[i] = toClient[i + 1]
      BY <1>2, <2>3, Taken
    <3>. QED BY <1>2, <2>1, <3>1
  <2>4. CASE \E m \in ClientBound : toClient' = Append(toClient, m) /\ (Published(m) => Fitting(m.found))
    <3>1. PICK m \in ClientBound : toClient' = Append(toClient, m) /\ (Published(m) => Fitting(m.found))
      BY <2>4
    <3>2. /\ Len(toClient') = Len(toClient) + 1 /\ toClient'[Len(toClient')] = m
          /\ \A i \in 1..Len(toClient) : toClient'[i] = toClient[i]
      BY <1>2, <3>1, Added
    <3>. QED BY <1>2, <2>1, <3>1, <3>2
  <2>. QED BY <2>2, <2>3, <2>4, Sends
<1>4. \A d \in Docs : shown'[d] # None => Fitting(shown'[d])
  <2>1. CASE HearDiagnostics
    <3>1. /\ toClient # <<>> /\ Head(toClient) = toClient[1] /\ toClient[1] \in ClientBound
          /\ toClient[1].method = "publish"
      BY <2>1, HeadHeard DEF HearDiagnostics, TypeOK
    <3>2. toClient[1].uri \in Docs /\ 1 \in 1..Len(toClient)
      BY <1>2, <3>1, ClientMessage, Taken
    <3>3. shown' = [shown EXCEPT ![toClient[1].uri] = toClient[1].found]
      BY <2>1, <3>1 DEF HearDiagnostics
    <3>4. toClient[1].found # None => Fitting(toClient[1].found)
      BY <3>1, <3>2 DEF ProfileInv
    <3>5. DOMAIN shown = Docs
      BY DEF TypeOK, ClientTypes
    <3>. QED BY <3>2, <3>3, <3>4, <3>5 DEF ProfileInv
  <2>2. CASE UNCHANGED shown
    BY <2>2 DEF ProfileInv
  <2>3. UNCHANGED shown \/ HearDiagnostics
    <3>1. Answered \/ (\E d \in Docs : Reanalyze(d)) => UNCHANGED shown
      BY Answering, Reanalysing DEF Answered, clientVars
    <3>. QED BY <3>1, Kinds DEF Aside, Edited, Announced, Asked, Ask, HearAnswer, OnDidOpenOrChange,
                OnDidClose,
                           OnDidChangeWatchedFiles, clientVars
  <2>. QED BY <2>1, <2>2, <2>3
<1>5. (\A d \in Docs : shown[d] # None => Fitting(shown[d]))'
  <2>. SUFFICES ASSUME NEW d \in Docs, shown'[d] # None PROVE Fitting(shown[d])'
    OBVIOUS
  <2>1. Fitting(shown'[d])
    BY <1>4
  <2>. QED BY <1>1, <2>1 DEF Fitting, Effective
<1>6. (\A i \in 1..Len(toClient) : Published(toClient[i]) => Fitting(toClient[i].found))'
  <2>. SUFFICES ASSUME NEW i \in 1..Len(toClient'), Published(toClient'[i]) PROVE Fitting(toClient[i].found)'
    BY DEF Published
  <2>1. Fitting(toClient'[i].found)
    BY <1>3
  <2>. QED BY <1>1, <2>1 DEF Fitting, Effective
<1>. QED BY <1>5, <1>6 DEF ProfileInv, Published

\* Every analysis shown uses the profile of its own config.
THEOREM ProfileOfItsConfig == Spec => []ProfileFitsConfig
<1>1. Init => ProfileInv
  BY DEF Init, ProfileInv
<1>2. BaseInv /\ ProfileInv /\ [Next]_vars => ProfileInv'
  BY ProfileStep DEF BaseInv
<1>3. ProfileInv => ProfileFitsConfig
  BY DEF ProfileInv, Fitting, ProfileFitsConfig
<1>. QED BY <1>1, <1>2, <1>3, TypeCorrect, PTL DEF Spec
-----------------------------------------------------------------------------
(* Requests.                                                               *)

\* The numbers in a queue with a message added.
LEMMA IdsAdded ==
  ASSUME NEW S, NEW q \in Seq(S), NEW m \in S, NEW r, r = Append(q, m), NEW methods
  PROVE  Ids(r, methods) = Ids(q, methods) \cup {n \in {m.id} : m.method \in methods}
<1>1. /\ Len(q) \in Nat /\ Len(r) = Len(q) + 1 /\ r[Len(r)] = m
      /\ \A i \in 1..Len(q) : r[i] = q[i]
  BY Added
<1>2. ASSUME NEW i \in 1..Len(r), r[i].method \in methods
      PROVE  r[i].id \in Ids(q, methods) \cup {n \in {m.id} : m.method \in methods}
  <2>1. CASE i = Len(r)
    BY <1>1, <1>2, <2>1
  <2>2. CASE i \in 1..Len(q)
    BY <1>1, <1>2, <2>2 DEF Ids
  <2>. QED BY <1>1, <2>1, <2>2
<1>3. ASSUME NEW i \in 1..Len(q), q[i].method \in methods PROVE q[i].id \in Ids(r, methods)
  <2>1. i \in 1..Len(r) /\ r[i] = q[i]
    BY <1>1
  <2>. QED BY <1>3, <2>1 DEF Ids
<1>4. m.method \in methods => m.id \in Ids(r, methods)
  <2>1. Len(r) \in 1..Len(r)
    BY <1>1
  <2>. QED BY <1>1, <2>1 DEF Ids
<1>. QED BY <1>2, <1>3, <1>4 DEF Ids

\* And with its first message taken.
LEMMA IdsTaken ==
  ASSUME NEW S, NEW q \in Seq(S), q # <<>>, NEW r, r = Tail(q), NEW methods
  PROVE  Ids(q, methods) = Ids(r, methods) \cup {n \in {q[1].id} : q[1].method \in methods}
<1>1. /\ Len(q) \in Nat \ {0} /\ Len(r) = Len(q) - 1
      /\ \A i \in 1..Len(r) : r[i] = q[i + 1]
  BY Taken
<1>2. ASSUME NEW i \in 1..Len(q), q[i].method \in methods
      PROVE  q[i].id \in Ids(r, methods) \cup {n \in {q[1].id} : q[1].method \in methods}
  <2>1. CASE i = 1
    BY <1>2, <2>1
  <2>2. CASE i # 1
    <3>1. i - 1 \in 1..Len(r) /\ r[i - 1] = q[i - 1 + 1] /\ i - 1 + 1 = i
      BY <1>1, <2>2
    <3>. QED BY <1>2, <3>1 DEF Ids
  <2>. QED BY <2>1, <2>2
<1>3. ASSUME NEW i \in 1..Len(r), r[i].method \in methods PROVE r[i].id \in Ids(q, methods)
  <2>1. i + 1 \in 1..Len(q) /\ r[i] = q[i + 1]
    BY <1>1
  <2>. QED BY <1>3, <2>1 DEF Ids
<1>4. q[1].method \in methods => q[1].id \in Ids(q, methods)
  <2>1. 1 \in 1..Len(q)
    BY <1>1
  <2>. QED BY <2>1 DEF Ids
<1>. QED BY <1>2, <1>3, <1>4 DEF Ids

\* A request stays on its way until it is answered, and its answer until it is
\* heard.
LEMMA RequestStep ==
  ASSUME TypeOK, Ending, RequestInv, [Next]_vars
  PROVE  RequestInv'
<1>. DEFINE S == Ids(toServer, Requests)
            C == Ids(toClient, {"answer"})
<1>1. toServer \in Seq(ServerBound) /\ toClient \in Seq(ClientBound) /\ moves \in Nat
  BY DEF TypeOK, QueueTypes, ClientTypes
<1>2. S \cup C \subseteq 0..moves /\ \A r \in pending : r.id \in S \cup C
  BY DEF RequestInv
<1>3. /\ \A m \in ServerBound : toServer' = Append(toServer, m) =>
           S' = S \cup {n \in {m.id} : m.method \in Requests}
      /\ toServer # <<>> /\ toServer' = Tail(toServer) =>
           S = S' \cup {n \in {toServer[1].id} : toServer[1].method \in Requests}
  BY <1>1, IdsAdded, IdsTaken
<1>4. /\ \A m \in ClientBound : toClient' = Append(toClient, m) =>
           C' = C \cup {n \in {m.id} : m.method \in {"answer"}}
      /\ toClient # <<>> /\ toClient' = Tail(toClient) =>
           C = C' \cup {n \in {toClient[1].id} : toClient[1].method \in {"answer"}}
  BY <1>1, IdsAdded, IdsTaken
<1>5. UNCHANGED toServer => S' = S
  OBVIOUS
<1>6. UNCHANGED toClient => C' = C
  OBVIOUS
<1>. HIDE DEF S, C
<1>7. ASSUME S' \cup C' = S \cup C, pending' \subseteq pending, moves' \in {moves, moves + 1}
      PROVE  RequestInv'
  <2>1. S' \cup C' \subseteq 0..moves' /\ \A r \in pending' : r.id \in S' \cup C'
    BY <1>1, <1>2, <1>7
  <2>. QED BY <2>1 DEF RequestInv, S, C
<1>8. CASE Aside
  <2>1. S' = S
    <3>1. CASE \E k \in Plain : toServer' = Append(toServer, [method |-> k])
      <4>1. PICK k \in Plain : toServer' = Append(toServer, [method |-> k])
        BY <3>1
      <4>2. [method |-> k] \in ServerBound /\ [method |-> k].method \notin Requests
        BY Messages DEF Plain, Requests
      <4>. QED BY <1>3, <4>1, <4>2
    <3>2. CASE toServer # <<>> /\ toServer[1].method \in Plain /\ toServer' = Tail(toServer)
      BY <1>3, <3>2 DEF Plain, Requests
    <3>. QED BY <1>5, <1>8, <3>1, <3>2 DEF Aside
  <2>2. C' = C
    <3>1. CASE \E k \in Signals : toClient' = Append(toClient, [method |-> k])
      <4>1. PICK k \in Signals : toClient' = Append(toClient, [method |-> k])
        BY <3>1
      <4>2. [method |-> k] \in ClientBound /\ [method |-> k].method # "answer"
        BY Messages DEF Signals
      <4>. QED BY <1>4, <4>1, <4>2
    <3>2. CASE toClient # <<>> /\ toClient[1].method \in Signals /\ toClient' = Tail(toClient)
      BY <1>4, <3>2 DEF Signals
    <3>. QED BY <1>6, <1>8, <3>1, <3>2 DEF Aside
  <2>. QED BY <1>7, <1>8, <2>1, <2>2 DEF Aside
<1>9. CASE Edited
  <2>1. PICK d \in Docs, m \in ServerBound : IsEdit(m, d) /\ toServer' = Append(toServer, m)
    BY <1>9 DEF Edited
  <2>2. S' = S
    BY <1>3, <2>1 DEF IsEdit, Edits, Requests
  <2>. QED BY <1>6, <1>7, <1>9, <2>2 DEF Edited
<1>10. CASE Announced
  <2>1. S' = S
    <3>1. [method |-> "didChangeWatchedFiles"] \in ServerBound
      BY Messages
    <3>. QED BY <1>3, <1>10, <3>1 DEF Announced, Requests
  <2>. QED BY <1>6, <1>7, <1>10, <2>1 DEF Announced
<1>11. CASE Asked
  <2>1. PICK d \in Docs, kind \in Requests : Ask(d, kind)
    BY <1>11 DEF Asked
  <2>. DEFINE m == [method |-> kind, id |-> moves', uri |-> d]
  <2>2. m \in ServerBound /\ toServer' = Append(toServer, m) /\ moves' = moves + 1 /\ UNCHANGED toClient
    BY <2>1, Asking DEF TypeOK
  <2>3. S' = S \cup {moves'} /\ C' = C
    <3>1. m.id = moves' /\ m.method \in Requests
      OBVIOUS
    <3>. HIDE DEF m
    <3>. QED BY <1>3, <1>6, <2>2, <3>1
  <2>4. pending' = pending \cup {[id |-> moves', uri |-> d, kind |-> kind, text |-> buffer[d].text]}
    BY <2>1, Asking DEF TypeOK
  <2>5. \A r \in pending' : r \in pending \/ r.id = moves'
    BY <2>4
  <2>6. S' \cup C' \subseteq 0..moves' /\ \A r \in pending' : r.id \in S' \cup C'
    <3>. HIDE DEF m
    <3>. QED BY <1>1, <1>2, <2>2, <2>3, <2>5
  <2>. QED BY <2>6 DEF RequestInv, S, C
<1>12. CASE Answered
  <2>1. PICK t \in Texts \cup {None}, u \in Texts \cup {None} :
          toClient' = Append(toClient, [method |-> "answer", id |-> toServer[1].id, text |-> t, source |-> u])
    BY <1>12, Answering DEF Answered
  <2>2. /\ toServer # <<>> /\ toServer' = Tail(toServer) /\ toServer[1].method \in Requests
        /\ toServer[1].id \in Nat /\ UNCHANGED clientVars
    BY <1>12, Answering DEF Answered
  <2>. DEFINE m == [method |-> "answer", id |-> toServer[1].id, text |-> t, source |-> u]
  <2>3. m \in ClientBound
    BY <2>2, Messages
  <2>4. C' = C \cup {toServer[1].id}
    <3>1. m.id = toServer[1].id /\ m.method = "answer"
      OBVIOUS
    <3>2. toClient' = Append(toClient, m)
      BY <2>1
    <3>. HIDE DEF m
    <3>. QED BY <1>4, <2>3, <3>1, <3>2
  <2>5. S = S' \cup {toServer[1].id}
    BY <1>3, <2>2
  <2>. QED BY <1>7, <2>2, <2>4, <2>5 DEF clientVars
<1>13. CASE HearDiagnostics
  <2>1. toClient # <<>> /\ toClient' = Tail(toClient) /\ toClient[1].method = "publish"
    BY <1>13, HeadHeard DEF HearDiagnostics, TypeOK
  <2>2. C' = C
    BY <1>4, <2>1
  <2>. QED BY <1>5, <1>7, <1>13, <2>2 DEF HearDiagnostics
<1>14. CASE HearAnswer
  <2>1. /\ toClient # <<>> /\ toClient' = Tail(toClient) /\ toClient[1].method = "answer"
        /\ Head(toClient) = toClient[1]
    BY <1>14, HeadHeard DEF HearAnswer, TypeOK
  <2>2. C = C' \cup {toClient[1].id}
    BY <1>4, <2>1
  <2>3. pending' = {r \in pending : r.id # toClient[1].id} /\ UNCHANGED <<moves, toServer>>
    BY <1>14, <2>1 DEF HearAnswer
  <2>4. S' \cup C' \subseteq 0..moves' /\ \A r \in pending' : r.id \in S' \cup C'
    BY <1>2, <1>5, <2>2, <2>3
  <2>. QED BY <2>4 DEF RequestInv, S, C
<1>15. ASSUME NEW d \in Docs, NEW f \in Found \cup {None},
              toClient' = Append(toClient, [method |-> "publish", uri |-> d, found |-> f])
       PROVE  C' = C
  <2>. DEFINE m == [method |-> "publish", uri |-> d, found |-> f]
  <2>1. m \in ClientBound /\ m.method = "publish"
    BY Messages
  <2>2. toClient' = Append(toClient, m)
    BY <1>15
  <2>. HIDE DEF m
  <2>. QED BY <1>4, <2>1, <2>2
<1>16. CASE OnDidOpenOrChange
  <2>1. PICK f \in Found : toClient' = Append(toClient, [method |-> "publish", uri |-> toServer[1].uri, found |-> f])
    BY <1>16, Replacing, Analysed
  <2>2. /\ toServer # <<>> /\ toServer' = Tail(toServer) /\ toServer[1].method \in {"didOpen", "didChange"}
        /\ toServer[1].uri \in Docs /\ UNCHANGED clientVars
    BY <1>16, Replacing
  <2>3. C' = C
    BY <1>15, <2>1, <2>2
  <2>4. S' = S
    BY <1>3, <2>2 DEF Requests
  <2>. QED BY <1>7, <2>2, <2>3, <2>4 DEF clientVars
<1>17. CASE OnDidClose
  <2>1. /\ toServer # <<>> /\ toServer' = Tail(toServer) /\ toServer[1].method = "didClose"
        /\ toServer[1].uri \in Docs /\ UNCHANGED clientVars
        /\ toClient' = Append(toClient, [method |-> "publish", uri |-> toServer[1].uri, found |-> None])
    BY <1>17, Closing
  <2>2. C' = C
    BY <1>15, <2>1
  <2>3. S' = S
    BY <1>3, <2>1 DEF Requests
  <2>. QED BY <1>7, <2>1, <2>2, <2>3 DEF clientVars
<1>18. CASE OnDidChangeWatchedFiles
  <2>1. toServer # <<>> /\ toServer' = Tail(toServer) /\ toServer[1].method = "didChangeWatchedFiles"
    BY <1>18, HeadOf DEF OnDidChangeWatchedFiles, Serves, TypeOK
  <2>2. S' = S
    BY <1>3, <2>1 DEF Requests
  <2>. QED BY <1>6, <1>7, <1>18, <2>2 DEF OnDidChangeWatchedFiles, clientVars
<1>19. CASE \E d \in Docs : Reanalyze(d)
  <2>1. PICK d \in Docs : Reanalyze(d)
    BY <1>19
  <2>2. /\ UNCHANGED <<clientVars, disk, toServer>>
        /\ documents[d] \in Document /\ AnalyzeAndPublish(d, documents[d])
    BY <2>1, Reanalysing
  <2>3. PICK f \in Found : toClient' = Append(toClient, [method |-> "publish", uri |-> d, found |-> f])
    BY <2>2, Analysed
  <2>4. C' = C
    BY <1>15, <2>3
  <2>. QED BY <1>5, <1>7, <2>2, <2>4 DEF clientVars
<1>. QED BY <1>8, <1>9, <1>10, <1>11, <1>12, <1>13, <1>14, <1>16, <1>17, <1>18, <1>19, Kinds

\* The inductive invariant of the requests.
THEOREM RequestsTracked == Spec => []RequestInv
<1>1. Init => RequestInv
  <2>1. \A methods : Ids(<<>>, methods) = {}
    BY DEF Ids
  <2>2. Init => toServer = <<>> /\ toClient = <<>> /\ pending = {}
    BY DEF Init
  <2>. QED BY <2>1, <2>2 DEF RequestInv
<1>2. BaseInv /\ RequestInv /\ [Next]_vars => RequestInv'
  BY RequestStep DEF BaseInv
<1>. QED BY <1>1, <1>2, TypeCorrect, PTL DEF Spec

\* With nothing on its way, every request has its answer, also those asked
\* right before the client left and those the server does not know.
THEOREM EveryRequestAnswered == Spec => []RequestsAnswered
<1>1. RequestInv => RequestsAnswered
  <2>1. \A methods : Ids(<<>>, methods) = {}
    BY DEF Ids
  <2>. QED BY <2>1 DEF RequestInv, RequestsAnswered
<1>. QED BY <1>1, RequestsTracked, PTL

-----------------------------------------------------------------------------
(* The texts the requests are about.                                       *)

\* Only the first n messages count.
LEMMA LeadsSame ==
  ASSUME NEW q, NEW r, NEW had, NEW d, NEW n \in Nat, NEW v,
         \A i \in 1..n : r[i] = q[i], Leads(q, had, d, n, v)
  PROVE  Leads(r, had, d, n, v)
BY DEF Leads

\* One more message, an edit of d, leaves what it says.
LEMMA LeadsEdit ==
  ASSUME NEW q, NEW had, NEW d, NEW n \in Nat, IsEdit(q[n + 1], d)
  PROVE  Leads(q, had, d, n + 1, View(q[n + 1]))
BY DEF Leads

\* One more message that is no edit of d changes nothing.
LEMMA LeadsOther ==
  ASSUME NEW q, NEW had, NEW d, NEW n \in Nat, NEW v, ~IsEdit(q[n + 1], d), Leads(q, had, d, n, v)
  PROVE  Leads(q, had, d, n + 1, v)
BY DEF Leads

\* The first message may be dealt with: what it makes of d is then what the
\* server has.
LEMMA LeadsTail ==
  ASSUME NEW q, NEW r, NEW had, NEW d, NEW n \in Nat, NEW v,
         \A i \in 1..n : r[i] = q[i + 1], Leads(q, had, d, n + 1, v)
  PROVE  Leads(r, IF IsEdit(q[1], d) THEN View(q[1]) ELSE had, d, n, v)
<1>. DEFINE h == IF IsEdit(q[1], d) THEN View(q[1]) ELSE had
<1>1. \A k \in 2..n + 1 : k - 1 \in 1..n /\ q[k] = r[k - 1]
  OBVIOUS
<1>2. ASSUME \A j \in 1..n : ~IsEdit(r[j], d) PROVE v = h
  <2>1. \A k \in 2..n + 1 : ~IsEdit(q[k], d)
    BY <1>1, <1>2
  <2>2. CASE IsEdit(q[1], d)
    BY <2>1, <2>2 DEF Leads
  <2>3. CASE ~IsEdit(q[1], d)
    <3>1. \A j \in 1..n + 1 : ~IsEdit(q[j], d)
      BY <2>1, <2>3
    <3>. QED BY <2>3, <3>1 DEF Leads
  <2>. QED BY <2>2, <2>3
<1>3. ASSUME NEW j \in 1..n, IsEdit(r[j], d), \A k \in j + 1..n : ~IsEdit(r[k], d)
      PROVE  v = View(r[j])
  <2>1. j + 1 \in 1..n + 1 /\ q[j + 1] = r[j]
    OBVIOUS
  <2>2. \A k \in (j + 1) + 1..n + 1 : ~IsEdit(q[k], d)
    BY <1>1, <1>3
  <2>. QED BY <1>3, <2>1, <2>2 DEF Leads
<1>. QED BY <1>2, <1>3 DEF Leads

\* A step that neither edits nor asks, and takes no message.
Unmoved ==
  /\ UNCHANGED <<buffer, toServer>> /\ pending' \subseteq pending
  /\ \A d \in Docs : UNCHANGED Had(d)

\* The client sends m: its buffers are what the messages sent make of them.
Posted(m) ==
  /\ toServer' = Append(toServer, m)
  /\ \A d \in Docs : UNCHANGED Had(d) /\ buffer'[d] = IF IsEdit(m, d) THEN View(m) ELSE buffer[d]
  /\ m.method \notin Requests => pending' \subseteq pending
  /\ m.method \in Requests => Asked

\* The server takes its next message and makes of a document what it says.
Received ==
  /\ toServer # <<>> /\ toServer' = Tail(toServer)
  /\ UNCHANGED buffer /\ pending' \subseteq pending
  /\ \A d \in Docs : Had(d)' = IF IsEdit(toServer[1], d) THEN View(toServer[1]) ELSE Had(d)

\* Every step is one of the three.
LEMMA Following ==
  ASSUME TypeOK, Ending, [Next]_vars
  PROVE  Unmoved \/ Received \/ \E m \in ServerBound : Posted(m)
<1>1. ASSUME UNCHANGED documents PROVE \A d \in Docs : UNCHANGED Had(d)
  BY <1>1 DEF Had
<1>2. ASSUME UNCHANGED <<documents, buffer>>, pending' \subseteq pending, NEW m \in ServerBound,
             m.method \notin Edits \cup Requests, toServer' = Append(toServer, m)
      PROVE  Posted(m)
  BY <1>1, <1>2 DEF Posted, IsEdit
<1>3. ASSUME UNCHANGED buffer, pending' \subseteq pending, \A d \in Docs : UNCHANGED Had(d),
             toServer # <<>>, toServer[1].method \notin Edits, toServer' = Tail(toServer)
      PROVE  Received
  BY <1>3 DEF Received, IsEdit
<1>4. CASE Aside
  <2>1. UNCHANGED <<documents, buffer, pending>> /\ pending' \subseteq pending
    BY <1>4 DEF Aside
  <2>2. CASE UNCHANGED toServer
    BY <1>1, <2>1, <2>2 DEF Unmoved
  <2>3. CASE \E k \in Plain : toServer' = Append(toServer, [method |-> k])
    <3>1. PICK k \in Plain : toServer' = Append(toServer, [method |-> k])
      BY <2>3
    <3>2. [method |-> k] \in ServerBound /\ [method |-> k].method \notin Edits \cup Requests
      BY Messages DEF Plain, Edits, Requests
    <3>. QED BY <1>2, <2>1, <3>1, <3>2
  <2>4. CASE toServer # <<>> /\ toServer[1].method \in Plain /\ toServer' = Tail(toServer)
    <3>1. toServer[1].method \notin Edits
      BY <2>4 DEF Plain, Edits
    <3>. QED BY <1>1, <1>3, <2>1, <2>4, <3>1
  <2>. QED BY <1>4, <2>2, <2>3, <2>4 DEF Aside
<1>5. CASE Edited
  <2>1. PICK e \in Docs, m \in ServerBound :
          /\ IsEdit(m, e) /\ toServer' = Append(toServer, m) /\ buffer' = [buffer EXCEPT ![e] = View(m)]
    BY <1>5 DEF Edited
  <2>2. UNCHANGED <<documents, pending>>
    BY <1>5 DEF Edited, serverVars
  <2>3. DOMAIN buffer = Docs
    BY DEF TypeOK, ClientTypes
  <2>4. m.method \notin Requests /\ \A d \in Docs : IsEdit(m, d) <=> d = e
    BY <2>1 DEF IsEdit, Edits, Requests
  <2>5. \A d \in Docs : buffer'[d] = IF IsEdit(m, d) THEN View(m) ELSE buffer[d]
    BY <2>1, <2>3, <2>4
  <2>6. Posted(m)
    BY <1>1, <2>1, <2>2, <2>4, <2>5 DEF Posted
  <2>. QED BY <2>6
<1>6. CASE Announced
  <2>. DEFINE m == [method |-> "didChangeWatchedFiles"]
  <2>1. m \in ServerBound /\ m.method \notin Edits \cup Requests
    BY Messages DEF Edits, Requests
  <2>2. toServer' = Append(toServer, m) /\ UNCHANGED <<documents, buffer, pending>>
    BY <1>6 DEF Announced, serverVars
  <2>. HIDE DEF m
  <2>. QED BY <1>2, <2>1, <2>2
<1>7. CASE Asked
  <2>1. PICK e \in Docs, kind \in Requests : Ask(e, kind)
    BY <1>7 DEF Asked
  <2>. DEFINE m == [method |-> kind, id |-> moves', uri |-> e]
  <2>2. m \in ServerBound /\ toServer' = Append(toServer, m) /\ UNCHANGED <<buffer, documents>>
    BY <2>1, Asking DEF TypeOK, serverVars
  <2>3. m.method \in Requests /\ m.method \notin Edits
    BY DEF Requests, Edits
  <2>. HIDE DEF m
  <2>4. Posted(m)
    BY <1>1, <1>7, <2>2, <2>3 DEF Posted, IsEdit
  <2>. QED BY <2>2, <2>4
<1>8. CASE Answered
  <2>1. /\ toServer # <<>> /\ toServer' = Tail(toServer) /\ toServer[1].method \in Requests
        /\ UNCHANGED clientVars
        /\ \A e \in Docs : /\ documents'[e] = None <=> documents[e] = None
                           /\ documents[e] # None => /\ documents'[e].text = documents[e].text
                                                     /\ documents'[e].version = documents[e].version
    BY <1>8, Answering DEF Answered
  <2>2. \A d \in Docs : UNCHANGED Had(d)
    BY <2>1 DEF Had
  <2>3. toServer[1].method \notin Edits
    BY <2>1 DEF Requests, Edits
  <2>. QED BY <1>3, <2>1, <2>2, <2>3 DEF clientVars
<1>9. CASE HearDiagnostics \/ HearAnswer
  <2>1. UNCHANGED <<documents, buffer, toServer>> /\ pending' \subseteq pending
    BY <1>9 DEF HearDiagnostics, HearAnswer, serverVars
  <2>. QED BY <1>1, <2>1 DEF Unmoved
<1>10. ASSUME NEW e \in Docs, NEW doc, documents' = [documents EXCEPT ![e] = doc],
              IsEdit(toServer[1], e), toServer # <<>>, toServer' = Tail(toServer), UNCHANGED clientVars,
              View(toServer[1]) = IF doc = None THEN None ELSE [text |-> doc.text, version |-> doc.version]
       PROVE  Received
  <2>1. DOMAIN documents = Docs
    BY DEF TypeOK, ServerTypes
  <2>2. \A d \in Docs : IsEdit(toServer[1], d) <=> d = e
    BY <1>10 DEF IsEdit
  <2>3. Had(e)' = View(toServer[1])
    BY <1>10, <2>1 DEF Had
  <2>4. \A d \in Docs : d # e => Had(d)' = Had(d)
    BY <1>10, <2>1 DEF Had
  <2>5. UNCHANGED <<buffer, pending>>
    BY <1>10 DEF clientVars
  <2>. QED BY <1>10, <2>2, <2>3, <2>4, <2>5 DEF Received
<1>11. CASE OnDidOpenOrChange
  <2>. DEFINE m == toServer[1]
  <2>1. /\ toServer # <<>> /\ toServer' = Tail(toServer) /\ m.method \in {"didOpen", "didChange"}
        /\ m.uri \in Docs /\ Replaced(m) \in Document
        /\ documents' = [documents EXCEPT ![m.uri] = Replaced(m)] /\ UNCHANGED clientVars
    BY <1>11, Replacing
  <2>2. Replaced(m) # None /\ Replaced(m).text = m.text /\ Replaced(m).version = m.version
    BY <2>1, LspAssumption DEF Replaced
  <2>3. IsEdit(m, m.uri) /\ View(m) = [text |-> m.text, version |-> m.version]
    BY <2>1 DEF IsEdit, View, Edits
  <2>. HIDE DEF m
  <2>4. View(m) = IF Replaced(m) = None THEN None
                  ELSE [text |-> Replaced(m).text, version |-> Replaced(m).version]
    BY <2>2, <2>3
  <2>5. Received
    BY <1>10, <2>1, <2>3, <2>4 DEF m
  <2>. QED BY <2>5
<1>12. CASE OnDidClose
  <2>. DEFINE m == toServer[1]
  <2>1. /\ toServer # <<>> /\ toServer' = Tail(toServer) /\ m.method = "didClose" /\ m.uri \in Docs
        /\ documents' = [documents EXCEPT ![m.uri] = None] /\ UNCHANGED clientVars
    BY <1>12, Closing
  <2>2. IsEdit(m, m.uri) /\ View(m) = None
    BY <2>1 DEF IsEdit, View, Edits
  <2>3. Received
    BY <1>10, <2>1, <2>2
  <2>. QED BY <2>3
<1>13. CASE OnDidChangeWatchedFiles
  <2>1. /\ toServer # <<>> /\ toServer' = Tail(toServer)
        /\ toServer[1].method = "didChangeWatchedFiles"
    BY <1>13, HeadOf DEF OnDidChangeWatchedFiles, Serves, TypeOK
  <2>2. UNCHANGED <<documents, buffer, pending>>
    BY <1>13 DEF OnDidChangeWatchedFiles, clientVars
  <2>3. toServer[1].method \notin Edits
    BY <2>1 DEF Edits
  <2>. QED BY <1>1, <1>3, <2>1, <2>2, <2>3
<1>14. CASE \E d \in Docs : Reanalyze(d)
  <2>1. UNCHANGED <<documents, toServer, buffer, pending>>
    BY <1>14, Reanalysing DEF clientVars
  <2>. QED BY <1>1, <2>1 DEF Unmoved
<1>. QED BY <1>4, <1>5, <1>6, <1>7, <1>8, <1>9, <1>11, <1>12, <1>13, <1>14, Kinds

\* What the server will have after n messages it will have however the queue
\* moves: after n still, or after n - 1 when one has been taken.
LEMMA ReachesStays ==
  ASSUME TypeOK, NEW d \in Docs, NEW n \in 0..Len(toServer), NEW v, Reaches(d, n, v)
  PROVE  /\ Unmoved => Reaches(d, n, v)'
         /\ \A m \in ServerBound : Posted(m) => Reaches(d, n, v)'
         /\ Received /\ n > 0 => Reaches(d, n - 1, v)'
<1>1. toServer \in Seq(ServerBound) /\ Len(toServer) \in Nat /\ n \in Nat
  BY LenProperties DEF TypeOK, QueueTypes
<1>2. Leads(toServer, Had(d), d, n, v)
  BY DEF Reaches
<1>3. ASSUME Unmoved PROVE Leads(toServer', Had(d)', d, n, v)
  BY <1>2, <1>3 DEF Unmoved
<1>4. ASSUME NEW m \in ServerBound, Posted(m) PROVE Leads(toServer', Had(d)', d, n, v)
  <2>1. toServer' = Append(toServer, m) /\ Had(d)' = Had(d)
    BY <1>4 DEF Posted
  <2>2. \A i \in 1..n : toServer'[i] = toServer[i]
    BY <1>1, <2>1, Added
  <2>3. Leads(toServer', Had(d), d, n, v)
    BY <1>1, <1>2, <2>2, LeadsSame
  <2>. QED BY <2>1, <2>3
<1>5. ASSUME Received, n > 0 PROVE Leads(toServer', Had(d)', d, n - 1, v)
  <2>1. /\ toServer # <<>> /\ toServer' = Tail(toServer)
        /\ Had(d)' = IF IsEdit(toServer[1], d) THEN View(toServer[1]) ELSE Had(d)
    BY <1>5 DEF Received
  <2>2. Len(toServer') = Len(toServer) - 1 /\ \A i \in 1..Len(toServer') : toServer'[i] = toServer[i + 1]
    BY <1>1, <2>1, Taken
  <2>3. n - 1 \in Nat /\ (n - 1) + 1 = n /\ \A i \in 1..n - 1 : toServer'[i] = toServer[i + 1]
    BY <1>1, <1>5, <2>2
  <2>4. Leads(toServer', IF IsEdit(toServer[1], d) THEN View(toServer[1]) ELSE Had(d), d, n - 1, v)
    BY <1>2, <2>3, LeadsTail
  <2>. QED BY <2>1, <2>4
<1>. QED BY <1>3, <1>4, <1>5 DEF Reaches

\* The buffers are what the messages sent make of the documents.
LEMMA BuffersStep ==
  ASSUME TypeOK, Ending, BuffersReached, [Next]_vars
  PROVE  BuffersReached'
<1>. SUFFICES ASSUME NEW d \in Docs PROVE Reaches(d, Len(toServer), buffer[d])'
  BY DEF BuffersReached
<1>1. toServer \in Seq(ServerBound) /\ Len(toServer) \in 0..Len(toServer) /\ Len(toServer) \in Nat
  BY LenProperties DEF TypeOK, QueueTypes
<1>2. Reaches(d, Len(toServer), buffer[d]) /\ Leads(toServer, Had(d), d, Len(toServer), buffer[d])
  BY DEF BuffersReached, Reaches
<1>3. Leads(toServer', Had(d)', d, Len(toServer'), buffer'[d])
  <2>1. CASE Unmoved
    BY <1>2, <2>1 DEF Unmoved
  <2>2. CASE Received
    <3>1. /\ toServer # <<>> /\ toServer' = Tail(toServer) /\ buffer' = buffer
          /\ Had(d)' = IF IsEdit(toServer[1], d) THEN View(toServer[1]) ELSE Had(d)
      BY <2>2 DEF Received
    <3>2. /\ Len(toServer') = Len(toServer) - 1 /\ Len(toServer) \in Nat \ {0}
          /\ \A i \in 1..Len(toServer') : toServer'[i] = toServer[i + 1]
      BY <1>1, <3>1, Taken
    <3>3. Len(toServer') \in Nat /\ Leads(toServer, Had(d), d, Len(toServer') + 1, buffer[d])
      BY <1>2, <3>2
    <3>4. Leads(toServer', IF IsEdit(toServer[1], d) THEN View(toServer[1]) ELSE Had(d), d,
                Len(toServer'), buffer[d])
      BY <3>2, <3>3, LeadsTail
    <3>. QED BY <3>1, <3>4
  <2>3. CASE \E m \in ServerBound : Posted(m)
    <3>1. PICK m \in ServerBound : Posted(m)
      BY <2>3
    <3>2. /\ toServer' = Append(toServer, m) /\ Had(d)' = Had(d)
          /\ buffer'[d] = IF IsEdit(m, d) THEN View(m) ELSE buffer[d]
      BY <3>1 DEF Posted
    <3>3. /\ Len(toServer') = Len(toServer) + 1 /\ toServer'[Len(toServer) + 1] = m
          /\ \A i \in 1..Len(toServer) : toServer'[i] = toServer[i]
      BY <1>1, <3>2, Added
    <3>4. Leads(toServer', Had(d), d, Len(toServer), buffer[d])
      BY <1>1, <1>2, <3>3, LeadsSame
    <3>5. CASE IsEdit(m, d)
      BY <1>1, <3>2, <3>3, <3>5, LeadsEdit
    <3>6. CASE ~IsEdit(m, d)
      BY <1>1, <3>2, <3>3, <3>4, <3>6, LeadsOther
    <3>. QED BY <3>5, <3>6
  <2>. QED BY <2>1, <2>2, <2>3, Following
<1>. QED BY <1>3 DEF Reaches

\* The number of a request that is asked is new to the queues and to the
\* requests without an answer.
LEMMA NumberIsNew ==
  ASSUME TypeOK, RequestInv
  PROVE  /\ \A i \in 1..Len(toServer) : toServer[i].method \in Requests => toServer[i].id # moves + 1
         /\ \A i \in 1..Len(toClient) : toClient[i].method = "answer" => toClient[i].id # moves + 1
         /\ \A r \in pending : r.id # moves + 1
<1>1. moves \in Nat /\ \A n \in 0..moves : n # moves + 1
  BY DEF TypeOK, ClientTypes
<1>2. \A i \in 1..Len(toServer) : toServer[i].method \in Requests => toServer[i].id \in Ids(toServer, Requests)
  BY DEF Ids
<1>3. \A i \in 1..Len(toClient) : toClient[i].method = "answer" => toClient[i].id \in Ids(toClient, {"answer"})
  BY DEF Ids
<1>. QED BY <1>1, <1>2, <1>3 DEF RequestInv

\* A request is still to arrive where the server has its text.
LEMMA AsksStep ==
  ASSUME TypeOK, Ending, RequestInv, BuffersReached, AsksReached, [Next]_vars
  PROVE  AsksReached'
<1>. SUFFICES ASSUME NEW i \in 1..Len(toServer'), NEW r \in pending',
                     toServer'[i].method \in Requests, toServer'[i].id = r.id
              PROVE  /\ toServer'[i].uri = r.uri /\ toServer'[i].method = r.kind
                     /\ Finds(i, r.uri, r.text)'
  BY DEF AsksReached
<1>1. toServer \in Seq(ServerBound) /\ Len(toServer) \in Nat /\ i \in Nat \ {0}
  BY LenProperties DEF TypeOK, QueueTypes
<1>2. \A s \in pending : s.uri \in Docs
  BY DEF TypeOK, ClientTypes
<1>3. ASSUME r \in pending, NEW j \in 1..Len(toServer), toServer[j] = toServer'[i],
             \A v : Reaches(r.uri, j - 1, v) => Reaches(r.uri, i - 1, v)'
      PROVE  /\ toServer'[i].uri = r.uri /\ toServer'[i].method = r.kind
             /\ Finds(i, r.uri, r.text)'
  <2>1. /\ toServer[j].uri = r.uri /\ toServer[j].method = r.kind
        /\ Finds(j, r.uri, r.text)
    BY <1>3 DEF AsksReached
  <2>. QED BY <1>3, <2>1 DEF Finds
<1>4. CASE Unmoved
  <2>1. toServer' = toServer /\ r \in pending /\ r.uri \in Docs /\ i - 1 \in 0..Len(toServer)
    BY <1>1, <1>2, <1>4 DEF Unmoved
  <2>2. \A v : Reaches(r.uri, i - 1, v) => Reaches(r.uri, i - 1, v)'
    BY <1>4, <2>1, ReachesStays
  <2>. QED BY <1>3, <2>1, <2>2
<1>5. CASE Received
  <2>1. toServer # <<>> /\ toServer' = Tail(toServer) /\ r \in pending
    BY <1>5 DEF Received
  <2>2. i + 1 \in 1..Len(toServer) /\ toServer'[i] = toServer[i + 1] /\ (i + 1) - 1 = i /\ i \in 0..Len(toServer)
    BY <1>1, <2>1, Taken
  <2>3. \A v : Reaches(r.uri, (i + 1) - 1, v) => Reaches(r.uri, i - 1, v)'
    BY <1>1, <1>2, <1>5, <2>1, <2>2, ReachesStays
  <2>. QED BY <1>3, <2>1, <2>2, <2>3
<1>6. CASE \E m \in ServerBound : Posted(m)
  <2>1. PICK m \in ServerBound : Posted(m)
    BY <1>6
  <2>2. /\ toServer' = Append(toServer, m)
        /\ m.method \notin Requests => pending' \subseteq pending
        /\ m.method \in Requests => Asked
    BY <2>1 DEF Posted
  <2>3. /\ Len(toServer') = Len(toServer) + 1 /\ toServer'[Len(toServer')] = m
        /\ \A j \in 1..Len(toServer) : toServer'[j] = toServer[j]
    BY <1>1, <2>2, Added
  <2>4. CASE r \in pending /\ i \in 1..Len(toServer)
    <3>1. r.uri \in Docs /\ i - 1 \in 0..Len(toServer)
      BY <1>1, <1>2, <2>4
    <3>2. \A v : Reaches(r.uri, i - 1, v) => Reaches(r.uri, i - 1, v)'
      BY <2>1, <3>1, ReachesStays
    <3>. QED BY <1>3, <2>3, <2>4, <3>2
  <2>5. CASE ~(r \in pending /\ i \in 1..Len(toServer))
    <3>1. m.method \in Requests
      BY <1>1, <2>2, <2>3, <2>5
    <3>2. PICK d \in Docs, kind \in Requests : Ask(d, kind)
      BY <2>2, <3>1 DEF Asked
    <3>. DEFINE ask == [method |-> kind, id |-> moves', uri |-> d]
                new == [id |-> moves', uri |-> d, kind |-> kind, text |-> buffer[d].text]
    <3>3. /\ moves' = moves + 1 /\ buffer[d] \in Buffer
          /\ toServer' = Append(toServer, ask) /\ ask \in ServerBound
          /\ pending' = pending \cup {new}
      BY <3>2, Asking DEF TypeOK
    <3>4. ask.id = moves + 1 /\ ask.uri = d /\ ask.method = kind
      BY <3>3
    <3>5. new.id = moves + 1 /\ new.uri = d /\ new.kind = kind /\ new.text = buffer[d].text
      BY <3>3
    <3>. HIDE DEF ask, new
    <3>6. m = ask
      BY <1>1, <2>2, <2>3, <3>3, Added
    <3>7. r = new /\ i = Len(toServer) + 1
      <4>1. r \in pending => r.id # moves + 1
        BY NumberIsNew
      <4>2. i \in 1..Len(toServer) => toServer'[i].id # moves + 1
        BY <2>3, NumberIsNew
      <4>3. i \in 1..Len(toServer) \/ i = Len(toServer')
        BY <1>1, <2>3
      <4>4. i = Len(toServer') => r.id = moves + 1
        BY <2>3, <3>4, <3>6
      <4>5. r = new => r.id = moves + 1
        BY <3>5
      <4>. QED BY <2>3, <2>5, <3>3, <4>1, <4>2, <4>3, <4>4, <4>5
    <3>8. Reaches(d, Len(toServer), buffer[d])
      BY DEF BuffersReached
    <3>9. Len(toServer) \in 0..Len(toServer) /\ i - 1 = Len(toServer)
      BY <1>1, <3>7
    <3>10. Reaches(d, i - 1, buffer[d])'
      <4>1. \A v : Reaches(d, Len(toServer), v) => Leads(toServer', Had(d)', d, Len(toServer), v)
        BY <2>1, <3>9, ReachesStays DEF Reaches
      <4>2. UNCHANGED buffer
        BY <3>2, Asking DEF TypeOK
      <4>. QED BY <3>8, <3>9, <4>1, <4>2 DEF Reaches
    <3>11. buffer' = buffer
      BY <3>2, Asking DEF TypeOK
    <3>12. Finds(i, d, buffer[d].text)'
      BY <3>3, <3>10, <3>11 DEF Finds
    <3>. QED BY <2>3, <3>4, <3>5, <3>6, <3>7, <3>11, <3>12
  <2>. QED BY <2>4, <2>5
<1>. QED BY <1>4, <1>5, <1>6, Following

\* What is kept of a document stays of its text: a replaced one is parsed and
\* analysed anew, a closed one forgotten, and a reload takes every analysis.
LEMMA DerivedStep ==
  ASSUME TypeOK, Ending, Derived, [Next]_vars
  PROVE  Derived'
<1>1. /\ documents \in [Docs -> Document \cup {None}] /\ analyses \in [Docs -> Analysis \cup {None}]
      /\ \A f \in Found : f.analysis # None
  BY LspAssumption DEF TypeOK, ServerTypes, Found
<1>2. \A d \in Docs : documents[d] # None =>
        /\ documents[d].parsed \in {None, documents[d].text}
        /\ d \notin reload => analyses[d] # None /\ analyses[d].text = documents[d].text
  BY DEF Derived
<1>3. CASE UNCHANGED <<documents, analyses, reload>>
  BY <1>3 DEF Derived
<1>4. CASE Answered
  <2>1. /\ UNCHANGED <<analyses, reload>>
        /\ \A e \in Docs :
             /\ documents'[e] = None <=> documents[e] = None
             /\ documents[e] # None =>
                  /\ documents'[e].text = documents[e].text
                  /\ documents'[e].parsed \in {documents[e].parsed, Parsed(documents[e])}
    BY <1>4, Answering DEF Answered
  <2>2. \A e \in Docs : documents[e] # None => documents'[e].parsed \in {None, documents[e].text}
    BY <1>2, <2>1 DEF Parsed
  <2>. QED BY <1>2, <2>1, <2>2 DEF Derived
<1>5. CASE OnDidOpenOrChange
  <2>. DEFINE m == toServer[1]
  <2>1. /\ m.uri \in Docs /\ Replaced(m) \in Document /\ AnalyzeAndPublish(m.uri, Replaced(m))
        /\ documents' = [documents EXCEPT ![m.uri] = Replaced(m)] /\ UNCHANGED <<disk, reload>>
    BY <1>5, Replacing
  <2>2. PICK f \in Found : /\ f.analysis.text = Replaced(m).text
                           /\ analyses' = [analyses EXCEPT ![m.uri] = f.analysis]
    BY <2>1, Analysed
  <2>3. Replaced(m).parsed = None
    BY DEF Replaced
  <2>4. documents'[m.uri] = Replaced(m) /\ analyses'[m.uri] = f.analysis
    BY <1>1, <2>1, <2>2
  <2>5. \A d \in Docs : d # m.uri => documents'[d] = documents[d] /\ analyses'[d] = analyses[d]
    BY <1>1, <2>1, <2>2
  <2>. HIDE DEF m
  <2>. QED BY <1>1, <1>2, <2>1, <2>2, <2>3, <2>4, <2>5 DEF Derived
<1>6. CASE OnDidClose
  <2>. DEFINE e == toServer[1].uri
  <2>1. /\ e \in Docs /\ documents' = [documents EXCEPT ![e] = None]
        /\ analyses' = [analyses EXCEPT ![e] = None] /\ UNCHANGED reload
    BY <1>6, Closing
  <2>. HIDE DEF e
  <2>2. documents'[e] = None
    BY <1>1, <2>1
  <2>3. \A d \in Docs : d # e => documents'[d] = documents[d] /\ analyses'[d] = analyses[d]
    BY <1>1, <2>1
  <2>. QED BY <1>2, <2>1, <2>2, <2>3 DEF Derived
<1>7. CASE OnDidChangeWatchedFiles
  BY <1>2, <1>7 DEF OnDidChangeWatchedFiles, Derived
<1>8. CASE \E d \in Docs : Reanalyze(d)
  <2>1. PICK e \in Docs : Reanalyze(e)
    BY <1>8
  <2>2. /\ UNCHANGED <<disk, documents>> /\ reload' = reload \ {e}
        /\ documents[e] \in Document /\ AnalyzeAndPublish(e, documents[e])
    BY <2>1, Reanalysing
  <2>3. PICK f \in Found : f.analysis.text = documents[e].text /\ analyses' = [analyses EXCEPT ![e] = f.analysis]
    BY <2>2, Analysed
  <2>4. analyses'[e] = f.analysis /\ \A d \in Docs : d # e => analyses'[d] = analyses[d]
    BY <1>1, <2>3
  <2>. QED BY <1>1, <1>2, <2>2, <2>3, <2>4 DEF Derived
<1>9. CASE Aside \/ Edited \/ Announced \/ Asked \/ HearDiagnostics \/ HearAnswer
  <2>1. UNCHANGED <<documents, analyses, reload>>
    BY <1>9 DEF Aside, Edited, Announced, Asked, Ask, HearDiagnostics, HearAnswer, serverVars
  <2>. QED BY <1>3, <2>1
<1>. QED BY <1>4, <1>5, <1>6, <1>7, <1>8, <1>9, Kinds

\* A request is answered from the text its client asked about.
LEMMA AnswerFits ==
  ASSUME TypeOK, TextInv, Answered, NEW r \in pending, r.id = toServer[1].id, r.kind # "unknown",
         NEW t, NEW u,
         LET d == toServer[1].uri
         IN  documents[d] # None /\ analyses[d] # None =>
               t = documents[d].text /\ u \in {analyses[d].text, Parsed(documents[d])}
  PROVE  t = r.text /\ u = r.text
<1>. DEFINE d == toServer[1].uri
<1>1. toServer # <<>> /\ toServer[1].method \in Requests /\ d \in Docs /\ reload = {}
  BY Answering DEF Answered
<1>2. 1 \in 1..Len(toServer)
  BY <1>1, Taken DEF TypeOK, QueueTypes
<1>3. d = r.uri /\ Finds(1, r.uri, r.text)
  BY <1>1, <1>2 DEF TextInv, AsksReached
<1>4. PICK v \in Buffer : Reaches(d, 1 - 1, v) /\ v.text = r.text
  BY <1>3 DEF Finds
<1>5. v = Had(d) /\ v # None
  <2>1. \A j \in 1..(1 - 1) : ~IsEdit(toServer[j], d)
    OBVIOUS
  <2>. QED BY <1>4, <2>1, LspAssumption DEF Reaches, Leads
<1>6. documents[d] # None /\ documents[d].text = r.text
  BY <1>4, <1>5 DEF Had
<1>7. /\ documents[d].parsed \in {None, documents[d].text}
      /\ analyses[d] # None /\ analyses[d].text = documents[d].text
  BY <1>1, <1>6 DEF TextInv, Derived
<1>8. Parsed(documents[d]) = documents[d].text
  BY <1>7 DEF Parsed
<1>. QED BY <1>6, <1>7, <1>8

\* Answers on their way go on fitting, and those sent fit.
LEMMA AnswersStep ==
  ASSUME TypeOK, Ending, RequestInv, TextInv, AnswersFitRequests, [Next]_vars
  PROVE  AnswersFitRequests'
<1>. SUFFICES ASSUME NEW i \in 1..Len(toClient'), NEW r \in pending',
                     toClient'[i].method = "answer", toClient'[i].id = r.id, r.kind # "unknown"
              PROVE  toClient'[i].text = r.text /\ toClient'[i].source = r.text
  BY DEF AnswersFitRequests
<1>1. toClient \in Seq(ClientBound) /\ Len(toClient) \in Nat
  BY LenProperties DEF TypeOK, QueueTypes
<1>2. ASSUME r \in pending, NEW j \in 1..Len(toClient), toClient[j] = toClient'[i]
      PROVE  toClient'[i].text = r.text /\ toClient'[i].source = r.text
  BY <1>2 DEF AnswersFitRequests
<1>3. ASSUME r \in pending, UNCHANGED toClient \/ (toClient # <<>> /\ toClient' = Tail(toClient))
      PROVE  toClient'[i].text = r.text /\ toClient'[i].source = r.text
  <2>1. CASE UNCHANGED toClient
    BY <1>2, <1>3, <2>1
  <2>2. CASE toClient # <<>> /\ toClient' = Tail(toClient)
    <3>1. i + 1 \in 1..Len(toClient) /\ toClient'[i] = toClient[i + 1]
      BY <1>1, <2>2, Taken
    <3>. QED BY <1>2, <1>3, <3>1
  <2>. QED BY <1>3, <2>1, <2>2
<1>4. ASSUME r \in pending, NEW m \in ClientBound, toClient' = Append(toClient, m),
             m.method = "answer" /\ m.id = r.id => m.text = r.text /\ m.source = r.text
      PROVE  toClient'[i].text = r.text /\ toClient'[i].source = r.text
  <2>1. /\ Len(toClient') = Len(toClient) + 1 /\ toClient'[Len(toClient')] = m
        /\ \A j \in 1..Len(toClient) : toClient'[j] = toClient[j]
    BY <1>1, <1>4, Added
  <2>2. CASE i \in 1..Len(toClient)
    BY <1>2, <1>4, <2>1, <2>2
  <2>3. CASE i = Len(toClient')
    BY <1>4, <2>1, <2>3
  <2>. QED BY <1>1, <2>1, <2>2, <2>3
<1>5. ASSUME r \in pending, NEW d \in Docs, NEW f \in Found \cup {None},
             toClient' = Append(toClient, [method |-> "publish", uri |-> d, found |-> f])
      PROVE  toClient'[i].text = r.text /\ toClient'[i].source = r.text
  <2>. DEFINE m == [method |-> "publish", uri |-> d, found |-> f]
  <2>1. m \in ClientBound /\ m.method = "publish"
    BY Messages
  <2>2. toClient' = Append(toClient, m)
    BY <1>5
  <2>. HIDE DEF m
  <2>. QED BY <1>4, <1>5, <2>1, <2>2
<1>6. CASE Aside
  <2>1. r \in pending
    BY <1>6 DEF Aside
  <2>2. CASE \E k \in Signals : toClient' = Append(toClient, [method |-> k])
    <3>1. PICK k \in Signals : toClient' = Append(toClient, [method |-> k])
      BY <2>2
    <3>2. [method |-> k] \in ClientBound /\ [method |-> k].method # "answer"
      BY Messages DEF Signals
    <3>. QED BY <1>4, <2>1, <3>1, <3>2
  <2>. QED BY <1>3, <1>6, <2>1, <2>2 DEF Aside
<1>7. CASE Edited \/ Announced \/ OnDidChangeWatchedFiles \/ HearDiagnostics \/ HearAnswer
  <2>1. r \in pending /\ (UNCHANGED toClient \/ (toClient # <<>> /\ toClient' = Tail(toClient)))
    BY <1>7 DEF Edited, Announced, OnDidChangeWatchedFiles, HearDiagnostics, HearAnswer, Hears,
       clientVars
  <2>. QED BY <1>3, <2>1
<1>8. CASE Asked
  <2>1. PICK d \in Docs, kind \in Requests : Ask(d, kind)
    BY <1>8 DEF Asked
  <2>. DEFINE new == [id |-> moves', uri |-> d, kind |-> kind, text |-> buffer[d].text]
  <2>2. pending' = pending \cup {new} /\ UNCHANGED toClient /\ new.id = moves + 1
    BY <2>1, Asking DEF TypeOK
  <2>. HIDE DEF new
  <2>3. r.id # moves + 1
    BY <2>2, NumberIsNew
  <2>4. r \in pending
    BY <2>2, <2>3
  <2>. QED BY <1>3, <2>2, <2>4
<1>9. CASE Answered
  <2>1. PICK t \in Texts \cup {None}, u \in Texts \cup {None} :
          /\ toClient' = Append(toClient, [method |-> "answer", id |-> toServer[1].id, text |-> t, source |-> u])
          /\ LET d == toServer[1].uri
             IN  toServer[1].method # "unknown" /\ documents[d] # None /\ analyses[d] # None =>
                   t = documents[d].text /\ u \in {analyses[d].text, Parsed(documents[d])}
    BY <1>9, Answering DEF Answered
  <2>2. /\ toServer # <<>> /\ toServer[1].method \in Requests /\ toServer[1].id \in Nat
        /\ pending' = pending
    BY <1>9, Answering DEF Answered, clientVars
  <2>3. 1 \in 1..Len(toServer)
    BY <2>2, Taken DEF TypeOK, QueueTypes
  <2>4. r.id = toServer[1].id => t = r.text /\ u = r.text
    <3>1. r.id = toServer[1].id => toServer[1].method = r.kind
      BY <2>2, <2>3 DEF TextInv, AsksReached
    <3>. QED BY <1>9, <2>1, <2>2, <3>1, AnswerFits
  <2>. DEFINE m == [method |-> "answer", id |-> toServer[1].id, text |-> t, source |-> u]
  <2>5. m \in ClientBound /\ m.id = toServer[1].id /\ m.text = t /\ m.source = u
    BY <2>2, Messages
  <2>6. toClient' = Append(toClient, m)
    BY <2>1
  <2>. HIDE DEF m
  <2>. QED BY <1>4, <2>2, <2>4, <2>5, <2>6
<1>10. CASE OnDidOpenOrChange
  <2>1. /\ toServer[1].uri \in Docs /\ Replaced(toServer[1]) \in Document
        /\ AnalyzeAndPublish(toServer[1].uri, Replaced(toServer[1])) /\ UNCHANGED <<clientVars, disk>>
    BY <1>10, Replacing
  <2>2. PICK f \in Found : toClient' = Append(toClient, [method |-> "publish", uri |-> toServer[1].uri, found |-> f])
    BY <2>1, Analysed
  <2>. QED BY <1>5, <2>1, <2>2 DEF clientVars
<1>11. CASE OnDidClose
  <2>1. /\ toServer[1].uri \in Docs /\ UNCHANGED clientVars
        /\ toClient' = Append(toClient, [method |-> "publish", uri |-> toServer[1].uri, found |-> None])
    BY <1>11, Closing
  <2>. QED BY <1>5, <2>1 DEF clientVars
<1>12. CASE \E d \in Docs : Reanalyze(d)
  <2>1. PICK d \in Docs : Reanalyze(d)
    BY <1>12
  <2>2. /\ UNCHANGED <<clientVars, disk>>
        /\ documents[d] \in Document /\ AnalyzeAndPublish(d, documents[d])
    BY <2>1, Reanalysing
  <2>3. PICK f \in Found : toClient' = Append(toClient, [method |-> "publish", uri |-> d, found |-> f])
    BY <2>2, Analysed
  <2>. QED BY <1>5, <2>2, <2>3 DEF clientVars
<1>. QED BY <1>6, <1>7, <1>8, <1>9, <1>10, <1>11, <1>12, Kinds

\* The texts follow the queue from the start.
LEMMA InitTexts == Init => TextInv
<1>. SUFFICES ASSUME Init PROVE TextInv
  OBVIOUS
<1>1. /\ toServer = <<>> /\ pending = {} /\ documents = [d \in Docs |-> None]
      /\ buffer = [d \in Docs |-> None]
  BY DEF Init
<1>2. \A d \in Docs : Had(d) = None /\ buffer[d] = None
  BY <1>1 DEF Had
<1>3. Len(toServer) = 0
  BY <1>1
<1>. QED BY <1>1, <1>2, <1>3 DEF TextInv, BuffersReached, AsksReached, Derived, Reaches, Leads

\* The inductive invariant of the texts.
THEOREM TextsFollow == Spec => []TextInv
<1>1. BaseInv /\ RequestInv /\ TextInv /\ [Next]_vars => TextInv'
  BY BuffersStep, AsksStep, DerivedStep DEF BaseInv, TextInv
<1>. QED BY <1>1, InitTexts, TypeCorrect, RequestsTracked, PTL DEF Spec

\* An answer is about the text the client asked about, and worked out from that
\* text, however far the client's edits have run ahead of the server.
THEOREM AnswersFit == Spec => []AnswersFitRequests
<1>1. Init => AnswersFitRequests
  BY DEF Init, AnswersFitRequests
<1>2. BaseInv /\ RequestInv /\ TextInv /\ AnswersFitRequests /\ [Next]_vars => AnswersFitRequests'
  BY AnswersStep DEF BaseInv
<1>. QED BY <1>1, <1>2, TypeCorrect, RequestsTracked, TextsFollow, PTL DEF Spec

-----------------------------------------------------------------------------
(* The diagnostics on display.                                             *)

\* A display may settle on more.
LEMMA DisplaysMore ==
  ASSUME NEW q, NEW now, NEW d, NEW X, NEW Y, X \subseteq Y, Displays(q, now, d, X)
  PROVE  Displays(q, now, d, Y)
BY DEF Displays

\* A message that is no publish for d changes nothing, and a publish settles
\* the display by itself.
LEMMA DisplaysAdded ==
  ASSUME NEW S, NEW q \in Seq(S), NEW m \in S, NEW r, r = Append(q, m), NEW now, NEW d, NEW X,
         IF IsPublish(m, d) THEN m.found \in X ELSE Displays(q, now, d, X)
  PROVE  Displays(r, now, d, X)
<1>1. /\ Len(q) \in Nat /\ Len(r) = Len(q) + 1 /\ r[Len(r)] = m /\ Len(r) \in 1..Len(r)
      /\ \A i \in 1..Len(q) : r[i] = q[i] /\ i \in 1..Len(r)
  BY Added
<1>2. CASE IsPublish(m, d)
  <2>1. ~(\A j \in 1..Len(r) : ~IsPublish(r[j], d))
    BY <1>1, <1>2
  <2>2. ASSUME NEW j \in 1..Len(r), \A k \in j + 1..Len(r) : ~IsPublish(r[k], d)
        PROVE  r[j].found \in X
    <3>1. j = Len(r)
      BY <1>1, <1>2, <2>2
    <3>. QED BY <1>1, <1>2, <3>1
  <2>. QED BY <2>1, <2>2 DEF Displays
<1>3. CASE ~IsPublish(m, d)
  <2>1. ASSUME \A j \in 1..Len(r) : ~IsPublish(r[j], d) PROVE now \in X
    BY <1>1, <1>3, <2>1 DEF Displays
  <2>2. ASSUME NEW j \in 1..Len(r), IsPublish(r[j], d), \A k \in j + 1..Len(r) : ~IsPublish(r[k], d)
        PROVE  r[j].found \in X
    <3>1. j \in 1..Len(q)
      BY <1>1, <1>3, <2>2
    <3>2. \A k \in j + 1..Len(q) : ~IsPublish(q[k], d)
      BY <1>1, <2>2, <3>1
    <3>. QED BY <1>1, <1>3, <2>2, <3>1, <3>2 DEF Displays
  <2>. QED BY <2>1, <2>2 DEF Displays
<1>. QED BY <1>2, <1>3

\* A publish that is heard is the present display.
LEMMA DisplaysTaken ==
  ASSUME NEW S, NEW q \in Seq(S), q # <<>>, NEW r, r = Tail(q), NEW now, NEW d, NEW X,
         Displays(q, now, d, X)
  PROVE  Displays(r, IF IsPublish(q[1], d) THEN q[1].found ELSE now, d, X)
<1>1. /\ Len(q) \in Nat \ {0} /\ Len(r) = Len(q) - 1 /\ 1 \in 1..Len(q)
      /\ \A i \in 1..Len(r) : r[i] = q[i + 1] /\ i + 1 \in 1..Len(q)
  BY Taken
<1>2. \A k \in 2..Len(q) : k - 1 \in 1..Len(r) /\ q[k] = r[k - 1]
  BY <1>1
<1>3. ASSUME \A j \in 1..Len(r) : ~IsPublish(r[j], d)
      PROVE  (IF IsPublish(q[1], d) THEN q[1].found ELSE now) \in X
  <2>1. \A k \in 2..Len(q) : ~IsPublish(q[k], d)
    BY <1>2, <1>3
  <2>2. CASE IsPublish(q[1], d)
    BY <1>1, <2>1, <2>2 DEF Displays
  <2>3. CASE ~IsPublish(q[1], d)
    <3>1. \A j \in 1..Len(q) : ~IsPublish(q[j], d)
      BY <1>1, <2>1, <2>3
    <3>. QED BY <2>3, <3>1 DEF Displays
  <2>. QED BY <2>2, <2>3
<1>4. ASSUME NEW j \in 1..Len(r), IsPublish(r[j], d), \A k \in j + 1..Len(r) : ~IsPublish(r[k], d)
      PROVE  r[j].found \in X
  <2>1. ASSUME NEW k \in (j + 1) + 1..Len(q) PROVE ~IsPublish(q[k], d)
    <3>1. k - 1 \in j + 1..Len(r) /\ k \in 2..Len(q)
      BY <1>1
    <3>. QED BY <1>2, <1>4, <3>1
  <2>. QED BY <1>1, <1>4, <2>1 DEF Displays
<1>. QED BY <1>3, <1>4 DEF Displays

\* The events the server has yet to take, and the config its cache is of: a
\* step tells of a config, takes an event or changes neither.
LEMMA EventsAre ==
  ASSUME TypeOK, Ending, [Next]_vars
  PROVE  \/ Announced \/ OnDidChangeWatchedFiles
         \/ /\ told' = told /\ configCache'.since = configCache.since
            /\ NoEvents(toServer') => NoEvents(toServer)
<1>1. toServer \in Seq(ServerBound)
  BY DEF TypeOK, QueueTypes
<1>2. ASSUME NEW m \in ServerBound, toServer' = Append(toServer, m), NoEvents(toServer')
      PROVE  NoEvents(toServer)
  <2>1. /\ Len(toServer) \in Nat /\ Len(toServer') = Len(toServer) + 1
        /\ \A i \in 1..Len(toServer) : toServer'[i] = toServer[i]
    BY <1>1, <1>2, Added
  <2>. QED BY <1>2, <2>1 DEF NoEvents
<1>3. ASSUME toServer # <<>>, toServer' = Tail(toServer), NoEvents(toServer'),
             toServer[1].method # "didChangeWatchedFiles"
      PROVE  NoEvents(toServer)
  <2>1. /\ Len(toServer) \in Nat /\ Len(toServer') = Len(toServer) - 1
        /\ \A i \in 1..Len(toServer') : toServer'[i] = toServer[i + 1]
    BY <1>1, <1>3, Taken
  <2>2. \A k \in 2..Len(toServer) : k - 1 \in 1..Len(toServer') /\ toServer[k] = toServer'[k - 1]
    BY <2>1
  <2>3. \A k \in 2..Len(toServer) : toServer[k].method # "didChangeWatchedFiles"
    BY <1>3, <2>2 DEF NoEvents
  <2>. QED BY <1>3, <2>1, <2>3 DEF NoEvents
<1>4. CASE Aside
  <2>1. told' = told /\ configCache'.since = configCache.since
    BY <1>4 DEF Aside, caches
  <2>2. CASE UNCHANGED toServer
    BY <2>1, <2>2
  <2>3. CASE \E k \in Plain : toServer' = Append(toServer, [method |-> k])
    <3>1. PICK m \in ServerBound : toServer' = Append(toServer, m)
      BY <2>3, Messages DEF Plain
    <3>. QED BY <1>2, <2>1, <3>1
  <2>4. CASE toServer # <<>> /\ toServer[1].method \in Plain /\ toServer' = Tail(toServer)
    BY <1>3, <2>1, <2>4 DEF Plain
  <2>. QED BY <1>4, <2>2, <2>3, <2>4 DEF Aside
<1>5. CASE Edited
  BY <1>2, <1>5 DEF Edited, serverVars, caches
<1>6. CASE Asked
  BY <1>2, <1>6, Asking DEF TypeOK, Asked, serverVars, caches
<1>7. CASE Answered
  BY <1>3, <1>7, Answering DEF Answered, Requests, clientVars, caches
<1>8. CASE HearDiagnostics \/ HearAnswer
  BY <1>8 DEF HearDiagnostics, HearAnswer, serverVars, caches
<1>9. CASE OnDidOpenOrChange
  BY <1>3, <1>9, Replacing, Analysed DEF clientVars
<1>10. CASE OnDidClose
  BY <1>3, <1>10, Closing DEF clientVars, caches
<1>11. CASE \E d \in Docs : Reanalyze(d)
  BY <1>11, Reanalysing, Analysed DEF clientVars
<1>. QED BY <1>4, <1>5, <1>6, <1>7, <1>8, <1>9, <1>10, <1>11, Kinds

\* The client's event makes the server drop the cache.
LEMMA FreshStep ==
  ASSUME TypeOK, Ending, Fresh, [Next]_vars
  PROVE  Fresh'
<1>1. CASE Announced
  <2>. DEFINE m == [method |-> "didChangeWatchedFiles"]
  <2>1. toServer \in Seq(ServerBound) /\ m \in ServerBound /\ m.method = "didChangeWatchedFiles"
    BY Messages DEF TypeOK, QueueTypes
  <2>2. toServer' = Append(toServer, m)
    BY <1>1 DEF Announced
  <2>. HIDE DEF m
  <2>3. Len(toServer') \in 1..Len(toServer') /\ toServer'[Len(toServer')] = m
    BY <2>1, <2>2, Added
  <2>. QED BY <2>1, <2>3 DEF Fresh, NoEvents
<1>2. CASE OnDidChangeWatchedFiles
  <2>1. configCache'.since = Now /\ told' = told
    BY <1>2 DEF OnDidChangeWatchedFiles, FreshCache, clientVars
  <2>2. told \in 0..Now /\ Now \in Nat
    BY DEF TypeOK, ClientTypes
  <2>. QED BY <2>1, <2>2 DEF Fresh
<1>3. CASE /\ told' = told /\ configCache'.since = configCache.since
           /\ NoEvents(toServer') => NoEvents(toServer)
  BY <1>3 DEF Fresh
<1>. QED BY <1>1, <1>2, <1>3, EventsAre

\* What a display may settle on it may go on settling on while its document is
\* as it was, and no event is lost that the display has yet to follow.
LEMMA SettledStays ==
  ASSUME TypeOK, Ending, [Next]_vars, NEW d \in Docs,
         documents'[d] = None <=> documents[d] = None,
         documents[d] # None => /\ documents'[d].text = documents[d].text
                                /\ documents'[d].version = documents[d].version
                                /\ d \notin reload' => d \notin reload
  PROVE  SettledOn(d) \subseteq SettledOn(d)'
<1>1. CASE documents[d] = None
  BY <1>1 DEF SettledOn
<1>2. CASE documents[d] # None /\ d \in reload'
  BY <1>2 DEF SettledOn
<1>3. CASE documents[d] # None /\ d \notin reload' /\ Announced
  <2>1. ~NoEvents(toServer')
    <3>. DEFINE m == [method |-> "didChangeWatchedFiles"]
    <3>1. toServer \in Seq(ServerBound) /\ m \in ServerBound /\ m.method = "didChangeWatchedFiles"
      BY Messages DEF TypeOK, QueueTypes
    <3>2. toServer' = Append(toServer, m)
      BY <1>3 DEF Announced
    <3>. HIDE DEF m
    <3>3. Len(toServer') \in 1..Len(toServer') /\ toServer'[Len(toServer')] = m
      BY <3>1, <3>2, Added
    <3>. QED BY <3>1, <3>3 DEF NoEvents
  <2>. QED BY <1>3, <2>1 DEF SettledOn
<1>4. CASE documents[d] # None /\ d \notin reload' /\ ~Announced
  <2>1. ~OnDidChangeWatchedFiles
    BY <1>4 DEF OnDidChangeWatchedFiles
  <2>2. d \notin reload /\ told' = told /\ (NoEvents(toServer') => NoEvents(toServer))
    BY <1>4, <2>1, EventsAre
  <2>. QED BY <1>4, <2>2 DEF SettledOn
<1>. QED BY <1>1, <1>2, <1>3, <1>4

\* An analysis of a document as the server will have it may be settled on.
LEMMA SettlesOn ==
  ASSUME TypeOK, Fresh, NEW d \in Docs, NEW f \in Found, documents'[d] # None,
         f.version = documents'[d].version, f.analysis.text = documents'[d].text,
         f.analysis.config >= configCache.since, told' = told, NoEvents(toServer') => NoEvents(toServer)
  PROVE  f \in SettledOn(d)'
<1>1. f # None /\ f.analysis.config \in Nat
  BY LspAssumption DEF Found, Analysis
<1>2. told \in Nat /\ configCache.since \in Nat
  BY DEF TypeOK, ClientTypes, CacheInv
<1>3. NoEvents(toServer') => f.analysis.config >= told'
  BY <1>1, <1>2 DEF Fresh
<1>. QED BY <1>1, <1>3 DEF SettledOn

\* Every display goes on reaching what it may settle on.
LEMMA DisplaysStep ==
  ASSUME TypeOK, Ending, DisplayInv, [Next]_vars
  PROVE  DisplaysReached'
<1>. SUFFICES ASSUME NEW d \in Docs PROVE Displays(toClient', shown'[d], d, SettledOn(d)')
  BY DEF DisplaysReached
<1>1. toClient \in Seq(ClientBound) /\ Displays(toClient, shown[d], d, SettledOn(d))
  BY DEF TypeOK, QueueTypes, DisplayInv, DisplaysReached
<1>2. /\ documents \in [Docs -> Document \cup {None}] /\ shown \in [Docs -> Found \cup {None}]
      /\ reload \subseteq Docs
  BY DEF TypeOK, ServerTypes, ClientTypes
<1>3. Displays(toClient, shown[d], d, SettledOn(d)')
        /\ UNCHANGED <<shown, toClient>> => Displays(toClient', shown'[d], d, SettledOn(d)')
  OBVIOUS
<1>4. ASSUME NEW m \in ClientBound, toClient' = Append(toClient, m), UNCHANGED shown,
             IF IsPublish(m, d) THEN m.found \in SettledOn(d)' ELSE SettledOn(d) \subseteq SettledOn(d)'
      PROVE  Displays(toClient', shown'[d], d, SettledOn(d)')
  <2>1. IF IsPublish(m, d) THEN m.found \in SettledOn(d)' ELSE Displays(toClient, shown[d], d, SettledOn(d)')
    BY <1>1, <1>4, DisplaysMore
  <2>2. Displays(toClient', shown[d], d, SettledOn(d)')
    BY <1>1, <1>4, <2>1, DisplaysAdded
  <2>. QED BY <1>4, <2>2
<1>5. ASSUME toClient # <<>>, toClient' = Tail(toClient), SettledOn(d) \subseteq SettledOn(d)',
             shown'[d] = IF IsPublish(toClient[1], d) THEN toClient[1].found ELSE shown[d]
      PROVE  Displays(toClient', shown'[d], d, SettledOn(d)')
  <2>1. Displays(toClient, shown[d], d, SettledOn(d)')
    BY <1>1, <1>5, DisplaysMore
  <2>2. Displays(toClient', IF IsPublish(toClient[1], d) THEN toClient[1].found ELSE shown[d], d, SettledOn(d)')
    BY <1>1, <1>5, <2>1, DisplaysTaken
  <2>. QED BY <1>5, <2>2
<1>6. ASSUME SettledOn(d) \subseteq SettledOn(d)', UNCHANGED <<shown, toClient>>
      PROVE  Displays(toClient', shown'[d], d, SettledOn(d)')
  BY <1>1, <1>3, <1>6, DisplaysMore
<1>7. UNCHANGED <<documents, reload>> => SettledOn(d) \subseteq SettledOn(d)'
  BY SettledStays
<1>8. CASE Aside
  <2>1. UNCHANGED <<documents, reload, shown>>
    BY <1>8 DEF Aside
  <2>2. CASE UNCHANGED toClient
    BY <1>6, <1>7, <2>1, <2>2
  <2>3. CASE \E k \in Signals : toClient' = Append(toClient, [method |-> k])
    <3>1. PICK k \in Signals : toClient' = Append(toClient, [method |-> k])
      BY <2>3
    <3>2. [method |-> k] \in ClientBound /\ ~IsPublish([method |-> k], d)
      BY Messages DEF Signals, IsPublish
    <3>. QED BY <1>4, <1>7, <2>1, <3>1, <3>2
  <2>4. CASE toClient # <<>> /\ toClient[1].method \in Signals /\ toClient' = Tail(toClient)
    <3>1. ~IsPublish(toClient[1], d)
      BY <2>4 DEF Signals, IsPublish
    <3>. QED BY <1>5, <1>7, <2>1, <2>4, <3>1
  <2>. QED BY <1>8, <2>2, <2>3, <2>4 DEF Aside
<1>9. CASE Edited \/ Announced \/ Asked
  <2>1. UNCHANGED <<documents, reload, shown, toClient>>
    BY <1>9 DEF Edited, Announced, Asked, Ask, serverVars
  <2>. QED BY <1>6, <1>7, <2>1
<1>10. CASE HearDiagnostics \/ HearAnswer
  <2>1. PICK method \in {"publish", "answer"} : Hears(method)
    BY <1>10 DEF HearDiagnostics, HearAnswer
  <2>2. /\ toClient # <<>> /\ Head(toClient) = toClient[1] /\ toClient[1] \in ClientBound
        /\ toClient[1].method = method /\ toClient' = Tail(toClient)
    BY <2>1, HeadHeard DEF TypeOK
  <2>3. UNCHANGED <<documents, reload>>
    BY <1>10 DEF HearDiagnostics, HearAnswer, serverVars
  <2>4. shown'[d] = IF IsPublish(toClient[1], d) THEN toClient[1].found ELSE shown[d]
    <3>1. CASE HearDiagnostics
      <4>1. shown' = [shown EXCEPT ![toClient[1].uri] = toClient[1].found] /\ toClient[1].method = "publish"
        BY <2>2, <3>1 DEF HearDiagnostics, Hears
      <4>. QED BY <1>2, <4>1 DEF IsPublish
    <3>2. CASE HearAnswer
      <4>1. shown' = shown /\ toClient[1].method = "answer"
        BY <2>2, <3>2 DEF HearAnswer, Hears
      <4>. QED BY <4>1 DEF IsPublish
    <3>. QED BY <1>10, <3>1, <3>2
  <2>. QED BY <1>5, <1>7, <2>2, <2>3, <2>4
<1>11. CASE Answered
  <2>1. PICK t \in Texts \cup {None}, u \in Texts \cup {None} :
          toClient' = Append(toClient, [method |-> "answer", id |-> toServer[1].id, text |-> t, source |-> u])
    BY <1>11, Answering DEF Answered
  <2>2. /\ toServer[1].id \in Nat /\ UNCHANGED <<reload, shown>>
        /\ documents'[d] = None <=> documents[d] = None
        /\ documents[d] # None => /\ documents'[d].text = documents[d].text
                                  /\ documents'[d].version = documents[d].version
    BY <1>11, Answering DEF Answered, clientVars
  <2>3. SettledOn(d) \subseteq SettledOn(d)'
    BY <2>2, SettledStays
  <2>. DEFINE m == [method |-> "answer", id |-> toServer[1].id, text |-> t, source |-> u]
  <2>4. m \in ClientBound /\ ~IsPublish(m, d)
    BY <2>2, Messages DEF IsPublish
  <2>5. toClient' = Append(toClient, m)
    BY <2>1
  <2>. HIDE DEF m
  <2>. QED BY <1>4, <2>2, <2>3, <2>4, <2>5
<1>12. ASSUME NEW e \in Docs, NEW f \in Found \cup {None}, UNCHANGED shown,
              toClient' = Append(toClient, [method |-> "publish", uri |-> e, found |-> f]),
              IF d = e THEN f \in SettledOn(d)' ELSE SettledOn(d) \subseteq SettledOn(d)'
       PROVE  Displays(toClient', shown'[d], d, SettledOn(d)')
  <2>. DEFINE m == [method |-> "publish", uri |-> e, found |-> f]
  <2>1. m \in ClientBound /\ m.found = f /\ (IsPublish(m, d) <=> d = e)
    BY Messages DEF IsPublish
  <2>2. toClient' = Append(toClient, m)
    BY <1>12
  <2>. HIDE DEF m
  <2>. QED BY <1>4, <1>12, <2>1, <2>2
<1>13. CASE OnDidOpenOrChange
  <2>. DEFINE m == toServer[1]
  <2>1. /\ m.uri \in Docs /\ Replaced(m) \in Document /\ AnalyzeAndPublish(m.uri, Replaced(m))
        /\ documents' = [documents EXCEPT ![m.uri] = Replaced(m)]
        /\ UNCHANGED <<clientVars, disk, reload>>
        /\ toServer # <<>> /\ toServer' = Tail(toServer) /\ m.method \in {"didOpen", "didChange"}
    BY <1>13, Replacing
  <2>. HIDE DEF m
  <2>2. PICK f \in Found : /\ f.version = Replaced(m).version /\ f.analysis.text = Replaced(m).text
                           /\ f.analysis.config >= configCache.since
                           /\ toClient' = Append(toClient, [method |-> "publish", uri |-> m.uri, found |-> f])
    <3>1. ASSUME NEW e \in Docs, NEW doc \in Document, AnalyzeAndPublish(e, doc), UNCHANGED disk
          PROVE  \E f \in Found :
                   /\ f.version = doc.version /\ f.analysis.text = doc.text
                   /\ f.analysis.config >= configCache.since
                   /\ toClient' = Append(toClient, [method |-> "publish", uri |-> e, found |-> f])
      BY <3>1, Analysed
    <3>. QED BY <2>1, <3>1
  <2>3. NoEvents(toServer') => NoEvents(toServer)
    <3>1. ~Announced
      <4>1. UNCHANGED moves
        BY <2>1 DEF clientVars
      <4>. QED BY <4>1 DEF Announced, TypeOK, ClientTypes
    <3>2. ~OnDidChangeWatchedFiles
      <4>1. OnDidChangeWatchedFiles => m.method = "didChangeWatchedFiles"
        BY HeadOf DEF m, OnDidChangeWatchedFiles, Serves, TypeOK
      <4>. QED BY <2>1, <4>1
    <3>. QED BY <3>1, <3>2, EventsAre
  <2>4. UNCHANGED <<told, shown>>
    BY <2>1 DEF clientVars
  <2>5. CASE d = m.uri
    <3>1. documents'[d] = Replaced(m) /\ Replaced(m) # None
      BY <1>2, <2>1, <2>5, LspAssumption
    <3>2. f \in SettledOn(d)'
      BY <2>2, <2>3, <2>4, <3>1, SettlesOn DEF DisplayInv
    <3>. QED BY <1>12, <2>1, <2>2, <2>4, <2>5, <3>2
  <2>6. CASE d # m.uri
    <3>1. documents'[d] = documents[d] /\ UNCHANGED reload
      BY <1>2, <2>1, <2>6
    <3>2. SettledOn(d) \subseteq SettledOn(d)'
      BY <3>1, SettledStays
    <3>. QED BY <1>12, <2>1, <2>2, <2>4, <2>6, <3>2
  <2>. QED BY <2>5, <2>6
<1>14. CASE OnDidClose
  <2>. DEFINE e == toServer[1].uri
  <2>1. /\ e \in Docs /\ documents' = [documents EXCEPT ![e] = None]
        /\ toClient' = Append(toClient, [method |-> "publish", uri |-> e, found |-> None])
        /\ UNCHANGED <<reload, shown>>
    BY <1>14, Closing DEF clientVars
  <2>. HIDE DEF e
  <2>2. CASE d = e
    <3>1. documents'[d] = None
      BY <1>2, <2>1, <2>2
    <3>2. None \in SettledOn(d)'
      BY <3>1 DEF SettledOn
    <3>. QED BY <1>12, <2>1, <2>2, <3>2
  <2>3. CASE d # e
    <3>1. documents'[d] = documents[d]
      BY <1>2, <2>1, <2>3
    <3>2. SettledOn(d) \subseteq SettledOn(d)'
      BY <2>1, <3>1, SettledStays
    <3>. QED BY <1>12, <2>1, <2>3, <3>2
  <2>. QED BY <2>2, <2>3
<1>15. CASE OnDidChangeWatchedFiles
  <2>1. UNCHANGED <<documents, shown, toClient>> /\ (documents[d] # None => d \in reload')
    BY <1>15 DEF OnDidChangeWatchedFiles, clientVars
  <2>2. SettledOn(d) \subseteq SettledOn(d)'
    BY <2>1, SettledStays
  <2>. QED BY <1>6, <2>1, <2>2
<1>16. CASE \E e \in Docs : Reanalyze(e)
  <2>1. PICK e \in Docs : Reanalyze(e)
    BY <1>16
  <2>2. /\ documents[e] \in Document /\ documents[e] # None /\ AnalyzeAndPublish(e, documents[e])
        /\ reload' = reload \ {e} /\ UNCHANGED <<clientVars, disk, toServer, documents>>
    BY <2>1, Reanalysing
  <2>3. PICK f \in Found : /\ f.version = documents[e].version /\ f.analysis.text = documents[e].text
                           /\ f.analysis.config >= configCache.since
                           /\ toClient' = Append(toClient, [method |-> "publish", uri |-> e, found |-> f])
    BY <2>2, Analysed
  <2>4. UNCHANGED <<told, shown>>
    BY <2>2 DEF clientVars
  <2>5. CASE d = e
    <3>1. documents'[d] = documents[e] /\ documents'[d] # None
      BY <2>2, <2>5
    <3>2. f \in SettledOn(d)'
      BY <2>2, <2>3, <2>4, <3>1, SettlesOn DEF DisplayInv
    <3>. QED BY <1>12, <2>3, <2>4, <2>5, <3>2
  <2>6. CASE d # e
    <3>1. documents'[d] = documents[d] /\ (d \notin reload' => d \notin reload)
      BY <2>2, <2>6
    <3>2. SettledOn(d) \subseteq SettledOn(d)'
      BY <3>1, SettledStays
    <3>. QED BY <1>12, <2>3, <2>4, <2>6, <3>2
  <2>. QED BY <2>5, <2>6
<1>. QED BY <1>8, <1>9, <1>10, <1>11, <1>13, <1>14, <1>15, <1>16, Kinds

\* Nothing is on display at the start, and nobody has told of a config.
LEMMA InitDisplays == Init => DisplayInv
<1>. SUFFICES ASSUME Init PROVE DisplayInv
  OBVIOUS
<1>1. /\ toServer = <<>> /\ toClient = <<>> /\ documents = [d \in Docs |-> None]
      /\ shown = [d \in Docs |-> None] /\ told = 0
  BY DEF Init
<1>2. \A d \in Docs : None \in SettledOn(d) /\ shown[d] = None
  BY <1>1 DEF SettledOn
<1>3. \A j \in 1..Len(toClient) : FALSE
  BY <1>1
<1>4. DisplaysReached
  <2>. SUFFICES ASSUME NEW d \in Docs PROVE Displays(toClient, shown[d], d, SettledOn(d))
    BY DEF DisplaysReached
  <2>1. shown[d] \in SettledOn(d)
    BY <1>2
  <2>. QED BY <1>3, <2>1 DEF Displays
<1>5. configCache.since \in Nat
  BY InitTypes DEF TypeOK, ClientTypes, CacheInv
<1>. QED BY <1>1, <1>4, <1>5 DEF DisplayInv, Fresh

\* The inductive invariant of the diagnostics.
THEOREM DisplaysFollow == Spec => []DisplayInv
<1>1. BaseInv /\ DisplayInv /\ [Next]_vars => DisplayInv'
  BY DisplaysStep, FreshStep DEF BaseInv, DisplayInv
<1>. QED BY <1>1, InitDisplays, TypeCorrect, PTL DEF Spec

\* When the client has heard everything its buffers and the diagnostics it
\* shows agree, and those were made with a config no older than the last one
\* it told of.
THEOREM DisplaysSettle == Spec => []DiagnosticsSettle
<1>1. BaseInv /\ TextInv /\ DisplayInv => DiagnosticsSettle
  <2>. SUFFICES ASSUME BaseInv, TextInv, DisplayInv, Quiet, NEW d \in Docs
                PROVE  IF buffer[d] = None THEN shown[d] = None
                       ELSE /\ shown[d] # None
                            /\ shown[d].version = buffer[d].version
                            /\ shown[d].analysis.text = buffer[d].text
                            /\ shown[d].analysis.config >= told
    BY DEF DiagnosticsSettle
  <2>1. toServer = <<>> /\ toClient = <<>> /\ reload = {} /\ Len(<<>>) = 0
    BY DEF Quiet
  <2>2. Leads(<<>>, Had(d), d, 0, buffer[d])
    BY <2>1 DEF TextInv, BuffersReached, Reaches
  <2>3. buffer[d] = Had(d)
    <3>1. \A j \in 1..0 : ~IsEdit(<<>>[j], d)
      OBVIOUS
    <3>. QED BY <2>2, <3>1 DEF Leads
  <2>4. Displays(<<>>, shown[d], d, SettledOn(d))
    BY <2>1 DEF DisplayInv, DisplaysReached
  <2>5. shown[d] \in SettledOn(d)
    <3>1. \A j \in 1..Len(<<>>) : ~IsPublish(<<>>[j], d)
      BY <2>1
    <3>. QED BY <2>4, <3>1 DEF Displays
  <2>6. NoEvents(toServer)
    BY <2>1 DEF NoEvents
  <2>7. CASE documents[d] = None
    BY <2>3, <2>5, <2>7 DEF SettledOn, Had
  <2>8. CASE documents[d] # None
    <3>1. buffer[d] = [text |-> documents[d].text, version |-> documents[d].version]
      BY <2>3, <2>8 DEF Had
    <3>2. documents[d].text \in Texts /\ documents[d].version \in Nat
      BY <2>8 DEF BaseInv, TypeOK, ServerTypes, Document
    <3>3. buffer[d] # None
      BY <3>1, <3>2, LspAssumption DEF Buffer
    <3>. QED BY <2>1, <2>5, <2>6, <2>8, <3>1, <3>3 DEF SettledOn
  <2>. QED BY <2>7, <2>8
<1>. QED BY <1>1, TypeCorrect, TextsFollow, DisplaysFollow, PTL
=============================================================================
