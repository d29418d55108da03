------------------------------ MODULE LspServer ------------------------------
(***************************************************************************)
(* rpm-spec-lsp and its client.  The server is one thread that takes the   *)
(* messages of a connection in order; it keeps the open documents, one     *)
(* analysis per document, the loaded rpmspec.toml and the profile resolved *)
(* for each base directory.  The client edits, asks, saves configuration   *)
(* files and leaves without waiting for the server, so what it shows and   *)
(* what it is answered may lag behind its buffers.                         *)
(*                                                                         *)
(* The contents rpmspec.toml has had are the sequence disk: a config is    *)
(* named by its place in it, so a reload that reads an old one shows.      *)
(***************************************************************************)
EXTENDS Naturals, Sequences

CONSTANTS
  Docs,      \* documents the client edits
  Texts,     \* what a buffer can hold
  Configs,   \* contents of rpmspec.toml that load
  MaxMoves,  \* bound on what the client sends of its own accord
  MaxSaves,  \* bound on the contents of rpmspec.toml
  None

\* A buffer of the client, a document of the server, the analysis kept of one
\* and what a publish carries.
Buffer == [text : Texts, version : Nat]
Document == [text : Texts, version : Nat, parsed : Texts \cup {None}]
Analysis == [text : Texts, config : Nat, profile : Nat]
Found == [version : Nat, analysis : Analysis]

ASSUME LspAssumption ==
  /\ None \notin Docs \cup Texts \cup Configs \cup Nat
  /\ None \notin Buffer \cup Document \cup Analysis \cup Found
  /\ Configs \cap {"absent", "broken"} = {}
  /\ Docs \cap {"config_dir", "cwd"} = {}
  /\ MaxMoves \in Nat /\ MaxSaves \in Nat \ {0}

VARIABLES
  \* the client
  client,        \* "new", "starting", "running", "leaving", "gone"
  buffer,        \* the open buffers, None if closed
  shown,         \* the diagnostics on display, None if there are none
  pending,       \* the requests without an answer
  watching,      \* whether the server has registered its watcher
  moves,         \* what the client has sent, which numbers it
  told,          \* the config that was on disk at the last event sent
  \* the world
  disk,          \* the contents of rpmspec.toml, the last is current
  toServer, toClient,
  \* the server
  phase,         \* "new", "starting", "running", "stopping", "exited", "failed"
  documents,     \* text, version and the text its cached parse is of
  analyses,      \* the text, config and profile of the latest analysis
  configCache,   \* whether the file was there, when, and the config loaded
  profileCache,  \* the config each base directory's profile comes from
  reload         \* documents a configuration event has yet to re-analyse

clientVars == <<client, buffer, shown, pending, watching, moves, told>>
caches == <<configCache, profileCache>>
serverVars == <<phase, documents, analyses, caches, reload>>
vars == <<clientVars, disk, toServer, toClient, serverVars>>

Now == Len(disk)
Bases == Docs \cup {"config_dir", "cwd"}

\* What a config is worth: one that does not load counts as the defaults.
Effective(g) == IF disk[g] \in Configs THEN disk[g] ELSE "default"

\* A fresh cache asks once whether the file is there.
FreshCache == [explicit |-> disk[Now] # "absent", since |-> Now, cached |-> None]

Init ==
  /\ client = "new" /\ phase = "new"
  /\ buffer = [d \in Docs |-> None] /\ shown = [d \in Docs |-> None]
  /\ pending = {} /\ moves = 0 /\ told = 0
  /\ watching = FALSE
  /\ disk \in {<<c>> : c \in Configs \cup {"absent", "broken"}}
  /\ toServer = <<>> /\ toClient = <<>>
  /\ documents = [d \in Docs |-> None] /\ analyses = [d \in Docs |-> None]
  /\ configCache = FreshCache /\ profileCache = [b \in Bases |-> None]
  /\ reload = {}
-----------------------------------------------------------------------------
\* The client.

Tell(m) == toServer' = Append(toServer, m)

Begin ==
  /\ client = "new" /\ client' = "starting"
  /\ Tell([method |-> "initialize"])
  /\ UNCHANGED <<buffer, shown, pending, watching, moves, told, disk,
                 toClient, serverVars>>

Moves == client = "running" /\ moves < MaxMoves /\ moves' = moves + 1

OpenDoc(d, t) ==
  /\ Moves /\ buffer[d] = None
  /\ buffer' = [buffer EXCEPT ![d] = [text |-> t, version |-> moves']]
  /\ Tell([method |-> "didOpen", uri |-> d, text |-> t, version |-> moves'])
  /\ UNCHANGED <<client, shown, pending, watching, told, disk, toClient,
                 serverVars>>

ChangeDoc(d, t) ==
  /\ Moves /\ buffer[d] # None /\ buffer[d].text # t
  /\ buffer' = [buffer EXCEPT ![d] = [text |-> t, version |-> moves']]
  /\ Tell([method |-> "didChange", uri |-> d, text |-> t, version |-> moves'])
  /\ UNCHANGED <<client, shown, pending, watching, told, disk, toClient,
                 serverVars>>

CloseDoc(d) ==
  /\ Moves /\ buffer[d] # None
  /\ buffer' = [buffer EXCEPT ![d] = None]
  /\ Tell([method |-> "didClose", uri |-> d])
  /\ UNCHANGED <<client, shown, pending, watching, told, disk, toClient,
                 serverVars>>

Ask(d, kind) ==
  /\ Moves /\ buffer[d] # None
  /\ pending' = pending \cup {[id |-> moves', uri |-> d, kind |-> kind,
                               text |-> buffer[d].text]}
  /\ Tell([method |-> kind, id |-> moves', uri |-> d])
  /\ UNCHANGED <<client, buffer, shown, watching, told, disk, toClient,
                 serverVars>>

\* The files the server asked to hear about: the glob **/.rpmspec.toml.
Watched == {".rpmspec.toml"}

\* Somebody saves a file; a client that watches it says so.
Event(file) ==
  IF watching /\ client = "running" /\ file \in Watched
  THEN told' = Len(disk') /\ Tell([method |-> "didChangeWatchedFiles"])
  ELSE UNCHANGED <<told, toServer>>

SaveProjectFile ==
  /\ Moves /\ UNCHANGED disk /\ Event(".rpmspec.toml")
  /\ UNCHANGED <<client, buffer, shown, pending, watching, toClient,
                 serverVars>>

SaveConfig(c) ==
  /\ Now < MaxSaves /\ disk[Now] # c /\ disk' = Append(disk, c)
  /\ Event("rpmspec.toml")
  /\ UNCHANGED <<client, buffer, shown, pending, watching, moves, toClient,
                 serverVars>>

Leave ==
  /\ Moves /\ client' = "leaving" /\ Tell([method |-> "shutdown"])
  /\ UNCHANGED <<buffer, shown, pending, watching, told, disk, toClient,
                 serverVars>>

\* The next message from the server.
Hears(method) ==
  /\ toClient # <<>> /\ Head(toClient).method = method
  /\ toClient' = Tail(toClient)

HearCapabilities ==
  /\ Hears("capabilities") /\ client' = "running"
  /\ Tell([method |-> "initialized"])
  /\ UNCHANGED <<buffer, shown, pending, watching, moves, told, disk, serverVars>>

HearRegistration ==
  /\ Hears("register") /\ watching' = TRUE /\ Tell([method |-> "response"])
  /\ UNCHANGED <<client, buffer, shown, pending, moves, told, disk,
                 serverVars>>

HearDiagnostics ==
  /\ Hears("publish")
  /\ shown' = [shown EXCEPT ![Head(toClient).uri] = Head(toClient).found]
  /\ UNCHANGED <<client, buffer, pending, watching, moves, told, disk,
                 toServer, serverVars>>

HearAnswer ==
  /\ Hears("answer") /\ pending' = {r \in pending : r.id # Head(toClient).id}
  /\ UNCHANGED <<client, buffer, shown, watching, moves, told, disk,
                 toServer, serverVars>>

HearGoodbye ==
  /\ Hears("goodbye") /\ client' = "gone" /\ Tell([method |-> "exit"])
  /\ UNCHANGED <<buffer, shown, pending, watching, moves, told, disk,
                 serverVars>>

ClientHears ==
  \/ HearCapabilities \/ HearRegistration \/ HearDiagnostics
  \/ HearAnswer \/ HearGoodbye
-----------------------------------------------------------------------------
\* The server.

Send(m) == toClient' = Append(toClient, m)

\* The main loop takes a message when the last one has been dealt with.
Takes(method) ==
  /\ toServer # <<>> /\ Head(toServer).method = method
  /\ toServer' = Tail(toServer) /\ reload = {}

\* The capabilities go out; the encoding picked from the client's is left out.
Initialize ==
  /\ phase = "new" /\ Takes("initialize") /\ phase' = "starting"
  /\ Send([method |-> "capabilities"])
  /\ UNCHANGED <<clientVars, disk, documents, analyses, caches, reload>>

RegisterConfigWatcher ==
  /\ phase = "starting" /\ Takes("initialized") /\ phase' = "running"
  /\ Send([method |-> "register"])
  /\ UNCHANGED <<clientVars, disk, documents, analyses, caches, reload>>

Serves(method) == phase = "running" /\ Takes(method) /\ UNCHANGED phase

\* load_for_with_base_dir: only a load that succeeds is kept, and one that
\* fails is the default config under the document's own path.
Loaded ==
  IF ~configCache.explicit THEN configCache.since
  ELSE IF configCache.cached # None THEN configCache.cached ELSE Now

BaseDir(d) ==
  IF ~configCache.explicit THEN "cwd"
  ELSE IF disk[Loaded] \in Configs THEN "config_dir" ELSE d

ResolveProfile(base) ==
  IF profileCache[base] # None THEN profileCache[base] ELSE Loaded

AnalyzeAndPublish(d, doc) ==
  LET found == [text |-> doc.text, config |-> Loaded,
                profile |-> ResolveProfile(BaseDir(d))] IN
  /\ configCache' = [configCache EXCEPT !.cached =
                       IF BaseDir(d) = "config_dir" THEN Loaded ELSE @]
  /\ profileCache' = [profileCache EXCEPT ![BaseDir(d)] = found.profile]
  /\ analyses' = [analyses EXCEPT ![d] = found]
  /\ Send([method |-> "publish", uri |-> d,
           found |-> [version |-> doc.version, analysis |-> found]])

\* Mutant: a replace that keeps the parse of the text before.
ReplacedKeepingParse(m) ==
  [text |-> m.text, version |-> m.version,
   parsed |-> IF documents[m.uri] = None THEN None ELSE documents[m.uri].parsed]

\* didOpen and didChange alike put a fresh document in place, without a parse.
Replaced(m) == [text |-> m.text, version |-> m.version, parsed |-> None]

OnDidOpenOrChange ==
  /\ Serves("didOpen") \/ Serves("didChange")
  /\ LET m == Head(toServer) IN
       /\ documents' = [documents EXCEPT ![m.uri] = Replaced(m)]
       /\ AnalyzeAndPublish(m.uri, Replaced(m))
  /\ UNCHANGED <<clientVars, disk, reload>>

OnDidClose ==
  /\ Serves("didClose")
  /\ LET d == Head(toServer).uri IN
       /\ documents' = [documents EXCEPT ![d] = None]
       /\ analyses' = [analyses EXCEPT ![d] = None]
       /\ Send([method |-> "publish", uri |-> d, found |-> None])
  /\ UNCHANGED <<clientVars, disk, caches, reload>>

\* Mutants: a reload that keeps one of the caches, and one that takes closed documents.
ReloadKeepingProfiles ==
  /\ Serves("didChangeWatchedFiles")
  /\ configCache' = FreshCache /\ analyses' = [d \in Docs |-> None]
  /\ reload' = {d \in Docs : documents[d] # None}
  /\ UNCHANGED <<clientVars, disk, documents, toClient, profileCache>>

ReloadKeepingConfig ==
  /\ Serves("didChangeWatchedFiles")
  /\ profileCache' = [b \in Bases |-> None] /\ analyses' = [d \in Docs |-> None]
  /\ reload' = {d \in Docs : documents[d] # None}
  /\ UNCHANGED <<clientVars, disk, documents, toClient, configCache>>

ReloadAnyDocument ==
  /\ Serves("didChangeWatchedFiles")
  /\ configCache' = FreshCache /\ profileCache' = [b \in Bases |-> None]
  /\ analyses' = [d \in Docs |-> None] /\ reload' = Docs
  /\ UNCHANGED <<clientVars, disk, documents, toClient>>

OnDidChangeWatchedFiles ==
  /\ Serves("didChangeWatchedFiles")
  /\ configCache' = FreshCache /\ profileCache' = [b \in Bases |-> None]
  /\ analyses' = [d \in Docs |-> None]
  /\ reload' = {d \in Docs : documents[d] # None}
  /\ UNCHANGED <<clientVars, disk, documents, toClient>>

Reanalyze(d) ==
  /\ d \in reload /\ reload' = reload \ {d}
  /\ AnalyzeAndPublish(d, documents[d])
  /\ UNCHANGED <<clientVars, disk, toServer, phase, documents>>

\* An answer about a text, worked out from another that should be the same.
Respond(text, source) ==
  Send([method |-> "answer", id |-> Head(toServer).id, text |-> text,
        source |-> source])

OnCodeAction ==
  /\ Serves("codeAction")
  /\ LET d == Head(toServer).uri IN
       IF documents[d] = None \/ analyses[d] = None THEN Respond(None, None)
       ELSE Respond(documents[d].text, analyses[d].text)
  /\ UNCHANGED <<clientVars, disk, documents, analyses, caches, reload>>

\* documentSymbol and foldingRange share one parse per text.
Parsed(doc) == IF doc.parsed = None THEN doc.text ELSE doc.parsed

OnDocumentSymbol ==
  /\ Serves("documentSymbol")
  /\ LET d == Head(toServer).uri
         doc == documents[d] IN
       IF doc = None THEN Respond(None, None) /\ UNCHANGED documents
       ELSE /\ documents' = [documents EXCEPT ![d].parsed = Parsed(doc)]
            /\ Respond(doc.text, Parsed(doc))
  /\ UNCHANGED <<clientVars, disk, analyses, caches, reload>>

\* Mutant: an unknown method that is only logged.
UnknownDropped ==
  /\ Serves("unknown")
  /\ UNCHANGED <<clientVars, disk, toClient, documents, analyses, caches, reload>>

\* A method the server does not have, or parameters it cannot read.
MethodNotFound ==
  /\ Serves("unknown") /\ Respond(None, None)
  /\ UNCHANGED <<clientVars, disk, documents, analyses, caches, reload>>

IgnoreResponse ==
  /\ Serves("response")
  /\ UNCHANGED <<clientVars, disk, toClient, documents, analyses, caches, reload>>

\* handle_shutdown answers and expects nothing but exit from then on.
HandleShutdown ==
  /\ phase = "running" /\ Takes("shutdown") /\ phase' = "stopping"
  /\ Send([method |-> "goodbye"])
  /\ UNCHANGED <<clientVars, disk, documents, analyses, caches, reload>>

AwaitExit ==
  /\ phase = "stopping" /\ toServer # <<>> /\ toServer' = Tail(toServer)
  /\ phase' = IF Head(toServer).method = "exit" THEN "exited" ELSE "failed"
  /\ UNCHANGED <<clientVars, disk, toClient, documents, analyses, caches,
                 reload>>

ServerStep ==
  \/ Initialize \/ RegisterConfigWatcher
  \/ OnDidOpenOrChange \/ OnDidClose
  \/ OnDidChangeWatchedFiles \/ \E d \in Docs : Reanalyze(d)
  \/ OnCodeAction \/ OnDocumentSymbol \/ MethodNotFound \/ IgnoreResponse
  \/ HandleShutdown \/ AwaitExit

ClientMoves ==
  \/ Begin \/ Leave \/ SaveProjectFile
  \/ \E d \in Docs, t \in Texts : OpenDoc(d, t) \/ ChangeDoc(d, t)
  \/ \E d \in Docs : CloseDoc(d)
  \/ \E d \in Docs, kind \in {"codeAction", "documentSymbol", "unknown"} : Ask(d, kind)

Next ==
  \/ ClientMoves \/ ClientHears \/ ServerStep
  \/ \E c \in Configs \cup {"absent", "broken"} : SaveConfig(c)

Spec == Init /\ [][Next]_vars
-----------------------------------------------------------------------------
Quiet == client = "running" /\ toServer = <<>> /\ toClient = <<>> /\ reload = {}

\* Once the server has caught up, each open buffer shows the diagnostics of
\* exactly its text and version, made with a config no older than the last event
\* the server was told of, and a closed one shows none: on_did_open,
\* on_did_change, on_did_close and the reload loop each publish what the next
\* message may already have overtaken.
DiagnosticsSettle ==
  Quiet => \A d \in Docs :
             IF buffer[d] = None THEN shown[d] = None
             ELSE /\ shown[d] # None
                  /\ shown[d].version = buffer[d].version
                  /\ shown[d].analysis.text = buffer[d].text
                  /\ shown[d].analysis.config >= told

\* An answer is about the text the client had when it asked, and what it was
\* worked out from, the cached analysis (codeAction) or the cached parse
\* (documentSymbol), is of that same text.
AnswersFitRequests ==
  \A i \in 1..Len(toClient) : \A r \in pending :
    /\ toClient[i].method = "answer" /\ toClient[i].id = r.id
    /\ r.kind # "unknown"
    => toClient[i].text = r.text /\ toClient[i].source = r.text

\* A profile is cached by base directory and not by the config it came from,
\* yet every analysis the client is shown uses the profile of its own config:
\* the two caches are torn down together and fall back to different keys.
ProfileFitsConfig ==
  \A d \in Docs : shown[d] # None =>
    Effective(shown[d].analysis.profile) = Effective(shown[d].analysis.config)

\* No request is left without an answer when every message has been dealt with,
\* one the server does not implement included ("so the client doesn't hang"),
\* also when the client leaves right after asking.
RequestsAnswered ==
  toServer = <<>> /\ toClient = <<>> /\ reload = {} => pending = {}
=============================================================================
