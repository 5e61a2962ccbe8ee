--------------------------------- MODULE Lsp ---------------------------------
(***************************************************************************)
(* Language servers: which server serves an extension, the client started  *)
(* on first use under the lock of the client map, the task each file change*)
(* spawns to tell the server the new text, and the diagnostics the server  *)
(* pushes back, cached under the path of the uri they carry.               *)
(***************************************************************************)
EXTENDS Naturals, FiniteSets

CONSTANTS
  MaxWrites,   \* writes to the one document in one behaviour
  MaxStarts,   \* server processes started in one behaviour
  Configures,  \* TRUE: the user may have an entry of their own in lsp.toml
  OpensTwice   \* TRUE: two notifications may find the document untracked at once

ASSUME LspAssumption ==
  /\ MaxWrites \in Nat \ {0} /\ MaxStarts \in Nat \ {0}
  /\ Configures \in BOOLEAN /\ OpensTwice \in BOOLEAN

VARIABLES
  servers,     \* the user's entry and the built-in one for the languages they share
  document,    \* the text on disk, a number per write; 0: no such file
  tasks,       \* notification per write -> where it stands
  lockedBy,    \* the task or query holding the client map, 0 for none
  processes,   \* language server processes: their phase
  cached,      \* the process in the client map, 0 for none
  openVersion, \* the version the client tracks, 0: not open
  told,        \* what the server was sent: set of [version, text], and the last text
  published    \* path -> text the cached diagnostics are about

lspVars == <<servers, document, tasks, lockedBy, processes, cached, openVersion, told, published>>

Writes == 1 .. MaxWrites
Query == MaxWrites + 1
Clients == Writes \cup {Query}
Idle == [phase |-> "none", text |-> 0, version |-> 0]

-----------------------------------------------------------------------------
(* build_lsp_manager: the user's servers, the defaults that add an extension, *)
(* and a map in which a later server replaces an earlier one                  *)

Extensions == {"ts", "js"}
Entries == [extensions : (SUBSET Extensions) \ {{}}, enabled : BOOLEAN]
NoEntry == [extensions |-> {}, enabled |-> FALSE]

CoversNew == ~(Extensions \subseteq servers.user.extensions)
ServerOf(extension) ==
  IF CoversNew /\ servers.installed THEN "default"
  ELSE IF extension \in servers.user.extensions /\ servers.user.enabled THEN "user"
  ELSE "none"

-----------------------------------------------------------------------------
(* client_for: the map stays locked while a server is spawned and initialized *)

WriteFile ==
  \E w \in Writes :
    /\ tasks[w].phase = "none" /\ \A v \in Writes : v < w => tasks[v].phase # "none"
    /\ \/ /\ document' = w
          /\ tasks' = [tasks EXCEPT ![w].phase = "lock"]
       \/ /\ document' = 0                     \* a deletion notifies nobody
          /\ tasks' = [tasks EXCEPT ![w].phase = "over"]
    /\ UNCHANGED <<servers, lockedBy, processes, cached, openVersion, told, published>>

AskServer ==
  /\ tasks[Query].phase \in {"none", "over"}
  /\ tasks' = [tasks EXCEPT ![Query].phase = "lock"]
  /\ UNCHANGED <<servers, document, lockedBy, processes, cached, openVersion, told, published>>

\* Mutant: the map is not locked while a server starts.
LockBriefly(t) ==
  /\ tasks[t].phase = "lock"
  /\ tasks' = [tasks EXCEPT ![t].phase = "find"]
  /\ UNCHANGED <<servers, document, lockedBy, processes, cached, openVersion, told, published>>

LockClients(t) ==
  /\ tasks[t].phase = "lock" /\ lockedBy = 0
  /\ IF ServerOf("ts") = "none"
     THEN tasks' = [tasks EXCEPT ![t].phase = "over"] /\ UNCHANGED lockedBy
     ELSE tasks' = [tasks EXCEPT ![t].phase = "find"] /\ lockedBy' = t
  /\ UNCHANGED <<servers, document, processes, cached, openVersion, told, published>>

FindClient(t) ==
  /\ tasks[t].phase = "find" /\ cached # 0
  /\ tasks' = [tasks EXCEPT ![t].phase = "read"] /\ lockedBy' = 0
  /\ UNCHANGED <<servers, document, processes, cached, openVersion, told, published>>

SpawnServer(t) ==
  /\ tasks[t].phase = "find" /\ cached = 0
  /\ \E p \in 1 .. MaxStarts :
       /\ processes[p] = "none" /\ \A q \in 1 .. MaxStarts : q < p => processes[q] # "none"
       /\ \/ /\ processes' = [processes EXCEPT ![p] = "starting"]
             /\ tasks' = [tasks EXCEPT ![t].phase = "initialize", ![t].version = p]
             /\ UNCHANGED lockedBy
          \/ /\ processes' = [processes EXCEPT ![p] = "gone"]
             /\ tasks' = [tasks EXCEPT ![t].phase = "over"] /\ lockedBy' = 0
  /\ UNCHANGED <<servers, document, cached, openVersion, told, published>>

\* The handshake succeeds, or fails and drops the client, which kills the process.
ServerInitialized(t) ==
  /\ tasks[t].phase = "initialize" /\ lockedBy' = 0
  /\ \/ /\ cached' = tasks[t].version
        /\ processes' = [processes EXCEPT ![tasks[t].version] = "up"]
        /\ tasks' = [tasks EXCEPT ![t].phase = "read", ![t].version = 0]
     \/ /\ processes' = [processes EXCEPT ![tasks[t].version] = "gone"]
        /\ tasks' = [tasks EXCEPT ![t].phase = "over"] /\ UNCHANGED cached
  /\ UNCHANGED <<servers, document, openVersion, told, published>>

-----------------------------------------------------------------------------
(* notify_file_changed and did_change *)

ReadText(t) ==
  /\ tasks[t].phase = "read"
  /\ tasks' = [tasks EXCEPT ![t].phase = IF t = Query \/ document = 0 THEN "over" ELSE "version",
                            ![t].text = IF t = Query THEN 0 ELSE document]
  /\ UNCHANGED <<servers, document, lockedBy, processes, cached, openVersion, told, published>>

\* Mutant: the next version is computed, and stored only once the text is sent.
NextVersionUnlocked(t) ==
  /\ tasks[t].phase = "version"
  /\ tasks' = [tasks EXCEPT ![t].version = openVersion + 1,
                            ![t].phase = IF openVersion = 0 THEN "open" ELSE "send"]
  /\ UNCHANGED <<servers, document, lockedBy, processes, cached, openVersion, told, published>>

\* An untracked document is opened under a lock of its own, taken a second time.
NextVersion(t) ==
  /\ tasks[t].phase = "version"
  /\ OpensTwice \/ \A u \in Clients : tasks[u].phase # "open"
  /\ IF openVersion = 0
     THEN tasks' = [tasks EXCEPT ![t].phase = "open"] /\ UNCHANGED openVersion
     ELSE /\ tasks' = [tasks EXCEPT ![t].phase = "send", ![t].version = openVersion + 1]
          /\ openVersion' = openVersion + 1
  /\ UNCHANGED <<servers, document, lockedBy, processes, cached, told, published>>

OpenDocument(t) ==
  /\ tasks[t].phase = "open"
  /\ openVersion' = 1
  /\ tasks' = [tasks EXCEPT ![t].phase = "send", ![t].version = 1]
  /\ UNCHANGED <<servers, document, lockedBy, processes, cached, told, published>>

SendText(t) ==
  /\ tasks[t].phase = "send"
  /\ LET m == [version |-> tasks[t].version, text |-> tasks[t].text]
     IN  told' = [all |-> told.all \cup {m}, last |-> m,
                  repeated |-> told.repeated \/ (m.version > 1 /\
                    \E n \in told.all : n.version = m.version)]
  /\ tasks' = [tasks EXCEPT ![t].phase = "over"]
  /\ UNCHANGED <<servers, document, lockedBy, processes, cached, openVersion, published>>

\* The uri was made of the path of the change, which is relative to the workspace;
\* it comes back as an absolute path that is not the document's.
PublishDiagnostics ==
  /\ cached # 0 /\ told.last.text # 0
  /\ published' = [published EXCEPT !["/relative"] = told.last.text]
  /\ UNCHANGED <<servers, document, tasks, lockedBy, processes, cached, openVersion, told>>

-----------------------------------------------------------------------------
LspInit ==
  /\ servers \in [user : {NoEntry} \cup (IF Configures THEN Entries ELSE {}), installed : BOOLEAN]
  /\ document = 0
  /\ tasks = [t \in Clients |-> Idle]
  /\ lockedBy = 0 /\ cached = 0 /\ openVersion = 0
  /\ processes = [p \in 1 .. MaxStarts |-> "none"]
  /\ told = [all |-> {}, last |-> [version |-> 0, text |-> 0], repeated |-> FALSE]
  /\ published = [path \in {"/relative", "absolute"} |-> 0]

LspNext ==
  \/ WriteFile \/ AskServer \/ PublishDiagnostics
  \/ \E t \in Clients : LockClients(t) \/ FindClient(t) \/ SpawnServer(t) \/ ServerInitialized(t)
       \/ ReadText(t) \/ NextVersion(t) \/ OpenDocument(t) \/ SendText(t)

LspSpec == LspInit /\ [][LspNext]_lspVars

-----------------------------------------------------------------------------
(* Properties *)

\* ServerStartedOnce: whoever comes first, one process serves a language; the others
\* wait for its handshake instead of starting their own (lsp manager.rs 98-106).
ServerStartedOnce == Cardinality({p \in 1 .. MaxStarts : processes[p] \in {"starting", "up"}}) <= 1

\* VersionsDistinct: "monotonically increasing versions" (lsp client.rs 37): no two
\* changes of a document carry the same one, however the tasks interleave. If two
\* of them open the document, the second takes the count back to its beginning.
VersionsDistinct == ~told.repeated

LspSafe == ServerStartedOnce /\ VersionsDistinct

\* DocumentFresh: once the notifications are over, "future queries and diagnostics
\* reflect the new content" (lsp manager.rs 108-109).
DocumentFresh ==
  (\A t \in Writes : tasks[t].phase \in {"none", "over"}) /\ told.last.text # 0 /\ document # 0
    => told.last.text = document

\* DiagnosticsReach: the diagnostics the server pushes about an edited file are what
\* the lsp tool reads for that file, "whether an edit introduced a type error"
\* (lsp tool.rs 66).
DiagnosticsReach == published["/relative"] # 0 => published["absolute"] # 0

\* UserServerUsed: the defaults are for "any extension the user hasn't configured"
\* (main.rs 900-902).
UserServerUsed ==
  \A e \in servers.user.extensions : ServerOf(e) = IF servers.user.enabled THEN "user" ELSE "none"
=============================================================================
