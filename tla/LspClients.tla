----------------------------- MODULE LspClients -----------------------------
(* Language servers.  How one is found or installed before it is started      *)
(* (src/src/lsp/server.ts): what must be there first, whether the search path *)
(* is looked at, what an installation needs, and how its outcome is judged;   *)
(* asset names, archive formats and arguments are abstracted.  Then the pool  *)
(* of their clients (src/src/lsp/index.ts getClients) and the wait for        *)
(* diagnostics (src/src/lsp/client.ts): one spawn per server and root         *)
(* whatever the number of callers, a failed one never tried again.            *)
EXTENDS Naturals, FiniteSets

CONSTANTS Roots,   \* directories a server may be started for
          Asked    \* the servers files of this workspace ask for

(* first: runtimes and modules looked for before anything else; path: a       *)
(* program on the path (or in the project's node_modules) is used; needs:     *)
(* what an installation is made with; gets: how it is made.                   *)
OnPath  == [first |-> {}, path |-> TRUE, needs |-> {}, gets |-> "nothing"]
Package == [OnPath EXCEPT !.gets = "package"]  \* bun install, its exit unread
Program(tools) == [OnPath EXCEPT !.gets = "tool", !.needs = tools]
Archive == [OnPath EXCEPT !.gets = "archive"]  \* a release, then looked for
Build   == [OnPath EXCEPT !.gets = "build"]    \* sources, and a build that throws
BunX    == [OnPath EXCEPT !.gets = "bun x"]    \* fetched by the run itself

Deno         == OnPath
Typescript   == [BunX EXCEPT !.first = {"tsserver"}, !.path = FALSE]
Vue          == Package
ESLint       == [Build EXCEPT !.first = {"eslint"}, !.path = FALSE]
Oxlint       == OnPath
Biome        == [BunX EXCEPT !.needs = {"biome"}]
Gopls        == Program({"go"})
Rubocop      == Program({"ruby", "gem"})
Ty           == [OnPath EXCEPT !.first = {"experimental flag"}]
Pyright      == Package
ElixirLS     == [Build EXCEPT !.needs = {"elixir"}]
Zls          == [Archive EXCEPT !.needs = {"zig"}]
CSharp       == Program({"dotnet"})
FSharp       == Program({"dotnet"})
SourceKit    == OnPath
RustAnalyzer == OnPath
Clangd       == Archive
Svelte       == Package
Astro        == [Package EXCEPT !.first = {"tsserver"}]
JDTLS        == [Archive EXCEPT !.first = {"java 21"}, !.path = FALSE]
YamlLS       == Package
LuaLS        == Archive
PHPIntelephense == Package
Prisma       == OnPath
Dart         == OnPath
Ocaml        == OnPath
BashLS       == Package
TerraformLS  == Archive
TexLab       == Archive
DockerfileLS == Package
Gleam        == OnPath
Clojure      == OnPath
Nixd         == OnPath
Tinymist     == Archive
HLS          == OnPath

Server ==
    [deno |-> Deno, typescript |-> Typescript, vue |-> Vue, eslint |-> ESLint,
     oxlint |-> Oxlint, biome |-> Biome, gopls |-> Gopls, rubocop |-> Rubocop,
     ty |-> Ty, pyright |-> Pyright, elixir |-> ElixirLS, zls |-> Zls,
     csharp |-> CSharp, fsharp |-> FSharp, sourcekit |-> SourceKit,
     rust |-> RustAnalyzer, clangd |-> Clangd, svelte |-> Svelte, astro |-> Astro,
     jdtls |-> JDTLS, yaml |-> YamlLS, lua |-> LuaLS, php |-> PHPIntelephense,
     prisma |-> Prisma, dart |-> Dart, ocaml |-> Ocaml, bash |-> BashLS,
     terraform |-> TerraformLS, texlab |-> TexLab, docker |-> DockerfileLS,
     gleam |-> Gleam, clojure |-> Clojure, nixd |-> Nixd, tinymist |-> Tinymist,
     hls |-> HLS]

Runtimes == UNION {Server[s].first \cup Server[s].needs : s \in Asked}
Keys == Roots \X Asked

VARIABLES onPath,     \* servers whose program is on the path
          has,        \* runtimes and modules this machine has
          noDownload, \* OPENCODE_DISABLE_LSP_DOWNLOAD
          install,    \* what an earlier or present installation left
          spawnAt,    \* where each spawn(root) stands
          fetched     \* servers something was downloaded for

machineVars == <<onPath, has, noDownload>>
spawnVars == <<onPath, has, noDownload, install, spawnAt, fetched>>

LspServersTypeOK ==
    /\ onPath \subseteq Asked /\ has \subseteq Runtimes /\ noDownload \in BOOLEAN
    /\ install \in [Asked -> {"absent", "partial", "whole"}]
    /\ spawnAt \in [Keys -> {"idle", "looking", "fetching", "started", "missing", "initializing"}]
    /\ fetched \subseteq Asked

LspServersInit ==
    /\ onPath \in SUBSET Asked
    /\ has \in SUBSET Runtimes
    /\ noDownload \in BOOLEAN
    /\ install \in [Asked -> {"absent", "whole"}]
    /\ spawnAt = [k \in Keys |-> "idle"]
    /\ fetched = {}

Found(s) == \/ Server[s].path /\ s \in onPath
            \/ Server[s].gets \notin {"nothing", "bun x"} /\ install[s] # "absent"

MayGet(s) ==
    /\ Server[s].gets # "nothing"
    /\ Server[s].needs \subseteq has
    /\ noDownload => Server[s].gets = "bun x"

Ready(s) == Server[s].first \subseteq has

LookFound(k) ==
    /\ spawnAt[k] = "looking" /\ Ready(k[2]) /\ Found(k[2])
    /\ spawnAt' = [spawnAt EXCEPT ![k] = "started"]
    /\ UNCHANGED <<machineVars, install, fetched>>

LookFetch(k) ==
    /\ spawnAt[k] = "looking" /\ Ready(k[2]) /\ ~Found(k[2]) /\ MayGet(k[2])
    /\ spawnAt' = [spawnAt EXCEPT ![k] = IF Server[k[2]].gets = "bun x"
                                         THEN "started" ELSE "fetching"]
    /\ fetched' = fetched \cup {k[2]}
    /\ UNCHANGED <<machineVars, install>>

LookMissing(k) ==
    /\ spawnAt[k] = "looking"
    /\ ~Ready(k[2]) \/ (~Found(k[2]) /\ ~MayGet(k[2]))
    /\ spawnAt' = [spawnAt EXCEPT ![k] = "missing"]
    /\ UNCHANGED <<machineVars, install, fetched>>

(* What a spawn does once its installation ended with got.                    *)
Judged(s, got) ==
    CASE Server[s].gets = "package" -> {"started"}
      [] got = "whole"              -> {"started"}
      [] got = "partial" /\ Server[s].gets = "archive" -> {"started", "missing"}
      [] OTHER                      -> {"missing"}

Fetch(k) ==
    /\ spawnAt[k] = "fetching"
    /\ \E got \in {"absent", "partial", "whole"} :
         /\ install' = [install EXCEPT ![k[2]] = IF got = "absent" THEN @ ELSE got]
         /\ \E end \in Judged(k[2], got) : spawnAt' = [spawnAt EXCEPT ![k] = end]
    /\ UNCHANGED <<machineVars, fetched>>

SpawnStep(k) == LookFound(k) \/ LookFetch(k) \/ LookMissing(k) \/ Fetch(k)

-----------------------------------------------------------------------------
(* The pool of clients. *)


CONSTANTS Touchers,   \* concurrent callers of touchFile
          MaxTouches  \* bound: calls that may be begun

ASSUME MaxTouchesAssumption == MaxTouches \in Nat

VARIABLES lspProcs,  \* processes alive for a server and root
          lspPool,   \* clients: server and root with a client
          broken,    \* servers and roots never tried again
          spawning,  \* the tasks in flight
          touch,     \* each caller: what is left, what it awaits
          touches    \* calls begun

poolVars == <<lspProcs, lspPool, broken, spawning, touch, touches>>
lspVars == <<spawnVars, poolVars>>

NoTouch == [at |-> "idle", left |-> {}, key |-> {}, got |-> {}]

LspTypeOK ==
    /\ LspServersTypeOK
    /\ lspProcs \in [Keys -> Nat]
    /\ lspPool \subseteq Keys /\ broken \subseteq Keys /\ spawning \subseteq Keys
    /\ touch \in [Touchers -> [at : {"idle", "clients", "task", "diagnostics"},
                               left : SUBSET Keys, key : SUBSET Keys, got : SUBSET Keys]]
    /\ touches \in 0..MaxTouches

LspInit ==
    /\ LspServersInit
    /\ lspProcs = [k \in Keys |-> 0]
    /\ lspPool = {} /\ broken = {} /\ spawning = {} /\ touches = 0
    /\ touch = [c \in Touchers |-> NoTouch]

TouchFile(c) ==
    /\ touch[c].at = "idle" /\ touches < MaxTouches
    /\ touches' = touches + 1
    /\ \E asked \in SUBSET Keys \ {{}} :
         touch' = [touch EXCEPT ![c] = [NoTouch EXCEPT !.at = "clients", !.left = asked]]
    /\ UNCHANGED <<spawnVars, lspProcs, lspPool, broken, spawning>>

(* Mutant: tasks in flight are not looked for.                                *)
NeverInFlight(k) == FALSE

InFlight(k) == k \in spawning

(* One server of the loop: skipped, matched, joined in flight or scheduled.   *)
TakeServer(c) ==
    /\ touch[c].at = "clients"
    /\ \E k \in touch[c].left :
         LET rest == [touch[c] EXCEPT !.left = @ \ {k}] IN
         \/ /\ k \in broken
            /\ touch' = [touch EXCEPT ![c] = rest]
            /\ UNCHANGED <<spawnAt, spawning>>
         \/ /\ k \in lspPool \ broken
            /\ touch' = [touch EXCEPT ![c] = [rest EXCEPT !.got = @ \cup {k}]]
            /\ UNCHANGED <<spawnAt, spawning>>
         \/ /\ k \notin broken \cup lspPool
            /\ touch' = [touch EXCEPT ![c] = [rest EXCEPT !.at = "task", !.key = {k}]]
            /\ IF InFlight(k)
               THEN UNCHANGED <<spawnAt, spawning>>
               ELSE /\ spawnAt' = [spawnAt EXCEPT ![k] = "looking"]
                    /\ spawning' = spawning \cup {k}
    /\ UNCHANGED <<machineVars, install, fetched, lspProcs, lspPool, broken, touches>>

(* spawn resolved without a process.                                          *)
SpawnedNothing(k) ==
    /\ k \in spawning /\ spawnAt[k] = "missing"
    /\ spawnAt' = [spawnAt EXCEPT ![k] = "idle"]
    /\ broken' = broken \cup {k}
    /\ spawning' = spawning \ {k}
    /\ UNCHANGED <<machineVars, install, fetched, lspProcs, lspPool, touch, touches>>

(* spawn resolved with a process: its client initializes, or does not within  *)
(* 45 s, and the process of a client that another task made first is killed.  *)
SpawnedProcess(k) ==
    /\ k \in spawning /\ spawnAt[k] = "started"
    /\ spawnAt' = [spawnAt EXCEPT ![k] = "initializing"]
    /\ lspProcs' = [lspProcs EXCEPT ![k] = @ + 1]
    /\ UNCHANGED <<machineVars, install, fetched, lspPool, broken, spawning, touch, touches>>

Initialized(k) ==
    /\ spawnAt[k] = "initializing"
    /\ spawnAt' = [spawnAt EXCEPT ![k] = "idle"]
    /\ spawning' = spawning \ {k}
    /\ IF k \in lspPool
       THEN lspProcs' = [lspProcs EXCEPT ![k] = @ - 1] /\ UNCHANGED lspPool
       ELSE lspPool' = lspPool \cup {k} /\ UNCHANGED lspProcs
    /\ UNCHANGED <<machineVars, install, fetched, broken, touch, touches>>

(* Mutant: the task of a client that failed is kept.                          *)
InitializeFailsForEver(k) ==
    /\ spawnAt[k] = "initializing"
    /\ spawnAt' = [spawnAt EXCEPT ![k] = "idle"]
    /\ broken' = broken \cup {k}
    /\ lspProcs' = [lspProcs EXCEPT ![k] = @ - 1]
    /\ UNCHANGED <<machineVars, install, fetched, lspPool, spawning, touch, touches>>

InitializeFails(k) ==
    /\ spawnAt[k] = "initializing"
    /\ spawnAt' = [spawnAt EXCEPT ![k] = "idle"]
    /\ broken' = broken \cup {k}
    /\ lspProcs' = [lspProcs EXCEPT ![k] = @ - 1]
    /\ spawning' = spawning \ {k}
    /\ UNCHANGED <<machineVars, install, fetched, lspPool, touch, touches>>

TaskDone(c) ==
    /\ touch[c].at = "task" /\ touch[c].key \cap spawning = {}
    /\ touch' = [touch EXCEPT ![c].at = "clients", ![c].key = {},
                              ![c].got = @ \cup (touch[c].key \cap lspPool)]
    /\ UNCHANGED <<spawnVars, lspProcs, lspPool, broken, spawning, touches>>

NotifyOpen(c) ==
    /\ touch[c].at = "clients" /\ touch[c].left = {}
    /\ touch' = [touch EXCEPT ![c].at = "diagnostics"]
    /\ UNCHANGED <<spawnVars, lspProcs, lspPool, broken, spawning, touches>>

(* A server's diagnostics settle, or its 3 s pass: waitForDiagnostics never   *)
(* rejects.                                                                   *)
Diagnosed(c) ==
    /\ touch[c].at = "diagnostics"
    /\ touch' = [touch EXCEPT ![c] = IF touch[c].got = {} THEN NoTouch
                                     ELSE [touch[c] EXCEPT !.got = @ \ {CHOOSE k \in @ : TRUE}]]
    /\ UNCHANGED <<spawnVars, lspProcs, lspPool, broken, spawning, touches>>

PoolStep(k) == SpawnedNothing(k) \/ SpawnedProcess(k) \/ Initialized(k) \/ InitializeFails(k)
TouchStep(c) == TakeServer(c) \/ TaskDone(c) \/ NotifyOpen(c) \/ Diagnosed(c)

LspNext ==
    \/ \E c \in Touchers : TouchFile(c) \/ TouchStep(c)
    \/ \E k \in Keys : PoolStep(k) \/ (SpawnStep(k) /\ UNCHANGED poolVars)

(* At most one process of a server runs for a root, however many callers ask  *)
(* for it at once, and none that failed to initialize is given to a caller    *)
(* (lsp/index.ts: spawning is looked at before schedule, and a client that    *)
(* came second is shut down).                                                 *)
OneServerPerRoot ==
    /\ LspTypeOK
    /\ \A k \in Keys : lspProcs[k] <= 1
    /\ broken \cap lspPool = {}

(* Every touchFile ends, whatever its servers do (45 s and 3 s timers).       *)
TouchesEnd == \A c \in Touchers : touch[c].at # "idle" ~> touch[c].at = "idle"
=============================================================================
