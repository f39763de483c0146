----------------------------- MODULE ClientProofs -----------------------------
(* Proofs about the agent's ends of other programs' connections: language    *)
(* servers (lsp/), MCP servers with their OAuth flows (mcp/), the sockets of *)
(* the pseudo-terminals it runs (pty/), the caches through which it reaches  *)
(* models (provider/), the conversations it sends them (session/compaction), *)
(* the answers they stream back, a run of the GitHub workflow                *)
(* (cli/cmd/github.ts) and the patches models send it (tool/patch.ts), for   *)
(* any number of servers, roots, callers, flows, terminals, sockets, models, *)
(* messages, items, commits, files, hunks, chunks and lines.                 *)
EXTENDS LspClients, McpClients, Terminals, Providers, Conversation, ResponsesStream, GithubRun, Patches,
        SequenceLemmas, FiniteSetTheorems, SequenceTheorems, WellFoundedInduction, TLAPS

LspSpec == LspInit /\ [][LspNext]_lspVars
McpSpec == McpInit /\ [][McpNext]_mcpVars

-----------------------------------------------------------------------------
(* Language servers *)

Touch == [at : {"idle", "clients", "task", "diagnostics"},
          left : SUBSET Keys, key : SUBSET Keys, got : SUBSET Keys]

\* A server has one process while its client initializes or is in the pool, and
\* none otherwise; a task in flight is for a server neither pooled nor broken.
LspInv ==
  /\ LspTypeOK
  /\ broken \cap lspPool = {}
  /\ spawning \cap (broken \cup lspPool) = {}
  /\ \A k \in Keys : spawnAt[k] # "idle" <=> k \in spawning
  /\ \A k \in Keys : lspProcs[k] = IF k \in lspPool \/ spawnAt[k] = "initializing" THEN 1 ELSE 0

LEMMA TouchExcept ==
  ASSUME NEW t \in Touch
  PROVE  /\ \A at \in {"idle", "clients", "task", "diagnostics"} : [t EXCEPT !.at = at] \in Touch
         /\ \A S \in SUBSET Keys : /\ [t EXCEPT !.left = S] \in Touch
                                  /\ [t EXCEPT !.key = S] \in Touch
                                  /\ [t EXCEPT !.got = S] \in Touch
<1>1. ASSUME NEW at \in {"idle", "clients", "task", "diagnostics"} PROVE [t EXCEPT !.at = at] \in Touch
  BY Zenon DEF Touch
<1>2. ASSUME NEW S \in SUBSET Keys PROVE [t EXCEPT !.left = S] \in Touch
  BY Zenon DEF Touch
<1>3. ASSUME NEW S \in SUBSET Keys PROVE [t EXCEPT !.key = S] \in Touch
  BY Zenon DEF Touch
<1>4. ASSUME NEW S \in SUBSET Keys PROVE [t EXCEPT !.got = S] \in Touch
  BY Zenon DEF Touch
<1> QED BY <1>1, <1>2, <1>3, <1>4, Zenon

LEMMA TouchType ==
  ASSUME LspTypeOK, NEW c \in Touchers
  PROVE  /\ touch[c] \in Touch /\ NoTouch \in Touch
         /\ touch[c].left \in SUBSET Keys /\ touch[c].key \in SUBSET Keys /\ touch[c].got \in SUBSET Keys
         /\ \A t \in Touch : [touch EXCEPT ![c] = t] \in [Touchers -> Touch]
<1>1. touch \in [Touchers -> Touch] /\ touch[c] \in Touch /\ NoTouch \in Touch
  BY DEF LspTypeOK, Touch, NoTouch
<1> QED BY <1>1 DEF Touch

LEMMA LspStep ==
  ASSUME LspInv, [LspNext]_lspVars
  PROVE  LspInv'
<1> DEFINE SpawnPlaces == {"idle", "looking", "fetching", "started", "missing", "initializing"}
<1>1. /\ LspTypeOK /\ LspServersTypeOK
      /\ spawnAt \in [Keys -> SpawnPlaces] /\ lspProcs \in [Keys -> Nat]
      /\ touch \in [Touchers -> Touch] /\ install \in [Asked -> {"absent", "partial", "whole"}]
  BY DEF LspInv, LspTypeOK, LspServersTypeOK, Touch
<1> HIDE DEF SpawnPlaces
<1>2. ASSUME NEW c \in Touchers, TouchFile(c) PROVE LspInv'
  <2>1. touches' \in 0..MaxTouches
    BY <1>1, <1>2, MaxTouchesAssumption DEF TouchFile, LspTypeOK
  <2>2. touch' \in [Touchers -> Touch]
    <3>1. PICK asked \in SUBSET Keys \ {{}} :
            touch' = [touch EXCEPT ![c] = [NoTouch EXCEPT !.at = "clients", !.left = asked]]
      BY <1>2 DEF TouchFile
    <3>2. [NoTouch EXCEPT !.at = "clients"] \in Touch
      BY <1>1, TouchType, TouchExcept
    <3>3. [[NoTouch EXCEPT !.at = "clients"] EXCEPT !.left = asked] \in Touch
      BY <3>2, TouchExcept
    <3> QED BY <1>1, <3>1, <3>3, TouchType
  <2>3. UNCHANGED <<spawnVars, lspProcs, lspPool, broken, spawning>>
    BY <1>2 DEF TouchFile
  <2> QED BY <2>1, <2>2, <2>3 DEF LspInv, LspTypeOK, LspServersTypeOK, spawnVars, machineVars, Touch
<1>3. ASSUME NEW c \in Touchers, TakeServer(c) PROVE LspInv'
  <2>1. PICK k \in touch[c].left :
          \/ /\ k \in broken
             /\ touch' = [touch EXCEPT ![c] = [touch[c] EXCEPT !.left = @ \ {k}]]
             /\ UNCHANGED <<spawnAt, spawning>>
          \/ /\ k \in lspPool \ broken
             /\ touch' = [touch EXCEPT ![c] = [[touch[c] EXCEPT !.left = @ \ {k}] EXCEPT !.got = @ \cup {k}]]
             /\ UNCHANGED <<spawnAt, spawning>>
          \/ /\ k \notin broken \cup lspPool
             /\ touch' = [touch EXCEPT ![c] = [[touch[c] EXCEPT !.left = @ \ {k}] EXCEPT !.at = "task", !.key = {k}]]
             /\ IF InFlight(k)
                THEN UNCHANGED <<spawnAt, spawning>>
                ELSE /\ spawnAt' = [spawnAt EXCEPT ![k] = "looking"]
                     /\ spawning' = spawning \cup {k}
    BY <1>3 DEF TakeServer
  <2>2. UNCHANGED <<machineVars, install, fetched, lspProcs, lspPool, broken, touches>>
    BY <1>3 DEF TakeServer
  <2>3. k \in Keys /\ k \notin {}
    BY <1>1, <2>1, TouchType
  <2>4. touch' \in [Touchers -> Touch]
    <3> DEFINE rest == [touch[c] EXCEPT !.left = @ \ {k}]
    <3>1. rest \in Touch
      BY <1>1, TouchType, TouchExcept
    <3>2. rest.got = touch[c].got
      BY <1>1, TouchType DEF Touch
    <3> HIDE DEF rest
    <3>3. {k} \in SUBSET Keys /\ touch[c].got \cup {k} \in SUBSET Keys
      BY <1>1, <2>3, TouchType
    <3>4. [rest EXCEPT !.got = touch[c].got \cup {k}] \in Touch
      BY <3>1, <3>3, TouchExcept
    <3>5. [rest EXCEPT !.got = @ \cup {k}] \in Touch
      BY <3>2, <3>4
    <3>6. [rest EXCEPT !.at = "task"] \in Touch
      BY <3>1, TouchExcept
    <3>7. [[rest EXCEPT !.at = "task"] EXCEPT !.key = {k}] \in Touch
      BY <3>3, <3>6, TouchExcept
    <3>8. \/ touch' = [touch EXCEPT ![c] = rest]
          \/ touch' = [touch EXCEPT ![c] = [rest EXCEPT !.got = @ \cup {k}]]
          \/ touch' = [touch EXCEPT ![c] = [[rest EXCEPT !.at = "task"] EXCEPT !.key = {k}]]
      BY <2>1 DEF rest
    <3> QED BY <1>1, <3>1, <3>5, <3>7, <3>8, TouchType
  <2>5. \/ UNCHANGED <<spawnAt, spawning>>
        \/ /\ k \notin broken \cup lspPool /\ k \notin spawning
           /\ spawnAt' = [spawnAt EXCEPT ![k] = "looking"] /\ spawning' = spawning \cup {k}
    BY <2>1 DEF InFlight
  <2>6. spawnAt' \in [Keys -> SpawnPlaces] /\ spawning' \subseteq Keys
    BY <1>1, <2>3, <2>5 DEF SpawnPlaces, LspTypeOK
  <2>7. /\ spawning' \cap (broken \cup lspPool) = {}
        /\ \A j \in Keys : spawnAt'[j] # "idle" <=> j \in spawning'
        /\ \A j \in Keys : lspProcs[j] = IF j \in lspPool \/ spawnAt'[j] = "initializing" THEN 1 ELSE 0
    BY <1>1, <2>3, <2>5 DEF LspInv, SpawnPlaces
  <2> QED BY <1>1, <2>2, <2>4, <2>6, <2>7 DEF LspInv, LspTypeOK, LspServersTypeOK, machineVars, Touch, SpawnPlaces
<1>4. ASSUME NEW c \in Touchers, TaskDone(c) \/ NotifyOpen(c) \/ Diagnosed(c) PROVE LspInv'
  <2>1. UNCHANGED <<spawnVars, lspProcs, lspPool, broken, spawning, touches>>
    BY <1>4 DEF TaskDone, NotifyOpen, Diagnosed
  <2>2. PICK t \in Touch : touch' = [touch EXCEPT ![c] = t]
    <3>1. lspPool \subseteq Keys
      BY <1>1 DEF LspTypeOK
    <3>2. CASE TaskDone(c)
      <4> DEFINE free == [touch[c] EXCEPT !.at = "clients"]
                 S == touch[c].got \cup (touch[c].key \cap lspPool)
      <4>1. [free EXCEPT !.key = {}] \in Touch
        BY <1>1, TouchType, TouchExcept
      <4>2. S \in SUBSET Keys
        BY <1>1, <3>1, TouchType
      <4>3. [[free EXCEPT !.key = {}] EXCEPT !.got = S] \in Touch
        BY <4>1, <4>2, TouchExcept
      <4>4. touch' = [touch EXCEPT ![c] = [[free EXCEPT !.key = {}] EXCEPT !.got = S]]
        BY <1>1, <3>2 DEF TaskDone, Touch
      <4> QED BY <4>3, <4>4
    <3>3. CASE NotifyOpen(c)
      <4>1. touch' = [touch EXCEPT ![c] = [touch[c] EXCEPT !.at = "diagnostics"]]
        BY <1>1, <3>3 DEF NotifyOpen
      <4>2. [touch[c] EXCEPT !.at = "diagnostics"] \in Touch
        BY <1>1, TouchType, TouchExcept
      <4> QED BY <4>1, <4>2
    <3>4. CASE Diagnosed(c) /\ touch[c].got = {}
      BY <1>1, <3>4, TouchType DEF Diagnosed, NoTouch
    <3>5. CASE Diagnosed(c) /\ touch[c].got # {}
      <4> DEFINE rest == touch[c].got \ {CHOOSE k \in touch[c].got : TRUE}
      <4>1. touch' = [touch EXCEPT ![c] = [touch[c] EXCEPT !.got = rest]]
        BY <1>1, <3>5 DEF Diagnosed
      <4>2. rest \in SUBSET Keys
        BY <1>1, TouchType
      <4>3. [touch[c] EXCEPT !.got = rest] \in Touch
        <5> HIDE DEF rest
        <5> QED BY <1>1, <4>2, TouchType, TouchExcept
      <4> QED BY <4>1, <4>3
    <3> QED BY <1>4, <3>2, <3>3, <3>4, <3>5
  <2>3. touch' \in [Touchers -> Touch]
    BY <1>1, <2>2
  <2> QED BY <2>1, <2>3 DEF LspInv, LspTypeOK, LspServersTypeOK, spawnVars, machineVars, Touch
<1>5. ASSUME NEW k \in Keys, PoolStep(k) PROVE LspInv'
  <2>1. UNCHANGED <<machineVars, install, fetched, touch, touches>>
    BY <1>5 DEF PoolStep, SpawnedNothing, SpawnedProcess, Initialized, InitializeFails
  <2>2. /\ spawnAt' \in [Keys -> SpawnPlaces] /\ lspPool' \subseteq Keys
        /\ broken' \subseteq Keys /\ spawning' \subseteq Keys
        /\ \A j \in Keys \ {k} : /\ spawnAt'[j] = spawnAt[j] /\ (j \in lspPool' <=> j \in lspPool)
                                 /\ (j \in broken' <=> j \in broken) /\ (j \in spawning' <=> j \in spawning)
                                 /\ lspProcs'[j] = lspProcs[j]
    BY <1>1, <1>5 DEF PoolStep, SpawnedNothing, SpawnedProcess, Initialized, InitializeFails, LspTypeOK, SpawnPlaces
  <2>3. /\ k \in Keys /\ (spawnAt[k] # "idle" <=> k \in spawning)
        /\ lspProcs[k] = IF k \in lspPool \/ spawnAt[k] = "initializing" THEN 1 ELSE 0
        /\ k \notin broken \cap lspPool /\ (k \in spawning => k \notin broken \cup lspPool)
    BY DEF LspInv
  <2>4. /\ lspProcs' \in [Keys -> Nat]
        /\ spawnAt'[k] # "idle" <=> k \in spawning'
        /\ lspProcs'[k] = IF k \in lspPool' \/ spawnAt'[k] = "initializing" THEN 1 ELSE 0
        /\ k \notin broken' \cap lspPool' /\ (k \in spawning' => k \notin broken' \cup lspPool')
    <3>1. CASE SpawnedNothing(k)
      BY <1>1, <2>3, <3>1 DEF SpawnedNothing
    <3>2. CASE SpawnedProcess(k)
      BY <1>1, <2>3, <3>2 DEF SpawnedProcess
    <3>3. CASE Initialized(k)
      BY <1>1, <2>3, <3>3 DEF Initialized
    <3>4. CASE InitializeFails(k)
      BY <1>1, <2>3, <3>4 DEF InitializeFails
    <3> QED BY <1>5, <3>1, <3>2, <3>3, <3>4 DEF PoolStep
  <2>5. /\ broken' \cap lspPool' = {} /\ spawning' \cap (broken' \cup lspPool') = {}
        /\ \A j \in Keys : spawnAt'[j] # "idle" <=> j \in spawning'
        /\ \A j \in Keys : lspProcs'[j] = IF j \in lspPool' \/ spawnAt'[j] = "initializing" THEN 1 ELSE 0
    BY <2>2, <2>4 DEF LspInv
  <2> QED BY <1>1, <2>1, <2>2, <2>4, <2>5 DEF LspInv, LspTypeOK, LspServersTypeOK, machineVars, SpawnPlaces
<1>6. ASSUME NEW k \in Keys, SpawnStep(k), UNCHANGED poolVars PROVE LspInv'
  <2>1. k[2] \in Asked
    BY DEF Keys
  <2>2. \E p \in {"fetching", "started", "missing"} : spawnAt' = [spawnAt EXCEPT ![k] = p]
    <3>1. CASE Fetch(k)
      BY <3>1 DEF Fetch, Judged
    <3> QED BY <1>6, <3>1 DEF SpawnStep, LookFound, LookFetch, LookMissing
  <2>3. spawnAt[k] \in {"looking", "fetching"}
    BY <1>6 DEF SpawnStep, LookFound, LookFetch, LookMissing, Fetch
  <2>4. UNCHANGED machineVars /\ fetched' \subseteq Asked
    BY <1>1, <1>6, <2>1 DEF SpawnStep, LookFound, LookFetch, LookMissing, Fetch, LspServersTypeOK
  <2>5. install' \in [Asked -> {"absent", "partial", "whole"}]
    <3>1. CASE UNCHANGED install
      BY <1>1, <3>1
    <3>2. CASE Fetch(k)
      BY <1>1, <2>1, <3>2 DEF Fetch
    <3> QED BY <1>6, <3>1, <3>2 DEF SpawnStep, LookFound, LookFetch, LookMissing
  <2>6. /\ spawnAt' \in [Keys -> SpawnPlaces]
        /\ \A j \in Keys : /\ spawnAt'[j] = "idle" <=> spawnAt[j] = "idle"
                           /\ spawnAt'[j] = "initializing" <=> spawnAt[j] = "initializing"
    BY <1>1, <2>2, <2>3 DEF SpawnPlaces
  <2> QED BY <1>1, <1>6, <2>4, <2>5, <2>6 DEF LspInv, LspTypeOK, LspServersTypeOK, machineVars, poolVars, SpawnPlaces
<1>7. CASE UNCHANGED lspVars
  BY <1>7 DEF lspVars, poolVars, spawnVars, machineVars, LspInv, LspTypeOK, LspServersTypeOK
<1> QED BY <1>2, <1>3, <1>4, <1>5, <1>6, <1>7 DEF LspNext, TouchStep

\* However many callers touch files at once, a server runs at most once for a
\* root, and none that failed is given to anyone (lsp/index.ts:177-262).
THEOREM ServersRunOnce == LspSpec => []OneServerPerRoot
<1>1. LspInit => LspInv
  <2> SUFFICES ASSUME LspInit PROVE LspInv
    OBVIOUS
  <2> USE DEF LspInit, LspServersInit
  <2>1. LspServersTypeOK
    BY DEF LspServersTypeOK
  <2>2. LspTypeOK
    BY <2>1, MaxTouchesAssumption DEF LspTypeOK, NoTouch
  <2>3. /\ \A k \in Keys : spawnAt[k] = "idle" /\ lspProcs[k] = 0
        /\ broken = {} /\ spawning = {} /\ lspPool = {}
    OBVIOUS
  <2> QED BY <2>2, <2>3 DEF LspInv
<1>2. LspInv /\ [LspNext]_lspVars => LspInv'
  BY LspStep
<1>3. LspInv => OneServerPerRoot
  BY DEF LspInv, OneServerPerRoot
<1> QED BY <1>1, <1>2, <1>3, PTL DEF LspSpec

-----------------------------------------------------------------------------
(* MCP servers *)

McpCalls == [at : {"idle", "connecting", "probing", "made", "closing", "listing"},
             client : SUBSET McpClient, status : Statuses]
FlowStates == [at : {"new", "started", "opened", "waiting", "answered", "finishing", "stuck", "ended"},
               state : SUBSET Flows]

LEMMA FewInNoneOrOne == Cardinality({}) <= 1 /\ \A x : Cardinality({x}) <= 1
<1>1. Cardinality({}) = 0
  BY FS_EmptySet
<1>2. \A x : Cardinality({x}) = 1
  BY FS_Singleton
<1> QED BY <1>1, <1>2

\* A call that found its server connected brings a client, and one only.
CallsBringClients ==
  \A c \in McpCallers :
    /\ Cardinality(mcpCall[c].client) <= 1
    /\ mcpCall[c].at = "probing" => mcpCall[c].client # NoClient
    /\ mcpCall[c].at = "made" /\ mcpCall[c].status = "connected" => mcpCall[c].client # NoClient

\* A state is stored once, by its own flow, and gone for ever once it was
\* validated or removed.
StatesAreStoredOnce ==
  /\ oauthState \cap revoked = {}
  /\ \A f \in Flows : flow[f].at = "new" => f \notin revoked \cup oauthState
  /\ \A f \in Flows : flow[f].at = "finishing" =>
       /\ flow[f].state \cap (revoked \cup oauthState) = {}
       /\ \A g \in flow[f].state : flow[g].at # "new"

McpInv == McpTypeOK /\ ConnectedHasClient /\ CallsBringClients /\ StatesAreStoredOnce

LEMMA FlowExcept ==
  ASSUME McpTypeOK, NEW f \in Flows
  PROVE  /\ \A at \in {"new", "started", "opened", "waiting", "answered", "finishing", "stuck", "ended"} :
              FlowAt(f, at) => /\ flow' \in [Flows -> FlowStates]
                               /\ flow'[f].at = at /\ flow'[f].state = flow[f].state
                               /\ \A g \in Flows \ {f} : flow'[g] = flow[g]
         /\ \A at \in {"ended", "opened"}, S \in SUBSET Flows :
              flow' = [flow EXCEPT ![f].state = S, ![f].at = at]
                => /\ flow' \in [Flows -> FlowStates]
                   /\ flow'[f].at = at
                   /\ \A g \in Flows \ {f} : flow'[g] = flow[g]
<1>1. flow \in [Flows -> FlowStates] /\ flow[f] \in FlowStates
  BY DEF McpTypeOK, FlowStates
<1>2. \A r \in FlowStates : /\ [flow EXCEPT ![f] = r] \in [Flows -> FlowStates]
                            /\ [flow EXCEPT ![f] = r][f] = r
                            /\ \A g \in Flows \ {f} : [flow EXCEPT ![f] = r][g] = flow[g]
  BY <1>1
<1>3. ASSUME NEW at \in {"new", "started", "opened", "waiting", "answered", "finishing", "stuck", "ended"},
             NEW r \in FlowStates
      PROVE  /\ [r EXCEPT !.at = at] \in FlowStates
             /\ [r EXCEPT !.at = at].at = at /\ [r EXCEPT !.at = at].state = r.state
  <2>1. [r EXCEPT !.at = at] \in FlowStates
    BY Zenon DEF FlowStates
  <2> QED BY <2>1 DEF FlowStates
<1>4. ASSUME NEW S \in SUBSET Flows PROVE [flow[f] EXCEPT !.state = S] \in FlowStates
  BY <1>1, Zenon DEF FlowStates
<1>5. ASSUME NEW at \in {"new", "started", "opened", "waiting", "answered", "finishing", "stuck", "ended"},
             FlowAt(f, at)
      PROVE  /\ flow' \in [Flows -> FlowStates]
             /\ flow'[f].at = at /\ flow'[f].state = flow[f].state
             /\ \A g \in Flows \ {f} : flow'[g] = flow[g]
  <2>1. flow' = [flow EXCEPT ![f] = [flow[f] EXCEPT !.at = at]]
    BY <1>5 DEF FlowAt
  <2> QED BY <1>1, <1>2, <1>3, <2>1
<1>6. ASSUME NEW at \in {"ended", "opened"}, NEW S \in SUBSET Flows,
             flow' = [flow EXCEPT ![f].state = S, ![f].at = at]
      PROVE  /\ flow' \in [Flows -> FlowStates]
             /\ flow'[f].at = at
             /\ \A g \in Flows \ {f} : flow'[g] = flow[g]
  <2> DEFINE r == [flow[f] EXCEPT !.state = S]
  <2>1. flow' = [flow EXCEPT ![f] = [r EXCEPT !.at = at]]
    BY <1>1, <1>6
  <2>2. r \in FlowStates
    BY <1>4
  <2> HIDE DEF r
  <2> QED BY <1>2, <1>3, <2>1, <2>2
<1> QED BY <1>5, <1>6

LEMMA DoingType ==
  ASSUME McpTypeOK, CallsBringClients, NEW c \in McpCallers,
         NEW at \in {"idle", "connecting", "probing", "made", "closing", "listing"},
         NEW client \in SUBSET McpClient, NEW status0 \in Statuses,
         Cardinality(client) <= 1, at = "probing" => client # NoClient,
         at = "made" /\ status0 = "connected" => client # NoClient,
         Doing(c, at, client, status0)
  PROVE  /\ mcpCall' \in [McpCallers -> McpCalls]
         /\ CallsBringClients'
<1>1. mcpCall \in [McpCallers -> McpCalls]
  BY DEF McpTypeOK, McpCalls
<1>2. [at |-> at, client |-> client, status |-> status0] \in McpCalls
  BY DEF McpCalls
<1>3. mcpCall' \in [McpCallers -> McpCalls]
  BY <1>1, <1>2 DEF Doing
<1>4. \A d \in McpCallers : mcpCall'[d] = IF d = c THEN [at |-> at, client |-> client, status |-> status0]
                                          ELSE mcpCall[d]
  BY <1>1 DEF Doing
<1>5. CallsBringClients'
  BY <1>4 DEF CallsBringClients
<1> QED BY <1>3, <1>5

LEMMA IdleIsDoing ==
  ASSUME NEW c \in McpCallers, Idle(c)
  PROVE  Doing(c, "idle", NoClient, "none")
BY DEF Idle, Doing, NoMcpCall

LEMMA CallsInv ==
  ASSUME McpInv, NEW c \in McpCallers,
         McpConnect(c) \/ Disconnect(c) \/ McpTools(c) \/ McpCallStep(c)
  PROVE  McpInv'
<1> USE FewInNoneOrOne DEF NoClient, Statuses
<1>1. /\ McpTypeOK /\ CallsBringClients /\ ConnectedHasClient /\ StatesAreStoredOnce
      /\ mcpCall[c].client \in SUBSET McpClient /\ mcpCall[c].status \in Statuses
      /\ Cardinality(mcpCall[c].client) <= 1 /\ Cardinality({}) <= 1 /\ {} \in SUBSET McpClient
      /\ registered \in SUBSET McpClient /\ Cardinality(registered) <= 1
      /\ open \subseteq made /\ made \subseteq McpClient
      /\ mcpStatus \in Statuses /\ transport \subseteq Flows \cup {"connect"} /\ Cardinality(transport) <= 1
      /\ Cardinality({"connect"}) <= 1 /\ {"connect"} \subseteq Flows \cup {"connect"}
  BY DEF McpInv, McpTypeOK, CallsBringClients
<1>2. UNCHANGED oauthVars
  BY DEF McpConnect, Disconnect, McpTools, McpCallStep, NotConnected, Connected, Probed, Register, Closed, Listed
<1>3. StatesAreStoredOnce'
  BY <1>1, <1>2 DEF oauthVars, StatesAreStoredOnce
<1>4. SUFFICES /\ mcpCall' \in [McpCallers -> McpCalls] /\ CallsBringClients' /\ ConnectedHasClient'
               /\ registered' \in SUBSET McpClient /\ Cardinality(registered') <= 1
               /\ open' \subseteq made' /\ made' \subseteq McpClient
               /\ mcpStatus' \in Statuses
               /\ transport' \subseteq Flows \cup {"connect"} /\ Cardinality(transport') <= 1
  BY <1>1, <1>2, <1>3 DEF McpInv, McpTypeOK, oauthVars, McpCalls
<1>5. CASE McpConnect(c)
  <2>1. mcpCall' \in [McpCallers -> McpCalls] /\ CallsBringClients'
    BY <1>1, <1>5, DoingType DEF McpConnect
  <2> QED BY <1>1, <1>5, <2>1 DEF McpConnect, ConnectedHasClient
<1>6. CASE Connected(c)
  <2>1. PICK k \in McpClient \ made :
          made' = made \cup {k} /\ open' = open \cup {k} /\ Doing(c, "probing", {k}, "connected")
    BY <1>6 DEF Connected
  <2>2. {k} \in SUBSET McpClient /\ Cardinality({k}) <= 1 /\ {k} # {}
    OBVIOUS
  <2>3. mcpCall' \in [McpCallers -> McpCalls] /\ CallsBringClients'
    BY <1>1, <2>1, <2>2, DoingType
  <2> QED BY <1>1, <1>6, <2>1, <2>3 DEF Connected, ConnectedHasClient
<1>7. CASE NotConnected(c)
  <2>1. mcpCall' \in [McpCallers -> McpCalls] /\ CallsBringClients'
    BY <1>1, <1>7, DoingType DEF NotConnected
  <2> QED BY <1>1, <1>7, <2>1 DEF NotConnected, ConnectedHasClient
<1>8. CASE Probed(c)
  <2>1. mcpCall[c].client # {}
    BY <1>1, <1>8 DEF Probed, CallsBringClients
  <2>2. mcpCall' \in [McpCallers -> McpCalls] /\ CallsBringClients'
    BY <1>1, <1>8, <2>1, DoingType DEF Probed
  <2> QED BY <1>1, <1>8, <2>2 DEF Probed, ConnectedHasClient
<1>9. CASE Register(c)
  <2>1. mcpCall' \in [McpCallers -> McpCalls] /\ CallsBringClients'
    BY <1>1, <1>9, DoingType, IdleIsDoing DEF Register
  <2>2. ConnectedHasClient'
    BY <1>1, <1>9 DEF Register, ConnectedHasClient, CallsBringClients
  <2> QED BY <1>1, <1>9, <2>1, <2>2 DEF Register
<1>10. CASE Disconnect(c)
  <2>1. CASE registered = {}
    BY <1>1, <1>10, <2>1 DEF Disconnect, McpTypeOK, McpCalls, CallsBringClients, ConnectedHasClient
  <2>2. CASE registered # {}
    <3>1. mcpCall' \in [McpCallers -> McpCalls] /\ CallsBringClients'
      BY <1>1, <1>10, <2>2, DoingType DEF Disconnect
    <3> QED BY <1>1, <1>10, <2>2, <3>1 DEF Disconnect, ConnectedHasClient
  <2> QED BY <2>1, <2>2
<1>11. CASE McpTools(c)
  <2>1. mcpCall' \in [McpCallers -> McpCalls] /\ CallsBringClients'
    BY <1>1, <1>11, DoingType DEF McpTools
  <2> QED BY <1>1, <1>11, <2>1 DEF McpTools, ConnectedHasClient
<1>12. CASE Closed(c) \/ Listed(c)
  <2>1. mcpCall' \in [McpCallers -> McpCalls] /\ CallsBringClients'
    BY <1>1, <1>12, DoingType, IdleIsDoing DEF Closed, Listed
  <2>2. ConnectedHasClient'
    BY <1>1, <1>12 DEF Closed, Listed, ConnectedHasClient
  <2> QED BY <1>1, <1>12, <2>1, <2>2 DEF Closed, Listed
<1> QED BY <1>5, <1>6, <1>7, <1>8, <1>9, <1>10, <1>11, <1>12 DEF McpCallStep

\* The flows: every step but the one that goes on to connect leaves the calls alone.
LEMMA FlowsKeepStates ==
  ASSUME McpInv, NEW f \in Flows, StartAuth(f) \/ FlowStep(f)
  PROVE  flow' \in [Flows -> FlowStates] /\ StatesAreStoredOnce'
<1>1. /\ McpTypeOK /\ StatesAreStoredOnce /\ oauthState \in SUBSET Flows
      /\ flow \in [Flows -> FlowStates] /\ revoked \subseteq Flows
      /\ \A g \in Flows : flow[g].state \in SUBSET Flows
  BY DEF McpInv, McpTypeOK, FlowStates
<1>2. revoked' = revoked
  BY DEF StartAuth, FlowStep, Unauthorized, WaitForCallback, Callback, CallbackTimeout, Validate, FinishAuth
<1>3. CASE StartAuth(f)
  <2>1. /\ flow[f].at = "new" /\ oauthState' = {f} /\ FlowAt(f, "started")
    BY <1>3 DEF StartAuth
  <2>2. /\ flow' \in [Flows -> FlowStates] /\ flow'[f].at = "started"
        /\ \A g \in Flows \ {f} : flow'[g] = flow[g]
    BY <1>1, <2>1, FlowExcept
  <2>3. \A g \in Flows : flow'[g].at = "finishing" => f \notin flow[g].state /\ g # f
    BY <1>1, <2>1, <2>2 DEF StatesAreStoredOnce
  <2> QED BY <1>1, <1>2, <2>1, <2>2, <2>3 DEF StatesAreStoredOnce
<1>4. CASE Unauthorized(f) \/ WaitForCallback(f) \/ Callback(f) \/ CallbackTimeout(f) \/ FinishAuth(f)
  <2>1. oauthState' = oauthState /\ flow[f].at # "new"
    BY <1>4 DEF Unauthorized, WaitForCallback, Callback, CallbackTimeout, FinishAuth
  <2>2. /\ flow' \in [Flows -> FlowStates] /\ flow'[f].at \notin {"new", "finishing"}
        /\ \A g \in Flows \ {f} : flow'[g] = flow[g]
    <3>1. CASE Unauthorized(f)
      <4>1. \E at \in {"ended", "opened"} : flow' = [flow EXCEPT ![f].state = oauthState, ![f].at = at]
        BY <3>1 DEF Unauthorized
      <4> QED BY <1>1, <4>1, FlowExcept
    <3>2. CASE ~Unauthorized(f)
      <4>1. \E at \in {"waiting", "answered", "ended", "stuck"} : FlowAt(f, at)
        BY <1>4, <3>2 DEF WaitForCallback, Callback, CallbackTimeout, FinishAuth
      <4> QED BY <1>1, <4>1, FlowExcept
    <3> QED BY <3>1, <3>2
  <2> QED BY <1>1, <1>2, <2>1, <2>2 DEF StatesAreStoredOnce
<1>5. CASE Validate(f)
  <2>1. /\ flow[f].at = "answered" /\ oauthState' = {}
        /\ FlowAt(f, IF oauthState = flow[f].state THEN "finishing" ELSE "ended")
    BY <1>5 DEF Validate
  <2>2. /\ flow' \in [Flows -> FlowStates] /\ flow'[f].state = flow[f].state
        /\ flow'[f].at = IF oauthState = flow[f].state THEN "finishing" ELSE "ended"
        /\ \A g \in Flows \ {f} : flow'[g] = flow[g]
    BY <1>1, <2>1, FlowExcept
  <2>3. oauthState = flow[f].state =>
          /\ flow[f].state \cap revoked = {} /\ \A g \in flow[f].state : flow[g].at # "new"
    BY <1>1 DEF StatesAreStoredOnce
  <2>4. \A g \in Flows : flow'[g].at = "new" <=> flow[g].at = "new"
    BY <2>1, <2>2
  <2> QED BY <1>1, <1>2, <2>1, <2>2, <2>3, <2>4 DEF StatesAreStoredOnce
<1> QED BY <1>3, <1>4, <1>5 DEF FlowStep

LEMMA FlowsInv ==
  ASSUME McpInv, NEW f \in Flows, StartAuth(f) \/ FlowStep(f)
  PROVE  McpInv'
<1> USE FewInNoneOrOne
<1>1. McpTypeOK /\ CallsBringClients /\ ConnectedHasClient
  BY DEF McpInv
<1>2. UNCHANGED <<mcpPool, revoked>>
  BY DEF StartAuth, FlowStep, Unauthorized, WaitForCallback, Callback, CallbackTimeout, Validate, FinishAuth
<1>3. flow' \in [Flows -> FlowStates] /\ StatesAreStoredOnce'
  BY FlowsKeepStates
<1>4. /\ oauthState' \subseteq Flows /\ Cardinality(oauthState') <= 1 /\ callbacks' \subseteq Flows
      /\ transport' \subseteq Flows \cup {"connect"} /\ Cardinality(transport') <= 1
  <2>1. oauthState' \in {oauthState, {}, {f}} /\ transport' \in {transport, {}, {f}}
    BY DEF StartAuth, FlowStep, Unauthorized, WaitForCallback, Callback, CallbackTimeout, Validate, FinishAuth
  <2>2. callbacks' \subseteq callbacks \cup {f}
    BY DEF StartAuth, FlowStep, Unauthorized, WaitForCallback, Callback, CallbackTimeout, Validate, FinishAuth
  <2> QED BY <1>1, <2>1, <2>2 DEF McpTypeOK
<1>5. mcpCall' \in [McpCallers -> McpCalls] /\ CallsBringClients'
  <2>1. CASE UNCHANGED mcpCall
    BY <1>1, <2>1 DEF McpTypeOK, McpCalls, CallsBringClients
  <2>2. ASSUME NEW c \in McpCallers, Doing(c, "connecting", NoClient, "none")
        PROVE  mcpCall' \in [McpCallers -> McpCalls] /\ CallsBringClients'
    BY <1>1, <2>2, DoingType DEF NoClient, Statuses
  <2> QED BY <2>1, <2>2
          DEF StartAuth, FlowStep, Unauthorized, WaitForCallback, Callback, CallbackTimeout, Validate, FinishAuth
<1> QED BY <1>1, <1>2, <1>3, <1>4, <1>5
      DEF McpInv, McpTypeOK, ConnectedHasClient, mcpPool, McpCalls, FlowStates

LEMMA McpStep ==
  ASSUME McpInv, [McpNext]_mcpVars
  PROVE  McpInv'
<1>1. CASE RemoveAuth
  <2>1. /\ UNCHANGED <<mcpPool, mcpCall, flow, callbacks>> /\ transport' = {} /\ oauthState' = {}
        /\ revoked' = revoked \cup oauthState
    BY <1>1 DEF RemoveAuth
  <2>2. McpTypeOK'
    BY <2>1, FewInNoneOrOne DEF McpInv, McpTypeOK, mcpPool
  <2>3. StatesAreStoredOnce'
    BY <2>1 DEF McpInv, StatesAreStoredOnce
  <2>4. ConnectedHasClient' /\ CallsBringClients'
    BY <2>1 DEF McpInv, ConnectedHasClient, CallsBringClients, mcpPool
  <2> QED BY <2>2, <2>3, <2>4 DEF McpInv
<1>2. CASE UNCHANGED mcpVars
  BY <1>2 DEF mcpVars, McpInv, McpTypeOK, ConnectedHasClient, CallsBringClients, StatesAreStoredOnce
<1> QED BY <1>1, <1>2, CallsInv, FlowsInv DEF McpNext

\* What is shown as connected can be asked, and no flow exchanges a code for a
\* state that was revoked (mcp/index.ts, mcp/oauth-callback.ts, mcp/auth.ts).
THEOREM AuthorityIsNeverStale == McpSpec => []AuthorityIsCurrent
<1>1. McpInit => McpInv
  <2> SUFFICES ASSUME McpInit PROVE McpInv
    OBVIOUS
  <2> USE FewInNoneOrOne DEF McpInit, NoClient, NoMcpCall
  <2>1. flow \in [Flows -> FlowStates] /\ mcpCall \in [McpCallers -> McpCalls]
    BY DEF FlowStates, McpCalls, Statuses
  <2>2. McpTypeOK
    BY <2>1 DEF McpTypeOK, FlowStates, McpCalls, Statuses
  <2>3. CallsBringClients /\ ConnectedHasClient /\ StatesAreStoredOnce
    BY DEF CallsBringClients, ConnectedHasClient, StatesAreStoredOnce
  <2> QED BY <2>2, <2>3 DEF McpInv
<1>2. McpInv /\ [McpNext]_mcpVars => McpInv'
  BY McpStep
<1>3. McpInv => AuthorityIsCurrent
  BY DEF McpInv, StatesAreStoredOnce, AuthorityIsCurrent, RevokedFlowsEnd
<1> QED BY <1>1, <1>2, <1>3, PTL DEF McpSpec

-----------------------------------------------------------------------------
(* Pseudo-terminals and their sockets *)

TerminalsSpec == TerminalsInit /\ [][TerminalsNext]_ptyVars

States == {"new", "upgrading", "open", "closing", "closed"}
PtyRecord == [state : {"none", "running", "gone"}, buffer : Seq(Nat), subscribers : SUBSET Sockets]
SocketRecord == [to : Ptys \cup {"none"}, state : States, got : Seq(Nat)]

\* The chunks of s are the last ones up to n.
EndsAt(s, n) == Len(s) <= n /\ \A i \in 1..Len(s) : s[i] = n - Len(s) + i
Elements(s) == {s[i] : i \in DOMAIN s}

PtyTypes ==
  /\ pty \in [Ptys -> PtyRecord]
  /\ socket \in [Sockets -> SocketRecord]
  /\ printed \in [Ptys -> 0..MaxOutput]
  /\ dropped \in [Ptys -> SUBSET (1..MaxOutput)]

\* A terminal is known to its sockets and they to it.
Linked ==
  /\ \A w \in Sockets :
       /\ socket[w].state \in {"new", "upgrading"} => socket[w].got = <<>>
       /\ socket[w].state # "new" => socket[w].to \in Ptys /\ pty[socket[w].to].state # "none"
  /\ \A p \in Ptys :
       /\ pty[p].state = "none" => printed[p] = 0 /\ dropped[p] = {}
       /\ pty[p].state # "running" => pty[p].subscribers = {}
       /\ pty[p].subscribers # {} => pty[p].buffer = <<>>
       /\ \A w \in pty[p].subscribers : socket[w].to = p /\ socket[w].state \in {"open", "closing"}

\* Whoever is connected has the last chunks, and the buffer has them else.
Tails ==
  /\ \A w \in Sockets :
       /\ \A i \in 2..Len(socket[w].got) : socket[w].got[i] = socket[w].got[i - 1] + 1
       /\ IsOpen(w) /\ pty[socket[w].to].state = "running" =>
            w \in pty[socket[w].to].subscribers /\ EndsAt(socket[w].got, printed[socket[w].to])
  /\ \A p \in Ptys : pty[p].state = "running" => EndsAt(pty[p].buffer, printed[p])

Accounted ==
  \A p \in Ptys : pty[p].state = "running" =>
    /\ SentOf(p) \cup Waiting(p) \cup dropped[p] = 1..printed[p]
    /\ Waiting(p) \cap SentOf(p) = {}

PtyInv == PtyTypes /\ Linked /\ Tails /\ Accounted

(* The invariant says all that OutputIsWhole says (pty/index.ts:127-211).    *)
LEMMA PtyInvEnough == PtyInv => OutputIsWhole
<1> SUFFICES ASSUME PtyInv PROVE OutputIsWhole
  OBVIOUS
<1>1. TerminalsTypeOK
  BY DEF PtyInv, PtyTypes, Linked, TerminalsTypeOK, PtyRecord, SocketRecord, States
<1>2. ASSUME NEW w \in Sockets, NEW i \in 2..Len(socket[w].got)
      PROVE  /\ socket[w].got[i] > socket[w].got[i - 1]
             /\ (socket[w].got[i - 1] + 1)..(socket[w].got[i] - 1) \subseteq dropped[socket[w].to]
  <2>1. socket[w].got \in Seq(Nat) /\ i - 1 \in 1..Len(socket[w].got) /\ i \in Nat
    BY <1>2 DEF PtyInv, PtyTypes, SocketRecord
  <2>2. socket[w].got[i - 1] \in Nat
    BY <2>1
  <2>3. socket[w].got[i] = socket[w].got[i - 1] + 1
    BY <1>2 DEF PtyInv, Tails
  <2> QED BY <2>2, <2>3
<1> QED BY <1>1, <1>2 DEF OutputIsWhole, PtyInv, Accounted

(* No terminal, no socket: the invariant holds (pty/index.ts:70-83).         *)
LEMMA PtyInit == TerminalsInit => PtyInv
<1> SUFFICES ASSUME TerminalsInit PROVE PtyInv
  OBVIOUS
<1>1. <<>> \in Seq(Nat) /\ Len(<<>>) = 0
  OBVIOUS
<1>2. PtyTypes
  BY <1>1, TerminalsAssumption DEF TerminalsInit, PtyTypes, PtyRecord, SocketRecord, States, Terminal
<1> QED BY <1>1, <1>2 DEF TerminalsInit, PtyInv, Linked, Tails, Accounted, Terminal, IsOpen

(* A sequence of the last chunks goes on with the next one                   *)
(* (pty/index.ts:128-138).                                                   *)
LEMMA AppendEnds ==
  ASSUME NEW s \in Seq(Nat), NEW n \in Nat, EndsAt(s, n)
  PROVE  /\ Append(s, n + 1) \in Seq(Nat)
         /\ EndsAt(Append(s, n + 1), n + 1)
         /\ Elements(Append(s, n + 1)) = Elements(s) \cup {n + 1}
<1>1. PICK t : t = Append(s, n + 1)
  OBVIOUS
<1>2. /\ t \in Seq(Nat) /\ Len(t) = Len(s) + 1 /\ Len(s) \in Nat
      /\ DOMAIN t = 1..(Len(s) + 1) /\ DOMAIN s = 1..Len(s)
  BY <1>1
<1>3. t[Len(s) + 1] = n + 1 /\ \A i \in 1..Len(s) : t[i] = s[i]
  BY <1>1
<1>4. EndsAt(t, n + 1)
  <2>1. ASSUME NEW i \in 1..Len(t) PROVE t[i] = (n + 1) - Len(t) + i
    <3>1. CASE i = Len(s) + 1
      BY <1>2, <1>3, <3>1
    <3>2. CASE i \in 1..Len(s)
      BY <1>2, <1>3, <3>2 DEF EndsAt
    <3> QED BY <1>2, <3>1, <3>2
  <2>2. Len(t) <= n + 1
    BY <1>2 DEF EndsAt
  <2> QED BY <2>1, <2>2 DEF EndsAt
<1>5. Elements(t) = Elements(s) \cup {n + 1}
  <2>1. DOMAIN t = DOMAIN s \cup {Len(s) + 1}
    BY <1>2
  <2> QED BY <1>2, <1>3, <2>1 DEF Elements
<1> QED BY <1>1, <1>2, <1>4, <1>5

(* The last chunks up to n follow each other without a gap                   *)
(* (pty/index.ts:128-138).                                                   *)
LEMMA EndsConsecutive ==
  ASSUME NEW s \in Seq(Nat), NEW n \in Nat, EndsAt(s, n)
  PROVE  \A i \in 2..Len(s) : s[i] = s[i - 1] + 1
<1> SUFFICES ASSUME NEW i \in 2..Len(s) PROVE s[i] = s[i - 1] + 1
  OBVIOUS
<1>1. i \in 1..Len(s) /\ i - 1 \in 1..Len(s) /\ i \in Int /\ Len(s) \in Int
  OBVIOUS
<1>2. s[i] = n - Len(s) + i /\ s[i - 1] = n - Len(s) + (i - 1)
  BY <1>1 DEF EndsAt
<1> QED BY <1>1, <1>2

(* What was sent and what waits, as the elements of sequences                *)
(* (pty/index.ts:128-138, 197-201).                                          *)
LEMMA SentElements ==
  /\ \A w : Sent(w) = Elements(socket[w].got)
  /\ \A p : Waiting(p) = Elements(pty[p].buffer)
  /\ \A w : Sent(w)' = Elements(socket'[w].got)
  /\ \A p : Waiting(p)' = Elements(pty'[p].buffer)
BY DEF Sent, Waiting, Elements

\* A running terminal whose output, buffer and sockets' output are as they were
\* is still accounted for.
Untouched(p) ==
  /\ pty[p].state = "running"
  /\ pty'[p].buffer = pty[p].buffer /\ printed'[p] = printed[p] /\ dropped'[p] = dropped[p]
  /\ \A w \in Sockets : socket'[w].to = p \/ socket[w].to = p =>
       /\ socket'[w].got = socket[w].got
       /\ socket'[w].to = socket[w].to \/ socket[w].got = <<>>

AccountedFor(p) ==
  /\ SentOf(p) \cup Waiting(p) \cup dropped[p] = 1..printed[p]
  /\ Waiting(p) \cap SentOf(p) = {}

(* A terminal that is untouched stays accounted for (pty/index.ts:127-211).  *)
LEMMA AccountKept ==
  ASSUME PtyInv, NEW p \in Ptys, Untouched(p)
  PROVE  AccountedFor(p)'
<1>1. SentOf(p)' = SentOf(p)
  <2>1. \A x : x \in SentOf(p) <=> \E w \in Sockets : socket[w].to = p /\ x \in Elements(socket[w].got)
    BY SentElements DEF SentOf
  <2>2. \A x : x \in SentOf(p)' <=> \E w \in Sockets : socket'[w].to = p /\ x \in Elements(socket'[w].got)
    BY SentElements DEF SentOf
  <2>3. \A x : x \notin Elements(<<>>)
    BY DEF Elements
  <2> QED BY <2>1, <2>2, <2>3 DEF Untouched
<1>2. Waiting(p)' = Waiting(p)
  BY DEF Waiting, Untouched
<1> QED BY <1>1, <1>2 DEF PtyInv, Accounted, AccountedFor, Untouched

(* Whoever subscribes is a socket of the terminal, open or about to close    *)
(* (pty/index.ts:190-209).                                                   *)
LEMMA LinkedSubscribers ==
  ASSUME PtyInv, NEW p \in Ptys, NEW w \in pty[p].subscribers
  PROVE  w \in Sockets /\ socket[w].to = p /\ socket[w].state \in {"open", "closing"}
BY DEF PtyInv, PtyTypes, PtyRecord, Linked

(* A new terminal has printed nothing and has no socket                      *)
(* (pty/index.ts:93-147).                                                    *)
LEMMA CreateKeeps ==
  ASSUME PtyInv, NEW p \in Ptys, CreatePty(p)
  PROVE  PtyInv'
<1>1. /\ \A q \in Ptys \ {p} : pty'[q] = pty[q]
      /\ pty'[p] = Terminal("running") /\ pty[p].state = "none"
      /\ UNCHANGED <<socket, printed, dropped>>
  BY DEF CreatePty, PtyInv, PtyTypes
<1>2. <<>> \in Seq(Nat) /\ Len(<<>>) = 0 /\ Elements(<<>>) = {}
  BY DEF Elements
<1>3. printed[p] = 0 /\ dropped[p] = {} /\ \A w \in Sockets : socket[w].to = p => socket[w].state = "new"
  BY DEF PtyInv, Linked, CreatePty
<1>4. PtyTypes'
  BY <1>1, <1>2 DEF PtyInv, PtyTypes, CreatePty, PtyRecord, Terminal
<1>5. Linked'
  BY <1>1, <1>3 DEF PtyInv, Linked, Terminal
<1>6. Tails'
  <2>1. EndsAt(pty'[p].buffer, printed'[p])
    BY <1>1, <1>2, <1>3 DEF EndsAt, Terminal
  <2>2. \A w \in Sockets : IsOpen(w) => socket[w].to \in Ptys \ {p}
    BY <1>1 DEF PtyInv, Linked, IsOpen
  <2> QED BY <1>1, <2>1, <2>2 DEF PtyInv, Tails, IsOpen
<1>7. ASSUME NEW q \in Ptys, pty'[q].state = "running" PROVE AccountedFor(q)'
  <2>1. CASE q # p
    BY <1>1, <1>7, <2>1, AccountKept DEF Untouched
  <2>2. CASE q = p
    <3>1. \A x : x \in SentOf(p)' <=> \E w \in Sockets : socket'[w].to = p /\ x \in Elements(socket'[w].got)
      BY SentElements DEF SentOf
    <3>2. SentOf(p)' = {}
      BY <1>1, <1>2, <1>3, <3>1 DEF PtyInv, Linked
    <3>3. Waiting(p)' = {}
      BY <1>1, <1>2, SentElements DEF Terminal
    <3>4. printed'[p] = 0 /\ dropped'[p] = {} /\ 1..0 = {}
      BY <1>1, <1>3
    <3> QED BY <2>2, <3>2, <3>3, <3>4 DEF AccountedFor
  <2> QED BY <2>1, <2>2
<1> QED BY <1>4, <1>5, <1>6, <1>7 DEF PtyInv, Accounted, AccountedFor

(* A terminal that exits or is removed is not accounted for any more         *)
(* (pty/index.ts:139-144, 162-174).                                          *)
LEMMA ExitKeeps ==
  ASSUME PtyInv, NEW p \in Ptys, Exit(p) \/ RemovePty(p)
  PROVE  PtyInv'
<1>1. /\ \A q \in Ptys \ {p} : pty'[q] = pty[q]
      /\ pty'[p] = Terminal("gone")
      /\ UNCHANGED <<printed, dropped>> /\ pty[p].state = "running"
  BY DEF Exit, RemovePty, PtyInv, PtyTypes
<1>2. \A w \in Sockets : /\ socket'[w].to = socket[w].to /\ socket'[w].got = socket[w].got
                         /\ \/ socket'[w].state = socket[w].state
                            \/ socket[w].to = p /\ socket'[w].state = "closed"
                                 /\ socket[w].state \in {"open", "closing"}
  BY DEF Exit, RemovePty, PtyInv, PtyTypes, Linked, SocketRecord
<1>3. <<>> \in Seq(Nat)
  OBVIOUS
<1>4. PtyTypes'
  <2>1. socket' \in [Sockets -> SocketRecord]
    <3>1. \A v \in SocketRecord : [v EXCEPT !.state = "closed"] \in SocketRecord
      BY DEF SocketRecord, States
    <3> QED BY <3>1 DEF Exit, RemovePty, PtyInv, PtyTypes
  <2>2. pty' \in [Ptys -> PtyRecord]
    <3>1. Terminal("gone") \in PtyRecord
      BY <1>3 DEF PtyRecord, Terminal
    <3> QED BY <3>1 DEF PtyInv, PtyTypes, Exit, RemovePty
  <2> QED BY <1>1, <2>1, <2>2 DEF PtyInv, PtyTypes
<1>5. Linked'
  <2>1. pty'[p].state = "gone" /\ pty'[p].subscribers = {}
    BY <1>1 DEF Terminal
  <2>2. ASSUME NEW w \in Sockets
        PROVE  /\ socket'[w].state \in {"new", "upgrading"} => socket'[w].got = <<>>
               /\ socket'[w].state # "new" =>
                    socket'[w].to \in Ptys /\ pty'[socket'[w].to].state # "none"
    BY <1>1, <1>2, <2>1 DEF PtyInv, Linked
  <2>3. ASSUME NEW q \in Ptys \ {p}, NEW w \in pty'[q].subscribers
        PROVE  socket'[w].to = q /\ socket'[w].state \in {"open", "closing"}
    <3>1. w \in Sockets /\ socket[w].to = q /\ socket[w].state \in {"open", "closing"}
      BY <1>1, LinkedSubscribers
    <3> QED BY <1>2, <3>1
  <2> QED BY <1>1, <2>1, <2>2, <2>3 DEF PtyInv, Linked
<1>6. Tails'
  <2>1. \A q \in Ptys : pty'[q].state = "running" => q # p
    BY <1>1 DEF Terminal
  <2>2. \A w \in Sockets : IsOpen(w)' => IsOpen(w) /\ socket[w].to \in Ptys
    BY <1>2 DEF PtyInv, Linked, IsOpen
  <2> QED BY <1>1, <1>2, <2>1, <2>2 DEF PtyInv, Tails, IsOpen
<1>7. ASSUME NEW q \in Ptys, pty'[q].state = "running" PROVE AccountedFor(q)'
  BY <1>1, <1>2, <1>7, AccountKept DEF Untouched, Terminal
<1> QED BY <1>4, <1>5, <1>6, <1>7 DEF PtyInv, Accounted, AccountedFor

(* A socket that is asked for, or whose client goes, has what it had         *)
(* (server/server.ts:410-425, pty/index.ts:206-209).                         *)
LEMMA SocketKeeps ==
  ASSUME PtyInv, NEW w \in Sockets, NEW p \in Ptys,
         ConnectRoute(w, p) \/ SocketCloses(w)
  PROVE  PtyInv'
<1>1. /\ UNCHANGED <<pty, printed, dropped>>
      /\ \A v \in Sockets \ {w} : socket'[v] = socket[v]
  BY DEF ConnectRoute, SocketCloses, PtyInv, PtyTypes
<1>2. /\ socket'[w].got = socket[w].got
      /\ \/ /\ socket[w].state = "new" /\ socket'[w].state = "upgrading" /\ socket'[w].to = p
            /\ pty[p].state = "running" /\ socket[w].got = <<>>
         \/ /\ socket[w].state = "open" /\ socket'[w].state = "closing"
            /\ socket'[w].to = socket[w].to
  BY DEF ConnectRoute, SocketCloses, PtyInv, PtyTypes, SocketRecord, IsOpen, Linked
<1>3. PtyTypes'
  <2>1. \A r \in SocketRecord : /\ [r EXCEPT !.state = "closing"] \in SocketRecord
                                /\ [r EXCEPT !.state = "upgrading", !.to = p] \in SocketRecord
    BY DEF SocketRecord, States
  <2>2. CASE ConnectRoute(w, p)
    <3>1. socket' = [socket EXCEPT ![w] = [socket[w] EXCEPT !.state = "upgrading", !.to = p]]
      BY <2>2 DEF ConnectRoute, PtyInv, PtyTypes, SocketRecord
    <3> QED BY <1>1, <2>1, <3>1 DEF PtyInv, PtyTypes
  <2>3. CASE SocketCloses(w)
    BY <1>1, <2>1, <2>3 DEF SocketCloses, PtyInv, PtyTypes
  <2> QED BY <2>2, <2>3
<1>4. Linked'
  <2>1. ASSUME NEW v \in Sockets
        PROVE  /\ socket'[v].state \in {"new", "upgrading"} => socket'[v].got = <<>>
               /\ socket'[v].state # "new" =>
                    socket'[v].to \in Ptys /\ pty'[socket'[v].to].state # "none"
    BY <1>1, <1>2 DEF PtyInv, Linked
  <2>2. ASSUME NEW q \in Ptys, NEW v \in pty'[q].subscribers
        PROVE  socket'[v].to = q /\ socket'[v].state \in {"open", "closing"}
    <3>1. v \in Sockets /\ socket[v].to = q /\ socket[v].state \in {"open", "closing"}
      BY <1>1, LinkedSubscribers
    <3> QED BY <1>1, <1>2, <3>1
  <2> QED BY <1>1, <2>1, <2>2 DEF PtyInv, Linked
<1>5. Tails'
  BY <1>1, <1>2 DEF PtyInv, Tails, IsOpen
<1>6. ASSUME NEW q \in Ptys, pty'[q].state = "running" PROVE AccountedFor(q)'
  BY <1>1, <1>2, <1>6, AccountKept DEF Untouched
<1> QED BY <1>3, <1>4, <1>5, <1>6 DEF PtyInv, Accounted, AccountedFor

(* A socket that closed is nobody's subscriber (pty/index.ts:206-209).       *)
LEMMA CloseKeeps ==
  ASSUME PtyInv, NEW w \in Sockets, CloseSocket(w)
  PROVE  PtyInv'
<1>1. /\ UNCHANGED <<printed, dropped>>
      /\ \A v \in Sockets \ {w} : socket'[v] = socket[v]
      /\ socket[w].state = "closing" /\ socket'[w].state = "closed"
      /\ socket'[w].got = socket[w].got /\ socket'[w].to = socket[w].to
  BY DEF CloseSocket, PtyInv, PtyTypes, SocketRecord
<1>2. \A q \in Ptys : /\ pty'[q].state = pty[q].state /\ pty'[q].buffer = pty[q].buffer
                      /\ pty'[q].subscribers = pty[q].subscribers \ {w}
  BY DEF CloseSocket, PtyInv, PtyTypes, PtyRecord
<1>3. PtyTypes'
  <2>1. \A r \in SocketRecord : [r EXCEPT !.state = "closed"] \in SocketRecord
    BY DEF SocketRecord, States
  <2>2. \A r \in PtyRecord : [r EXCEPT !.subscribers = @ \ {w}] \in PtyRecord
    BY DEF PtyRecord
  <2> QED BY <1>1, <2>1, <2>2 DEF CloseSocket, PtyInv, PtyTypes
<1>4. Linked'
  BY <1>1, <1>2 DEF PtyInv, PtyTypes, PtyRecord, Linked
<1>5. Tails'
  BY <1>1, <1>2 DEF PtyInv, Tails, IsOpen, Linked
<1>6. ASSUME NEW q \in Ptys, pty'[q].state = "running" PROVE AccountedFor(q)'
  BY <1>1, <1>2, <1>6, AccountKept DEF Untouched
<1> QED BY <1>3, <1>4, <1>5, <1>6 DEF PtyInv, Accounted, AccountedFor

(* Connecting takes what waited, once (pty/index.ts:190-201).                *)
LEMMA ConnectKeeps ==
  ASSUME PtyInv, NEW w \in Sockets, Connect(w)
  PROVE  PtyInv'
<1>1. PICK p \in Ptys : p = socket[w].to
  BY DEF Connect, PtyInv, Linked
<1>2. /\ UNCHANGED <<printed, dropped>>
      /\ \A v \in Sockets \ {w} : socket'[v] = socket[v]
      /\ socket[w].state = "upgrading" /\ socket[w].got = <<>> /\ socket'[w].to = p
  BY <1>1 DEF Connect, PtyInv, PtyTypes, Linked, SocketRecord
<1>3. Elements(<<>>) = {} /\ <<>> \in Seq(Nat) /\ Len(<<>>) = 0
  BY DEF Elements
<1>4. CASE pty[p].state # "running"
  <2>1. UNCHANGED pty /\ socket'[w].state = "closed" /\ socket'[w].got = socket[w].got
    BY <1>1, <1>4 DEF Connect, PtyInv, PtyTypes, SocketRecord
  <2>2. PtyTypes'
    <3>1. \A r \in SocketRecord : [r EXCEPT !.state = "closed"] \in SocketRecord
      BY DEF SocketRecord, States
    <3>2. socket' = [socket EXCEPT ![w] = [socket[w] EXCEPT !.state = "closed"]]
      BY <1>1, <1>4 DEF Connect
    <3> QED BY <1>2, <2>1, <3>1, <3>2 DEF PtyInv, PtyTypes
  <2>3. Linked'
    <3>1. ASSUME NEW v \in Sockets
          PROVE  /\ socket'[v].state \in {"new", "upgrading"} => socket'[v].got = <<>>
                 /\ socket'[v].state # "new" =>
                      socket'[v].to \in Ptys /\ pty'[socket'[v].to].state # "none"
      BY <1>1, <1>2, <2>1 DEF PtyInv, Linked
    <3>2. ASSUME NEW q \in Ptys, NEW v \in pty'[q].subscribers
          PROVE  socket'[v].to = q /\ socket'[v].state \in {"open", "closing"}
      BY <1>2, <2>1, LinkedSubscribers
    <3> QED BY <1>2, <2>1, <3>1, <3>2 DEF PtyInv, Linked
  <2>4. Tails'
    BY <1>1, <1>2, <2>1 DEF PtyInv, Tails, IsOpen
  <2>5. ASSUME NEW q \in Ptys, pty'[q].state = "running" PROVE AccountedFor(q)'
    BY <1>1, <1>2, <2>1, <2>5, AccountKept DEF Untouched
  <2> QED BY <2>2, <2>3, <2>4, <2>5 DEF PtyInv, Accounted, AccountedFor
<1>5. CASE pty[p].state = "running"
  <2>1. /\ socket' = [socket EXCEPT ![w] = [socket[w] EXCEPT !.state = "open", !.got = pty[p].buffer]]
        /\ pty' = [pty EXCEPT ![p] = [pty[p] EXCEPT !.subscribers = @ \cup {w}, !.buffer = <<>>]]
    BY <1>1, <1>5 DEF Connect, TakeBuffer, PtyInv, PtyTypes, SocketRecord, PtyRecord
  <2>2. /\ socket'[w].state = "open" /\ socket'[w].got = pty[p].buffer
        /\ pty'[p].buffer = <<>> /\ pty'[p].subscribers = pty[p].subscribers \cup {w}
        /\ pty'[p].state = "running" /\ \A q \in Ptys \ {p} : pty'[q] = pty[q]
    BY <1>5, <2>1 DEF PtyInv, PtyTypes, SocketRecord, PtyRecord
  <2>3. PtyTypes'
    <3>1. [socket[w] EXCEPT !.state = "open", !.got = pty[p].buffer] \in SocketRecord
      BY DEF PtyInv, PtyTypes, SocketRecord, PtyRecord, States
    <3>2. [pty[p] EXCEPT !.subscribers = @ \cup {w}, !.buffer = <<>>] \in PtyRecord
      BY <1>3 DEF PtyInv, PtyTypes, PtyRecord
    <3> QED BY <1>2, <2>1, <3>1, <3>2 DEF PtyInv, PtyTypes
  <2>4. Linked'
    <3>1. ASSUME NEW v \in Sockets
          PROVE  /\ socket'[v].state \in {"new", "upgrading"} => socket'[v].got = <<>>
                 /\ socket'[v].state # "new" =>
                      socket'[v].to \in Ptys /\ pty'[socket'[v].to].state # "none"
      BY <1>1, <1>2, <2>2 DEF PtyInv, Linked
    <3>2. ASSUME NEW q \in Ptys, NEW v \in pty'[q].subscribers
          PROVE  socket'[v].to = q /\ socket'[v].state \in {"open", "closing"}
      <4>1. (v = w /\ q = p) \/ v \in pty[q].subscribers
        BY <2>2
      <4>2. CASE v \in pty[q].subscribers
        BY <1>2, <4>2, LinkedSubscribers
      <4> QED BY <1>2, <2>2, <4>1, <4>2
    <3> QED BY <1>2, <1>5, <2>2, <3>1, <3>2 DEF PtyInv, Linked
  <2>5. EndsAt(socket'[w].got, printed'[p]) /\ EndsAt(pty'[p].buffer, printed'[p])
    BY <1>2, <1>3, <1>5, <2>2 DEF PtyInv, PtyTypes, Tails, EndsAt
  <2>6. ASSUME NEW i \in 2..Len(socket'[w].got)
        PROVE  socket'[w].got[i] = socket'[w].got[i - 1] + 1
    BY <2>5, EndsConsecutive, <2>3 DEF PtyTypes, SocketRecord
  <2>7. Tails'
    <3>1. ASSUME NEW v \in Sockets
          PROVE  /\ \A i \in 2..Len(socket'[v].got) : socket'[v].got[i] = socket'[v].got[i - 1] + 1
                 /\ IsOpen(v)' /\ pty'[socket'[v].to].state = "running" =>
                      v \in pty'[socket'[v].to].subscribers /\ EndsAt(socket'[v].got, printed'[socket'[v].to])
      <4>1. CASE v = w
        BY <1>2, <2>2, <2>5, <2>6, <4>1
      <4>2. CASE v # w
        <5>1. socket'[v] = socket[v] /\ (IsOpen(v)' => IsOpen(v) /\ socket[v].to \in Ptys)
          BY <1>2, <4>2 DEF IsOpen, PtyInv, Linked
        <5>2. \A q \in Ptys : pty'[q].state = pty[q].state /\ pty[q].subscribers \subseteq pty'[q].subscribers
          BY <1>5, <2>2
        <5> QED BY <1>2, <5>1, <5>2 DEF PtyInv, Tails
      <4> QED BY <4>1, <4>2
    <3>2. ASSUME NEW q \in Ptys, pty'[q].state = "running" PROVE EndsAt(pty'[q].buffer, printed'[q])
      BY <1>2, <2>2, <2>5, <3>2 DEF PtyInv, Tails
    <3> QED BY <3>1, <3>2 DEF Tails
  <2>8. ASSUME NEW q \in Ptys, pty'[q].state = "running" PROVE AccountedFor(q)'
    <3>1. CASE q # p
      BY <1>1, <1>2, <2>2, <2>8, <3>1, AccountKept DEF Untouched
    <3>2. CASE q = p
      <4>1. \A x : x \in SentOf(p) <=> \E v \in Sockets : socket[v].to = p /\ x \in Elements(socket[v].got)
        BY SentElements DEF SentOf
      <4>2. \A x : x \in SentOf(p)' <=> \E v \in Sockets : socket'[v].to = p /\ x \in Elements(socket'[v].got)
        BY SentElements DEF SentOf
      <4>3. SentOf(p)' = SentOf(p) \cup Waiting(p)
        BY <1>1, <1>2, <1>3, <2>2, <4>1, <4>2, SentElements
      <4>4. Waiting(p)' = {}
        BY <1>3, <2>2, SentElements
      <4> QED BY <1>2, <1>5, <3>2, <4>3, <4>4 DEF PtyInv, Accounted, AccountedFor
    <3> QED BY <3>1, <3>2
  <2> QED BY <2>3, <2>4, <2>7, <2>8 DEF PtyInv, Accounted, AccountedFor
<1> QED BY <1>4, <1>5

(* A chunk goes to every open subscriber, or waits, or was for sockets that  *)
(* are about to close (pty/index.ts:128-138).                                *)
LEMMA DataKeeps ==
  ASSUME PtyInv, NEW p \in Ptys, Data(p)
  PROVE  PtyInv'
<1>1. PICK n : n = printed[p] + 1
  OBVIOUS
<1>2. /\ pty[p].state = "running" /\ n \in 1..MaxOutput /\ n \in Nat /\ printed[p] \in Nat
      /\ printed' = [printed EXCEPT ![p] = n]
  BY <1>1, TerminalsAssumption DEF Data, PtyInv, PtyTypes
<1>3. /\ printed'[p] = n /\ \A q \in Ptys \ {p} : printed'[q] = printed[q]
      /\ printed' \in [Ptys -> 0..MaxOutput]
  BY <1>2, TerminalsAssumption DEF PtyInv, PtyTypes
<1>4. EndsAt(pty[p].buffer, printed[p]) /\ pty[p].buffer \in Seq(Nat)
  BY <1>2 DEF PtyInv, PtyTypes, PtyRecord, Tails
<1>5. 1..n = (1..printed[p]) \cup {n} /\ n \notin 1..printed[p]
  BY <1>1, <1>2
<1>6. AccountedFor(p)
  BY <1>2 DEF PtyInv, Accounted, AccountedFor
<1>7. CASE pty[p].subscribers = {}
  <2>1. /\ pty' = [pty EXCEPT ![p] = [pty[p] EXCEPT !.buffer = Append(pty[p].buffer, n)]]
        /\ UNCHANGED <<socket, dropped>>
    BY <1>1, <1>7 DEF Data
  <2>2. /\ pty'[p].buffer = Append(pty[p].buffer, n) /\ pty'[p].subscribers = {}
        /\ pty'[p].state = "running" /\ \A q \in Ptys \ {p} : pty'[q] = pty[q]
    BY <1>2, <1>7, <2>1 DEF PtyInv, PtyTypes, PtyRecord
  <2>3. /\ pty'[p].buffer \in Seq(Nat) /\ EndsAt(pty'[p].buffer, n)
        /\ Elements(pty'[p].buffer) = Elements(pty[p].buffer) \cup {n}
    BY <1>1, <1>2, <1>4, <2>2, AppendEnds
  <2>4. PtyTypes'
    <3>1. [pty[p] EXCEPT !.buffer = Append(pty[p].buffer, n)] \in PtyRecord
      BY <2>2, <2>3 DEF PtyInv, PtyTypes, PtyRecord
    <3> QED BY <1>3, <2>1, <3>1 DEF PtyInv, PtyTypes
  <2>5. Linked'
    BY <1>2, <1>3, <2>1, <2>2 DEF PtyInv, Linked
  <2>6. Tails'
    <3>1. \A v \in Sockets : IsOpen(v) /\ socket[v].to = p => FALSE
      BY <1>2, <1>7 DEF PtyInv, Tails
    <3>2. \A v \in Sockets : IsOpen(v) => socket[v].to \in Ptys
      BY DEF PtyInv, Linked, IsOpen
    <3> QED BY <1>3, <2>1, <2>2, <2>3, <3>1, <3>2 DEF PtyInv, Tails, IsOpen
  <2>7. ASSUME NEW q \in Ptys, pty'[q].state = "running" PROVE AccountedFor(q)'
    <3>1. CASE q # p
      BY <1>3, <2>1, <2>2, <2>7, <3>1, AccountKept DEF Untouched
    <3>2. CASE q = p
      <4>1. SentOf(p)' = SentOf(p)
        BY <2>1 DEF SentOf, Sent
      <4>2. Waiting(p)' = Waiting(p) \cup {n}
        BY <2>3, SentElements
      <4> QED BY <1>3, <1>5, <1>6, <2>1, <3>2, <4>1, <4>2 DEF AccountedFor
    <3> QED BY <3>1, <3>2
  <2> QED BY <2>4, <2>5, <2>6, <2>7 DEF PtyInv, Accounted, AccountedFor
<1>8. CASE pty[p].subscribers # {}
  <2> DEFINE listening == {w \in pty[p].subscribers : IsOpen(w)}
  <2>1. PICK to : to = listening
    OBVIOUS
  <2>2. /\ socket' = [w \in Sockets |-> IF w \in to
                                        THEN [socket[w] EXCEPT !.got = Append(socket[w].got, n)]
                                        ELSE socket[w]]
        /\ dropped' = [dropped EXCEPT ![p] = IF to = {} THEN @ \cup {n} ELSE @]
        /\ UNCHANGED pty
    BY <1>1, <1>8, <2>1 DEF Data
  <2>3. \A w \in Sockets : w \in to <=> IsOpen(w) /\ socket[w].to = p
    BY <1>2, <2>1, LinkedSubscribers DEF PtyInv, Tails
  <2>4. ASSUME NEW w \in to
        PROVE  /\ w \in Sockets /\ socket'[w].to = socket[w].to /\ socket'[w].state = socket[w].state
               /\ socket'[w].got \in Seq(Nat) /\ EndsAt(socket'[w].got, n)
               /\ Elements(socket'[w].got) = Elements(socket[w].got) \cup {n}
               /\ socket'[w] \in SocketRecord
    <3>1. w \in Sockets /\ socket[w] \in SocketRecord
      BY <2>1, LinkedSubscribers DEF PtyInv, PtyTypes
    <3>2. /\ socket'[w].to = socket[w].to /\ socket'[w].state = socket[w].state
          /\ socket'[w].got = Append(socket[w].got, n)
          /\ socket'[w] = [socket[w] EXCEPT !.got = Append(socket[w].got, n)]
      BY <2>2, <3>1 DEF SocketRecord
    <3>3. socket[w].got \in Seq(Nat) /\ EndsAt(socket[w].got, printed[p])
      BY <1>2, <2>3, <3>1 DEF SocketRecord, PtyInv, Tails
    <3>4. /\ socket'[w].got \in Seq(Nat) /\ EndsAt(socket'[w].got, n)
          /\ Elements(socket'[w].got) = Elements(socket[w].got) \cup {n}
      BY <1>1, <1>2, <3>2, <3>3, AppendEnds
    <3> QED BY <3>1, <3>2, <3>4 DEF SocketRecord
  <2>5. \A w \in Sockets \ to : socket'[w] = socket[w]
    BY <2>2
  <2>6. /\ dropped'[p] = IF to = {} THEN dropped[p] \cup {n} ELSE dropped[p]
        /\ \A q \in Ptys \ {p} : dropped'[q] = dropped[q]
    BY <2>2 DEF PtyInv, PtyTypes
  <2>7. PtyTypes'
    <3>1. socket' \in [Sockets -> SocketRecord]
      BY <2>2, <2>4, <2>5 DEF PtyInv, PtyTypes
    <3>2. dropped' \in [Ptys -> SUBSET (1..MaxOutput)]
      BY <1>2, <2>2 DEF PtyInv, PtyTypes
    <3> QED BY <1>3, <2>2, <3>1, <3>2 DEF PtyInv, PtyTypes
  <2>8. Linked'
    <3>1. ASSUME NEW w \in Sockets
          PROVE  /\ socket'[w].state = socket[w].state /\ socket'[w].to = socket[w].to
                 /\ socket[w].state \in {"new", "upgrading"} => socket'[w].got = socket[w].got
      <4>1. CASE w \in to
        BY <2>3, <2>4, <4>1 DEF IsOpen
      <4> QED BY <2>5, <4>1
    <3>2. ASSUME NEW q \in Ptys, pty[q].state = "none" PROVE dropped'[q] = {} /\ printed'[q] = 0
      BY <1>2, <1>3, <2>6, <3>2 DEF PtyInv, Linked
    <3>3. ASSUME NEW q \in Ptys, NEW w \in pty[q].subscribers
          PROVE  socket'[w].to = q /\ socket'[w].state \in {"open", "closing"}
      BY <3>1, LinkedSubscribers
    <3>4. ASSUME NEW w \in Sockets
          PROVE  /\ socket'[w].state \in {"new", "upgrading"} => socket'[w].got = <<>>
                 /\ socket'[w].state # "new" =>
                      socket'[w].to \in Ptys /\ pty[socket'[w].to].state # "none"
      BY <3>1 DEF PtyInv, Linked
    <3> QED BY <2>2, <3>2, <3>3, <3>4 DEF PtyInv, Linked
  <2>9. Tails'
    <3>1. ASSUME NEW w \in Sockets
          PROVE  /\ \A i \in 2..Len(socket'[w].got) : socket'[w].got[i] = socket'[w].got[i - 1] + 1
                 /\ IsOpen(w)' /\ pty[socket'[w].to].state = "running" =>
                      w \in pty[socket'[w].to].subscribers /\ EndsAt(socket'[w].got, printed'[socket'[w].to])
      <4>1. CASE w \in to
        <5>1. \A i \in 2..Len(socket'[w].got) : socket'[w].got[i] = socket'[w].got[i - 1] + 1
          BY <1>2, <2>4, <4>1, EndsConsecutive
        <5> QED BY <1>3, <2>1, <2>3, <2>4, <4>1, <5>1
      <4>2. CASE w \notin to
        <5>1. socket'[w] = socket[w] /\ (IsOpen(w)' => IsOpen(w) /\ socket[w].to \in Ptys \ {p})
          BY <2>3, <2>5, <4>2 DEF PtyInv, Linked, IsOpen
        <5> QED BY <1>3, <5>1 DEF PtyInv, Tails
      <4> QED BY <4>1, <4>2
    <3>2. ASSUME NEW q \in Ptys, pty[q].state = "running" PROVE EndsAt(pty[q].buffer, printed'[q])
      <4>1. pty[p].buffer = <<>> /\ Len(<<>>) = 0
        BY <1>8 DEF PtyInv, Linked
      <4>2. EndsAt(pty[p].buffer, n)
        BY <1>2, <4>1 DEF EndsAt
      <4> QED BY <1>3, <3>2, <4>2 DEF PtyInv, Tails
    <3> QED BY <2>2, <3>1, <3>2 DEF Tails
  <2>10. ASSUME NEW q \in Ptys, pty'[q].state = "running" PROVE AccountedFor(q)'
    <3>1. \A w \in Sockets : socket'[w].to = socket[w].to
      BY <2>4, <2>5
    <3>2. CASE q # p
      <4>1. \A w \in Sockets : socket[w].to = q => w \notin to
        BY <2>3, <3>2
      <4> QED BY <1>3, <2>2, <2>5, <2>6, <2>10, <3>1, <3>2, <4>1, AccountKept DEF Untouched
    <3>3. CASE q = p
      <4>1. \A x : x \in SentOf(p) <=> \E v \in Sockets : socket[v].to = p /\ x \in Elements(socket[v].got)
        BY SentElements DEF SentOf
      <4>2. \A x : x \in SentOf(p)' <=> \E v \in Sockets : socket'[v].to = p /\ x \in Elements(socket'[v].got)
        BY SentElements DEF SentOf
      <4>3. SentOf(p)' = IF to = {} THEN SentOf(p) ELSE SentOf(p) \cup {n}
        <5>1. ASSUME NEW x PROVE x \in SentOf(p)' <=> x \in SentOf(p) \/ (x = n /\ to # {})
          <6>1. \A v \in Sockets : socket[v].to = p =>
                  (x \in Elements(socket'[v].got) <=>
                     x \in Elements(socket[v].got) \/ (v \in to /\ x = n))
            BY <2>4, <2>5
          <6>2. \A v \in to : v \in Sockets /\ socket[v].to = p
            BY <2>3, <2>4
          <6> QED BY <3>1, <4>1, <4>2, <6>1, <6>2
        <5> QED BY <5>1
      <4>4. Waiting(p)' = Waiting(p) /\ Waiting(p) = {}
        BY <1>8, <2>2 DEF Waiting, PtyInv, Linked
      <4> QED BY <1>3, <1>5, <1>6, <2>6, <3>3, <4>3, <4>4 DEF AccountedFor
    <3> QED BY <3>2, <3>3
  <2> QED BY <2>7, <2>8, <2>9, <2>10 DEF PtyInv, Accounted, AccountedFor
<1> QED BY <1>7, <1>8

(* A step elsewhere keeps the invariant (pty/index.ts:70-83).                *)
LEMMA PtyStutters ==
  ASSUME PtyInv, UNCHANGED ptyVars
  PROVE  PtyInv'
<1> USE DEF ptyVars
<1>1. PtyTypes'
  BY DEF PtyInv, PtyTypes
<1>2. Linked'
  BY DEF PtyInv, Linked
<1>3. Tails'
  BY DEF PtyInv, Tails, IsOpen
<1>4. Accounted'
  BY AccountKept DEF Accounted, AccountedFor, Untouched
<1> QED BY <1>1, <1>2, <1>3, <1>4 DEF PtyInv

(* A client is sent a stretch of its terminal's output without a gap, and    *)
(* what a running terminal printed was sent or waits for the next client,    *)
(* once, but for what came while its only sockets were about to close; for   *)
(* any number of terminals, clients and chunks (pty/index.ts:127-211).       *)
THEOREM TerminalOutputIsWhole == TerminalsSpec => []OutputIsWhole
<1>1. PtyInv /\ [TerminalsNext]_ptyVars => PtyInv'
  <2> SUFFICES ASSUME PtyInv, [TerminalsNext]_ptyVars PROVE PtyInv'
    OBVIOUS
  <2>1. ASSUME NEW p \in Ptys, CreatePty(p) \/ Data(p) \/ Exit(p) \/ RemovePty(p)
        PROVE  PtyInv'
    BY <2>1, CreateKeeps, ExitKeeps, DataKeeps
  <2>2. ASSUME NEW w \in Sockets,
               (\E p \in Ptys : ConnectRoute(w, p)) \/ Connect(w) \/ SocketCloses(w) \/ CloseSocket(w)
        PROVE  PtyInv'
    <3>1. CASE SocketCloses(w)
      <4>1. socket[w].to \in Ptys
        BY <3>1 DEF SocketCloses, IsOpen, PtyInv, Linked
      <4> QED BY <3>1, <4>1, SocketKeeps
    <3> QED BY <2>2, <3>1, SocketKeeps, ConnectKeeps, CloseKeeps
  <2>3. CASE UNCHANGED ptyVars
    BY <2>3, PtyStutters
  <2> QED BY <2>1, <2>2, <2>3 DEF TerminalsNext
<1> QED BY PtyInit, PtyInvEnough, <1>1, PTL DEF TerminalsSpec

-----------------------------------------------------------------------------
(* The languages of models *)

ProvidersSpec == ProvidersInit /\ [][ProvidersNext]_providerVars

(* What one function laid over another says (mergeDeep, provider.ts:595).    *)
LEMMA OverKnown ==
  ASSUME NEW f, NEW g
  PROVE  /\ DOMAIN Over(f, g) = DOMAIN f \cup DOMAIN g
         /\ \A k \in DOMAIN f : Over(f, g)[k] = f[k]
         /\ \A k \in DOMAIN g \ DOMAIN f : Over(f, g)[k] = g[k]
BY DEF Over, Known

\* The registry holds allowed providers of the catalogue or the configuration,
\* with models that are not hidden.
RegistryIsAllowed ==
  \A p \in DOMAIN registry :
    /\ isProviderAllowed(settings, p)
    /\ Known(Catalogue, p) \/ Known(settings.given, p)
    /\ \A m \in DOMAIN registry[p].models :
         Known(settings.given, p) => m \notin settings.given[p].black

Offered(model) == Known(registry, model[1]) /\ Known(registry[model[1]].models, model[2])

\* An sdk, and a language, is the one that its key, and its model, call for.
SdkOf(model, sdk) == sdk.npm = Info(model).npm /\ sdk.options = Options(model)
LanguageOf(model, language) ==
  language.api = Info(model).api /\ SdkOf(model, language.sdk)

CachesAreTrue ==
  /\ \A key \in DOMAIN sdks : key = <<sdks[key].npm, sdks[key].options>>
  /\ \A model \in DOMAIN languages : LanguageOf(model, languages[model])

CallIsTrue(call) ==
  /\ call = [at |-> call.at, model |-> call.model, sdk |-> call.sdk, language |-> call.language]
  /\ call.at \in {"language", "installing", "loading", "done"} => Offered(call.model)
  /\ call.at = "loading" => SdkOf(call.model, call.sdk)
  /\ call.at = "done" => LanguageOf(call.model, call.language)

CallsAreTrue == \A c \in ModelCallers : CallIsTrue(modelCall[c])

ProvidersInv ==
  /\ modelCall = [c \in ModelCallers |-> modelCall[c]]
  /\ RegistryIsAllowed /\ CachesAreTrue /\ CallsAreTrue

HasModels(providers) == \A p \in DOMAIN providers : "models" \in DOMAIN providers[p]

\* Providers that each have their models, all of them of the database.
OfDatabase(providers, database) ==
  DOMAIN providers \subseteq DOMAIN database /\ HasModels(providers)

(* A provider that is merged keeps its models (provider.ts:591-602).         *)
LEMMA MergedHasModels ==
  ASSUME NEW database, NEW providers, HasModels(database), HasModels(providers),
         NEW p \in DOMAIN database, NEW key, NEW options
  PROVE  "models" \in DOMAIN mergeProvider(providers, database, p, key, options)
<1> DEFINE old == IF Known(providers, p) THEN providers[p] ELSE database[p]
<1>1. "models" \in DOMAIN old
  BY DEF HasModels, Known
<1>2. DOMAIN mergeProvider(providers, database, p, key, options) = DOMAIN old
  BY DEF mergeProvider
<1> QED BY <1>1, <1>2

(* So do all of two registries laid over each other (provider.ts:591-602).   *)
LEMMA OverHasModels ==
  ASSUME NEW f, NEW g, HasModels(f), HasModels(g)
  PROVE  HasModels(Over(f, g))
<1> SUFFICES ASSUME NEW k \in DOMAIN Over(f, g) PROVE "models" \in DOMAIN Over(f, g)[k]
  BY DEF HasModels
<1>1. CASE k \in DOMAIN f
  BY <1>1 DEF HasModels, Over, Known
<1>2. CASE k \in DOMAIN g \ DOMAIN f
  BY <1>2 DEF HasModels, Over, Known
<1> QED BY <1>1, <1>2 DEF Over

(* And they stay providers of the database (provider.ts:591-602).            *)
LEMMA OverOfDatabase ==
  ASSUME NEW database, NEW f, NEW g, OfDatabase(f, database), OfDatabase(g, database)
  PROVE  OfDatabase(Over(f, g), database)
BY OverKnown, OverHasModels DEF OfDatabase

(* The database has the providers of the catalogue and the configuration     *)
(* (provider.ts:577-685).                                                    *)
LEMMA DatabaseHasModels ==
  ASSUME NEW c
  PROVE  /\ DOMAIN Database(c) = DOMAIN c.given \cup DOMAIN Catalogue
         /\ HasModels(Database(c))
<1> DEFINE catalogue == [p \in DOMAIN Catalogue |-> fromModelsDevProvider(p)]
           base(p) == IF Known(catalogue, p) THEN catalogue[p]
                      ELSE [vars |-> {}, url |-> "none", options |-> None, key |-> "none", models |-> None]
           parsed(p) == [m \in DOMAIN c.given[p].models |-> ParsedModel(base(p).models, m, c.given[p].models[m])]
           given == [p \in DOMAIN c.given |-> [base(p) EXCEPT !.options = Over(c.given[p].options, @),
                                                              !.models = Over(parsed(p), @)]]
<1>1. Database(c) = Over(given, catalogue)
  BY DEF Database
<1>2. DOMAIN catalogue = DOMAIN Catalogue /\ \A p \in DOMAIN catalogue : "models" \in DOMAIN catalogue[p]
  BY DEF fromModelsDevProvider
<1>3. \A p : "models" \in DOMAIN base(p)
  BY <1>2 DEF Known
<1>4. DOMAIN given = DOMAIN c.given /\ \A p \in DOMAIN given : "models" \in DOMAIN given[p]
  <2> HIDE DEF base, parsed
  <2> QED BY <1>3
<1> HIDE DEF given, catalogue
<1>5. HasModels(Over(given, catalogue))
  BY <1>2, <1>4, OverHasModels DEF HasModels
<1>6. DOMAIN Over(given, catalogue) = DOMAIN c.given \cup DOMAIN Catalogue
  BY <1>2, <1>4 DEF Over
<1> QED BY <1>1, <1>5, <1>6

(* The environment, the loaders and the configuration add no other provider  *)
(* (provider.ts:687-722).                                                    *)
LEMMA LoadsKeep ==
  ASSUME NEW c, NEW env, NEW database, HasModels(database), DOMAIN c.given \subseteq DOMAIN database
  PROVE  OfDatabase(LoadConfig(c, database, LoadCustom(c, database, LoadEnv(c, database, env))), database)
<1>1. PICK e : e = LoadEnv(c, database, env)
  OBVIOUS
<1>2. OfDatabase(e, database)
  BY <1>1 DEF LoadEnv, OfDatabase, HasModels
<1>3. PICK f : f = [p \in {q \in DOMAIN database : CustomLoader(e, c, q)} |->
                      mergeProvider(e, database, p, "none", Loaders[p].options)]
  OBVIOUS
<1>4. OfDatabase(f, database)
  BY <1>2, <1>3, MergedHasModels DEF OfDatabase, HasModels
<1>5. PICK custom : custom = LoadCustom(c, database, e)
  OBVIOUS
<1>6. OfDatabase(custom, database)
  BY <1>2, <1>3, <1>4, <1>5, OverOfDatabase DEF LoadCustom
<1>7. PICK h : h = [p \in DOMAIN c.given |->
                      mergeProvider(custom, database, p, "none", c.given[p].options)]
  OBVIOUS
<1>8. OfDatabase(h, database)
  BY <1>6, <1>7, MergedHasModels DEF OfDatabase, HasModels
<1>9. OfDatabase(LoadConfig(c, database, custom), database)
  BY <1>6, <1>7, <1>8, OverOfDatabase DEF LoadConfig
<1> QED BY <1>1, <1>5, <1>9

(* What the registry has is allowed, known and not hidden                    *)
(* (provider.ts:724-770).                                                    *)
LEMMA StateIsAllowed ==
  ASSUME NEW c, NEW env, NEW p \in DOMAIN state(c, env)
  PROVE  /\ isProviderAllowed(c, p)
         /\ Known(Catalogue, p) \/ Known(c.given, p)
         /\ \A m \in DOMAIN state(c, env)[p].models :
              Known(c.given, p) => m \notin c.given[p].black
<1>1. PICK providers : providers = LoadConfig(c, Database(c), LoadCustom(c, Database(c), LoadEnv(c, Database(c), env)))
  OBVIOUS
<1>2. DOMAIN providers \subseteq DOMAIN c.given \cup DOMAIN Catalogue /\ HasModels(providers)
  BY <1>1, DatabaseHasModels, LoadsKeep DEF OfDatabase
<1>3. PICK left : left = [q \in {r \in DOMAIN providers : isProviderAllowed(c, r)} |->
                            [providers[q] EXCEPT !.models = Kept(c, q, @)]]
  OBVIOUS
<1>4. state(c, env) = Only(left, {q \in DOMAIN left : DOMAIN left[q].models # {}})
  BY <1>1, <1>3 DEF state, Filtered
<1>5. p \in DOMAIN providers /\ isProviderAllowed(c, p)
  BY <1>3, <1>4 DEF Only
<1>6. state(c, env)[p].models = Kept(c, p, providers[p].models)
  <2>1. state(c, env)[p] = [providers[p] EXCEPT !.models = Kept(c, p, @)]
    BY <1>3, <1>4 DEF Only
  <2> QED BY <1>2, <1>5, <2>1 DEF HasModels
<1> QED BY <1>2, <1>5, <1>6 DEF Known, Kept, Only

(* The invariant holds when the registry was worked out (provider.ts:551-778). *)
LEMMA ProvidersStart == ProvidersInit => ProvidersInv
<1> SUFFICES ASSUME ProvidersInit PROVE ProvidersInv
  OBVIOUS
<1>1. RegistryIsAllowed
  BY StateIsAllowed DEF ProvidersInit, RegistryIsAllowed
<1> QED BY <1>1 DEF ProvidersInit, ProvidersInv, CachesAreTrue, CallsAreTrue, CallIsTrue, None, NoCall

(* What a call asks for does not change with the caches                      *)
(* (provider.ts:784-922).                                                    *)
LEMMA InfoLasts ==
  ASSUME UNCHANGED <<settings, registry>>
  PROVE  /\ RegistryIsAllowed => RegistryIsAllowed'
         /\ \A model : Offered(model)' = Offered(model) /\ Info(model)' = Info(model)
                       /\ Options(model)' = Options(model)
         /\ \A model, sdk : SdkOf(model, sdk)' = SdkOf(model, sdk)
         /\ \A model, l : LanguageOf(model, l)' = LanguageOf(model, l)
BY DEF RegistryIsAllowed, Offered, Info, Options, SdkOf, LanguageOf

(* A call whose record is true keeps the invariant if the caches are true    *)
(* (provider.ts:784-922).                                                    *)
LEMMA CallKeeps ==
  ASSUME ProvidersInv, UNCHANGED <<settings, registry>>, CachesAreTrue',
         NEW c \in ModelCallers, NEW call, CallIsTrue(call),
         modelCall' = [modelCall EXCEPT ![c] = call]
  PROVE  ProvidersInv'
<1>1. \A d \in ModelCallers : modelCall'[d] = IF d = c THEN call ELSE modelCall[d]
  BY DEF ProvidersInv
<1>2. \A d \in ModelCallers : CallIsTrue(modelCall'[d])
  BY <1>1 DEF ProvidersInv, CallsAreTrue
<1>3. CallsAreTrue'
  BY <1>2, InfoLasts DEF CallsAreTrue, CallIsTrue
<1>4. modelCall' = [d \in ModelCallers |-> modelCall'[d]]
  BY DEF ProvidersInv
<1> QED BY <1>3, <1>4, InfoLasts DEF ProvidersInv

(* Caches that are not written stay true (provider.ts:784-922).              *)
LEMMA CachesStay ==
  ASSUME CachesAreTrue, UNCHANGED <<settings, registry, sdks, languages>>
  PROVE  CachesAreTrue'
BY InfoLasts DEF CachesAreTrue

(* An sdk is cached under what it was made of (provider.ts:784-867).         *)
LEMMA SdkCached ==
  ASSUME CachesAreTrue, UNCHANGED <<settings, registry, languages>>, NEW model,
         sdks' = Over(Entry(SdkKey(model), Sdk(model)), sdks)
  PROVE  CachesAreTrue' /\ SdkOf(model, Sdk(model))
<1>1. SdkKey(model) = <<Sdk(model).npm, Sdk(model).options>> /\ SdkOf(model, Sdk(model))
  BY DEF SdkKey, Sdk, SdkOf
<1>2. PICK key : key = SdkKey(model)
  OBVIOUS
<1>3. PICK sdk : sdk = Sdk(model)
  OBVIOUS
<1>4. \A k \in DOMAIN sdks' : sdks'[k] = (IF k = key THEN sdk ELSE sdks[k]) /\ (k # key => k \in DOMAIN sdks)
  BY <1>2, <1>3 DEF Over, Entry, Known
<1>5. \A k \in DOMAIN sdks' : k = <<sdks'[k].npm, sdks'[k].options>>
  BY <1>1, <1>2, <1>3, <1>4 DEF CachesAreTrue
<1> QED BY <1>1, <1>5, InfoLasts DEF CachesAreTrue

(* Asking for a model (provider.ts:873-891).                                 *)
LEMMA AskKeepsCalls ==
  ASSUME ProvidersInv, NEW c \in ModelCallers, NEW p, NEW m, getModel(c, p, m)
  PROVE  ProvidersInv'
<1> DEFINE call == [NoCall EXCEPT !.at = IF Known(registry, p) /\ Known(registry[p].models, m)
                                         THEN "language" ELSE "failed", !.model = <<p, m>>]
<1>1. CallIsTrue(call)
  <2>1. PICK at : at = IF Known(registry, p) /\ Known(registry[p].models, m) THEN "language" ELSE "failed"
    OBVIOUS
  <2>2. call = [at |-> at, model |-> <<p, m>>, sdk |-> None, language |-> None]
    <3>1. [NoCall EXCEPT !.at = at] = [at |-> at, model |-> <<>>, sdk |-> None, language |-> None]
      BY DEF NoCall
    <3>2. call = [[NoCall EXCEPT !.at = at] EXCEPT !.model = <<p, m>>]
      BY <2>1
    <3> HIDE DEF call
    <3> QED BY <3>1, <3>2
  <2>3. at \in {"language", "failed"} /\ (at = "language" => Offered(<<p, m>>))
    BY <2>1 DEF Offered
  <2> HIDE DEF call
  <2> QED BY <2>2, <2>3 DEF CallIsTrue
<1> HIDE DEF call
<1>2. modelCall' = [modelCall EXCEPT ![c] = call] /\ UNCHANGED <<settings, registry, sdks, languages>>
  BY DEF getModel, call
<1> QED BY <1>1, <1>2, CallKeeps, CachesStay DEF ProvidersInv

(* The sdk found under a key is the one the key calls for                    *)
(* (provider.ts:784-867).                                                    *)
LEMMA SdkKnown ==
  ASSUME CachesAreTrue, NEW model, Known(sdks, SdkKey(model))
  PROVE  SdkOf(model, sdks[SdkKey(model)])
BY DEF CachesAreTrue, Known, SdkKey, SdkOf

(* Asking for a language that is cached or is not (provider.ts:893-922).     *)
LEMMA LanguageKeeps ==
  ASSUME ProvidersInv, NEW c \in ModelCallers, getLanguage(c)
  PROVE  ProvidersInv'
<1>1. PICK model : model = modelCall[c].model
  OBVIOUS
<1>2. /\ modelCall[c].at = "language" /\ CallIsTrue(modelCall[c]) /\ Offered(model)
      /\ UNCHANGED <<settings, registry, languages>> /\ CachesAreTrue
  BY <1>1 DEF getLanguage, ProvidersInv, CallsAreTrue, CallIsTrue
<1>3. CASE /\ Known(languages, model)
           /\ modelCall' = [modelCall EXCEPT ![c].at = "done", ![c].language = languages[model]]
           /\ UNCHANGED sdks
  <2>1. PICK call : call = [modelCall[c] EXCEPT !.at = "done", !.language = languages[model]]
    OBVIOUS
  <2>2. CallIsTrue(call)
    BY <1>1, <1>2, <1>3, <2>1 DEF CallIsTrue, CachesAreTrue, Known
  <2>3. modelCall' = [modelCall EXCEPT ![c] = call]
    BY <1>3, <2>1 DEF ProvidersInv
  <2> QED BY <1>2, <1>3, <2>2, <2>3, CallKeeps, CachesStay
<1>4. ASSUME NEW at \in {"loading", "installing"}, NEW sdk, at = "loading" => SdkOf(model, sdk),
             modelCall' = [modelCall EXCEPT ![c].at = at, ![c].sdk = sdk], CachesAreTrue'
      PROVE  ProvidersInv'
  <2>1. PICK call : call = [modelCall[c] EXCEPT !.at = at, !.sdk = sdk]
    OBVIOUS
  <2>2. CallIsTrue(call)
    BY <1>1, <1>2, <1>4, <2>1 DEF CallIsTrue
  <2>3. modelCall' = [modelCall EXCEPT ![c] = call]
    BY <1>4, <2>1 DEF ProvidersInv
  <2> QED BY <1>2, <1>4, <2>2, <2>3, CallKeeps
<1>5. CASE /\ Known(sdks, SdkKey(model))
           /\ modelCall' = [modelCall EXCEPT ![c].at = "loading", ![c].sdk = sdks[SdkKey(model)]]
           /\ UNCHANGED sdks
  BY <1>2, <1>4, <1>5, SdkKnown, CachesStay
<1>6. CASE /\ sdks' = Over(Entry(SdkKey(model), Sdk(model)), sdks)
           /\ modelCall' = [modelCall EXCEPT ![c].at = "loading", ![c].sdk = Sdk(model)]
  BY <1>2, <1>4, <1>6, SdkCached
<1>7. CASE /\ modelCall' = [modelCall EXCEPT ![c].at = "installing", ![c].sdk = None]
           /\ UNCHANGED sdks
  BY <1>2, <1>4, <1>7, CachesStay
<1> QED BY <1>1, <1>3, <1>5, <1>6, <1>7 DEF getLanguage

(* A call that fails (provider.ts:784-922).                                  *)
LEMMA FailKeeps ==
  ASSUME ProvidersInv, NEW c \in ModelCallers, NEW at \in {"failed"},
         UNCHANGED <<settings, registry, sdks, languages>>,
         modelCall' = [modelCall EXCEPT ![c].at = at]
  PROVE  ProvidersInv'
<1>1. PICK call : call = [modelCall[c] EXCEPT !.at = at]
  OBVIOUS
<1>2. CallIsTrue(call)
  BY <1>1 DEF ProvidersInv, CallsAreTrue, CallIsTrue
<1>3. modelCall' = [modelCall EXCEPT ![c] = call]
  BY <1>1 DEF ProvidersInv
<1> QED BY <1>2, <1>3, CallKeeps, CachesStay DEF ProvidersInv

(* An sdk that was installed replaces another of the same key                *)
(* (provider.ts:784-867).                                                    *)
LEMMA InstallKeeps ==
  ASSUME ProvidersInv, NEW c \in ModelCallers, getSDK(c)
  PROVE  ProvidersInv'
<1>1. PICK model : model = modelCall[c].model
  OBVIOUS
<1>2. CASE /\ sdks' = Over(Entry(SdkKey(model), Sdk(model)), sdks)
           /\ modelCall' = [modelCall EXCEPT ![c].at = "loading", ![c].sdk = Sdk(model)]
  <2>1. CachesAreTrue' /\ SdkOf(model, Sdk(model))
    BY <1>2, SdkCached DEF getSDK, ProvidersInv
  <2>2. PICK call : call = [modelCall[c] EXCEPT !.at = "loading", !.sdk = Sdk(model)]
    OBVIOUS
  <2>3. CallIsTrue(call)
    <3>1. CallIsTrue(modelCall[c]) /\ modelCall[c].at = "installing"
      BY DEF getSDK, ProvidersInv, CallsAreTrue
    <3> QED BY <1>1, <2>1, <2>2, <3>1 DEF CallIsTrue
  <2>4. modelCall' = [modelCall EXCEPT ![c] = call]
    BY <1>2, <2>2 DEF ProvidersInv
  <2> QED BY <2>1, <2>3, <2>4, CallKeeps DEF getSDK
<1>3. CASE modelCall' = [modelCall EXCEPT ![c].at = "failed"] /\ UNCHANGED sdks
  BY <1>3, FailKeeps DEF getSDK
<1> QED BY <1>1, <1>2, <1>3 DEF getSDK

(* A language that was loaded (provider.ts:893-922).                         *)
LEMMA LoadKeeps ==
  ASSUME ProvidersInv, NEW c \in ModelCallers, LanguageLoaded(c)
  PROVE  ProvidersInv'
<1>1. PICK model : model = modelCall[c].model
  OBVIOUS
<1>2. PICK language : language = Language(model, modelCall[c].sdk)
  OBVIOUS
<1>3. CASE /\ languages' = Over(Entry(model, language), languages)
           /\ modelCall' = [modelCall EXCEPT ![c].at = "done", ![c].language = language]
  <2>1. LanguageOf(model, language) /\ UNCHANGED <<settings, registry, sdks>>
    BY <1>1, <1>2 DEF LanguageLoaded, Language, LanguageOf, ProvidersInv, CallsAreTrue, CallIsTrue
  <2>2. \A k \in DOMAIN languages' :
          languages'[k] = (IF k = model THEN language ELSE languages[k]) /\ (k # model => k \in DOMAIN languages)
    BY <1>3 DEF Over, Entry, Known
  <2>3. CachesAreTrue'
    BY <2>1, <2>2, InfoLasts DEF CachesAreTrue, ProvidersInv
  <2>4. PICK call : call = [modelCall[c] EXCEPT !.at = "done", !.language = language]
    OBVIOUS
  <2>5. CallIsTrue(call)
    <3>1. CallIsTrue(modelCall[c]) /\ modelCall[c].at = "loading"
      BY DEF LanguageLoaded, ProvidersInv, CallsAreTrue
    <3> QED BY <1>1, <2>1, <2>4, <3>1 DEF CallIsTrue
  <2>6. modelCall' = [modelCall EXCEPT ![c] = call]
    BY <1>3, <2>4 DEF ProvidersInv
  <2> QED BY <2>1, <2>3, <2>5, <2>6, CallKeeps
<1>4. CASE modelCall' = [modelCall EXCEPT ![c].at = "failed"] /\ UNCHANGED languages
  BY <1>4, FailKeeps DEF LanguageLoaded
<1> QED BY <1>1, <1>2, <1>3, <1>4 DEF LanguageLoaded

(* The language a call gets is that of its own model as it is configured,    *)
(* whichever other calls install, load and cache meanwhile, for any catalogue, *)
(* configuration, environment and number of callers (provider.ts:551-922).   *)
THEOREM LanguagesStayTheirOwn == ProvidersSpec => []LanguagesAreTheirOwn
<1>1. ProvidersInv /\ [ProvidersNext]_providerVars => ProvidersInv'
  <2> SUFFICES ASSUME ProvidersInv, [ProvidersNext]_providerVars PROVE ProvidersInv'
    OBVIOUS
  <2>1. ASSUME NEW c \in ModelCallers, Answered(c) PROVE ProvidersInv'
    <3>1. CallIsTrue(NoCall)
      BY DEF CallIsTrue, NoCall
    <3> QED BY <2>1, <3>1, CallKeeps, CachesStay DEF Answered, ProvidersInv
  <2>2. CASE UNCHANGED providerVars
    BY <2>2, InfoLasts DEF providerVars, ProvidersInv, CachesAreTrue, CallsAreTrue, CallIsTrue
  <2> QED BY <2>1, <2>2, AskKeepsCalls, LanguageKeeps, InstallKeeps, LoadKeeps
          DEF ProvidersNext, defaultModel
<1>2. ProvidersInv => LanguagesAreTheirOwn
  <2> SUFFICES ASSUME ProvidersInv, NEW c \in ModelCallers, modelCall[c].at = "done",
                      NEW p, p = modelCall[c].model[1], NEW m, m = modelCall[c].model[2]
               PROVE  /\ isProviderAllowed(settings, p)
                      /\ Known(settings.given, p) => m \notin settings.given[p].black
                      /\ Known(Catalogue, p) \/ Known(settings.given, p)
                      /\ modelCall[c].language.api = Info(<<p, m>>).api
                      /\ modelCall[c].language.sdk.npm = Info(<<p, m>>).npm
                      /\ modelCall[c].language.sdk.options = Options(<<p, m>>)
    BY DEF LanguagesAreTheirOwn
  <2>1. Offered(modelCall[c].model) /\ LanguageOf(modelCall[c].model, modelCall[c].language)
    BY DEF ProvidersInv, CallsAreTrue, CallIsTrue
  <2>2. Info(<<p, m>>) = Info(modelCall[c].model) /\ Options(<<p, m>>) = Options(modelCall[c].model)
    BY DEF Info, Options
  <2> QED BY <2>1, <2>2 DEF ProvidersInv, LanguageOf, SdkOf, Offered, RegistryIsAllowed, Known
<1> QED BY ProvidersStart, <1>1, <1>2, PTL DEF ProvidersSpec

-----------------------------------------------------------------------------
(* Conversations and their outputs *)

ConversationSpec == ConversationInit /\ [][ConversationNext]_convVars

Summed(list, n, f) ==
  f = [i \in 0..n |-> IF i = 0 THEN 0 ELSE f[i - 1] + Estimate(list, i)]

(* A walk over a conversation has a running total after each of its steps    *)
(* (session/compaction.ts:54-72).                                            *)
LEMMA SummedExists ==
  ASSUME NEW list, NEW n \in Nat
  PROVE  \E f : Summed(list, n, f)
<1> DEFINE S == {k \in Nat : ~\E f : Summed(list, k, f)}
<1>1. SUFFICES ASSUME S # {} PROVE FALSE
  OBVIOUS
<1>2. PICK k \in S : \A m \in S : k <= m
  <2>1. S \in SUBSET Nat
    OBVIOUS
  <2> HIDE DEF S
  <2> QED BY <1>1, <2>1, LeastOf
<1>3. CASE k = 0
  <2> DEFINE f == [i \in 0..0 |-> 0]
  <2>1. f = [i \in 0..0 |-> IF i = 0 THEN 0 ELSE f[i - 1] + Estimate(list, i)]
    OBVIOUS
  <2>2. Summed(list, 0, f)
    BY <2>1 DEF Summed
  <2> HIDE DEF f
  <2> QED BY <1>3, <2>2
<1>4. CASE k # 0
  <2>1. k - 1 \in Nat /\ k - 1 \notin S
    BY <1>2, <1>4
  <2>2. PICK f : Summed(list, k - 1, f)
    BY <2>1
  <2> DEFINE g == [i \in 0..k |-> IF i = k THEN f[k - 1] + Estimate(list, k) ELSE f[i]]
  <2>3. \A i \in 0..(k - 1) : f[i] = IF i = 0 THEN 0 ELSE f[i - 1] + Estimate(list, i)
    BY <2>2 DEF Summed
  <2>4. \A i \in 0..k : g[i] = IF i = 0 THEN 0 ELSE g[i - 1] + Estimate(list, i)
    <3> TAKE i \in 0..k
    <3>1. CASE i = k
      BY <3>1, <1>4, <2>1
    <3>2. CASE i # k
      BY <3>2, <2>3, <2>1
    <3> QED BY <3>1, <3>2
  <2>5. g = [i \in 0..k |-> IF i = 0 THEN 0 ELSE g[i - 1] + Estimate(list, i)]
    BY <2>4
  <2>6. Summed(list, k, g)
    BY <2>5 DEF Summed
  <2> HIDE DEF g
  <2> QED BY <1>2, <2>6
<1> QED BY <1>3, <1>4

(* The place of an output is one of a message and one of its parts.          *)
LEMMA PlaceOf ==
  ASSUME NEW list \in Seq(Messages), NEW p \in Places(list)
  PROVE  /\ p \in Nat \X (1..MaxCalls) /\ p = <<p[1], p[2]>>
         /\ p[1] \in 1..Len(list) /\ p[2] \in 1..MaxCalls /\ p[2] \in DOMAIN list[p[1]].outputs
         /\ At(list, p) \in Outcomes
<1>1. /\ p \in (1..Len(list)) \X (1..MaxCalls) /\ p[2] \in DOMAIN list[p[1]].outputs
      /\ list[p[1]] \in Messages
  BY DEF Places
<1>2. list[p[1]].outputs \in Seq(Outcomes)
  BY <1>1 DEF Messages
<1> QED BY <1>1, <1>2 DEF At

(* The running total of prune never falls on its way back.                   *)
LEMMA TotalsGrow ==
  ASSUME NEW list \in Seq(Messages), NEW n \in 0..(MaxCalls * Len(list)), NEW m \in 0..n
  PROVE  Totals(list)[m] \in Nat /\ Totals(list)[n] \in Nat /\ Totals(list)[m] <= Totals(list)[n]
<1> DEFINE Final == MaxCalls * Len(list)
           total == Totals(list)
<1>1. Final \in Nat
  BY DEF MaxCalls
<1>2. Summed(list, Final, total)
  BY <1>1, SummedExists, Zenon DEF Summed, Totals
<1>3. \A i \in 0..Final : total[i] = IF i = 0 THEN 0 ELSE total[i - 1] + Estimate(list, i)
  BY <1>2 DEF Summed
<1>4. \A i \in 1..Final : Estimate(list, i) \in Nat
  <2>1. ASSUME NEW p \in Visited(list) PROVE At(list, p).size \in Nat
    BY PlaceOf, ConversationAssumption DEF Visited, Outcomes
  <2> QED BY <2>1 DEF Estimate
<1> HIDE DEF Final, total
<1>5. SUFFICES ASSUME ~(total[m] \in Nat /\ total[n] \in Nat /\ total[m] <= total[n]) PROVE FALSE
  BY DEF total
<1>6. \A i \in 0..Final : total[i] \in Nat
  <2> DEFINE S == {i \in 0..Final : total[i] \notin Nat}
  <2>1. SUFFICES ASSUME S # {} PROVE FALSE
    OBVIOUS
  <2>2. PICK k \in S : \A i \in S : k <= i
    <3>1. S \in SUBSET Nat
      BY <1>1
    <3> HIDE DEF S
    <3> QED BY <2>1, <3>1, LeastOf
  <2>3. k # 0 /\ k - 1 \in 0..Final /\ k - 1 \notin S
    BY <1>1, <1>3, <2>2
  <2> QED BY <2>2, <2>3, <1>3, <1>4, <1>1
<1>7. m \in Nat /\ n \in 0..Final /\ m <= n
  BY DEF Final
<1>8. \A i \in m..Final : total[m] <= total[i]
  <2> DEFINE S == {i \in m..Final : ~(total[m] <= total[i])}
  <2>1. SUFFICES ASSUME S # {} PROVE FALSE
    OBVIOUS
  <2>2. PICK k \in S : \A i \in S : k <= i
    <3>1. S \in SUBSET Nat
      BY <1>1, <1>7
    <3> HIDE DEF S
    <3> QED BY <2>1, <3>1, LeastOf
  <2>3. k # m
    BY <1>6, <1>7, <1>1, <2>2
  <2>4. k - 1 \in m..Final /\ k - 1 \notin S /\ k \in 1..Final
    BY <1>1, <1>7, <2>2, <2>3
  <2>5. total[k] = total[k - 1] + Estimate(list, k) /\ total[m] <= total[k - 1]
    BY <2>4, <1>3, <1>7
  <2>6. total[m] \in Nat /\ total[k - 1] \in Nat /\ Estimate(list, k) \in Nat
    BY <2>4, <1>4, <1>6, <1>7, <1>1
  <2> QED BY <2>2, <2>5, <2>6
<1> QED BY <1>5, <1>6, <1>7, <1>8, <1>1

(* What is further back has at least as many turns after it.                 *)
LEMMA OldGoesBack ==
  ASSUME NEW list \in Seq(Messages), NEW k \in Old(list), NEW i \in 1..Len(list), i <= k
  PROVE  i \in Old(list)
<1> DEFINE Told(n) == {j \in n..Len(list) : list[j].role = "user"}
<1>1. k \in 1..Len(list) /\ Turns(list, k) >= 2
  BY DEF Old
<1>2. Told(k) \subseteq Told(i) /\ Told(i) \subseteq i..Len(list)
  BY <1>1
<1>3. IsFiniteSet(Told(i))
  BY <1>2, FS_Interval, FS_Subset, Len(list) \in Nat, i \in Int, Len(list) \in Int
<1>4. Cardinality(Told(k)) <= Cardinality(Told(i)) /\ Cardinality(Told(i)) \in Nat /\ Cardinality(Told(k)) \in Nat
  <2> HIDE DEF Told
  <2> QED BY <1>2, <1>3, FS_Subset, FS_CardinalityType
<1> QED BY <1>1, <1>4 DEF Old, Turns

\* A completed output that is neither waiting to be cleared nor left behind is
\* divided by a summary from every newer one that is cleared or waits to be.
Oldest(list, waiting, left) ==
  \A p, q \in Places(list) :
    /\ At(list, p).state = "completed" /\ p \notin waiting \cup left
    /\ At(list, q).state = "cleared" \/ q \in waiting
    /\ Newer(q, p)
    => \E m \in p[1]..q[1] : IsSummary(list[m])

(* The walk of prune meets the newer of two outputs first.                   *)
LEMMA StepsGoBack ==
  ASSUME NEW n \in Nat, NEW i \in 1..n, NEW k \in 1..n, NEW j \in 1..3, NEW l \in 1..3,
         i < k \/ (i = k /\ j <= l)
  PROVE  /\ 3 * (n - i) + 3 + 1 - j \in 0..(3 * n)
         /\ 3 * (n - k) + 3 + 1 - l \in 0..(3 * (n - i) + 3 + 1 - j)
OBVIOUS

(* What a prune decides to clear extends what is cleared to the older side:  *)
(* it keeps no output on the way (session/compaction.ts:59-79).              *)
LEMMA PruneKeepsOldest ==
  ASSUME NEW list \in Seq(Messages), NEW waiting, NEW left, Oldest(list, waiting, left)
  PROVE  Oldest(list, waiting \cup toPrune(list), left)
<1> SUFFICES ASSUME NEW p \in Places(list), NEW q \in Places(list),
                    At(list, p).state = "completed", p \notin waiting \cup toPrune(list) \cup left,
                    At(list, q).state = "cleared" \/ q \in waiting \cup toPrune(list),
                    Newer(q, p),
                    ~\E m \in p[1]..q[1] : IsSummary(list[m])
             PROVE  FALSE
  BY DEF Oldest
<1>1. q \in toPrune(list) /\ q \in Visited(list)
  BY DEF Oldest, toPrune
<1>2. /\ p[1] \in 1..Len(list) /\ p[2] \in 1..MaxCalls /\ q[1] \in 1..Len(list) /\ q[2] \in 1..MaxCalls
      /\ p[1] <= q[1]
  BY PlaceOf DEF Newer
<1>3. p[1] \in Old(list)
  BY <1>1, <1>2, OldGoesBack DEF Visited
<1>4. ASSUME NEW i \in Old(list), i >= p[1] PROVE ~IsSummary(list[i])
  <2>1. i \in 1..Len(list)
    BY DEF Old
  <2> QED BY <2>1, <1>4, <1>1, <1>2 DEF Visited
<1>5. ASSUME NEW x \in Places(list), x[1] \in Old(list), Newer(x, p) PROVE At(list, x).state # "cleared"
  <2>1. x[1] \in 1..Len(list) /\ x[2] \in 1..MaxCalls
    BY PlaceOf
  <2>2. CASE Newer(x, q)
    BY <2>2, <1>5, <1>1 DEF Visited
  <2>3. CASE ~Newer(x, q)
    <3>1. x[1] <= q[1]
      BY <2>1, <2>3, <1>2 DEF Newer
    <3>2. SUFFICES ASSUME At(list, x).state = "cleared" PROVE FALSE
      OBVIOUS
    <3>3. PICK m \in p[1]..x[1] : IsSummary(list[m])
      BY <3>2, <1>5 DEF Oldest
    <3> QED BY <3>1, <3>3, <2>1, <1>2
  <2> QED BY <2>2, <2>3
<1>6. p \in Visited(list)
  BY <1>3, <1>4, <1>5 DEF Visited
<1>7. /\ StepsBack(list, p) \in 0..(MaxCalls * Len(list)) /\ StepsBack(list, q) \in 0..StepsBack(list, p)
  <2>1. p[1] < q[1] \/ (p[1] = q[1] /\ p[2] <= q[2])
    BY <1>2 DEF Newer
  <2> QED BY <1>2, <2>1, StepsGoBack, Len(list) \in Nat DEF StepsBack, MaxCalls
<1>8. Totals(list)[StepsBack(list, p)] > PRUNE_PROTECT
  <2>1. Totals(list)[StepsBack(list, q)] > PRUNE_PROTECT
    BY <1>1 DEF toPrune
  <2>2. /\ Totals(list)[StepsBack(list, q)] \in Nat /\ Totals(list)[StepsBack(list, p)] \in Nat
        /\ Totals(list)[StepsBack(list, q)] <= Totals(list)[StepsBack(list, p)]
    BY <1>7, TotalsGrow
  <2> QED BY <2>1, <2>2, ConversationAssumption
<1> QED BY <1>6, <1>8 DEF toPrune

\* A list begins like another, and each of its outputs that is cleared, waits
\* or is kept does so there.
Inherits(list, other, n, waiting, left, waiting2, left2) ==
  /\ \A i \in 1..n : /\ other[i].kind = list[i].kind
                     /\ DOMAIN other[i].outputs = DOMAIN list[i].outputs
  /\ \A q \in Places(other) : At(other, q).state = "cleared" \/ q \in waiting2 =>
                                q[1] <= n /\ (At(list, q).state = "cleared" \/ q \in waiting)
  /\ \A p \in Places(other) :
       p[1] <= n /\ At(other, p).state = "completed" /\ p \notin waiting2 \cup left2 =>
         At(list, p).state = "completed" /\ p \notin waiting \cup left

(* Such a list inherits the order of clearing.                               *)
LEMMA OldestCarries ==
  ASSUME NEW list \in Seq(Messages), NEW other \in Seq(Messages),
         NEW n \in Nat, n <= Len(list), n <= Len(other),
         NEW waiting, NEW left, NEW waiting2, NEW left2, Oldest(list, waiting, left),
         Inherits(list, other, n, waiting, left, waiting2, left2)
  PROVE  Oldest(other, waiting2, left2)
<1> SUFFICES ASSUME NEW p \in Places(other), NEW q \in Places(other),
                    At(other, p).state = "completed", p \notin waiting2 \cup left2,
                    At(other, q).state = "cleared" \/ q \in waiting2,
                    Newer(q, p)
             PROVE  \E m \in p[1]..q[1] : IsSummary(other[m])
  BY DEF Oldest
<1>1. /\ p[1] \in 1..Len(other) /\ q[1] \in 1..Len(other) /\ p[1] <= q[1] /\ q[1] <= n
      /\ p \in Nat \X (1..MaxCalls) /\ q \in Nat \X (1..MaxCalls)
      /\ p[2] \in DOMAIN other[p[1]].outputs /\ q[2] \in DOMAIN other[q[1]].outputs
  <2>1. q[1] <= n
    BY DEF Inherits
  <2> QED BY <2>1, PlaceOf DEF Newer
<1>2. p \in Places(list) /\ q \in Places(list)
  BY <1>1 DEF Places, Inherits
<1>3. /\ At(list, p).state = "completed" /\ p \notin waiting \cup left
      /\ At(list, q).state = "cleared" \/ q \in waiting
  BY <1>1 DEF Inherits
<1>4. PICK m \in p[1]..q[1] : IsSummary(list[m])
  BY <1>2, <1>3 DEF Oldest
<1>5. m \in 1..n
  BY <1>1, <1>4
<1> QED BY <1>4, <1>5 DEF Inherits, IsSummary

Fits(list, n) ==
  /\ list \in Seq(Messages)
  /\ \A i \in 1..Len(list) : list[i].id \in 1..(n - 1) /\ list[i].parent < n /\ Len(list[i].outputs) <= MaxCalls

\* Stronger than the property: what waits to be cleared counts as cleared.
ConvInv ==
  /\ ConversationTypeOK
  /\ \A s \in Sessions : Oldest(Of(s), UNION prunes[s], unpruned[s])

(* The invariant speaks of each session by itself.                           *)
LEMMA SessionFits ==
  ASSUME ConvInv, NEW s \in Sessions
  PROVE  /\ Fits(Of(s), nextId) /\ nextId \in Nat \ {0}
         /\ (UNION prunes[s]) \cup unpruned[s] \subseteq Places(Of(s))
         /\ Oldest(Of(s), UNION prunes[s], unpruned[s])
<1>1. Of(s) \in Seq(Messages)
  BY DEF ConvInv, ConversationTypeOK, Of
<1>2. nextId \in Nat \ {0}
  BY ConversationAssumption DEF ConvInv, ConversationTypeOK
<1> QED BY <1>1, <1>2 DEF ConvInv, ConversationTypeOK, Fits

(* Ids only ascend.                                                          *)
LEMMA FitsLater ==
  ASSUME NEW n \in Nat, NEW m \in Nat, n <= m, NEW list, Fits(list, n)
  PROVE  Fits(list, m)
<1>1. ASSUME NEW i \in 1..Len(list)
      PROVE  list[i].id \in 1..(m - 1) /\ list[i].parent < m /\ Len(list[i].outputs) <= MaxCalls
  <2>1. list[i].id \in 1..(n - 1) /\ list[i].parent < n /\ Len(list[i].outputs) <= MaxCalls /\ list[i] \in Messages
    BY DEF Fits
  <2>2. list[i].parent \in Nat
    BY <2>1 DEF Messages
  <2> QED BY <2>1, <2>2
<1> QED BY <1>1 DEF Fits

(* What is said later leaves the order of clearing as it was.                *)
LEMMA SayingKeeps ==
  ASSUME NEW list, NEW tail, NEW n \in Nat, NEW m \in Nat, n <= m, Fits(list, n), Fits(tail, m),
         \A p \in Places(tail) : At(tail, p).state # "cleared",
         NEW waiting, NEW left, waiting \cup left \subseteq Places(list), Oldest(list, waiting, left)
  PROVE  /\ Fits(list \o tail, m) /\ waiting \cup left \subseteq Places(list \o tail)
         /\ Oldest(list \o tail, waiting, left)
<1> DEFINE other == list \o tail
           k == Len(list)
<1>1. /\ list \in Seq(Messages) /\ tail \in Seq(Messages) /\ other \in Seq(Messages)
      /\ k \in Nat /\ Len(tail) \in Nat /\ Len(other) = k + Len(tail)
      /\ \A i \in 1..k : other[i] = list[i]
      /\ \A i \in 1..Len(tail) : other[k + i] = tail[i]
      /\ \A i \in 1..Len(other) : i \in 1..k \/ (i - k \in 1..Len(tail) /\ other[i] = tail[i - k])
  BY DEF Fits
<1> HIDE DEF other, k
<1>2. Fits(other, m)
  <2>1. ASSUME NEW i \in 1..Len(other)
        PROVE  other[i].id \in 1..(m - 1) /\ other[i].parent < m /\ Len(other[i].outputs) <= MaxCalls
    <3>1. CASE i \in 1..k
      <4>1. i \in 1..Len(list) /\ other[i] = list[i]
        BY <3>1, <1>1 DEF k
      <4>2. list[i] \in Messages
        BY <4>1, <1>1
      <4>3. list[i].id \in 1..(n - 1) /\ list[i].parent < n /\ Len(list[i].outputs) <= MaxCalls
        BY <4>1 DEF Fits
      <4>4. list[i].parent \in Nat
        BY <4>2 DEF Messages
      <4> QED BY <4>1, <4>3, <4>4
    <3>2. CASE i \notin 1..k
      BY <3>2, <1>1 DEF Fits
    <3> QED BY <3>1, <3>2
  <2> QED BY <1>1, <2>1 DEF Fits
<1>3. \A p \in Places(list) : p \in Places(other)
  <2> TAKE p \in Places(list)
  <2>1. /\ p \in Nat \X (1..MaxCalls) /\ p[1] \in 1..k /\ p[2] \in DOMAIN list[p[1]].outputs
    BY PlaceOf, <1>1 DEF k
  <2> QED BY <2>1, <1>1 DEF Places
<1>4. \A i \in 1..k : /\ other[i].kind = list[i].kind
                       /\ DOMAIN other[i].outputs = DOMAIN list[i].outputs
  BY <1>1
<1>5. ASSUME NEW p \in Places(other), p[1] \in 1..k PROVE At(other, p) = At(list, p)
  BY <1>1, <1>5 DEF At
<1>6. ASSUME NEW p \in Places(other), p[1] \notin 1..k
      PROVE  At(other, p).state # "cleared" /\ p \notin waiting
  <2>1. /\ p \in Nat \X (1..MaxCalls) /\ p[1] \in 1..Len(other) /\ p[2] \in DOMAIN other[p[1]].outputs
    BY PlaceOf, <1>1
  <2>2. p[1] - k \in 1..Len(tail) /\ other[p[1]] = tail[p[1] - k]
    BY <2>1, <1>1, <1>6
  <2> DEFINE q == <<p[1] - k, p[2]>>
  <2>3. q \in Places(tail) /\ At(tail, q) = At(other, p)
    BY <2>1, <2>2, <1>1 DEF Places, At
  <2>4. p \notin Places(list)
    BY PlaceOf, <1>1, <1>6 DEF k
  <2> HIDE DEF q
  <2> QED BY <2>3, <2>4
<1>7. \A q \in Places(other) : At(other, q).state = "cleared" \/ q \in waiting =>
                                  q[1] <= k /\ (At(list, q).state = "cleared" \/ q \in waiting)
  <2> TAKE q \in Places(other)
  <2>1. q[1] \in 1..Len(other)
    BY PlaceOf, <1>1
  <2> QED BY <2>1, <1>1, <1>5, <1>6
<1>8. \A p \in Places(other) :
        p[1] <= k /\ At(other, p).state = "completed" /\ p \notin waiting \cup left =>
          At(list, p).state = "completed" /\ p \notin waiting \cup left
  <2> TAKE p \in Places(other)
  <2>1. p[1] \in 1..Len(other)
    BY PlaceOf, <1>1
  <2> QED BY <2>1, <1>1, <1>5
<1>9. k <= Len(list) /\ k <= Len(other)
  BY <1>1 DEF k
<1>10. Inherits(list, other, k, waiting, left, waiting, left)
  BY <1>4, <1>7, <1>8 DEF Inherits
<1>11. Oldest(other, waiting, left)
  BY <1>1, <1>9, <1>10, OldestCarries
<1> QED BY <1>2, <1>3, <1>11 DEF other

Put(list, i, e) == [list EXCEPT ![i] = e]
ClearedAt(list, p) == [list EXCEPT ![p[1]].outputs[p[2]].state = "cleared"]
UpTo(ps, k) == {p \in ps : p[1] <= k}
CopyOf(list, n, k) == [i \in 1..k |-> [list[i] EXCEPT !.id = n + i - 1]]

(* A fork has the outputs of the messages it copies, and their places.       *)
LEMMA CopyKeeps ==
  ASSUME NEW list, NEW n \in Nat \ {0}, NEW k \in 1..Len(list), Fits(list, n),
         NEW waiting, NEW left, waiting \cup left \subseteq Places(list), Oldest(list, waiting, left),
         NEW copy, copy = CopyOf(list, n, k), NEW lost, lost = UpTo(left \cup waiting, k)
  PROVE  Fits(copy, n + k) /\ lost \subseteq Places(copy) /\ Oldest(copy, {}, lost)
<1>1. /\ list \in Seq(Messages) /\ k \in 1..Len(list) /\ Len(list) \in Nat
      /\ \A i \in 1..k : list[i] \in Messages
  BY DEF Fits
<1>2. ASSUME NEW i \in 1..k
      PROVE  /\ copy[i] \in Messages /\ copy[i].id = n + i - 1 /\ copy[i].kind = list[i].kind
             /\ copy[i].outputs = list[i].outputs /\ copy[i].parent = list[i].parent
  <2>1. copy[i] = [list[i] EXCEPT !.id = n + i - 1] /\ list[i] \in Messages /\ n + i - 1 \in Nat
    BY <1>1 DEF CopyOf
  <2> QED BY <2>1 DEF Messages
<1>3. copy \in Seq(Messages) /\ Len(copy) = k /\ DOMAIN copy = 1..k
  <2>1. copy \in [1..k -> Messages]
    BY <1>2 DEF CopyOf
  <2> QED BY <2>1, k \in Nat
<1>4. Fits(copy, n + k)
  <2>1. ASSUME NEW i \in 1..k
        PROVE  copy[i].id \in 1..((n + k) - 1) /\ copy[i].parent < n + k /\ Len(copy[i].outputs) <= MaxCalls
    <3>1. i \in 1..Len(list) /\ list[i] \in Messages
      BY <1>1
    <3>2. list[i].parent < n /\ list[i].parent \in Nat /\ Len(list[i].outputs) <= MaxCalls
      BY <3>1 DEF Fits, Messages
    <3> QED BY <3>2, <1>2
  <2> QED BY <1>3, <2>1 DEF Fits
<1>5. ASSUME NEW p \in Places(copy)
      PROVE  /\ p[1] \in 1..k /\ p \in Places(list) /\ At(copy, p) = At(list, p)
  <2>1. p[1] \in 1..k /\ p \in Nat \X (1..MaxCalls) /\ p[2] \in DOMAIN copy[p[1]].outputs
    BY PlaceOf, <1>3
  <2>2. copy[p[1]].outputs = list[p[1]].outputs
    BY <2>1, <1>2
  <2> QED BY <2>1, <2>2, <1>1 DEF Places, At
<1>6. ASSUME NEW p \in Places(list), p[1] <= k PROVE p \in Places(copy)
  <2>1. p[1] \in 1..k /\ p \in Nat \X (1..MaxCalls) /\ p[2] \in DOMAIN list[p[1]].outputs
    BY PlaceOf, <1>1, <1>6
  <2>2. copy[p[1]].outputs = list[p[1]].outputs
    BY <2>1, <1>2
  <2> QED BY <2>1, <2>2, <1>3 DEF Places
<1>7. \A i \in 1..k : /\ copy[i].kind = list[i].kind
                       /\ DOMAIN copy[i].outputs = DOMAIN list[i].outputs
  BY <1>2 DEF IsSummary
<1>8. k \in Nat /\ k <= Len(list) /\ k <= Len(copy)
  BY <1>1, <1>3
<1>lost. lost = {p \in left \cup waiting : p[1] <= k}
  BY DEF UpTo
<1>9. \A q \in Places(copy) : At(copy, q).state = "cleared" \/ q \in {} =>
                                  q[1] <= k /\ (At(list, q).state = "cleared" \/ q \in waiting)
  BY <1>5
<1>10. \A p \in Places(copy) :
         p[1] <= k /\ At(copy, p).state = "completed" /\ p \notin {} \cup lost =>
           At(list, p).state = "completed" /\ p \notin waiting \cup left
  BY <1>5, <1>lost
<1>11. Oldest(copy, {}, lost)
  <2>1. Inherits(list, copy, k, waiting, left, {}, lost)
    BY <1>7, <1>9, <1>10 DEF Inherits
  <2> QED BY <1>1, <1>3, <1>8, <2>1, OldestCarries
<1> QED BY <1>4, <1>6, <1>lost, <1>11

(* Another message takes the place of one.                                   *)
LEMMA PutIs ==
  ASSUME NEW list \in Seq(Messages), NEW i \in 1..Len(list), NEW e \in Messages
  PROVE  /\ Put(list, i, e) \in Seq(Messages) /\ Len(Put(list, i, e)) = Len(list)
         /\ Put(list, i, e)[i] = e
         /\ \A j \in 1..Len(list) : j # i => Put(list, i, e)[j] = list[j]
BY DEF Put

(* A place written by a prune that waited for it stays in order.             *)
LEMMA ClearKeeps ==
  ASSUME NEW list, NEW n \in Nat \ {0}, Fits(list, n),
         NEW waiting, NEW left, waiting \cup left \subseteq Places(list), Oldest(list, waiting, left),
         NEW p \in Places(list), p \in waiting,
         NEW waiting2, waiting2 \subseteq waiting, \A q \in waiting : q = p \/ q \in waiting2,
         NEW other, other = ClearedAt(list, p)
  PROVE  /\ Fits(other, n) /\ waiting2 \cup left \subseteq Places(other) /\ Oldest(other, waiting2, left)
<1> DEFINE i == p[1]
           m == list[i]
           o == [m.outputs[p[2]] EXCEPT !.state = "cleared"]
           os == [m.outputs EXCEPT ![p[2]] = o]
           new == [m EXCEPT !.outputs = os]
<1>1. /\ list \in Seq(Messages) /\ i \in 1..Len(list) /\ p = <<i, p[2]>>
      /\ p[2] \in 1..Len(m.outputs) /\ m \in Messages /\ m.outputs \in Seq(Outcomes)
      /\ m.outputs[p[2]] \in Outcomes
  <2>1. list \in Seq(Messages) /\ i \in 1..Len(list) /\ p = <<i, p[2]>> /\ p[2] \in DOMAIN m.outputs
    BY PlaceOf DEF Fits
  <2>2. m \in Messages
    BY <2>1
  <2>3. m.outputs \in Seq(Outcomes)
    BY <2>2 DEF Messages
  <2> QED BY <2>1, <2>2, <2>3
<1>2. other = [list EXCEPT ![i] = new]
  BY DEF ClearedAt
<1>3. o \in Outcomes /\ o.state = "cleared"
  BY <1>1 DEF Outcomes
<1>4. os \in Seq(Outcomes) /\ Len(os) = Len(m.outputs) /\ os[p[2]] = o
      /\ \A j \in 1..Len(m.outputs) : j # p[2] => os[j] = m.outputs[j]
  <2> HIDE DEF o, m
  <2> QED BY <1>1, <1>3
<1>5. /\ new \in Messages /\ new.id = m.id /\ new.parent = m.parent /\ new.kind = m.kind
      /\ new.outputs = os
  <2> HIDE DEF os, m
  <2> QED BY <1>1, <1>4 DEF Messages
<1> HIDE DEF o, os, new
<1>6. /\ other \in Seq(Messages) /\ Len(other) = Len(list) /\ other[i] = new
      /\ \A j \in 1..Len(list) : j # i => other[j] = list[j]
  <2> HIDE DEF i, m
  <2>1. list \in Seq(Messages) /\ i \in 1..Len(list) /\ new \in Messages
    BY <1>1, <1>5
  <2>2. PICK at, e : at = i /\ e = new
    OBVIOUS
  <2>3. other = Put(list, at, e) /\ at \in 1..Len(list) /\ e \in Messages
    BY <2>1, <2>2, <1>2 DEF Put
  <2>4. /\ other \in Seq(Messages) /\ Len(other) = Len(list)
        /\ other[at] = e /\ \A j \in 1..Len(list) : j # at => other[j] = list[j]
    <3>1. /\ Put(list, at, e) \in Seq(Messages) /\ Len(Put(list, at, e)) = Len(list)
          /\ Put(list, at, e)[at] = e
          /\ \A j \in 1..Len(list) : j # at => Put(list, at, e)[j] = list[j]
      BY <2>1, <2>3, PutIs
    <3> QED BY <2>3, <3>1
  <2> QED BY <2>1, <2>2, <2>4
<1>7. \A j \in 1..Len(list) : /\ other[j].id = list[j].id /\ other[j].parent = list[j].parent
                              /\ other[j].kind = list[j].kind
                              /\ Len(other[j].outputs) = Len(list[j].outputs)
                              /\ DOMAIN other[j].outputs = DOMAIN list[j].outputs
  <2> TAKE j \in 1..Len(list)
  <2>1. CASE j = i
    BY <2>1, <1>1, <1>4, <1>5, <1>6
  <2>2. CASE j # i
    BY <2>2, <1>6
  <2> QED BY <2>1, <2>2
<1>8. Fits(other, n)
  BY <1>6, <1>7 DEF Fits
<1>9. Places(other) = Places(list)
  BY <1>6, <1>7, <1>1 DEF Places
<1>10. At(other, p).state = "cleared"
  BY <1>3, <1>4, <1>5, <1>6 DEF At
<1>11. ASSUME NEW q \in Places(list), q # p PROVE At(other, q) = At(list, q)
  <2>1. q = <<q[1], q[2]>> /\ q[1] \in 1..Len(list) /\ q[2] \in DOMAIN list[q[1]].outputs
    BY PlaceOf, <1>1
  <2>2. CASE q[1] # i
    BY <2>1, <2>2, <1>6 DEF At
  <2>3. CASE q[1] = i
    <3>1. q[2] # p[2] /\ q[2] \in 1..Len(m.outputs)
      BY <2>1, <2>3, <1>1, <1>11
    <3>2. other[q[1]].outputs[q[2]] = os[q[2]] /\ os[q[2]] = m.outputs[q[2]]
      BY <2>3, <3>1, <1>4, <1>5, <1>6
    <3> QED BY <2>3, <3>2 DEF At
  <2> QED BY <2>2, <2>3
<1>12. \A j \in 1..Len(list) : /\ other[j].kind = list[j].kind
                              /\ DOMAIN other[j].outputs = DOMAIN list[j].outputs
  BY <1>7 DEF IsSummary
<1>13. \A q \in Places(other) : At(other, q).state = "cleared" \/ q \in waiting2 =>
                              q[1] <= Len(list) /\ (At(list, q).state = "cleared" \/ q \in waiting)
  <2> TAKE q \in Places(other)
  <2>1. q[1] <= Len(list)
    BY <1>9, <1>1, PlaceOf
  <2> QED BY <2>1, <1>9, <1>11
<1>14. \A q \in Places(other) :
         q[1] <= Len(list) /\ At(other, q).state = "completed" /\ q \notin waiting2 \cup left =>
           At(list, q).state = "completed" /\ q \notin waiting \cup left
  BY <1>9, <1>10, <1>11
<1>15. Oldest(other, waiting2, left)
  <2>1. PICK k \in Nat : k = Len(list) /\ k <= Len(list) /\ k <= Len(other)
    BY <1>1, <1>6
  <2>2. list \in Seq(Messages) /\ other \in Seq(Messages)
    BY <1>1, <1>6
  <2> HIDE DEF i, m
  <2>3. Inherits(list, other, k, waiting, left, waiting2, left)
    BY <2>1, <1>12, <1>13, <1>14 DEF Inherits
  <2> QED BY <2>1, <2>2, <2>3, OldestCarries
<1> QED BY <1>8, <1>9, <1>15

(* A request and its answer are two messages with ids of their own.          *)
LEMMA PairFits ==
  ASSUME NEW n \in Nat \ {0}, NEW asked \in {"plain", "compaction"}, NEW kind \in {"plain", "summary", "failed"},
         NEW outs \in Seq(Outcomes), Len(outs) <= MaxCalls,
         \A j \in 1..Len(outs) : outs[j].state # "cleared",
         NEW tail, tail = <<User(n, asked), Answer(n + 1, kind, n, outs)>>
  PROVE  Fits(tail, n + 2) /\ \A p \in Places(tail) : At(tail, p).state # "cleared"
<1>1. /\ User(n, asked) \in Messages /\ User(n, asked).id = n /\ User(n, asked).parent = 0
      /\ User(n, asked).outputs = <<>>
  BY DEF User, Messages
<1>2. /\ Answer(n + 1, kind, n, outs) \in Messages /\ Answer(n + 1, kind, n, outs).id = n + 1
      /\ Answer(n + 1, kind, n, outs).parent = n /\ Answer(n + 1, kind, n, outs).outputs = outs
  BY DEF Answer, Messages
<1>3. /\ tail \in Seq(Messages) /\ Len(tail) = 2 /\ DOMAIN tail = 1..2
      /\ tail[1] = User(n, asked) /\ tail[2] = Answer(n + 1, kind, n, outs)
  BY <1>1, <1>2
<1>4. ASSUME NEW i \in 1..2
      PROVE  tail[i].id \in 1..((n + 2) - 1) /\ tail[i].parent < n + 2 /\ Len(tail[i].outputs) <= MaxCalls
  <2>1. i = 1 \/ i = 2
    OBVIOUS
  <2> QED BY <2>1, <1>1, <1>2, <1>3 DEF MaxCalls
<1>5. ASSUME NEW p \in Places(tail) PROVE At(tail, p).state # "cleared"
  <2>1. p[1] \in 1..2 /\ p[2] \in DOMAIN tail[p[1]].outputs
    BY <1>3 DEF Places
  <2>2. p[1] = 1 \/ p[1] = 2
    BY <2>1
  <2>3. p[1] # 1
    BY <2>1, <1>1, <1>3
  <2> QED BY <2>1, <2>2, <2>3, <1>2, <1>3 DEF At
<1> QED BY <1>3, <1>4, <1>5 DEF Fits

(* A conversation and the prunes at work on it keep the invariant.           *)
LEMMA ConversationStep ==
  ASSUME ConvInv, [ConversationNext]_convVars
  PROVE  ConvInv'
<1>1. SUFFICES ASSUME ConversationNext PROVE ConvInv'
  <2>1. ASSUME UNCHANGED convVars PROVE ConvInv'
    <3>1. \A s \in Sessions : Of(s)' = Of(s)
      BY <2>1 DEF convVars, Of
    <3> QED BY <2>1, <3>1 DEF ConvInv, ConversationTypeOK, convVars
  <2> QED BY <2>1
<1>2. /\ nextId \in 1..(MaxIds + 1) /\ prunes \in [Sessions -> SUBSET SUBSET (Nat \X (1..MaxCalls))]
      /\ unpruned \in [Sessions -> SUBSET (Nat \X (1..MaxCalls))]
  BY DEF ConvInv, ConversationTypeOK
<1> DEFINE StillFits(s) == /\ Fits(Of(s)', nextId') /\ (UNION prunes'[s]) \cup unpruned'[s] \subseteq Places(Of(s)')
                      /\ Oldest(Of(s)', UNION prunes'[s], unpruned'[s])
           Typed == /\ nextId' \in 1..(MaxIds + 1) /\ prunes' \in [Sessions -> SUBSET SUBSET (Nat \X (1..MaxCalls))]
                    /\ unpruned' \in [Sessions -> SUBSET (Nat \X (1..MaxCalls))]
<1>3. ASSUME Typed, \A s \in Sessions : StillFits(s) PROVE ConvInv'
  <2>1. messages' = Of("original")' /\ forked' = Of("fork")' /\ {"original", "fork"} \subseteq Sessions
    BY DEF Of, Sessions
  <2>2. messages' \in Seq(Messages) /\ forked' \in Seq(Messages)
    BY <1>3, <2>1 DEF Fits
  <2>3. ASSUME NEW s \in Sessions
        PROVE  /\ (UNION prunes'[s]) \cup unpruned'[s] \subseteq Places(Of(s)')
               /\ \A i \in DOMAIN Of(s)' : /\ Of(s)'[i].id \in 1..(nextId' - 1) /\ Of(s)'[i].parent < nextId'
                                          /\ Len(Of(s)'[i].outputs) <= MaxCalls
               /\ Oldest(Of(s)', UNION prunes'[s], unpruned'[s])
    <3>1. StillFits(s)
      BY <1>3
    <3>2. DOMAIN Of(s)' = 1..Len(Of(s)')
      BY <3>1 DEF Fits
    <3> QED BY <3>1, <3>2 DEF Fits
  <2>4. ConversationTypeOK'
    BY <1>3, <2>2, <2>3 DEF ConversationTypeOK
  <2> QED BY <2>3, <2>4 DEF ConvInv
<1>4. ASSUME NEW s \in Sessions, Of(s)' = Of(s), prunes'[s] = prunes[s], unpruned'[s] = unpruned[s],
             nextId' \in Nat, nextId' >= nextId
      PROVE  StillFits(s)
  <2>1. Fits(Of(s), nextId')
    BY <1>4, SessionFits, FitsLater
  <2>2. Fits(Of(s)', nextId')
    BY <1>4, <2>1
  <2>3. (UNION prunes'[s]) \cup unpruned'[s] \subseteq Places(Of(s)')
    BY <1>4, SessionFits
  <2>4. Oldest(Of(s)', UNION prunes'[s], unpruned'[s])
    BY <1>4, SessionFits
  <2> QED BY <2>2, <2>3, <2>4
<1>5. ASSUME NEW s \in Sessions, NEW list, Becomes(s, list)
      PROVE  Of(s)' = list /\ \A t \in Sessions : t # s => Of(t)' = Of(t)
  BY <1>5 DEF Becomes, Of, Sessions
<1>6. ASSUME NEW s \in Sessions, NEW tail, Becomes(s, Of(s) \o tail), Fits(tail, nextId + 2),
             \A p \in Places(tail) : At(tail, p).state # "cleared",
             nextId + 2 <= MaxIds + 1, nextId' = nextId + 2, UNCHANGED pruneVars
      PROVE  ConvInv'
  <2>1. nextId \in Nat /\ nextId + 2 \in Nat /\ nextId' \in 1..(MaxIds + 1) /\ nextId' >= nextId
    BY <1>2, <1>6, ConversationAssumption
  <2>2. prunes' = prunes /\ unpruned' = unpruned
    BY <1>6 DEF pruneVars
  <2>3. ASSUME NEW t \in Sessions PROVE StillFits(t)
    <3>1. CASE t = s
      <4>1. /\ Fits(Of(s) \o tail, nextId + 2)
            /\ (UNION prunes[s]) \cup unpruned[s] \subseteq Places(Of(s) \o tail)
            /\ Oldest(Of(s) \o tail, UNION prunes[s], unpruned[s])
        BY <1>6, <2>1, SessionFits, SayingKeeps
      <4> QED BY <3>1, <4>1, <1>5, <1>6, <2>2 DEF StillFits
    <3>2. CASE t # s
      BY <3>2, <1>4, <1>5, <1>6, <2>1, <2>2
    <3> QED BY <3>1, <3>2
  <2>4. Typed
    BY <1>2, <2>1, <2>2 DEF Typed
  <2> QED BY <1>3, <2>3, <2>4
<1>7. ASSUME NEW s \in Sessions, ConvTurn(s) PROVE ConvInv'
  <2>1. PICK sizes \in [1..MaxCalls -> Sizes], last \in {"completed", "running"} :
          Becomes(s, Of(s) \o <<User(nextId, "plain"),
                               Answer(nextId + 1, "plain", nextId,
                                      [j \in 1..MaxCalls |->
                                         Output(sizes[j], IF j = MaxCalls THEN last ELSE "completed")])>>)
    BY <1>7 DEF ConvTurn
  <2> DEFINE outs == [j \in 1..MaxCalls |-> Output(sizes[j], IF j = MaxCalls THEN last ELSE "completed")]
  <2>2. outs \in Seq(Outcomes) /\ Len(outs) = MaxCalls /\ \A j \in 1..MaxCalls : outs[j].state # "cleared"
    BY DEF Outcomes, Output, MaxCalls
  <2> HIDE DEF outs
  <2>3. PICK tail : tail = <<User(nextId, "plain"), Answer(nextId + 1, "plain", nextId, outs)>>
    OBVIOUS
  <2>4. Fits(tail, nextId + 2) /\ \A p \in Places(tail) : At(tail, p).state # "cleared"
    <3>1. nextId \in Nat \ {0}
      BY <1>2, ConversationAssumption
    <3>2. Len(outs) <= MaxCalls /\ \A j \in 1..Len(outs) : outs[j].state # "cleared"
      BY <2>2 DEF MaxCalls
    <3> QED BY <2>2, <2>3, <3>1, <3>2, PairFits
  <2>5. Becomes(s, Of(s) \o tail)
    BY <2>1, <2>3 DEF outs
  <2> QED BY <1>6, <1>7, <2>4, <2>5 DEF ConvTurn
<1>8. ASSUME NEW s \in Sessions, Compact(s) PROVE ConvInv'
  <2>1. PICK outcome \in {"summary", "failed"} :
          Becomes(s, Of(s) \o <<User(nextId, "compaction"), Answer(nextId + 1, outcome, nextId, <<>>)>>)
    BY <1>8 DEF Compact
  <2>0. PICK tail : tail = <<User(nextId, "compaction"), Answer(nextId + 1, outcome, nextId, <<>>)>>
    OBVIOUS
  <2>2. Fits(tail, nextId + 2) /\ \A p \in Places(tail) : At(tail, p).state # "cleared"
    <3>1. PICK outs : outs = <<>>
      OBVIOUS
    <3>2. outs \in Seq(Outcomes) /\ Len(outs) = 0 /\ Len(outs) <= MaxCalls /\ nextId \in Nat \ {0}
      BY <1>2, <3>1, ConversationAssumption DEF MaxCalls
    <3>3. tail = <<User(nextId, "compaction"), Answer(nextId + 1, outcome, nextId, outs)>>
      BY <2>0, <3>1
    <3>4. \A j \in 1..Len(outs) : outs[j].state # "cleared"
      BY <3>2
    <3> QED BY <3>2, <3>3, <3>4, PairFits
  <2> QED BY <1>6, <1>8, <2>0, <2>1, <2>2 DEF Compact
<1>9. ASSUME NEW s \in Sessions, Prune(s) PROVE ConvInv'
  <2>1. /\ prunes' = [prunes EXCEPT ![s] = @ \cup {toPrune(Of(s))}]
        /\ messages' = messages /\ forked' = forked /\ nextId' = nextId /\ unpruned' = unpruned
    BY <1>9 DEF Prune
  <2>2. toPrune(Of(s)) \subseteq Places(Of(s)) /\ Places(Of(s)) \subseteq Nat \X (1..MaxCalls)
    BY PlaceOf, SessionFits DEF toPrune, Visited, Fits
  <2>3. prunes' \in [Sessions -> SUBSET SUBSET (Nat \X (1..MaxCalls))]
    BY <1>2, <2>1, <2>2
  <2>4. \A t \in Sessions : Of(t)' = Of(t)
    BY <2>1 DEF Of
  <2>5. ASSUME NEW t \in Sessions PROVE StillFits(t)
    <3>1. CASE t = s
      <4>1. UNION prunes'[s] = (UNION prunes[s]) \cup toPrune(Of(s))
        BY <1>2, <2>1
      <4>2. Oldest(Of(s), (UNION prunes[s]) \cup toPrune(Of(s)), unpruned[s])
        BY SessionFits, PruneKeepsOldest DEF Fits
      <4> QED BY <3>1, <4>1, <4>2, <2>1, <2>2, <2>4, SessionFits DEF StillFits
    <3>2. CASE t # s
      <4>1. prunes'[t] = prunes[t] /\ unpruned'[t] = unpruned[t] /\ Of(t)' = Of(t)
        BY <3>2, <1>2, <2>1, <2>4
      <4>2. nextId' \in Nat /\ nextId' >= nextId
        BY <1>2, <2>1, ConversationAssumption
      <4> QED BY <4>1, <4>2, <1>4
    <3> QED BY <3>1, <3>2
  <2>6. Typed
    BY <1>2, <2>1, <2>3 DEF Typed
  <2> QED BY <1>3, <2>5, <2>6
<1>10. ASSUME NEW s \in Sessions, Clear(s) PROVE ConvInv'
  <2>1. PICK left \in prunes[s], p \in Places(Of(s)) :
          /\ p \in left
          /\ Becomes(s, [Of(s) EXCEPT ![p[1]].outputs[p[2]].state = "cleared"])
          /\ prunes' = [prunes EXCEPT ![s] = (@ \ {left}) \cup ({left \ {p}} \ {{}})]
    BY <1>10 DEF Clear
  <2>2. nextId' = nextId /\ unpruned' = unpruned
    BY <1>10 DEF Clear
  <2>3. left \subseteq Nat \X (1..MaxCalls)
    BY <1>2
  <2>4. prunes' \in [Sessions -> SUBSET SUBSET (Nat \X (1..MaxCalls))]
    BY <1>2, <2>1, <2>3
  <2>5. PICK other : other = ClearedAt(Of(s), p)
    OBVIOUS
  <2>6. Becomes(s, other)
    BY <2>1, <2>5 DEF ClearedAt
  <2>7. ASSUME NEW t \in Sessions PROVE StillFits(t)
    <3>1. CASE t = s
      <4>1. prunes'[s] = (prunes[s] \ {left}) \cup ({left \ {p}} \ {{}})
        BY <1>2, <2>1
      <4>2. /\ UNION prunes'[s] \subseteq UNION prunes[s] /\ p \in UNION prunes[s]
            /\ \A q \in UNION prunes[s] : q = p \/ q \in UNION prunes'[s]
        <5>1. left \ {p} \subseteq UNION prunes'[s]
          BY <4>1
        <5>2. ASSUME NEW q \in UNION prunes[s] PROVE q = p \/ q \in UNION prunes'[s]
          <6>1. CASE q \in left
            BY <5>1, <6>1
          <6>2. CASE q \notin left
            BY <4>1, <6>2
          <6> QED BY <6>1, <6>2
        <5>3. p \in UNION prunes[s] /\ UNION prunes'[s] \subseteq UNION prunes[s]
          BY <4>1, <2>1
        <5> QED BY <5>2, <5>3
      <4>3. PICK after : after = UNION prunes'[s]
        OBVIOUS
      <4>4. PICK ahead : ahead = UNION prunes[s]
        OBVIOUS
      <4>5. /\ p \in ahead /\ after \subseteq ahead /\ \A q \in ahead : q = p \/ q \in after
            /\ ahead \cup unpruned[s] \subseteq Places(Of(s)) /\ Oldest(Of(s), ahead, unpruned[s])
            /\ Fits(Of(s), nextId) /\ nextId \in Nat \ {0}
        BY <4>2, <4>3, <4>4, SessionFits
      <4>6. Fits(other, nextId) /\ after \cup unpruned[s] \subseteq Places(other)
            /\ Oldest(other, after, unpruned[s])
        BY <4>5, <2>1, <2>5, ClearKeeps
      <4> QED BY <3>1, <4>3, <4>6, <1>5, <2>2, <2>6 DEF StillFits
    <3>2. CASE t # s
      <4>1. prunes'[t] = prunes[t] /\ unpruned'[t] = unpruned[t] /\ Of(t)' = Of(t)
        BY <3>2, <1>2, <1>5, <2>1, <2>2, <2>6
      <4>2. nextId' \in Nat /\ nextId' >= nextId
        BY <1>2, <2>2, ConversationAssumption
      <4> QED BY <4>1, <4>2, <1>4
    <3> QED BY <3>1, <3>2
  <2>8. Typed
    BY <1>2, <2>2, <2>4 DEF Typed
  <2> QED BY <1>3, <2>7, <2>8
<1>11. ASSUME Stopped PROVE ConvInv'
  <2>1. /\ unpruned' = [s \in Sessions |-> unpruned[s] \cup UNION prunes[s]]
        /\ prunes' = [s \in Sessions |-> {}]
        /\ messages' = messages /\ forked' = forked /\ nextId' = nextId
    BY <1>11 DEF Stopped
  <2>2. \A t \in Sessions : Of(t)' = Of(t)
    BY <2>1 DEF Of
  <2>3. Typed
    BY <1>2, <2>1 DEF Typed
  <2>4. ASSUME NEW t \in Sessions PROVE StillFits(t)
    <3>1. UNION prunes'[t] = {} /\ unpruned'[t] = unpruned[t] \cup UNION prunes[t]
      BY <2>1
    <3>2. Oldest(Of(t), {}, unpruned[t] \cup UNION prunes[t])
      BY SessionFits DEF Oldest
    <3>3. Fits(Of(t), nextId) /\ (UNION prunes[t]) \cup unpruned[t] \subseteq Places(Of(t))
      BY SessionFits
    <3>4. Fits(Of(t)', nextId') /\ (UNION prunes'[t]) \cup unpruned'[t] \subseteq Places(Of(t)')
      BY <3>1, <3>3, <2>1, <2>2
    <3>5. Oldest(Of(t)', UNION prunes'[t], unpruned'[t])
      BY <3>1, <3>2, <2>2
    <3> QED BY <3>4, <3>5 DEF StillFits
  <2> QED BY <1>3, <2>3, <2>4
<1>12. ASSUME Fork PROVE ConvInv'
  <2>1. PICK n \in 1..Len(messages) :
          /\ nextId + n <= MaxIds + 1
          /\ forked' = [i \in 1..n |-> [messages[i] EXCEPT !.id = nextId + i - 1]]
          /\ unpruned' = [unpruned EXCEPT !["fork"] =
                 {p \in unpruned["original"] \cup UNION prunes["original"] : p[1] <= n}]
          /\ nextId' = nextId + n
    BY <1>12 DEF Fork
  <2>2. /\ forked = <<>> /\ messages' = messages /\ prunes' = prunes
        /\ "original" \in Sessions /\ "fork" \in Sessions /\ Sessions = {"original", "fork"}
        /\ Of("original") = messages /\ Of("original")' = messages' /\ Of("fork") = forked /\ Of("fork")' = forked'
    BY <1>12 DEF Fork, Sessions, Of
  <2>3. /\ messages \in Seq(Messages) /\ n \in Nat /\ nextId' \in 1..(MaxIds + 1) /\ nextId' >= nextId
        /\ nextId' \in Nat
    BY <1>2, <2>1, <2>2, SessionFits, ConversationAssumption DEF Fits
  <2> DEFINE lost == {p \in unpruned["original"] \cup UNION prunes["original"] : p[1] <= n}
  <2>4. /\ Fits(forked', nextId') /\ lost \subseteq Places(forked') /\ Oldest(forked', {}, lost)
    <3>1. PICK copy : copy = CopyOf(messages, nextId, n)
      OBVIOUS
    <3>2. forked' = copy
      BY <2>1, <3>1 DEF CopyOf
    <3>3. PICK waiting : waiting = UNION prunes["original"]
      OBVIOUS
    <3>4. /\ Fits(messages, nextId) /\ waiting \cup unpruned["original"] \subseteq Places(messages)
          /\ Oldest(messages, waiting, unpruned["original"]) /\ nextId \in Nat \ {0}
      BY <2>2, <3>3, SessionFits
    <3>5. /\ Fits(copy, nextId + n)
          /\ {p \in unpruned["original"] \cup waiting : p[1] <= n} \subseteq Places(copy)
          /\ Oldest(copy, {}, {p \in unpruned["original"] \cup waiting : p[1] <= n})
      <4>1. PICK missed : missed = UpTo(unpruned["original"] \cup waiting, n)
        OBVIOUS
      <4>2. Fits(copy, nextId + n) /\ missed \subseteq Places(copy) /\ Oldest(copy, {}, missed)
        BY <3>1, <3>4, <4>1, CopyKeeps
      <4> QED BY <4>1, <4>2 DEF UpTo
    <3> QED BY <2>1, <3>2, <3>3, <3>5
  <2>5. UNION prunes["fork"] = {}
    <3>1. Places(<<>>) = {}
      BY DEF Places
    <3> QED BY <3>1, <2>2, SessionFits
  <2>6. lost \in SUBSET (Nat \X (1..MaxCalls))
    BY <1>2, <2>2
  <2>7. unpruned'["fork"] = lost /\ unpruned'["original"] = unpruned["original"]
    BY <1>2, <2>1, <2>2
  <2>8. StillFits("fork")
    BY <2>2, <2>4, <2>5, <2>7 DEF StillFits
  <2>9. StillFits("original")
    BY <1>4, <2>2, <2>3, <2>7
  <2>10. Typed
    BY <1>2, <2>1, <2>2, <2>3, <2>6 DEF Typed
  <2> QED BY <1>3, <2>2, <2>8, <2>9, <2>10
<1> QED BY <1>1, <1>7, <1>8, <1>9, <1>10, <1>11, <1>12 DEF ConversationNext

(* A session begins with nothing to clear.                                   *)
LEMMA ConversationBegins == ConversationInit => ConvInv
<1>1. ASSUME ConversationInit PROVE ConvInv
  <2>1. Places(<<>>) = {} /\ \A s \in Sessions : Of(s) = <<>> /\ UNION prunes[s] = {} /\ unpruned[s] = {}
    BY <1>1 DEF Places, ConversationInit, Of
  <2>2. ConversationTypeOK
    BY <1>1, <2>1, ConversationAssumption DEF ConversationInit, ConversationTypeOK
  <2> QED BY <2>1, <2>2 DEF ConvInv, Oldest
<1> QED BY <1>1

(* Outputs are cleared from the oldest on (session/compaction.ts:59-89),     *)
(* however prunes overlap with turns, summaries and each other, but for what *)
(* waits to be written or was left when the program stopped or the session   *)
(* was forked.                                                               *)
THEOREM OldestGoFirst == ConversationSpec => []ClearedIsOldest
<1>1. ConversationInit => ConvInv
  BY ConversationBegins
<1>2. ConvInv /\ [ConversationNext]_convVars => ConvInv'
  BY ConversationStep
<1>3. ConvInv => ClearedIsOldest
  BY DEF ConvInv, ClearedIsOldest, Oldest, IsKept, IsSpent
<1> QED BY <1>1, <1>2, <1>3, PTL DEF ConversationSpec

(* The answers of a fork keep the parents they had, under which no message    *)
(* of the fork is found (session/index.ts:154-159, message-v2.ts:582-588).    *)
LEMMA ForkForgets ==
  ASSUME ConvInv, Fork
  PROVE  filterCompacted(forked') = forked'
<1>1. PICK n \in 1..Len(messages) :
        forked' = [i \in 1..n |-> [messages[i] EXCEPT !.id = nextId + i - 1]]
  BY DEF Fork
<1>2. Fits(messages, nextId) /\ nextId \in Nat \ {0}
  BY SessionFits DEF Sessions, Of
<1>3. messages \in Seq(Messages)
  BY <1>2 DEF Fits
<1>4. ASSUME NEW i \in DOMAIN forked', NEW j \in DOMAIN forked' PROVE forked'[j].parent # forked'[i].id
  <2>1. i \in 1..n /\ j \in 1..n /\ j \in 1..Len(messages)
    BY <1>1, <1>3, <1>4
  <2>2. messages[j] \in Messages /\ messages[i] \in Messages
    BY <1>3, <1>1, <2>1
  <2>3. messages[j].parent < nextId /\ messages[j].parent \in Nat
    BY <1>2, <1>3, <2>1, <2>2 DEF Fits, Messages
  <2>4. forked'[j].parent = messages[j].parent /\ forked'[i].id = nextId + i - 1
    BY <1>1, <2>1, <2>2 DEF Messages
  <2> QED BY <1>2, <2>1, <2>3, <2>4
<1>5. Summarized(forked') = {}
  BY <1>4 DEF Summarized
<1> QED BY <1>5 DEF filterCompacted

(* A fork starts without what its session was compacted to: the model gets    *)
(* all of its messages again, those the summaries stood for and the summaries *)
(* too, since no summary answers a request of the fork any more               *)
(* (session/index.ts:151-170, message-v2.ts:577-592).                         *)
THEOREM ForksStartInFull == ConversationSpec => [][Fork => filterCompacted(forked') = forked']_convVars
<1>1. ConversationInit => ConvInv
  BY ConversationBegins
<1>2. ConvInv /\ [ConversationNext]_convVars => ConvInv'
  BY ConversationStep
<1>3. ConvInv /\ [ConversationNext]_convVars => [Fork => filterCompacted(forked') = forked']_convVars
  BY ForkForgets
<1> QED BY <1>1, <1>2, <1>3, PTL DEF ConversationSpec

-----------------------------------------------------------------------------
(* Streamed answers *)

StreamSpec == StreamInit /\ [][StreamNext]_streamVars

\* The parts of a text: started, ended and continued once, twice or never, by
\* how far its item is and whether it is ended.
Among(ps) == {ps[n] : n \in 1..Len(ps)}
OnceIn(ps, p) == \A m, n \in 1..Len(ps) : ps[m] = p /\ ps[n] = p => m = n
Inside(ps, i) ==
  \A n \in 1..Len(ps) : ps[n] = P("text-delta", i) =>
    /\ \E m \in 1..(n - 1) : ps[m] = P("text-start", i)
    /\ ~\E m \in 1..(n - 1) : ps[m] = P("text-end", i)
TextFits(ps, i, stage) ==
  /\ OnceIn(ps, P("text-start", i)) /\ OnceIn(ps, P("text-end", i))
  /\ P("text-start", i) \in Among(ps) <=> stage # "unsaid"
  /\ P("text-end", i) \in Among(ps) <=> stage = "ended"
  /\ Inside(ps, i)

IsAppended(ps, new, all) ==
  /\ Among(all) = Among(ps) \cup Among(new)
  /\ Len(all) = Len(ps) + Len(new) /\ Len(ps) \in Nat /\ Len(new) \in Nat
  /\ \A n \in 1..Len(ps) : all[n] = ps[n]
  /\ \A n \in 1..Len(new) : all[Len(ps) + n] = new[n]
  /\ \A n \in 1..Len(all) : n \in 1..Len(ps) \/ (n - Len(ps) \in 1..Len(new) /\ all[n] = new[n - Len(ps)])

(* What a sequence of parts has after some are appended.                     *)
LEMMA AppendedParts ==
  ASSUME NEW S, NEW ps \in Seq(S), NEW new \in Seq(S), NEW all, all = ps \o new
  PROVE  all \in Seq(S) /\ IsAppended(ps, new, all)
<1>1. /\ all \in Seq(S) /\ Len(all) = Len(ps) + Len(new) /\ Len(ps) \in Nat /\ Len(new) \in Nat
      /\ \A n \in 1..Len(ps) : all[n] = ps[n]
      /\ \A n \in 1..Len(new) : all[Len(ps) + n] = new[n]
  OBVIOUS
<1>2. \A n \in 1..Len(all) : n \in 1..Len(ps) \/ (n - Len(ps) \in 1..Len(new) /\ all[n] = new[n - Len(ps)])
  OBVIOUS
<1>3. ASSUME NEW p \in Among(all) PROVE p \in Among(ps) \cup Among(new)
  BY <1>1, <1>2 DEF Among
<1>4. ASSUME NEW p \in Among(ps) PROVE p \in Among(all)
  BY <1>1 DEF Among
<1>5. ASSUME NEW p \in Among(new) PROVE p \in Among(all)
  <2>1. PICK n \in 1..Len(new) : p = new[n]
    BY DEF Among
  <2>2. Len(ps) + n \in 1..Len(all) /\ all[Len(ps) + n] = p
    BY <1>1, <2>1
  <2> QED BY <2>2 DEF Among
<1> QED BY <1>1, <1>2, <1>3, <1>4, <1>5 DEF IsAppended

\* Appended parts start and end a text as it gets from one stage to another,
\* each at most once, and continue it in between.
Continues(new, i, from, to) ==
  /\ OnceIn(new, P("text-start", i)) /\ OnceIn(new, P("text-end", i))
  /\ P("text-start", i) \in Among(new) => from = "unsaid" /\ to # "unsaid"
  /\ P("text-start", i) \notin Among(new) => (from = "unsaid" <=> to = "unsaid")
  /\ P("text-end", i) \in Among(new) => from # "ended" /\ to = "ended"
  /\ P("text-end", i) \notin Among(new) => (from = "ended" <=> to = "ended")
  /\ P("text-delta", i) \in Among(new) =>
       from # "ended" /\ (Inside(new, i) \/ (from = "said" /\ P("text-end", i) \notin Among(new)))

(* A text stays paired when parts are appended: it is not started or ended   *)
(* again, and continues only between its start and its end                   *)
(* (openai-responses-language-model.ts doStream).                            *)
LEMMA TextGrows ==
  ASSUME NEW S, NEW ps \in Seq(S), NEW new \in Seq(S), NEW all, all = ps \o new,
         NEW i, NEW from, NEW to, TextFits(ps, i, from), Continues(new, i, from, to)
  PROVE  TextFits(all, i, to)
<1>1. /\ Among(all) = Among(ps) \cup Among(new)
      /\ Len(all) = Len(ps) + Len(new) /\ Len(ps) \in Nat /\ Len(new) \in Nat
      /\ \A n \in 1..Len(ps) : all[n] = ps[n]
      /\ \A n \in 1..Len(new) : all[Len(ps) + n] = new[n]
      /\ \A n \in 1..Len(all) : n \in 1..Len(ps) \/ (n - Len(ps) \in 1..Len(new) /\ all[n] = new[n - Len(ps)])
  <2>1. IsAppended(ps, new, all)
    BY AppendedParts
  <2> QED BY <2>1 DEF IsAppended
<1>2. ASSUME NEW p, OnceIn(ps, p), OnceIn(new, p), p \in Among(new) => p \notin Among(ps)
      PROVE  OnceIn(all, p)
  <2> SUFFICES ASSUME NEW m \in 1..Len(all), NEW n \in 1..Len(all), all[m] = p, all[n] = p PROVE m = n
    BY DEF OnceIn
  <2>1. CASE m \in 1..Len(ps) /\ n \in 1..Len(ps)
    BY <2>1, <1>1, <1>2 DEF OnceIn
  <2>2. CASE m \notin 1..Len(ps) /\ n \notin 1..Len(ps)
    <3>1. m - Len(ps) = n - Len(ps)
      BY <2>2, <1>1, <1>2 DEF OnceIn
    <3> QED BY <3>1, <1>1
  <2>3. CASE m \in 1..Len(ps) /\ n \notin 1..Len(ps)
    BY <2>3, <1>1, <1>2 DEF Among
  <2>4. CASE m \notin 1..Len(ps) /\ n \in 1..Len(ps)
    BY <2>4, <1>1, <1>2 DEF Among
  <2> QED BY <2>1, <2>2, <2>3, <2>4
<1>3. OnceIn(all, P("text-start", i)) /\ OnceIn(all, P("text-end", i))
  BY <1>2 DEF TextFits, Continues
<1>4. (P("text-start", i) \in Among(all) <=> to # "unsaid") /\ (P("text-end", i) \in Among(all) <=> to = "ended")
  BY <1>1 DEF TextFits, Continues
<1>5. Inside(all, i)
  <2> SUFFICES ASSUME NEW n \in 1..Len(all), all[n] = P("text-delta", i)
               PROVE  /\ \E m \in 1..(n - 1) : all[m] = P("text-start", i)
                      /\ ~\E m \in 1..(n - 1) : all[m] = P("text-end", i)
    BY DEF Inside
  <2>1. CASE n \in 1..Len(ps)
    <3>1. /\ \E m \in 1..(n - 1) : ps[m] = P("text-start", i)
          /\ ~\E m \in 1..(n - 1) : ps[m] = P("text-end", i)
      BY <2>1, <1>1 DEF TextFits, Inside
    <3>2. \A m \in 1..(n - 1) : m \in 1..Len(ps)
      BY <2>1, <1>1
    <3> QED BY <3>1, <3>2, <1>1
  <2>2. CASE n \notin 1..Len(ps)
    <3> DEFINE k == n - Len(ps)
    <3>1. k \in 1..Len(new) /\ new[k] = P("text-delta", i)
      BY <2>2, <1>1
    <3>2. P("text-delta", i) \in Among(new)
      BY <3>1 DEF Among
    <3>3. ~\E m \in 1..Len(ps) : ps[m] = P("text-end", i)
      BY <3>2 DEF TextFits, Among, Continues
    <3>4. CASE Inside(new, i)
      <4>1. PICK m \in 1..(k - 1) : new[m] = P("text-start", i)
        BY <3>1, <3>4 DEF Inside
      <4>2. ~\E l \in 1..(k - 1) : new[l] = P("text-end", i)
        BY <3>1, <3>4 DEF Inside
      <4>3. Len(ps) + m \in 1..(n - 1) /\ all[Len(ps) + m] = P("text-start", i)
        BY <3>1, <4>1, <1>1
      <4>4. ASSUME NEW l \in 1..(n - 1), all[l] = P("text-end", i) PROVE FALSE
        <5>1. CASE l \in 1..Len(ps)
          BY <5>1, <3>3, <4>4, <1>1
        <5>2. CASE l \notin 1..Len(ps)
          <6>1. l - Len(ps) \in 1..(k - 1) /\ l \in 1..Len(all)
            BY <5>2, <1>1, <3>1
          <6>2. new[l - Len(ps)] = P("text-end", i)
            BY <6>1, <5>2, <4>4, <1>1
          <6> QED BY <6>1, <6>2, <4>2
        <5> QED BY <5>1, <5>2
      <4> QED BY <4>3, <4>4
    <3>5. CASE from = "said" /\ P("text-end", i) \notin Among(new)
      <4>1. PICK m \in 1..Len(ps) : ps[m] = P("text-start", i)
        BY <3>5 DEF TextFits, Among
      <4>2. m \in 1..(n - 1) /\ all[m] = P("text-start", i)
        BY <4>1, <2>2, <1>1
      <4>3. ASSUME NEW l \in 1..(n - 1), all[l] = P("text-end", i) PROVE FALSE
        <5>1. CASE l \in 1..Len(ps)
          BY <5>1, <3>3, <4>3, <1>1
        <5>2. CASE l \notin 1..Len(ps)
          <6>1. l \in 1..Len(all)
            BY <1>1
          <6>2. l - Len(ps) \in 1..Len(new) /\ new[l - Len(ps)] = P("text-end", i)
            BY <6>1, <5>2, <4>3, <1>1
          <6> QED BY <6>2, <3>5 DEF Among
        <5> QED BY <5>1, <5>2
      <4> QED BY <4>2, <4>3
    <3> QED BY <3>2, <3>4, <3>5 DEF Continues
  <2> QED BY <2>1, <2>2
<1> QED BY <1>3, <1>4, <1>5 DEF TextFits

(* Parts of other items say nothing of a text.                               *)
LEMMA TextUntouched ==
  ASSUME NEW S, NEW ps \in Seq(S), NEW new \in Seq(S), NEW all, all = ps \o new,
         NEW i, NEW stage, TextFits(ps, i, stage),
         P("text-start", i) \notin Among(new), P("text-end", i) \notin Among(new),
         P("text-delta", i) \notin Among(new)
  PROVE  TextFits(all, i, stage)
<1>1. OnceIn(new, P("text-start", i)) /\ OnceIn(new, P("text-end", i))
  BY DEF OnceIn, Among
<1>2. Continues(new, i, stage, stage)
  BY <1>1 DEF Continues
<1> QED BY <1>2, TextGrows

\* How far the text of an item is.
Stage(i) == IF item[i] = "new" THEN "unsaid"
            ELSE IF item[i] = "done" \/ finish.flushed THEN "ended" ELSE "said"
AllParts == PartTypes \X (Items \cup {0})

\* What has been said of an item by the point it is at.
ItemFits(i) ==
  /\ item[i] = "coded" => output[i] = "code_interpreter_call" /\ P("tool-call", i) \in Among(parts)
  /\ active[i] # <<>> => output[i] = "reasoning" /\ item[i] = "added"
  /\ item[i] = "done" => Content(i) \subseteq Among(parts)
  /\ item[i] = "done" /\ output[i] = "function_call" => finish.calls
  /\ item[i] = "added" /\ output[i] \in {"file_search_call", "image_generation_call"} =>
       P("tool-call", i) \in Among(parts)
  /\ item[i] = "added" /\ output[i] = "reasoning" => P("reasoning-start", i) \in Among(parts)
  /\ item[i] = "added" /\ output[i] = "message" /\ ~finish.flushed => text = i
TextsFit == \A i \in Items : output[i] = "message" => TextFits(parts, i, Stage(i))
OnlyContent == \A p \in Among(parts) : p[1] \in Contents => p[2] \in Items /\ p \in Content(p[2])
FinishFits ==
  /\ finish.flushed => finish.said /\ text = 0
  /\ finish.reason = "stop" => finish.said /\ ~finish.calls
  /\ text # 0 => output[text] = "message" /\ item[text] = "added"
StreamInv == StreamTypeOK /\ FinishFits /\ (\A i \in Items : ItemFits(i)) /\ TextsFit /\ OnlyContent

(* The parts of short sequences.                                             *)
LEMMA FewParts ==
  /\ Among(<<>>) = {}
  /\ \A a : Among(<<a>>) = {a}
  /\ \A a, b : Among(<<a, b>>) = {a, b}
  /\ \A a, b, c : Among(<<a, b, c>>) = {a, b, c}
<1>1. Among(<<>>) = {}
  BY DEF Among
<1>2. ASSUME NEW a PROVE Among(<<a>>) = {a}
  BY DEF Among
<1>3. ASSUME NEW a, NEW b PROVE Among(<<a, b>>) = {a, b}
  <2>1. Len(<<a, b>>) = 2 /\ <<a, b>>[1] = a /\ <<a, b>>[2] = b
    OBVIOUS
  <2>2. 1..2 = {1, 2}
    OBVIOUS
  <2> QED BY <2>1, <2>2 DEF Among
<1>4. ASSUME NEW a, NEW b, NEW c PROVE Among(<<a, b, c>>) = {a, b, c}
  <2>1. Len(<<a, b, c>>) = 3 /\ <<a, b, c>>[1] = a /\ <<a, b, c>>[2] = b /\ <<a, b, c>>[3] = c
    OBVIOUS
  <2>2. 1..3 = {1, 2, 3}
    OBVIOUS
  <2> QED BY <2>1, <2>2 DEF Among
<1> QED BY <1>1, <1>2, <1>3, <1>4

(* Sequences of a few parts are sequences of parts.                          *)
LEMMA PartsOf ==
  /\ <<>> \in Seq(AllParts)
  /\ \A a, b, c \in AllParts : <<a>> \in Seq(AllParts) /\ <<a, b>> \in Seq(AllParts) /\ <<a, b, c>> \in Seq(AllParts)
OBVIOUS

(* An item is not the absence of one.                                        *)
LEMMA ItemsCount ==
  ASSUME StreamTypeOK
  PROVE  Items = 1..Len(output) /\ Len(output) \in Nat /\ 0 \notin Items
<1>1. output \in Seq(Kinds)
  BY StreamAssumption DEF StreamTypeOK
<1> QED BY <1>1 DEF Items

(* The parts enqueued by a step come after the earlier ones, and only say    *)
(* what doGenerate would.                                                    *)
LEMMA StepSays ==
  ASSUME StreamInv, NEW new \in Seq(AllParts), parts' = parts \o new, output' = output,
         \A p \in Among(new) : p[1] \in Contents => p[2] \in Items /\ p \in Content(p[2])
  PROVE  /\ parts' \in Seq(AllParts)
         /\ Among(parts') = Among(parts) \cup Among(new)
         /\ OnlyContent'
<1>1. parts \in Seq(AllParts)
  BY DEF StreamInv, StreamTypeOK, AllParts
<1>2. parts' \in Seq(AllParts) /\ IsAppended(parts, new, parts')
  BY <1>1, AppendedParts
<1>3. Among(parts') = Among(parts) \cup Among(new)
  BY <1>2 DEF IsAppended
<1>4. Items' = Items /\ \A i : Content(i)' = Content(i)
  BY DEF Items, Content, ProviderContent
<1>5. ASSUME NEW p \in Among(parts)', p[1] \in Contents PROVE p[2] \in Items' /\ p \in Content(p[2])'
  <2>1. Among(parts)' = Among(parts')
    BY DEF Among
  <2>2. p[2] \in Items /\ p \in Content(p[2])
    BY <1>3, <1>5, <2>1 DEF StreamInv, OnlyContent
  <2> QED BY <2>2, <1>4
<1> QED BY <1>2, <1>3, <1>5 DEF OnlyContent

Called == {"function_call", "local_shell_call"}
Provided == Kinds \ {"function_call", "local_shell_call", "message", "reasoning"}
(* What doGenerate makes of an item, kind by kind.                           *)
LEMMA ContentIs ==
  ASSUME NEW i
  PROVE  /\ output[i] \in Called => Content(i) = {P("tool-call", i)}
         /\ output[i] = "message" => Content(i) = {P("text-start", i)}
         /\ output[i] = "reasoning" => Content(i) = {P("reasoning-start", i)}
         /\ output[i] \in Provided => Content(i) = {P("tool-call", i), P("tool-result", i)}
<1>1. ASSUME output[i] \in Called PROVE Content(i) = {P("tool-call", i)}
  BY <1>1, Zenon DEF Content, Called
<1>2. ASSUME output[i] = "message" PROVE Content(i) = {P("text-start", i)}
  BY <1>2, Zenon DEF Content
<1>3. ASSUME output[i] = "reasoning" PROVE Content(i) = {P("reasoning-start", i)}
  BY <1>3, Zenon DEF Content
<1>4. ASSUME output[i] \in Provided PROVE Content(i) = {P("tool-call", i), P("tool-result", i)}
  <2>1. output[i] \notin Called /\ output[i] # "message" /\ output[i] # "reasoning"
    BY <1>4 DEF Provided, Called
  <2>2. Content(i) = ProviderContent(i)
    BY <2>1, Zenon DEF Content, Called
  <2> QED BY <2>2 DEF ProviderContent
<1> QED BY <1>1, <1>2, <1>3, <1>4

Tooled == {"function_call", "web_search_call", "computer_call"}
(* What an announced item enqueues, kind by kind                             *)
(* (openai-responses-language-model.ts response.output_item.added).          *)
LEMMA AddedIs ==
  ASSUME NEW i
  PROVE  /\ output[i] \in Tooled => AddedParts(i) = <<P("tool-input-start", i)>>
         /\ output[i] = "code_interpreter_call" =>
              AddedParts(i) = <<P("tool-input-start", i), P("tool-input-delta", i)>>
         /\ output[i] \in {"file_search_call", "image_generation_call"} => AddedParts(i) = <<P("tool-call", i)>>
         /\ output[i] = "message" => AddedParts(i) = <<P("text-start", i)>>
         /\ output[i] = "reasoning" => AddedParts(i) = <<P("reasoning-start", i)>>
         /\ output[i] = "local_shell_call" => AddedParts(i) = <<>>
<1>1. ASSUME output[i] \in Tooled PROVE AddedParts(i) = <<P("tool-input-start", i)>>
  BY <1>1, Zenon DEF AddedParts, Tooled
<1>2. ASSUME output[i] = "code_interpreter_call"
      PROVE  AddedParts(i) = <<P("tool-input-start", i), P("tool-input-delta", i)>>
  BY <1>2, Zenon DEF AddedParts
<1>3. ASSUME output[i] \in {"file_search_call", "image_generation_call"} PROVE AddedParts(i) = <<P("tool-call", i)>>
  BY <1>3, Zenon DEF AddedParts
<1>4. ASSUME output[i] = "message" PROVE AddedParts(i) = <<P("text-start", i)>>
  BY <1>4, Zenon DEF AddedParts
<1>5. ASSUME output[i] = "reasoning" PROVE AddedParts(i) = <<P("reasoning-start", i)>>
  BY <1>5, Zenon DEF AddedParts
<1>6. ASSUME output[i] = "local_shell_call" PROVE AddedParts(i) = <<>>
  BY <1>6, Zenon DEF AddedParts
<1> QED BY <1>1, <1>2, <1>3, <1>4, <1>5, <1>6

(* What a finished item enqueues, kind by kind                               *)
(* (openai-responses-language-model.ts response.output_item.done).           *)
LEMMA DoneIs ==
  ASSUME NEW i
  PROVE  /\ output[i] = "function_call" => DoneParts(i) = <<P("tool-input-end", i), P("tool-call", i)>>
         /\ output[i] \in {"web_search_call", "computer_call"} =>
              DoneParts(i) = <<P("tool-input-end", i), P("tool-call", i), P("tool-result", i)>>
         /\ output[i] \in {"file_search_call", "code_interpreter_call", "image_generation_call"} =>
              DoneParts(i) = <<P("tool-result", i)>>
         /\ output[i] = "local_shell_call" => DoneParts(i) = <<P("tool-call", i)>>
         /\ output[i] = "message" /\ text # 0 => DoneParts(i) = <<P("text-end", text)>>
         /\ output[i] = "message" /\ text = 0 => DoneParts(i) = <<>>
         /\ output[i] = "reasoning" => DoneParts(i) = [n \in DOMAIN active[i] |-> P("reasoning-end", i)]
<1>1. ASSUME output[i] = "function_call" PROVE DoneParts(i) = <<P("tool-input-end", i), P("tool-call", i)>>
  BY <1>1, Zenon DEF DoneParts
<1>2. ASSUME output[i] \in {"web_search_call", "computer_call"}
      PROVE  DoneParts(i) = <<P("tool-input-end", i), P("tool-call", i), P("tool-result", i)>>
  BY <1>2, Zenon DEF DoneParts
<1>3. ASSUME output[i] \in {"file_search_call", "code_interpreter_call", "image_generation_call"}
      PROVE  DoneParts(i) = <<P("tool-result", i)>>
  BY <1>3, Zenon DEF DoneParts
<1>4. ASSUME output[i] = "local_shell_call" PROVE DoneParts(i) = <<P("tool-call", i)>>
  BY <1>4, Zenon DEF DoneParts
<1>5. ASSUME output[i] = "message" PROVE DoneParts(i) = IF text # 0 THEN <<P("text-end", text)>> ELSE <<>>
  BY <1>5, Zenon DEF DoneParts
<1>6. ASSUME output[i] = "reasoning" PROVE DoneParts(i) = [n \in DOMAIN active[i] |-> P("reasoning-end", i)]
  BY <1>6, Zenon DEF DoneParts
<1> QED BY <1>1, <1>2, <1>3, <1>4, <1>5, <1>6

(* Parts about one item leave the texts of the others as they are.           *)
LEMMA OthersKeep ==
  ASSUME StreamInv, NEW i \in Items, NEW new \in Seq(AllParts), parts' = parts \o new,
         \A p \in Among(new) : p[2] \in {i, 0},
         NEW j \in Items, j # i, output[j] = "message", Stage(j)' = Stage(j)
  PROVE  TextFits(parts', j, Stage(j)')
<1>1. parts \in Seq(AllParts)
  BY DEF StreamInv, StreamTypeOK, AllParts
<1>2. j # 0
  BY ItemsCount DEF StreamInv
<1>3. /\ P("text-start", j) \notin Among(new) /\ P("text-end", j) \notin Among(new)
      /\ P("text-delta", j) \notin Among(new)
  BY <1>2 DEF P
<1>4. TextFits(parts, j, Stage(j))
  BY DEF StreamInv, TextsFit
<1> HIDE DEF Stage
<1>5. PICK st : st = Stage(j)
  OBVIOUS
<1>6. TextFits(parts', j, st)
  BY <1>1, <1>3, <1>4, <1>5, TextUntouched
<1> QED BY <1>5, <1>6

(* An item is announced.                                                     *)
LEMMA AddedSays ==
  ASSUME NEW i \in Items, output \in Seq(Kinds)
  PROVE  /\ AddedParts(i) \in Seq(AllParts)
         /\ \A p \in Among(AddedParts(i)) : p[2] = i /\ (p[1] \in Contents => p \in Content(i))
         /\ output[i] \in {"file_search_call", "image_generation_call"} =>
              P("tool-call", i) \in Among(AddedParts(i))
         /\ output[i] = "reasoning" => P("reasoning-start", i) \in Among(AddedParts(i))
<1>1. output[i] \in Kinds
  BY DEF Items
<1>2. CASE output[i] \in Tooled
  <2>1. AddedParts(i) = <<P("tool-input-start", i)>>
    BY <1>2, AddedIs
  <2>2. Among(AddedParts(i)) = {P("tool-input-start", i)}
    BY <2>1, FewParts
  <2>3. P("tool-input-start", i) \in AllParts /\ P("tool-input-start", i)[1] = "tool-input-start"
        /\ P("tool-input-start", i)[2] = i
    BY DEF P, AllParts, PartTypes
  <2>4. AddedParts(i) \in Seq(AllParts)
    BY <2>1, <2>3, PartsOf
  <2> QED BY <1>2, <2>2, <2>3, <2>4 DEF Contents, Tooled
<1>3. CASE output[i] = "code_interpreter_call"
  <2>1. AddedParts(i) = <<P("tool-input-start", i), P("tool-input-delta", i)>>
    BY <1>3, AddedIs
  <2>2. Among(AddedParts(i)) = {P("tool-input-start", i), P("tool-input-delta", i)}
    BY <2>1, FewParts
  <2>3. P("tool-input-start", i) \in AllParts /\ P("tool-input-start", i)[1] = "tool-input-start"
        /\ P("tool-input-start", i)[2] = i
    BY DEF P, AllParts, PartTypes
  <2>4. P("tool-input-delta", i) \in AllParts /\ P("tool-input-delta", i)[1] = "tool-input-delta"
        /\ P("tool-input-delta", i)[2] = i
    BY DEF P, AllParts, PartTypes
  <2>5. AddedParts(i) \in Seq(AllParts)
    BY <2>1, <2>3, <2>4, PartsOf
  <2> QED BY <1>3, <2>2, <2>3, <2>4, <2>5 DEF Contents, Tooled
<1>4. CASE output[i] \in {"file_search_call", "image_generation_call"}
  <2>1. AddedParts(i) = <<P("tool-call", i)>>
    BY <1>4, AddedIs
  <2>2. Among(AddedParts(i)) = {P("tool-call", i)}
    BY <2>1, FewParts
  <2>3. P("tool-call", i) \in AllParts /\ P("tool-call", i)[1] = "tool-call"
        /\ P("tool-call", i)[2] = i
    BY DEF P, AllParts, PartTypes
  <2>4. AddedParts(i) \in Seq(AllParts)
    BY <2>1, <2>3, PartsOf
  <2>5. Content(i) = {P("tool-call", i), P("tool-result", i)}
    BY <1>4, ContentIs DEF Provided, Kinds, Called
  <2> QED BY <1>4, <2>2, <2>3, <2>4, <2>5 DEF Contents, Tooled
<1>5. CASE output[i] = "message"
  <2>1. AddedParts(i) = <<P("text-start", i)>>
    BY <1>5, AddedIs
  <2>2. Among(AddedParts(i)) = {P("text-start", i)}
    BY <2>1, FewParts
  <2>3. P("text-start", i) \in AllParts /\ P("text-start", i)[1] = "text-start"
        /\ P("text-start", i)[2] = i
    BY DEF P, AllParts, PartTypes
  <2>4. AddedParts(i) \in Seq(AllParts)
    BY <2>1, <2>3, PartsOf
  <2>5. Content(i) = {P("text-start", i)}
    BY <1>5, ContentIs DEF Provided, Kinds, Called
  <2> QED BY <1>5, <2>2, <2>3, <2>4, <2>5 DEF Contents, Tooled
<1>6. CASE output[i] = "reasoning"
  <2>1. AddedParts(i) = <<P("reasoning-start", i)>>
    BY <1>6, AddedIs
  <2>2. Among(AddedParts(i)) = {P("reasoning-start", i)}
    BY <2>1, FewParts
  <2>3. P("reasoning-start", i) \in AllParts /\ P("reasoning-start", i)[1] = "reasoning-start"
        /\ P("reasoning-start", i)[2] = i
    BY DEF P, AllParts, PartTypes
  <2>4. AddedParts(i) \in Seq(AllParts)
    BY <2>1, <2>3, PartsOf
  <2>5. Content(i) = {P("reasoning-start", i)}
    BY <1>6, ContentIs DEF Provided, Kinds, Called
  <2> QED BY <1>6, <2>2, <2>3, <2>4, <2>5 DEF Contents, Tooled
<1>7. CASE output[i] = "local_shell_call"
  <2>1. AddedParts(i) = <<>>
    BY <1>7, AddedIs
  <2>2. Among(AddedParts(i)) = {} /\ AddedParts(i) \in Seq(AllParts)
    BY <2>1, FewParts, PartsOf
  <2> QED BY <1>7, <2>1, <2>2
<1> QED BY <1>1, <1>2, <1>3, <1>4, <1>5, <1>6, <1>7 DEF Kinds, Tooled
(* An item is done: with what was enqueued before, all of it has been said.  *)
LEMMA DoneSays ==
  ASSUME StreamInv, NEW i \in Items, ~finish.said,
         item[i] = (IF output[i] = "code_interpreter_call" THEN "coded" ELSE "added")
  PROVE  /\ DoneParts(i) \in Seq(AllParts)
         /\ \A p \in Among(DoneParts(i)) : p[2] = i /\ (p[1] \in Contents => p \in Content(i))
         /\ Content(i) \subseteq Among(parts) \cup Among(DoneParts(i))
<1>1. /\ ItemFits(i) /\ ~finish.flushed /\ output[i] \in Kinds /\ i # 0 /\ active[i] \in Seq({0, 1})
      /\ output[i] = "message" => TextFits(parts, i, Stage(i))
  <2>1. output \in Seq(Kinds)
    BY StreamAssumption DEF StreamInv, StreamTypeOK
  <2> QED BY <2>1, ItemsCount DEF StreamInv, FinishFits, TextsFit, StreamTypeOK, Items
<1>2. CASE output[i] = "function_call"
  <2>1. DoneParts(i) = <<P("tool-input-end", i), P("tool-call", i)>>
    BY <1>2, DoneIs
  <2>2. Among(DoneParts(i)) = {P("tool-input-end", i), P("tool-call", i)}
    BY <2>1, FewParts
  <2>3. P("tool-input-end", i) \in AllParts /\ P("tool-input-end", i)[1] = "tool-input-end"
        /\ P("tool-input-end", i)[2] = i
    BY DEF P, AllParts, PartTypes
  <2>4. P("tool-call", i) \in AllParts /\ P("tool-call", i)[1] = "tool-call"
        /\ P("tool-call", i)[2] = i
    BY DEF P, AllParts, PartTypes
  <2>5. DoneParts(i) \in Seq(AllParts)
    BY <2>1, <2>3, <2>4, PartsOf
  <2>6. Content(i) = {P("tool-call", i)}
    BY <1>2, ContentIs DEF Provided, Kinds, Called
  <2> QED BY <2>2, <2>3, <2>4, <2>5, <2>6 DEF Contents
<1>3. CASE output[i] \in {"web_search_call", "computer_call"}
  <2>1. DoneParts(i) = <<P("tool-input-end", i), P("tool-call", i), P("tool-result", i)>>
    BY <1>3, DoneIs
  <2>2. Among(DoneParts(i)) = {P("tool-input-end", i), P("tool-call", i), P("tool-result", i)}
    BY <2>1, FewParts
  <2>3. P("tool-input-end", i) \in AllParts /\ P("tool-input-end", i)[1] = "tool-input-end"
        /\ P("tool-input-end", i)[2] = i
    BY DEF P, AllParts, PartTypes
  <2>4. P("tool-call", i) \in AllParts /\ P("tool-call", i)[1] = "tool-call"
        /\ P("tool-call", i)[2] = i
    BY DEF P, AllParts, PartTypes
  <2>5. P("tool-result", i) \in AllParts /\ P("tool-result", i)[1] = "tool-result"
        /\ P("tool-result", i)[2] = i
    BY DEF P, AllParts, PartTypes
  <2>6. DoneParts(i) \in Seq(AllParts)
    BY <2>1, <2>3, <2>4, <2>5, PartsOf
  <2>7. Content(i) = {P("tool-call", i), P("tool-result", i)}
    BY <1>3, ContentIs DEF Provided, Kinds, Called
  <2> QED BY <2>2, <2>3, <2>4, <2>5, <2>6, <2>7 DEF Contents
<1>4. CASE output[i] = "code_interpreter_call"
  <2>1. DoneParts(i) = <<P("tool-result", i)>>
    BY <1>4, DoneIs
  <2>2. Among(DoneParts(i)) = {P("tool-result", i)}
    BY <2>1, FewParts
  <2>3. P("tool-result", i) \in AllParts /\ P("tool-result", i)[1] = "tool-result"
        /\ P("tool-result", i)[2] = i
    BY DEF P, AllParts, PartTypes
  <2>4. DoneParts(i) \in Seq(AllParts)
    BY <2>1, <2>3, PartsOf
  <2>5. Content(i) = {P("tool-call", i), P("tool-result", i)}
    BY <1>4, ContentIs DEF Provided, Kinds, Called
  <2>6. P("tool-call", i) \in Among(parts)
    BY <1>1, <1>4 DEF ItemFits
  <2> QED BY <2>2, <2>3, <2>4, <2>5, <2>6 DEF Contents
<1>5. CASE output[i] \in {"file_search_call", "image_generation_call"}
  <2>1. DoneParts(i) = <<P("tool-result", i)>>
    BY <1>5, DoneIs
  <2>2. Among(DoneParts(i)) = {P("tool-result", i)}
    BY <2>1, FewParts
  <2>3. P("tool-result", i) \in AllParts /\ P("tool-result", i)[1] = "tool-result"
        /\ P("tool-result", i)[2] = i
    BY DEF P, AllParts, PartTypes
  <2>4. DoneParts(i) \in Seq(AllParts)
    BY <2>1, <2>3, PartsOf
  <2>5. Content(i) = {P("tool-call", i), P("tool-result", i)}
    BY <1>5, ContentIs DEF Provided, Kinds, Called
  <2>6. P("tool-call", i) \in Among(parts)
    BY <1>1, <1>5 DEF ItemFits
  <2> QED BY <2>2, <2>3, <2>4, <2>5, <2>6 DEF Contents
<1>6. CASE output[i] = "local_shell_call"
  <2>1. DoneParts(i) = <<P("tool-call", i)>>
    BY <1>6, DoneIs
  <2>2. Among(DoneParts(i)) = {P("tool-call", i)}
    BY <2>1, FewParts
  <2>3. P("tool-call", i) \in AllParts /\ P("tool-call", i)[1] = "tool-call"
        /\ P("tool-call", i)[2] = i
    BY DEF P, AllParts, PartTypes
  <2>4. DoneParts(i) \in Seq(AllParts)
    BY <2>1, <2>3, PartsOf
  <2>5. Content(i) = {P("tool-call", i)}
    BY <1>6, ContentIs DEF Provided, Kinds, Called
  <2> QED BY <2>2, <2>3, <2>4, <2>5 DEF Contents
<1>7. CASE output[i] = "message"
  <2>1. DoneParts(i) = <<P("text-end", i)>>
    BY <1>1, <1>7, DoneIs DEF ItemFits
  <2>2. Among(DoneParts(i)) = {P("text-end", i)}
    BY <2>1, FewParts
  <2>3. P("text-end", i) \in AllParts /\ P("text-end", i)[1] = "text-end"
        /\ P("text-end", i)[2] = i
    BY DEF P, AllParts, PartTypes
  <2>4. DoneParts(i) \in Seq(AllParts)
    BY <2>1, <2>3, PartsOf
  <2>5. Content(i) = {P("text-start", i)}
    BY <1>7, ContentIs
  <2>6. P("text-start", i) \in Among(parts)
    BY <1>1, <1>7 DEF TextFits, Stage
  <2> QED BY <2>2, <2>3, <2>4, <2>5, <2>6 DEF Contents
<1>8. CASE output[i] = "reasoning"
  <2>1. DoneParts(i) = [n \in 1..Len(active[i]) |-> P("reasoning-end", i)] /\ Len(active[i]) \in Nat
    BY <1>1, <1>8, DoneIs
  <2>2. P("reasoning-end", i) \in AllParts /\ P("reasoning-end", i)[1] = "reasoning-end"
        /\ P("reasoning-end", i)[2] = i
    BY DEF P, AllParts, PartTypes
  <2>3. DoneParts(i) \in Seq(AllParts) /\ \A p \in Among(DoneParts(i)) : p = P("reasoning-end", i)
    BY <2>1, <2>2 DEF Among
  <2>4. Content(i) = {P("reasoning-start", i)}
    BY <1>8, ContentIs
  <2>5. P("reasoning-start", i) \in Among(parts)
    BY <1>1, <1>8 DEF ItemFits
  <2> QED BY <2>2, <2>3, <2>4, <2>5 DEF Contents
<1> QED BY <1>1, <1>2, <1>3, <1>4, <1>5, <1>6, <1>7, <1>8 DEF Kinds

(* The conjuncts of the invariant after a step.                              *)
LEMMA Restated ==
  ASSUME output' = output
  PROVE  /\ Items' = Items /\ Among(parts)' = Among(parts')
         /\ \A j : Content(j)' = Content(j)
         /\ \A j : TextFits(parts, j, Stage(j))' <=> TextFits(parts', j, Stage(j)')
<1>1. Items' = Items /\ Among(parts)' = Among(parts')
  BY DEF Items, Among
<1>2. \A j : Content(j)' = Content(j)
  BY DEF Content, ProviderContent
<1>3. ASSUME NEW j PROVE TextFits(parts, j, Stage(j))' <=> TextFits(parts', j, Stage(j)')
  BY DEF TextFits, Among, OnceIn, Inside
<1> QED BY <1>1, <1>2, <1>3

(* An item that a step does not touch fits as it did.                        *)
LEMMA OthersFit ==
  ASSUME NEW j, ItemFits(j), output' = output, item'[j] = item[j], active'[j] = active[j],
         Among(parts) \subseteq Among(parts'), finish.calls => finish'.calls,
         finish'.flushed = finish.flushed,
         text' = text \/ ~(output[j] = "message" /\ item[j] = "added" /\ ~finish.flushed)
  PROVE  ItemFits(j)'
<1>1. Among(parts)' = Among(parts') /\ Content(j)' = Content(j)
  BY Restated
<1> QED BY <1>1 DEF ItemFits

(* What a step has to show.                                                  *)
LEMMA StreamKept ==
  ASSUME output' = output, StreamTypeOK', FinishFits', \A j \in Items : ItemFits(j)', OnlyContent',
         \A j \in Items : output[j] = "message" => TextFits(parts', j, Stage(j)')
  PROVE  StreamInv'
<1>1. Items' = Items /\ \A j : TextFits(parts, j, Stage(j))' <=> TextFits(parts', j, Stage(j)')
  BY Restated
<1>2. TextsFit'
  BY <1>1 DEF TextsFit
<1> QED BY <1>1, <1>2 DEF StreamInv

(* What every step starts from.                                              *)
LEMMA StreamKnows ==
  ASSUME StreamInv
  PROVE  /\ output \in Seq(Kinds) /\ output \in Outputs /\ 0 \notin Items
         /\ item \in [Items -> {"new", "added", "coded", "done"}]
         /\ deltas \in [Items -> 0..MaxDeltas] /\ active \in [Items -> Seq({0, 1})]
         /\ parts \in Seq(AllParts) /\ ongoing \subseteq Items /\ text \in Items \cup {0}
         /\ finish \in [reason : FinishReasons, calls : BOOLEAN, said : BOOLEAN, flushed : BOOLEAN]
         /\ FinishFits /\ (\A j \in Items : ItemFits(j) /\ output[j] \in Kinds)
         /\ \A j \in Items : output[j] = "message" => TextFits(parts, j, Stage(j))
<1>1. output \in Seq(Kinds)
  BY StreamAssumption DEF StreamInv, StreamTypeOK
<1>2. \A j \in Items : output[j] \in Kinds
  BY <1>1 DEF Items
<1> QED BY <1>1, <1>2, ItemsCount DEF StreamInv, StreamTypeOK, AllParts, TextsFit

(* An announced item keeps what has been said in order                       *)
(* (openai-responses-language-model.ts response.output_item.added).          *)
LEMMA ItemAddedKeeps ==
  ASSUME StreamInv, NEW i \in Items, ItemAdded(i)
  PROVE  StreamInv'
<1> USE StreamKnows
<1>1. output' = output /\ deltas' = deltas /\ finish' = finish /\ ~finish.said /\ ~finish.flushed
      /\ item[i] = "new" /\ item' = [item EXCEPT ![i] = "added"]
  BY DEF ItemAdded, Moves, FinishFits
<1>2. PICK new : new = AddedParts(i)
  OBVIOUS
<1>3. /\ new \in Seq(AllParts) /\ parts' = parts \o new
      /\ \A p \in Among(new) : p[2] = i /\ (p[1] \in Contents => p \in Content(i))
      /\ output[i] \in {"file_search_call", "image_generation_call"} => P("tool-call", i) \in Among(new)
      /\ output[i] = "reasoning" => P("reasoning-start", i) \in Among(new)
  BY <1>2, AddedSays DEF ItemAdded, Enqueue
<1>4. parts' \in Seq(AllParts) /\ Among(parts') = Among(parts) \cup Among(new) /\ OnlyContent'
  BY <1>1, <1>3, StepSays
<1>5. active' = [active EXCEPT ![i] = IF output[i] = "reasoning" THEN <<0>> ELSE active[i]]
      /\ text' = (IF output[i] = "message" THEN i ELSE text) /\ ongoing' \subseteq Items
  BY DEF ItemAdded
<1>6. StreamTypeOK'
  <2>1. active' \in [Items -> Seq({0, 1})]
    <3>1. <<0>> \in Seq({0, 1})
      OBVIOUS
    <3> QED BY <1>5, <3>1
  <2>2. item' \in [Items -> {"new", "added", "coded", "done"}]
    BY <1>1
  <2> QED BY <1>1, <1>4, <1>5, <2>1, <2>2, Restated DEF StreamTypeOK, AllParts
<1>7. FinishFits'
  BY <1>1, <1>5 DEF FinishFits
<1>8. ASSUME NEW j \in Items PROVE ItemFits(j)'
  <2>1. CASE j = i
    <3>1. Content(i)' = Content(i) /\ Among(parts)' = Among(parts')
      BY <1>1, Restated
    <3>2. item'[i] = "added" /\ active[i] = <<>>
      BY <1>1 DEF ItemFits
    <3> QED BY <2>1, <3>1, <3>2, <1>1, <1>3, <1>4, <1>5 DEF ItemFits
  <2>2. CASE j # i
    <3>1. item'[j] = item[j] /\ active'[j] = active[j]
      BY <2>2, <1>1, <1>5
    <3>2. text' = text \/ ~(output[j] = "message" /\ item[j] = "added" /\ ~finish.flushed)
      BY <1>5 DEF ItemAdded
    <3> QED BY <3>1, <3>2, <1>1, <1>4, OthersFit
  <2> QED BY <2>1, <2>2
<1>9. ASSUME NEW j \in Items, output[j] = "message" PROVE TextFits(parts', j, Stage(j)')
  <2>1. CASE j = i
    <3>1. new = <<P("text-start", i)>> /\ Among(new) = {P("text-start", i)}
      BY <1>2, <1>9, <2>1, AddedIs, FewParts
    <3>2. Continues(new, i, "unsaid", "said")
      BY <3>1 DEF Continues, OnceIn, P
    <3>3. Stage(i) = "unsaid" /\ Stage(i)' = "said"
      BY <1>1 DEF Stage
    <3>5. TextFits(parts, i, Stage(i))
      BY <1>9, <2>1
    <3>6. TextFits(parts, i, "unsaid")
      BY ONLY <3>3, <3>5
    <3>7. parts \in Seq(AllParts) /\ new \in Seq(AllParts) /\ parts' = parts \o new
      BY <1>3
    <3>4. TextFits(parts', i, "said")
      BY ONLY <3>7, <3>2, <3>6, TextGrows
    <3> QED BY <2>1, <3>3, <3>4
  <2>2. CASE j # i
    <3>1. Stage(j)' = Stage(j)
      BY <2>2, <1>1 DEF Stage
    <3> QED BY <2>2, <3>1, <1>3, <1>9, OthersKeep
  <2> QED BY <2>1, <2>2
<1> QED BY <1>1, <1>4, <1>6, <1>7, <1>8, <1>9, StreamKept
(* A step of an item that is not a message touches no text.               *)
LEMMA ItemSpeaks ==
  ASSUME StreamInv, NEW i \in Items, output[i] # "message", ~finish.said,
         NEW new \in Seq(AllParts), parts' = parts \o new,
         \A p \in Among(new) : p[2] = i /\ (p[1] \in Contents => p \in Content(i)),
         output' = output, finish' = finish, text' = text, ongoing' = ongoing,
         item' \in [Items -> {"new", "added", "coded", "done"}], deltas' \in [Items -> 0..MaxDeltas],
         active' \in [Items -> Seq({0, 1})],
         \A j \in Items : j # i => item'[j] = item[j] /\ active'[j] = active[j],
         Among(parts') = Among(parts) \cup Among(new) => ItemFits(i)'
  PROVE  StreamInv'
<1> USE StreamKnows
<1>1. parts' \in Seq(AllParts) /\ Among(parts') = Among(parts) \cup Among(new) /\ OnlyContent'
  BY StepSays
<1>2. StreamTypeOK'
  BY <1>1, Restated DEF StreamTypeOK, AllParts
<1>3. FinishFits'
  BY DEF FinishFits
<1>4. ASSUME NEW j \in Items PROVE ItemFits(j)'
  BY <1>1, OthersFit
<1>5. ASSUME NEW j \in Items, output[j] = "message" PROVE TextFits(parts', j, Stage(j)')
  <2>1. j # i /\ Stage(j)' = Stage(j)
    BY <1>5 DEF Stage
  <2> QED BY <2>1, <1>5, OthersKeep
<1> QED BY <1>1, <1>2, <1>3, <1>4, <1>5, StreamKept

(* Arguments, code, images and summaries keep what has been said in order.   *)
LEMMA DeltasKeep ==
  ASSUME StreamInv, NEW i \in Items,
         InputDelta(i) \/ PartialImage(i) \/ SummaryPartAdded(i) \/ SummaryDelta(i) \/ CodeDone(i)
  PROVE  StreamInv'
<1> USE StreamKnows
<1>1. ItemFits(i) /\ Among(parts)' = Among(parts') /\ (output' = output => Content(i)' = Content(i))
  BY Restated DEF Among
<1>2. CASE InputDelta(i)
  <2>1. PICK new : new = <<P("tool-input-delta", i)>>
    OBVIOUS
  <2>2. P("tool-input-delta", i) \in AllParts /\ P("tool-input-delta", i)[1] = "tool-input-delta"
        /\ P("tool-input-delta", i)[2] = i
    BY DEF P, AllParts, PartTypes
  <2>3. new \in Seq(AllParts) /\ Among(new) = {P("tool-input-delta", i)}
    BY <2>1, <2>2, FewParts, PartsOf
  <2>4. \A p \in Among(new) : p[2] = i /\ (p[1] \in Contents => p \in Content(i))
    BY <2>2, <2>3 DEF Contents
  <2>5. /\ parts' = parts \o new /\ output[i] # "message" /\ ~finish.said /\ output' = output /\ finish' = finish
        /\ text' = text /\ ongoing' = ongoing /\ item' = item /\ active' = active
        /\ deltas' \in [Items -> 0..MaxDeltas]
    BY <1>2, <2>1, StreamAssumption DEF InputDelta, Enqueue
  <2>6. Among(parts') = Among(parts) \cup Among(new) => ItemFits(i)'
    BY <1>1, <2>5, OthersFit
  <2> QED BY <2>3, <2>4, <2>5, <2>6, ItemSpeaks
<1>3. CASE PartialImage(i)
  <2>1. PICK new : new = <<P("tool-result", i)>>
    OBVIOUS
  <2>2. P("tool-result", i) \in AllParts /\ P("tool-result", i)[1] = "tool-result"
        /\ P("tool-result", i)[2] = i
    BY DEF P, AllParts, PartTypes
  <2>3. new \in Seq(AllParts) /\ Among(new) = {P("tool-result", i)}
    BY <2>1, <2>2, FewParts, PartsOf
  <2>4. output[i] = "image_generation_call"
    BY <1>3 DEF PartialImage
  <2>5. Content(i) = {P("tool-call", i), P("tool-result", i)}
    BY <2>4, ContentIs DEF Provided, Kinds
  <2>6. \A p \in Among(new) : p[2] = i /\ (p[1] \in Contents => p \in Content(i))
    BY <2>2, <2>3, <2>5
  <2>7. /\ parts' = parts \o new /\ output[i] # "message" /\ ~finish.said /\ output' = output /\ finish' = finish
        /\ text' = text /\ ongoing' = ongoing /\ item' = item /\ active' = active
        /\ deltas' \in [Items -> 0..MaxDeltas]
    BY <1>3, <2>1, StreamAssumption DEF PartialImage, Enqueue
  <2>8. Among(parts') = Among(parts) \cup Among(new) => ItemFits(i)'
    BY <1>1, <2>7, OthersFit
  <2> QED BY <2>3, <2>6, <2>7, <2>8, ItemSpeaks
<1>4. CASE SummaryPartAdded(i)
  <2>1. PICK new : new = <<P("reasoning-start", i)>>
    OBVIOUS
  <2>2. P("reasoning-start", i) \in AllParts /\ P("reasoning-start", i)[1] = "reasoning-start"
        /\ P("reasoning-start", i)[2] = i
    BY DEF P, AllParts, PartTypes
  <2>3. new \in Seq(AllParts) /\ Among(new) = {P("reasoning-start", i)}
    BY <2>1, <2>2, FewParts, PartsOf
  <2>4. output[i] = "reasoning" /\ item[i] = "added"
    <3>1. active[i] = <<0>> /\ item[i] = "added"
      BY <1>4 DEF SummaryPartAdded
    <3>2. <<0>> # <<>>
      OBVIOUS
    <3> QED BY <1>1, <3>1, <3>2 DEF ItemFits
  <2>5. Content(i) = {P("reasoning-start", i)}
    BY <2>4, ContentIs
  <2>6. \A p \in Among(new) : p[2] = i /\ (p[1] \in Contents => p \in Content(i))
    BY <2>2, <2>3, <2>5
  <2>7. /\ parts' = parts \o new /\ ~finish.said /\ output' = output /\ finish' = finish
        /\ text' = text /\ ongoing' = ongoing /\ item' = item /\ deltas' = deltas
        /\ active' = [active EXCEPT ![i] = <<0, 1>>]
    BY <1>4, <2>1 DEF SummaryPartAdded, Enqueue
  <2>8. active' \in [Items -> Seq({0, 1})]
    <3>1. <<0, 1>> \in Seq({0, 1})
      OBVIOUS
    <3> QED BY <2>7, <3>1
  <2>9. Among(parts') = Among(parts) \cup Among(new) => ItemFits(i)'
    BY <1>1, <2>3, <2>4, <2>7 DEF ItemFits
  <2> QED BY <2>3, <2>4, <2>6, <2>7, <2>8, <2>9, ItemSpeaks
<1>5. CASE SummaryDelta(i)
  <2>1. PICK new : new = <<P("reasoning-delta", i)>>
    OBVIOUS
  <2>2. P("reasoning-delta", i) \in AllParts /\ P("reasoning-delta", i)[1] = "reasoning-delta"
        /\ P("reasoning-delta", i)[2] = i
    BY DEF P, AllParts, PartTypes
  <2>3. new \in Seq(AllParts) /\ Among(new) = {P("reasoning-delta", i)}
    BY <2>1, <2>2, FewParts, PartsOf
  <2>4. \A p \in Among(new) : p[2] = i /\ (p[1] \in Contents => p \in Content(i))
    BY <2>2, <2>3 DEF Contents
  <2>5. output[i] # "message"
    BY <1>1, <1>5 DEF SummaryDelta, ItemFits
  <2>6. /\ parts' = parts \o new /\ ~finish.said /\ output' = output /\ finish' = finish
        /\ text' = text /\ ongoing' = ongoing /\ item' = item /\ active' = active
        /\ deltas' \in [Items -> 0..MaxDeltas]
    BY <1>5, <2>1, StreamAssumption DEF SummaryDelta, Enqueue
  <2>7. Among(parts') = Among(parts) \cup Among(new) => ItemFits(i)'
    BY <1>1, <2>6, OthersFit
  <2> QED BY <2>3, <2>4, <2>5, <2>6, <2>7, ItemSpeaks
<1>6. CASE CodeDone(i)
  <2>1. PICK new : new = <<P("tool-input-delta", i), P("tool-input-end", i), P("tool-call", i)>>
    OBVIOUS
  <2>2. /\ P("tool-input-delta", i) \in AllParts /\ P("tool-input-delta", i)[1] = "tool-input-delta"
        /\ P("tool-input-delta", i)[2] = i
        /\ P("tool-input-end", i) \in AllParts /\ P("tool-input-end", i)[1] = "tool-input-end"
        /\ P("tool-input-end", i)[2] = i
        /\ P("tool-call", i) \in AllParts /\ P("tool-call", i)[1] = "tool-call" /\ P("tool-call", i)[2] = i
    BY DEF P, AllParts, PartTypes
  <2>3. /\ new \in Seq(AllParts)
        /\ Among(new) = {P("tool-input-delta", i), P("tool-input-end", i), P("tool-call", i)}
    BY <2>1, <2>2, FewParts, PartsOf
  <2>4. output[i] = "code_interpreter_call" /\ item[i] = "added"
    BY <1>6 DEF CodeDone
  <2>5. Content(i) = {P("tool-call", i), P("tool-result", i)}
    BY <2>4, ContentIs DEF Provided, Kinds
  <2>6. \A p \in Among(new) : p[2] = i /\ (p[1] \in Contents => p \in Content(i))
    BY <2>2, <2>3, <2>5 DEF Contents
  <2>7. /\ parts' = parts \o new /\ ~finish.said /\ output' = output /\ finish' = finish
        /\ text' = text /\ ongoing' = ongoing /\ active' = active /\ deltas' = deltas
        /\ item' = [item EXCEPT ![i] = "coded"]
    BY <1>6, <2>1 DEF CodeDone, Enqueue, Moves
  <2>8. Among(parts') = Among(parts) \cup Among(new) => ItemFits(i)'
    BY <1>1, <2>3, <2>4, <2>7 DEF ItemFits
  <2>9. item' \in [Items -> {"new", "added", "coded", "done"}]
    BY <2>7
  <2> QED BY <2>3, <2>4, <2>6, <2>7, <2>8, <2>9, ItemSpeaks
<1> QED BY <1>2, <1>3, <1>4, <1>5, <1>6
(* A text delta, its item announced or not, continues the text that is open      *)
(* (openai-responses-language-model.ts response.output_text.delta).          *)
LEMMA TextDeltaKeeps ==
  ASSUME StreamInv, NEW i \in Items, TextDelta(i)
  PROVE  StreamInv'
<1> USE StreamKnows
<1>1. /\ output' = output /\ finish' = finish /\ ongoing' = ongoing /\ active' = active /\ ~finish.said
      /\ ~finish.flushed /\ item[i] \in {"new", "added"} /\ item' = [item EXCEPT ![i] = "added"]
      /\ output[i] = "message" /\ deltas' \in [Items -> 0..MaxDeltas]
      /\ text' = (IF text = 0 THEN i ELSE text)
  BY StreamAssumption DEF TextDelta, Moves, FinishFits
<1>2. text' = i /\ (text = 0 <=> item[i] = "new") /\ (text # 0 => text = i)
  <2>1. CASE item[i] = "new"
    BY <1>1, <2>1 DEF TextDelta
  <2>2. CASE item[i] = "added"
    BY <1>1, <2>2 DEF ItemFits
  <2> QED BY <1>1, <2>1, <2>2
<1>3. /\ P("text-start", i) \in AllParts /\ P("text-start", i)[1] = "text-start" /\ P("text-start", i)[2] = i
      /\ P("text-delta", i) \in AllParts /\ P("text-delta", i)[1] = "text-delta" /\ P("text-delta", i)[2] = i
  BY DEF P, AllParts, PartTypes
<1>4. PICK new : new = IF item[i] = "new" THEN <<P("text-start", i), P("text-delta", i)>> ELSE <<P("text-delta", i)>>
  OBVIOUS
<1>5. parts' = parts \o new /\ new \in Seq(AllParts)
  <2>1. parts' = parts \o ((IF text = 0 THEN <<P("text-start", i)>> ELSE <<>>) \o <<P("text-delta", text')>>)
    BY DEF TextDelta, Enqueue
  <2>2. CASE item[i] = "new"
    BY <1>2, <1>3, <1>4, <2>1, <2>2, PartsOf
  <2>3. CASE item[i] # "new"
    BY <1>2, <1>3, <1>4, <2>1, <2>3, PartsOf
  <2> QED BY <2>2, <2>3
<1>6. Among(new) = IF item[i] = "new" THEN {P("text-start", i), P("text-delta", i)} ELSE {P("text-delta", i)}
  BY <1>4, FewParts
<1>7. Content(i) = {P("text-start", i)}
  BY <1>1, ContentIs
<1>8. \A p \in Among(new) : p[2] = i /\ (p[1] \in Contents => p \in Content(i))
  BY <1>3, <1>6, <1>7 DEF Contents
<1>9. parts' \in Seq(AllParts) /\ Among(parts') = Among(parts) \cup Among(new) /\ OnlyContent'
  BY <1>1, <1>5, <1>8, StepSays
<1>10. StreamTypeOK'
  <2>1. item' \in [Items -> {"new", "added", "coded", "done"}]
    BY <1>1
  <2> QED BY <1>1, <1>2, <1>9, <2>1, Restated DEF StreamTypeOK, AllParts
<1>11. FinishFits'
  BY <1>1, <1>2 DEF FinishFits
<1>12. ASSUME NEW j \in Items PROVE ItemFits(j)'
  <2>1. CASE j = i
    BY <2>1, <1>1, <1>2 DEF ItemFits
  <2>2. CASE j # i
    <3>1. item'[j] = item[j]
      BY <2>2, <1>1
    <3>2. text' = text \/ ~(output[j] = "message" /\ item[j] = "added" /\ ~finish.flushed)
      BY <1>2, <2>2 DEF ItemFits
    <3> QED BY <3>1, <3>2, <1>1, <1>9, OthersFit
  <2> QED BY <2>1, <2>2
<1>13. ASSUME NEW j \in Items, output[j] = "message" PROVE TextFits(parts', j, Stage(j)')
  <2>1. CASE j = i
    <3>1. Stage(i)' = "said"
      BY <1>1 DEF Stage
    <3>2. PICK from : from = Stage(i)
      OBVIOUS
    <3>3. from = IF item[i] = "new" THEN "unsaid" ELSE "said"
      BY <3>2, <1>1 DEF Stage
    <3>4. Continues(new, i, from, "said")
      <4>1. CASE item[i] = "new"
        <5>1. new = <<P("text-start", i), P("text-delta", i)>> /\ Among(new) = {P("text-start", i), P("text-delta", i)}
          BY <4>1, <1>4, <1>6
        <5>2. Len(new) = 2 /\ new[1] = P("text-start", i) /\ new[2] = P("text-delta", i) /\ 1..2 = {1, 2}
          BY <5>1
        <5>3. Inside(new, i)
          <6>1. \A n \in 1..Len(new) : new[n] = P("text-delta", i) => n = 2
            BY <5>2, <1>3
          <6>2. 1 \in 1..(2 - 1) /\ \A m \in 1..(2 - 1) : m = 1
            OBVIOUS
          <6>3. P("text-start", i) # P("text-end", i)
            BY DEF P
          <6> QED BY <5>2, <6>1, <6>2, <6>3 DEF Inside
        <5>4. P("text-end", i) \notin Among(new)
          BY <5>1 DEF P
        <5>5. OnceIn(new, P("text-start", i)) /\ OnceIn(new, P("text-end", i))
          BY <5>2, <5>4, <1>3 DEF OnceIn, Among
        <5> QED BY <3>3, <4>1, <5>1, <5>3, <5>4, <5>5 DEF Continues
      <4>2. CASE item[i] # "new"
        <5>1. new = <<P("text-delta", i)>> /\ Among(new) = {P("text-delta", i)}
          BY <4>2, <1>4, <1>6
        <5>2. P("text-end", i) \notin Among(new) /\ P("text-start", i) \notin Among(new)
          BY <5>1 DEF P
        <5>3. OnceIn(new, P("text-start", i)) /\ OnceIn(new, P("text-end", i))
          BY <5>2 DEF OnceIn, Among
        <5> QED BY <3>3, <4>2, <5>2, <5>3 DEF Continues
      <4> QED BY <4>1, <4>2
    <3>5. TextFits(parts, i, from)
      BY <1>1, <3>2
    <3>6. parts \in Seq(AllParts) /\ new \in Seq(AllParts) /\ parts' = parts \o new
      BY <1>5
    <3>7. TextFits(parts', i, "said")
      BY ONLY <3>4, <3>5, <3>6, TextGrows
    <3> QED BY <2>1, <3>1, <3>7
  <2>2. CASE j # i
    <3>1. Stage(j)' = Stage(j)
      BY <2>2, <1>1 DEF Stage
    <3> QED BY <2>2, <3>1, <1>5, <1>8, <1>13, OthersKeep
  <2> QED BY <2>1, <2>2
<1> QED BY <1>1, <1>9, <1>10, <1>11, <1>12, <1>13, StreamKept

(* Ending an open text is said once.                                         *)
LEMMA TextEnds ==
  ASSUME NEW new, NEW i, Among(new) \subseteq {P("text-end", i), P("finish", 0)},
         P("text-end", i) \in Among(new), OnceIn(new, P("text-end", i))
  PROVE  Continues(new, i, "said", "ended")
<1>1. P("text-start", i) \notin Among(new) /\ P("text-delta", i) \notin Among(new)
  BY DEF P
<1>2. OnceIn(new, P("text-start", i))
  BY <1>1 DEF OnceIn, Among
<1> QED BY <1>1, <1>2 DEF Continues

(* A finished item says the rest of itself and ends its text                 *)
(* (openai-responses-language-model.ts response.output_item.done).           *)
LEMMA ItemDoneKeeps ==
  ASSUME StreamInv, NEW i \in Items, ItemDone(i)
  PROVE  StreamInv'
<1> USE StreamKnows
<1>1. /\ output' = output /\ deltas' = deltas /\ ~finish.said /\ ~finish.flushed
      /\ item[i] = (IF output[i] = "code_interpreter_call" THEN "coded" ELSE "added")
      /\ item' = [item EXCEPT ![i] = "done"] /\ active' = [active EXCEPT ![i] = <<>>]
      /\ text' = (IF output[i] = "message" THEN 0 ELSE text) /\ ongoing' \subseteq Items
      /\ finish' = [finish EXCEPT !.calls = finish.calls \/ output[i] = "function_call"]
  BY DEF ItemDone, Moves, FinishFits
<1>2. PICK new : new = DoneParts(i)
  OBVIOUS
<1>3. /\ new \in Seq(AllParts) /\ parts' = parts \o new
      /\ \A p \in Among(new) : p[2] = i /\ (p[1] \in Contents => p \in Content(i))
      /\ Content(i) \subseteq Among(parts) \cup Among(new)
  BY <1>1, <1>2, DoneSays DEF ItemDone, Enqueue
<1>4. parts' \in Seq(AllParts) /\ Among(parts') = Among(parts) \cup Among(new) /\ OnlyContent'
  BY <1>1, <1>3, StepSays
<1>5. /\ finish' \in [reason : FinishReasons, calls : BOOLEAN, said : BOOLEAN, flushed : BOOLEAN]
      /\ finish'.flushed = finish.flushed /\ finish'.said = finish.said /\ finish'.reason = finish.reason
      /\ finish'.calls = (finish.calls \/ output[i] = "function_call")
  BY <1>1
<1>6. StreamTypeOK'
  <2>1. active' \in [Items -> Seq({0, 1})]
    <3>1. <<>> \in Seq({0, 1})
      OBVIOUS
    <3> QED BY <1>1, <3>1
  <2>2. item' \in [Items -> {"new", "added", "coded", "done"}]
    BY <1>1
  <2> QED BY <1>1, <1>4, <1>5, <2>1, <2>2, Restated DEF StreamTypeOK, AllParts
<1>7. FinishFits'
  BY <1>1, <1>5 DEF FinishFits
<1>8. ASSUME NEW j \in Items PROVE ItemFits(j)'
  <2>1. CASE j = i
    <3>1. Content(i)' = Content(i) /\ Among(parts)' = Among(parts')
      BY <1>1, Restated
    <3>2. item'[i] = "done" /\ active'[i] = <<>>
      BY <1>1
    <3> QED BY <2>1, <3>1, <3>2, <1>1, <1>3, <1>4, <1>5 DEF ItemFits
  <2>2. CASE j # i
    <3>1. item'[j] = item[j] /\ active'[j] = active[j]
      BY <2>2, <1>1
    <3>2. text' = text \/ ~(output[j] = "message" /\ item[j] = "added" /\ ~finish.flushed)
      BY <1>1, <2>2 DEF ItemFits
    <3> QED BY <3>1, <3>2, <1>1, <1>4, <1>5, OthersFit
  <2> QED BY <2>1, <2>2
<1>9. ASSUME NEW j \in Items, output[j] = "message" PROVE TextFits(parts', j, Stage(j)')
  <2>1. CASE j = i
    <3>1. text = i /\ text # 0
      BY <1>1, <1>9, <2>1 DEF ItemFits
    <3>2. new = <<P("text-end", i)>> /\ Among(new) = {P("text-end", i)}
      BY <1>2, <1>9, <2>1, <3>1, DoneIs, FewParts
    <3>3. OnceIn(new, P("text-end", i))
      BY <3>2 DEF OnceIn
    <3>4. Continues(new, i, "said", "ended")
      BY <3>2, <3>3, TextEnds
    <3>5. Stage(i) = "said" /\ Stage(i)' = "ended"
      BY <1>1, <1>9, <2>1 DEF Stage
    <3>6. TextFits(parts, i, Stage(i))
      BY <1>9, <2>1
    <3>7. TextFits(parts, i, "said")
      BY ONLY <3>5, <3>6
    <3>8. parts \in Seq(AllParts) /\ new \in Seq(AllParts) /\ parts' = parts \o new
      BY <1>3
    <3>9. TextFits(parts', i, "ended")
      BY ONLY <3>4, <3>7, <3>8, TextGrows
    <3> QED BY <2>1, <3>5, <3>9
  <2>2. CASE j # i
    <3>1. Stage(j)' = Stage(j)
      BY <2>2, <1>1, <1>5 DEF Stage
    <3> QED BY <2>2, <3>1, <1>3, <1>9, OthersKeep
  <2> QED BY <2>1, <2>2
<1> QED BY <1>1, <1>4, <1>6, <1>7, <1>8, <1>9, StreamKept

(* The announced end says nothing of the items, and a chunk that does not   *)
(* parse only an error (openai-responses-language-model.ts transform).       *)
LEMMA FinishedKeeps ==
  ASSUME StreamInv, Finished \/ BadChunk
  PROVE  StreamInv'
<1> USE StreamKnows
<1>1. /\ output' = output /\ item' = item /\ deltas' = deltas /\ ongoing' = ongoing /\ text' = text
      /\ active' = active /\ ~finish.said /\ ~finish.flushed
  BY DEF Finished, BadChunk, FinishFits
<1>2. /\ finish' \in [reason : FinishReasons, calls : BOOLEAN, said : BOOLEAN, flushed : BOOLEAN]
      /\ finish'.calls = finish.calls /\ finish'.flushed = finish.flushed
      /\ finish'.reason = "stop" => finish'.said /\ ~finish'.calls
  <2>1. CASE Finished
    <3>1. PICK reason : /\ reason \in Incomplete \cup {"none"}
                        /\ finish' = [finish EXCEPT !.said = TRUE, !.reason = FinishReason(reason, finish.calls)]
      BY <2>1 DEF Finished
    <3>2. FinishReason(reason, finish.calls) \in FinishReasons
          /\ (FinishReason(reason, finish.calls) = "stop" => ~finish.calls)
      <4>1. CASE reason = "none"
        <5>1. FinishReason(reason, finish.calls) = IF finish.calls THEN "tool-calls" ELSE "stop"
          BY <4>1, Zenon DEF FinishReason
        <5> QED BY <5>1 DEF FinishReasons
      <4>2. CASE reason = "max_output_tokens"
        <5>1. FinishReason(reason, finish.calls) = "length"
          BY <4>2, Zenon DEF FinishReason
        <5> QED BY <5>1 DEF FinishReasons
      <4>3. CASE reason = "content_filter"
        <5>1. FinishReason(reason, finish.calls) = "content-filter"
          BY <4>3, Zenon DEF FinishReason
        <5> QED BY <5>1 DEF FinishReasons
      <4>4. CASE reason \notin {"none", "max_output_tokens", "content_filter"}
        <5>1. FinishReason(reason, finish.calls) = IF finish.calls THEN "tool-calls" ELSE "unknown"
          <6>1. reason # "none" /\ reason # "max_output_tokens" /\ reason # "content_filter"
            BY <4>4
          <6> QED BY <6>1, Zenon DEF FinishReason
        <5> QED BY <5>1 DEF FinishReasons
      <4> QED BY <4>1, <4>2, <4>3, <4>4
    <3>3. PICK r : r = FinishReason(reason, finish.calls)
      OBVIOUS
    <3>4. finish' = [finish EXCEPT !.said = TRUE, !.reason = r] /\ r \in FinishReasons /\ (r = "stop" => ~finish.calls)
      BY <3>1, <3>2, <3>3
    <3> QED BY <3>4
  <2>2. CASE BadChunk
    BY <2>2 DEF BadChunk, FinishReasons
  <2> QED BY <2>1, <2>2
<1>3. PICK new : /\ new = IF Finished THEN <<>> ELSE <<P("error", 0)>>
  OBVIOUS
<1>4. P("error", 0) \in AllParts /\ P("error", 0)[1] = "error" /\ P("error", 0)[2] = 0
  BY DEF P, AllParts, PartTypes
<1>5. new \in Seq(AllParts) /\ Among(new) \subseteq {P("error", 0)}
  BY <1>3, <1>4, PartsOf, FewParts
<1>6. parts' = parts \o new
  <2>1. CASE Finished
    <3>1. new = <<>> /\ parts' = parts
      BY <2>1, <1>3 DEF Finished
    <3>2. parts \in Seq(AllParts)
      OBVIOUS
    <3>3. parts \o <<>> = parts
      BY ONLY <3>2
    <3> QED BY <3>1, <3>3
  <2>2. CASE ~Finished
    BY <2>2, <1>3 DEF BadChunk, Enqueue
  <2> QED BY <2>1, <2>2
<1>7. \A p \in Among(new) : p[2] = 0 /\ p[1] \notin Contents
  BY <1>4, <1>5 DEF Contents
<1>8. parts' \in Seq(AllParts) /\ Among(parts') = Among(parts) \cup Among(new) /\ OnlyContent'
  BY <1>1, <1>5, <1>6, <1>7, StepSays
<1>9. StreamTypeOK'
  BY <1>1, <1>2, <1>8, Restated DEF StreamTypeOK, AllParts
<1>10. FinishFits'
  BY <1>1, <1>2 DEF FinishFits
<1>11. ASSUME NEW j \in Items PROVE ItemFits(j)'
  BY <1>1, <1>2, <1>8, OthersFit
<1>12. ASSUME NEW j \in Items, output[j] = "message" PROVE TextFits(parts', j, Stage(j)')
  <2>1. Stage(j)' = Stage(j)
    BY <1>1, <1>2 DEF Stage
  <2>2. /\ P("text-start", j) \notin Among(new) /\ P("text-end", j) \notin Among(new)
        /\ P("text-delta", j) \notin Among(new)
    BY <1>5 DEF P
  <2>3. PICK st : st = Stage(j)
    OBVIOUS
  <2>4. TextFits(parts, j, st)
    BY <1>12, <2>3
  <2>5. parts \in Seq(AllParts)
    OBVIOUS
  <2>6. TextFits(parts', j, st)
    BY ONLY <1>5, <1>6, <2>2, <2>4, <2>5, TextUntouched
  <2> QED BY <2>1, <2>3, <2>6
<1> QED BY <1>1, <1>8, <1>9, <1>10, <1>11, <1>12, StreamKept

(* The end of the stream ends the text that is open                          *)
(* (openai-responses-language-model.ts flush).                               *)
LEMMA FlushKeeps ==
  ASSUME StreamInv, Flush
  PROVE  StreamInv'
<1> USE StreamKnows
<1>1. /\ output' = output /\ item' = item /\ deltas' = deltas /\ ongoing' = ongoing /\ text' = 0
      /\ active' = active /\ ~finish.flushed
      /\ finish' = [finish EXCEPT !.flushed = TRUE, !.said = TRUE]
  BY DEF Flush
<1>2. /\ finish' \in [reason : FinishReasons, calls : BOOLEAN, said : BOOLEAN, flushed : BOOLEAN]
      /\ finish'.calls = finish.calls /\ finish'.flushed /\ finish'.said /\ finish'.reason = finish.reason
  BY <1>1
<1>3. PICK new : new = (IF text # 0 THEN <<P("text-end", text), P("finish", 0)>> ELSE <<P("finish", 0)>>)
  OBVIOUS
<1>4. /\ P("finish", 0) \in AllParts /\ P("finish", 0)[1] = "finish"
      /\ P("text-end", text) \in AllParts /\ P("text-end", text)[1] = "text-end"
      /\ P("finish", 0)[2] = 0 /\ P("text-end", text)[2] = text
  BY DEF P, AllParts, PartTypes
<1>5. new \in Seq(AllParts)
      /\ Among(new) = IF text # 0 THEN {P("text-end", text), P("finish", 0)} ELSE {P("finish", 0)}
  BY <1>3, <1>4, PartsOf, FewParts
<1>6. parts' = parts \o new
  <2>1. parts' = parts \o ((IF text # 0 THEN <<P("text-end", text)>> ELSE <<>>) \o <<P("finish", 0)>>)
    BY DEF Flush, Enqueue
  <2>2. CASE text # 0
    BY <1>3, <1>4, <2>1, <2>2, PartsOf
  <2>3. CASE text = 0
    BY <1>3, <1>4, <2>1, <2>3, PartsOf
  <2> QED BY <2>2, <2>3
<1>7. \A p \in Among(new) : p[1] \notin Contents
  BY <1>4, <1>5 DEF Contents
<1>8. parts' \in Seq(AllParts) /\ Among(parts') = Among(parts) \cup Among(new) /\ OnlyContent'
  BY <1>1, <1>5, <1>6, <1>7, StepSays
<1>9. StreamTypeOK'
  BY <1>1, <1>2, <1>8, Restated DEF StreamTypeOK, AllParts
<1>10. FinishFits'
  BY <1>1, <1>2 DEF FinishFits
<1>11. ASSUME NEW j \in Items PROVE ItemFits(j)'
  <2>1. Content(j)' = Content(j) /\ Among(parts)' = Among(parts')
    BY <1>1, Restated
  <2> QED BY <2>1, <1>1, <1>2, <1>8 DEF ItemFits
<1>12. ASSUME NEW j \in Items, output[j] = "message" PROVE TextFits(parts', j, Stage(j)')
  <2>1. parts \in Seq(AllParts) /\ new \in Seq(AllParts) /\ parts' = parts \o new
    BY <1>5, <1>6
  <2>2. CASE j = text
    <3>1. new = <<P("text-end", j), P("finish", 0)>> /\ Among(new) = {P("text-end", j), P("finish", 0)}
      BY <1>3, <1>5, <2>2
    <3>2. P("text-end", j) # P("finish", 0)
      BY DEF P
    <3>3. OnceIn(new, P("text-end", j))
      <4>1. Len(new) = 2 /\ new[1] = P("text-end", j) /\ new[2] = P("finish", 0) /\ 1..2 = {1, 2}
        BY <3>1
      <4> QED BY <3>2, <4>1 DEF OnceIn
    <3>4. Continues(new, j, "said", "ended")
      BY <3>1, <3>3, TextEnds
    <3>5. Stage(j) = "said" /\ Stage(j)' = "ended"
      BY <1>1, <1>2, <2>2 DEF Stage, FinishFits
    <3>6. TextFits(parts, j, Stage(j))
      BY <1>12
    <3>7. TextFits(parts, j, "said")
      BY ONLY <3>5, <3>6
    <3>8. TextFits(parts', j, "ended")
      BY ONLY <2>1, <3>4, <3>7, TextGrows
    <3> QED BY <3>5, <3>8
  <2>3. CASE j # text
    <3>1. Stage(j)' = Stage(j)
      <4>1. item[j] # "added"
        BY <1>1, <1>12, <2>3 DEF ItemFits
      <4>2. item[j] \in {"new", "done"}
        BY <4>1, <1>12 DEF ItemFits
      <4> QED BY <4>2, <1>1 DEF Stage
    <3>2. /\ P("text-start", j) \notin Among(new) /\ P("text-end", j) \notin Among(new)
          /\ P("text-delta", j) \notin Among(new)
      BY <1>5, <2>3 DEF P
    <3>3. PICK st : st = Stage(j)
      OBVIOUS
    <3>4. TextFits(parts, j, st)
      BY <1>12, <3>3
    <3>5. TextFits(parts', j, st)
      BY ONLY <2>1, <3>2, <3>4, TextUntouched
    <3> QED BY <3>1, <3>3, <3>5
  <2> QED BY <2>2, <2>3
<1> QED BY <1>1, <1>8, <1>9, <1>10, <1>11, <1>12, StreamKept

(* A stream begins with nothing said.                                        *)
LEMMA StreamBegins == StreamInit => StreamInv
<1> SUFFICES ASSUME StreamInit PROVE StreamInv
  OBVIOUS
<1>1. /\ output \in Outputs /\ item = [i \in Items |-> "new"] /\ deltas = [i \in Items |-> 0]
      /\ parts = <<>> /\ ongoing = {} /\ text = 0 /\ active = [i \in Items |-> <<>>]
      /\ finish = [reason |-> "unknown", calls |-> FALSE, said |-> FALSE, flushed |-> FALSE]
  BY DEF StreamInit
<1>2. Among(parts) = {} /\ parts \in Seq(AllParts) /\ Len(parts) = 0
  BY <1>1, FewParts, PartsOf
<1>3. StreamTypeOK
  <2>1. <<>> \in Seq({0, 1})
    OBVIOUS
  <2>2. deltas \in [Items -> 0..MaxDeltas]
    BY <1>1, StreamAssumption
  <2> QED BY <1>1, <1>2, <2>1, <2>2 DEF StreamTypeOK, AllParts, FinishReasons
<1>4. FinishFits
  BY <1>1 DEF FinishFits
<1>5. \A j \in Items : ItemFits(j)
  BY <1>1 DEF ItemFits
<1>6. TextsFit
  BY <1>1, <1>2 DEF TextsFit, TextFits, Stage, OnceIn, Inside
<1>7. OnlyContent
  BY <1>2 DEF OnlyContent
<1> QED BY <1>3, <1>4, <1>5, <1>6, <1>7 DEF StreamInv

(* The invariant says what the property says.                                *)
LEMMA StreamAgrees == StreamInv => StreamAgreesWithGenerate
<1> SUFFICES ASSUME StreamInv PROVE StreamAgreesWithGenerate
  OBVIOUS
<1> USE StreamKnows
<1>1. DOMAIN parts = 1..Len(parts) /\ ToSet(parts) = Among(parts) /\ DOMAIN output = 1..Len(output)
  BY DEF ToSet, Among
<1>2. ASSUME NEW i \in Items, output[i] = "message" PROVE TextIsPaired(i)
  <2>1. TextFits(parts, i, Stage(i))
    BY <1>2
  <2>2. SaidOnce(P("text-start", i)) /\ SaidOnce(P("text-end", i))
    BY <2>1, <1>1 DEF SaidOnce, TextFits, OnceIn
  <2>3. finish.flushed => (Said(P("text-end", i)) <=> Said(P("text-start", i)))
    BY <2>1, <1>1 DEF Said, TextFits, Stage
  <2>4. \A n \in DOMAIN parts : parts[n] = P("text-delta", i) =>
          /\ \E m \in 1..(n - 1) : parts[m] = P("text-start", i)
          /\ ~\E m \in 1..(n - 1) : parts[m] = P("text-end", i)
    BY <2>1, <1>1 DEF TextFits, Inside
  <2> QED BY <2>2, <2>3, <2>4 DEF TextIsPaired
<1>3. ASSUME \A i \in Items : item[i] = "done"
      PROVE  /\ {p \in ToSet(parts) : p[1] \in Contents} = UNION {Content(i) : i \in Items}
             /\ finish.reason = "stop" => "function_call" \notin ToSet(output)
  <2>1. ASSUME NEW p \in ToSet(parts), p[1] \in Contents PROVE p \in UNION {Content(i) : i \in Items}
    <3>1. p[2] \in Items /\ p \in Content(p[2])
      BY <2>1, <1>1 DEF StreamInv, OnlyContent
    <3>2. PICK i : i = p[2]
      OBVIOUS
    <3>3. i \in Items /\ p \in Content(i)
      BY <3>1, <3>2
    <3> QED BY ONLY <3>3
  <2>2. ASSUME NEW i \in Items, NEW p \in Content(i) PROVE p \in ToSet(parts) /\ p[1] \in Contents
    <3>1. p \in Among(parts)
      BY <1>3, <2>2 DEF ItemFits
    <3>2. /\ P("tool-call", i)[1] = "tool-call" /\ P("tool-result", i)[1] = "tool-result"
          /\ P("text-start", i)[1] = "text-start" /\ P("reasoning-start", i)[1] = "reasoning-start"
      BY DEF P
    <3>3. output[i] \in Called \/ output[i] = "message" \/ output[i] = "reasoning" \/ output[i] \in Provided
      BY DEF Called, Provided
    <3>4. p \in {P("tool-call", i), P("tool-result", i), P("text-start", i), P("reasoning-start", i)}
      BY <2>2, <3>3, ContentIs
    <3> QED BY <1>1, <3>1, <3>2, <3>4 DEF Contents
  <2>3. finish.reason = "stop" => "function_call" \notin ToSet(output)
    <3> SUFFICES ASSUME finish.reason = "stop", NEW i \in Items, output[i] = "function_call" PROVE FALSE
      BY DEF ToSet, Items
    <3> QED BY <1>3 DEF ItemFits, FinishFits
  <2> QED BY <2>1, <2>2, <2>3
<1> QED BY <1>2, <1>3 DEF StreamAgreesWithGenerate, StreamInv

(* A response, streamed, gives what it gives when it is not, with every text  *)
(* started and ended once and nothing of it outside, whichever chunks the     *)
(* provider leaves out: for all responses and any number of deltas            *)
(* (openai-responses-language-model.ts doStream, doGenerate).                 *)
THEOREM StreamingChangesNothing == StreamSpec => []StreamAgreesWithGenerate
<1>1. StreamInit => StreamInv
  BY StreamBegins
<1>2. StreamInv /\ [StreamNext]_streamVars => StreamInv'
  <2> SUFFICES ASSUME StreamInv, [StreamNext]_streamVars PROVE StreamInv'
    OBVIOUS
  <2>1. CASE UNCHANGED streamVars
    <3>1. /\ output' = output /\ item' = item /\ deltas' = deltas /\ parts' = parts /\ ongoing' = ongoing
          /\ text' = text /\ active' = active /\ finish' = finish
      BY <2>1 DEF streamVars
    <3>2. StreamTypeOK' /\ FinishFits' /\ OnlyContent'
      BY <3>1, Restated DEF StreamInv, StreamTypeOK, FinishFits, OnlyContent
    <3>3. \A j \in Items : ItemFits(j)'
      BY <3>1, StreamKnows, OthersFit
    <3>4. ASSUME NEW j \in Items, output[j] = "message" PROVE TextFits(parts', j, Stage(j)')
      <4>1. Stage(j)' = Stage(j)
        BY <3>1 DEF Stage
      <4> QED BY <3>1, <3>4, <4>1, StreamKnows
    <3> QED BY <3>1, <3>2, <3>3, <3>4, StreamKept
  <2>2. CASE StreamNext
    BY <2>2, ItemAddedKeeps, TextDeltaKeeps, DeltasKeep, ItemDoneKeeps, FinishedKeeps, FlushKeeps DEF StreamNext
  <2> QED BY <2>1, <2>2
<1>3. StreamInv => StreamAgreesWithGenerate
  BY StreamAgrees
<1> QED BY <1>1, <1>2, <1>3, PTL DEF StreamSpec

-----------------------------------------------------------------------------
(* Runs of the GitHub workflow *)

GithubSpec == GithubInit /\ [][GithubNext]_githubVars

RunPlaces ==
  {"token", "prompt", "git", "permission", "reaction", "repo", "fetch pull", "new branch", "fetch issue",
   "fork branch", "local branch", "chat", "look", "summarize", "commit", "push", "pull", "comment",
   "unreact", "exit 0", "catch", "exit"}
Unasked == {"token", "prompt", "git", "permission"}
BeforeChat ==
  {"token", "prompt", "git", "permission", "reaction", "repo", "fetch pull", "new branch", "fetch issue",
   "fork branch", "local branch", "chat"}
BeforePush == BeforeChat \cup {"look", "summarize", "commit", "push"}

CommentKinds == {"answer", "created", "error"}
GithubTypes ==
  /\ tree \in [commits : Nat, edited : BOOLEAN, dirty : BOOLEAN, uncommitted : BOOLEAN]
  /\ hub \in [pushed : Nat, pull : BOOLEAN, comments : Seq(CommentKinds), reaction : BOOLEAN]
  /\ place \in RunPlaces /\ ending \in {"none", "passed", "failed", "crashed"}

\* All of the model's work is on the hub.
Delivered == hub.pushed = tree.commits /\ ~tree.edited
Complete == Delivered /\ (tree.commits > 0 /\ ~OnPull => hub.pull)
HasAnswered == LastComment \in {"answer", "created"}

\* What is true at each place of the run.
StageOf ==
  /\ place \in BeforeChat => tree.commits = 0 /\ ~tree.edited
  /\ place \in BeforePush => hub.pushed = 0
  /\ place \in BeforePush \cup {"pull", "comment"} => hub.comments = <<>>
  /\ place \in {"summarize", "commit"} => tree.uncommitted = tree.edited
  /\ place = "push" => ~tree.edited
  /\ place = "pull" => Delivered /\ ~OnPull
  /\ place \in {"comment", "unreact", "exit 0"} => Complete
  /\ place \in {"comment", "unreact"} => IsUser
  /\ place = "unreact" => HasAnswered
  /\ place = "exit 0" /\ IsUser => HasAnswered /\ (trigger.ownName => ~hub.reaction)

GithubInv ==
  /\ GithubTypes /\ StageOf
  /\ place \notin Unasked \cup {"catch", "exit"} /\ IsUser => trigger.mayWrite
  /\ hub.pushed > 0 /\ IsUser => trigger.mayWrite
  /\ HasAnswered => Delivered
  /\ ending = "passed" => place = "exit 0"
  /\ ending \in {"failed", "crashed"} => place = "exit"
  /\ ending = "failed" /\ IsUser => LastComment = "error" /\ (trigger.ownName => ~hub.reaction)

(* A run begins with nothing done (cli/cmd/github.ts:290-340).               *)
LEMMA GithubBegins == GithubInit => GithubInv
  BY DEF GithubInit, GithubInv, GithubTypes, StageOf, RunPlaces, BeforeChat, BeforePush, Unasked,
         Delivered, Complete,
         HasAnswered, LastComment

(* A call that returns without having changed the branch or GitHub leaves    *)
(* what was so (cli/cmd/github.ts:342-443).                                  *)
LEMMA MovesKeep ==
  ASSUME GithubInv, UNCHANGED <<trigger, ending, tree, hub>>, place' \in RunPlaces, place # place',
         place \notin {"exit 0", "exit"},
         StageOf',
         place' \notin Unasked \cup {"catch", "exit"} /\ IsUser => trigger.mayWrite
  PROVE  GithubInv'
  BY DEF GithubInv, GithubTypes, Delivered, HasAnswered, LastComment, IsUser, OnPull

(* An error at any call but the model's leaves branch and GitHub as they     *)
(* were (cli/cmd/github.ts:444-457).                                         *)
LEMMA CaughtKeeps ==
  ASSUME GithubInv, NEW p \in RunPlaces \ {"exit 0", "exit", "catch"}, Caught(p), Nothing
  PROVE  GithubInv'
<1>1. StageOf'
  BY DEF Caught, Goes, Nothing, StageOf, BeforeChat, BeforePush
<1> QED BY <1>1, MovesKeep DEF Caught, Goes, Nothing, RunPlaces

Setup == \/ Token \/ GetUserPrompt \/ ConfigureGit \/ AssertPermissions \/ FetchRepo
         \/ CheckoutNewBranch \/ FetchIssue \/ FetchPR \/ CheckoutLocalBranch \/ CheckoutForkBranch

(* Up to the model's turn, calls only read and check out; the user's         *)
(* permission is asked first (cli/cmd/github.ts:342-430).                    *)
LEMMA SetupKeeps == GithubInv /\ Setup => GithubInv'
<1> SUFFICES ASSUME GithubInv, Setup PROVE GithubInv'
  OBVIOUS
<1>1. CASE \E p \in BeforeChat : Caught(p) /\ Nothing
  BY <1>1, CaughtKeeps DEF BeforeChat, RunPlaces
<1>2. CASE \E p, q \in BeforeChat : /\ Goes(p, q) /\ Nothing
                                    /\ (p \in Unasked /\ q \notin Unasked /\ IsUser => trigger.mayWrite)
                                    /\ p # q
  <2>1. PICK p \in BeforeChat, q \in BeforeChat : /\ Goes(p, q) /\ Nothing /\ p # q
                      /\ (p \in Unasked /\ q \notin Unasked /\ IsUser => trigger.mayWrite)
    BY <1>2
  <2>2. StageOf'
    BY <2>1 DEF Goes, Nothing, StageOf, BeforeChat, BeforePush, GithubInv
  <2>3. place' \notin Unasked \cup {"catch", "exit"} /\ IsUser => trigger.mayWrite
    BY <2>1 DEF Goes, GithubInv, BeforeChat
  <2> QED BY <2>1, <2>2, <2>3, MovesKeep DEF Goes, Nothing, BeforeChat, RunPlaces
<1>3. (\E p \in BeforeChat : Caught(p) /\ Nothing)
      \/ (\E p, q \in BeforeChat : /\ Goes(p, q) /\ Nothing
                                    /\ (p \in Unasked /\ q \notin Unasked /\ IsUser => trigger.mayWrite)
                                    /\ p # q)
  BY DEF Setup, Token, GetUserPrompt, ConfigureGit, AssertPermissions, FetchRepo, MayWrite,
         CheckoutNewBranch, FetchIssue, FetchPR, CheckoutLocalBranch, CheckoutForkBranch, BeforeChat, Unasked
<1> QED BY <1>1, <1>2, <1>3

(* Without a token nothing is done (cli/cmd/github.ts:345-347).              *)
LEMMA NoTokenKeeps == GithubInv /\ NoToken => GithubInv'
  BY DEF NoToken, Goes, Nothing, Caught, GithubInv, GithubTypes, StageOf, RunPlaces, BeforeChat,
         BeforePush, Unasked, Delivered, Complete, HasAnswered, LastComment, IsUser, OnPull

(* The reaction is added once the user's permission is known                 *)
(* (cli/cmd/github.ts:868-892).                                              *)
LEMMA AddReactionKeeps == GithubInv /\ AddReaction => GithubInv'
<1> SUFFICES ASSUME GithubInv, AddReaction PROVE GithubInv'
  OBVIOUS
<1>1. CASE Caught("reaction") /\ Nothing
  BY <1>1, CaughtKeeps DEF RunPlaces
<1>2. CASE ~(Caught("reaction") /\ Nothing)
  BY <1>2 DEF AddReaction, Goes, Nothing, Caught, GithubInv, GithubTypes, StageOf, RunPlaces, BeforeChat,
         BeforePush, Unasked, Delivered, Complete, HasAnswered, LastComment, IsUser, OnPull
<1> QED BY <1>1, <1>2

(* Pull requests come from users (cli/cmd/github.ts:300, 391-394).           *)
LEMMA OnPullIsUser == OnPull => IsUser
  BY DEF OnPull, IsUser, PullEvents, UserEvents

(* The comment added is the last one (cli/cmd/github.ts:952-960).            *)
LEMMA SaidLast ==
  ASSUME NEW s \in Seq(CommentKinds), NEW what \in CommentKinds
  PROVE  Append(s, what) \in Seq(CommentKinds) /\ Append(s, what) # <<>> /\ Append(s, what)[Len(Append(s, what))] = what
  OBVIOUS

(* The model's work is nowhere but on the branch                             *)
(* (cli/cmd/github.ts:659-737).                                              *)
LEMMA ChatKeeps == GithubInv /\ Chat => GithubInv'
<1> SUFFICES ASSUME GithubInv, Chat PROVE GithubInv'
  OBVIOUS
<1>1. PICK n \in 0..MaxCommits, edited \in BOOLEAN :
        /\ place' \in {"look", "catch"}
        /\ tree' = [tree EXCEPT !.commits = n, !.edited = edited]
  BY DEF Chat, Goes, Caught
<1>2. place = "chat" /\ UNCHANGED <<trigger, ending, hub>>
  BY DEF Chat, Goes, Caught
<1>3. tree' \in [commits : Nat, edited : BOOLEAN, dirty : BOOLEAN, uncommitted : BOOLEAN]
  <2>1. n \in Nat
    OBVIOUS
  <2>2. tree' = [tree EXCEPT !.commits = n, !.edited = edited]
    BY <1>1
  <2> QED BY <2>1, <2>2 DEF GithubInv, GithubTypes
<1>4. GithubTypes'
  BY <1>1, <1>2, <1>3 DEF GithubInv, GithubTypes, RunPlaces
<1>5. hub.pushed = 0 /\ hub.comments = <<>> /\ ending = "none"
  BY <1>2 DEF GithubInv, GithubTypes, StageOf, BeforePush, BeforeChat
<1>6. LastComment' = "none"
  BY <1>2, <1>5 DEF LastComment
<1>7. StageOf'
  BY <1>1, <1>2, <1>5 DEF StageOf, BeforePush, BeforeChat
<1> QED BY <1>1, <1>2, <1>4, <1>5, <1>6, <1>7 DEF GithubInv, HasAnswered, Unasked, IsUser

(* The branch is passed over only when the model left nothing                *)
(* (cli/cmd/github.ts:830-845).                                              *)
LEMMA BranchIsDirtyKeeps == GithubInv /\ BranchIsDirty => GithubInv'
<1> SUFFICES ASSUME GithubInv, BranchIsDirty PROVE GithubInv'
  OBVIOUS
<1>1. CASE Caught("look") /\ Nothing
  BY <1>1, CaughtKeeps DEF RunPlaces
<1>2. CASE ~(Caught("look") /\ Nothing)
  <2>1. /\ tree' \in [commits : Nat, edited : BOOLEAN, dirty : BOOLEAN, uncommitted : BOOLEAN]
        /\ tree'.commits = tree.commits /\ tree'.edited = tree.edited /\ tree'.uncommitted = tree.edited
        /\ hub' = hub
        /\ \/ place' = "summarize"
           \/ ~tree.edited /\ tree.commits = 0 /\ IsUser /\ place' = "comment"
           \/ ~tree.edited /\ tree.commits = 0 /\ ~IsUser /\ place' = "exit 0"
    BY <1>2 DEF BranchIsDirty, Goes, Nothing, ChangedFrom, GithubInv, GithubTypes
  <2>2. place = "look" /\ UNCHANGED <<trigger, ending>>
    BY <1>2 DEF BranchIsDirty, Goes, ChangedFrom, Nothing
  <2>3. GithubTypes'
    BY <2>1, <2>2 DEF GithubInv, GithubTypes, RunPlaces
  <2>4. LastComment' = LastComment
    BY <2>1 DEF LastComment
  <2>7. IsUser' = IsUser /\ OnPull' = OnPull
    BY <2>2 DEF IsUser, OnPull
  <2>5. StageOf'
    <3>1. StageOf /\ hub.pushed = 0 /\ hub.comments = <<>>
      BY <2>2 DEF GithubInv, StageOf, BeforePush
    <3>2. CASE place' = "summarize"
      BY <2>1, <3>1, <3>2 DEF StageOf, BeforePush, BeforeChat
    <3>3. CASE place' # "summarize"
      <4>1. tree'.commits = 0 /\ ~tree'.edited /\ hub'.pushed = 0
        BY <2>1, <3>1, <3>3
      <4>2. Complete'
        BY <4>1 DEF Complete, Delivered
      <4>3. (place' = "exit 0" => ~IsUser') /\ (place' = "comment" => IsUser')
        <5>1. (place' = "exit 0" => ~IsUser) /\ (place' = "comment" => IsUser)
          BY <2>1, <3>3
        <5> QED BY <2>7, <5>1
      <4> QED BY <2>1, <3>1, <3>3, <4>2, <4>3 DEF StageOf, BeforePush, BeforeChat
    <3> QED BY <3>2, <3>3
  <2>6. ending = "none"
    BY <2>2 DEF GithubInv, GithubTypes
  <2> QED BY <2>1, <2>2, <2>3, <2>4, <2>5, <2>6, <2>7
    DEF GithubInv, StageOf, BeforePush, Delivered, Complete, HasAnswered, Unasked, LastComment
<1> QED BY <1>1, <1>2

(* A summary changes nothing (cli/cmd/github.ts:648-657).                    *)
LEMMA SummarizeKeeps == GithubInv /\ Summarize => GithubInv'
<1> SUFFICES ASSUME GithubInv, Summarize PROVE GithubInv'
  OBVIOUS
<1>1. CASE Caught("summarize") /\ Nothing
  BY <1>1, CaughtKeeps DEF RunPlaces
<1>2. CASE ~(Caught("summarize") /\ Nothing)
  <2>1. place' = "commit" /\ tree' = tree /\ hub' = hub
    BY <1>2 DEF Summarize, Goes, Nothing, GithubInv, GithubTypes
  <2>2. place = "summarize" /\ UNCHANGED <<trigger, ending>>
    BY <1>2 DEF Summarize, Goes, Nothing
  <2>3. GithubTypes'
    BY <2>1, <2>2 DEF GithubInv, GithubTypes, RunPlaces
  <2>4. LastComment' = LastComment
    BY <2>1 DEF LastComment
  <2>7. IsUser' = IsUser /\ OnPull' = OnPull
    BY <2>2 DEF IsUser, OnPull
  <2>5. StageOf'
    BY <2>1, <2>2, <2>4, <2>7, OnPullIsUser
    DEF GithubInv, GithubTypes, StageOf, BeforeChat, BeforePush, Delivered, Complete, HasAnswered, LastComment
  <2>6. ending = "none"
    BY <2>2 DEF GithubInv, GithubTypes
  <2> QED BY <2>1, <2>2, <2>3, <2>4, <2>5, <2>6, <2>7
    DEF GithubInv, StageOf, BeforePush, Delivered, Complete, HasAnswered, Unasked, LastComment
<1> QED BY <1>1, <1>2

(* A commit leaves no file behind (cli/cmd/github.ts:790-801).               *)
LEMMA CommitKeeps == GithubInv /\ Commit => GithubInv'
<1> SUFFICES ASSUME GithubInv, Commit PROVE GithubInv'
  OBVIOUS
<1>1. CASE Caught("commit") /\ Nothing
  BY <1>1, CaughtKeeps DEF RunPlaces
<1>2. CASE ~(Caught("commit") /\ Nothing)
  <2>1. /\ tree' \in [commits : Nat, edited : BOOLEAN, dirty : BOOLEAN, uncommitted : BOOLEAN]
        /\ tree.uncommitted => ~tree'.edited
        /\ ~tree.uncommitted => tree' = tree
        /\ place' = "push" /\ hub' = hub
    <3>1. /\ tree' = IF tree.uncommitted THEN [tree EXCEPT !.commits = @ + 1, !.edited = FALSE] ELSE tree
          /\ place' = "push" /\ hub' = hub
      BY <1>2 DEF Commit, Goes, Nothing
    <3>2. CASE tree.uncommitted
      <4>1. PICK n : n = tree.commits + 1 /\ tree' = [tree EXCEPT !.commits = n, !.edited = FALSE]
        BY <3>1, <3>2
      <4>2. n \in Nat
        <5>1. tree.commits \in Nat
          BY DEF GithubInv, GithubTypes
        <5> QED BY <5>1, <4>1
      <4> QED BY <3>1, <3>2, <4>1, <4>2 DEF GithubInv, GithubTypes
    <3>3. CASE ~tree.uncommitted
      BY <3>1, <3>3 DEF GithubInv, GithubTypes
    <3> QED BY <3>2, <3>3
  <2>2. place = "commit" /\ UNCHANGED <<trigger, ending>>
    BY <1>2 DEF Commit, Goes, Nothing
  <2>3. GithubTypes'
    BY <2>1, <2>2 DEF GithubInv, GithubTypes, RunPlaces
  <2>4. LastComment' = LastComment
    BY <2>1 DEF LastComment
  <2>7. IsUser' = IsUser /\ OnPull' = OnPull
    BY <2>2 DEF IsUser, OnPull
  <2>5. StageOf'
    BY <2>1, <2>2, <2>4, <2>7, OnPullIsUser
    DEF GithubInv, GithubTypes, StageOf, BeforeChat, BeforePush, Delivered, Complete, HasAnswered, LastComment
  <2>6. ending = "none"
    BY <2>2 DEF GithubInv, GithubTypes
  <2> QED BY <2>1, <2>2, <2>3, <2>4, <2>5, <2>6, <2>7
    DEF GithubInv, StageOf, BeforePush, Delivered, Complete, HasAnswered, Unasked, LastComment
<1> QED BY <1>1, <1>2

(* A push to a new branch puts all commits on the hub                        *)
(* (cli/cmd/github.ts:790-803).                                              *)
LEMMA PushToNewBranchKeeps == GithubInv /\ PushToNewBranch => GithubInv'
<1> SUFFICES ASSUME GithubInv, PushToNewBranch PROVE GithubInv'
  OBVIOUS
<1>1. CASE Caught("push") /\ Nothing
  BY <1>1, CaughtKeeps DEF RunPlaces
<1>2. CASE ~(Caught("push") /\ Nothing)
  <2>1. /\ hub' \in [pushed : Nat, pull : BOOLEAN, comments : Seq(CommentKinds), reaction : BOOLEAN]
        /\ hub'.pushed = tree.commits /\ hub'.pull = hub.pull /\ hub'.comments = hub.comments
        /\ ~OnPull /\ place' = "pull" /\ tree' = tree
    BY <1>2 DEF PushToNewBranch, Goes, Nothing, Pushes, GithubInv, GithubTypes
  <2>2. place = "push" /\ UNCHANGED <<trigger, ending>>
    BY <1>2 DEF PushToNewBranch, Goes, Pushes, Nothing
  <2>3. GithubTypes'
    BY <2>1, <2>2 DEF GithubInv, GithubTypes, RunPlaces
  <2>4. LastComment' = LastComment
    BY <2>1 DEF LastComment
  <2>7. IsUser' = IsUser /\ OnPull' = OnPull
    BY <2>2 DEF IsUser, OnPull
  <2>5. StageOf'
    BY <2>1, <2>2, <2>4, <2>7, OnPullIsUser
    DEF GithubInv, GithubTypes, StageOf, BeforeChat, BeforePush, Delivered, Complete, HasAnswered, LastComment
  <2>6. ending = "none"
    BY <2>2 DEF GithubInv, GithubTypes
  <2> QED BY <2>1, <2>2, <2>3, <2>4, <2>5, <2>6, <2>7
    DEF GithubInv, StageOf, BeforePush, Delivered, Complete, HasAnswered, Unasked, LastComment
<1> QED BY <1>1, <1>2

(* So does a push to the pull request's branch (cli/cmd/github.ts:805-814).  *)
LEMMA PushToLocalBranchKeeps == GithubInv /\ PushToLocalBranch => GithubInv'
<1> SUFFICES ASSUME GithubInv, PushToLocalBranch PROVE GithubInv'
  OBVIOUS
<1>1. CASE Caught("push") /\ Nothing
  BY <1>1, CaughtKeeps DEF RunPlaces
<1>2. CASE ~(Caught("push") /\ Nothing)
  <2>1. /\ hub' \in [pushed : Nat, pull : BOOLEAN, comments : Seq(CommentKinds), reaction : BOOLEAN]
        /\ hub'.pushed = tree.commits /\ hub'.pull = hub.pull /\ hub'.comments = hub.comments
        /\ OnPull /\ place' = "comment" /\ tree' = tree
    BY <1>2 DEF PushToLocalBranch, Goes, Nothing, Pushes, GithubInv, GithubTypes
  <2>2. place = "push" /\ UNCHANGED <<trigger, ending>>
    BY <1>2 DEF PushToLocalBranch, Goes, Pushes, Nothing
  <2>3. GithubTypes'
    BY <2>1, <2>2 DEF GithubInv, GithubTypes, RunPlaces
  <2>4. LastComment' = LastComment
    BY <2>1 DEF LastComment
  <2>7. IsUser' = IsUser /\ OnPull' = OnPull
    BY <2>2 DEF IsUser, OnPull
  <2>5. StageOf'
    BY <2>1, <2>2, <2>4, <2>7, OnPullIsUser
    DEF GithubInv, GithubTypes, StageOf, BeforeChat, BeforePush, Delivered, Complete, HasAnswered, LastComment
  <2>6. ending = "none"
    BY <2>2 DEF GithubInv, GithubTypes
  <2> QED BY <2>1, <2>2, <2>3, <2>4, <2>5, <2>6, <2>7
    DEF GithubInv, StageOf, BeforePush, Delivered, Complete, HasAnswered, Unasked, LastComment
<1> QED BY <1>1, <1>2

(* So does a push to the fork's (cli/cmd/github.ts:816-828).                 *)
LEMMA PushToForkBranchKeeps == GithubInv /\ PushToForkBranch => GithubInv'
<1> SUFFICES ASSUME GithubInv, PushToForkBranch PROVE GithubInv'
  OBVIOUS
<1>1. CASE Caught("push") /\ Nothing
  BY <1>1, CaughtKeeps DEF RunPlaces
<1>2. CASE ~(Caught("push") /\ Nothing)
  <2>1. /\ hub' \in [pushed : Nat, pull : BOOLEAN, comments : Seq(CommentKinds), reaction : BOOLEAN]
        /\ hub'.pushed = tree.commits /\ hub'.pull = hub.pull /\ hub'.comments = hub.comments
        /\ OnPull /\ place' = "comment" /\ tree' = tree
    BY <1>2 DEF PushToForkBranch, Goes, Nothing, Pushes, GithubInv, GithubTypes
  <2>2. place = "push" /\ UNCHANGED <<trigger, ending>>
    BY <1>2 DEF PushToForkBranch, Goes, Pushes, Nothing
  <2>3. GithubTypes'
    BY <2>1, <2>2 DEF GithubInv, GithubTypes, RunPlaces
  <2>4. LastComment' = LastComment
    BY <2>1 DEF LastComment
  <2>7. IsUser' = IsUser /\ OnPull' = OnPull
    BY <2>2 DEF IsUser, OnPull
  <2>5. StageOf'
    BY <2>1, <2>2, <2>4, <2>7, OnPullIsUser
    DEF GithubInv, GithubTypes, StageOf, BeforeChat, BeforePush, Delivered, Complete, HasAnswered, LastComment
  <2>6. ending = "none"
    BY <2>2 DEF GithubInv, GithubTypes
  <2> QED BY <2>1, <2>2, <2>3, <2>4, <2>5, <2>6, <2>7
    DEF GithubInv, StageOf, BeforePush, Delivered, Complete, HasAnswered, Unasked, LastComment
<1> QED BY <1>1, <1>2

(* A new branch gets its pull request after it was pushed                    *)
(* (cli/cmd/github.ts:962-973).                                              *)
LEMMA CreatePRKeeps == GithubInv /\ CreatePR => GithubInv'
<1> SUFFICES ASSUME GithubInv, CreatePR PROVE GithubInv'
  OBVIOUS
<1>1. CASE Caught("pull") /\ Nothing
  BY <1>1, CaughtKeeps DEF RunPlaces
<1>2. CASE ~(Caught("pull") /\ Nothing)
  <2>1. /\ hub' \in [pushed : Nat, pull : BOOLEAN, comments : Seq(CommentKinds), reaction : BOOLEAN]
        /\ hub'.pushed = hub.pushed /\ hub'.pull /\ hub'.comments = hub.comments /\ tree' = tree
        /\ (IsUser /\ place' = "comment") \/ (~IsUser /\ place' = "exit 0")
    BY <1>2 DEF CreatePR, Goes, Nothing, GithubInv, GithubTypes
  <2>2. place = "pull" /\ UNCHANGED <<trigger, ending>>
    BY <1>2 DEF CreatePR, Goes, Nothing
  <2>3. GithubTypes'
    BY <2>1, <2>2 DEF GithubInv, GithubTypes, RunPlaces
  <2>4. LastComment' = LastComment
    BY <2>1 DEF LastComment
  <2>7. IsUser' = IsUser /\ OnPull' = OnPull
    BY <2>2 DEF IsUser, OnPull
  <2>5. StageOf'
    BY <2>1, <2>2, <2>4, <2>7, OnPullIsUser
    DEF GithubInv, GithubTypes, StageOf, BeforeChat, BeforePush, Delivered, Complete, HasAnswered, LastComment
  <2>6. ending = "none"
    BY <2>2 DEF GithubInv, GithubTypes
  <2> QED BY <2>1, <2>2, <2>3, <2>4, <2>5, <2>6, <2>7
    DEF GithubInv, StageOf, BeforePush, Delivered, Complete, HasAnswered, Unasked, LastComment
<1> QED BY <1>1, <1>2

(* The answer is given once all is on the hub (cli/cmd/github.ts:952-960).   *)
LEMMA CreateCommentKeeps == GithubInv /\ CreateComment => GithubInv'
<1> SUFFICES ASSUME GithubInv, CreateComment PROVE GithubInv'
  OBVIOUS
<1>1. CASE Caught("comment") /\ Nothing
  BY <1>1, CaughtKeeps DEF RunPlaces
<1>2. CASE ~(Caught("comment") /\ Nothing)
  <2>0. PICK said \in {"answer", "created"} : hub' = [hub EXCEPT !.comments = Append(@, said)]
    BY <1>2 DEF CreateComment
  <2>a. Append(hub.comments, said) \in Seq(CommentKinds)
    BY SaidLast DEF CommentKinds, GithubInv, GithubTypes
  <2>b. hub' \in [pushed : Nat, pull : BOOLEAN, comments : Seq(CommentKinds), reaction : BOOLEAN]
    BY <2>0, <2>a DEF GithubInv, GithubTypes
  <2>1. /\ hub' \in [pushed : Nat, pull : BOOLEAN, comments : Seq(CommentKinds), reaction : BOOLEAN]
        /\ hub'.pushed = hub.pushed /\ hub'.pull = hub.pull /\ tree' = tree /\ place' = "unreact"
        /\ \E what \in {"answer", "created"} : hub'.comments = Append(hub.comments, what)
    BY <1>2, <2>0, <2>b DEF CreateComment, Goes, Nothing, GithubInv, GithubTypes
  <2>2. place = "comment" /\ UNCHANGED <<trigger, ending>>
    BY <1>2 DEF CreateComment, Goes, Nothing
  <2>3. GithubTypes'
    BY <2>1, <2>2 DEF GithubInv, GithubTypes, RunPlaces
  <2>4. HasAnswered'
    <3>1. hub'.comments = Append(hub.comments, said)
      BY <2>0 DEF GithubInv, GithubTypes
    <3>2. /\ Append(hub.comments, said) # <<>>
          /\ Append(hub.comments, said)[Len(Append(hub.comments, said))] = said
      BY SaidLast DEF CommentKinds, GithubInv, GithubTypes
    <3> QED BY <3>1, <3>2 DEF HasAnswered, LastComment
  <2>7. IsUser' = IsUser /\ OnPull' = OnPull
    BY <2>2 DEF IsUser, OnPull
  <2>5. StageOf'
    BY <2>1, <2>2, <2>4, <2>7, OnPullIsUser
    DEF GithubInv, GithubTypes, StageOf, BeforeChat, BeforePush, Delivered, Complete
  <2>6. ending = "none"
    BY <2>2 DEF GithubInv, GithubTypes
  <2> QED BY <2>1, <2>2, <2>3, <2>4, <2>5, <2>6, <2>7
    DEF GithubInv, StageOf, BeforePush, Delivered, Complete, Unasked
<1> QED BY <1>1, <1>2

(* The agent's own reaction is removed last (cli/cmd/github.ts:894-950).     *)
LEMMA RemoveReactionKeeps == GithubInv /\ RemoveReaction => GithubInv'
<1> SUFFICES ASSUME GithubInv, RemoveReaction PROVE GithubInv'
  OBVIOUS
<1>1. CASE Caught("unreact") /\ Nothing
  BY <1>1, CaughtKeeps DEF RunPlaces
<1>2. CASE ~(Caught("unreact") /\ Nothing)
  <2>1. /\ hub' \in [pushed : Nat, pull : BOOLEAN, comments : Seq(CommentKinds), reaction : BOOLEAN]
        /\ hub'.pushed = hub.pushed /\ hub'.pull = hub.pull /\ hub'.comments = hub.comments
        /\ trigger.ownName => ~hub'.reaction
        /\ tree' = tree /\ place' = "exit 0"
    BY <1>2 DEF RemoveReaction, Goes, Nothing, Unreacted, GithubInv, GithubTypes
  <2>2. place = "unreact" /\ UNCHANGED <<trigger, ending>>
    BY <1>2 DEF RemoveReaction, Goes, Unreacted, Nothing
  <2>3. GithubTypes'
    BY <2>1, <2>2 DEF GithubInv, GithubTypes, RunPlaces
  <2>4. LastComment' = LastComment
    BY <2>1 DEF LastComment
  <2>7. IsUser' = IsUser /\ OnPull' = OnPull
    BY <2>2 DEF IsUser, OnPull
  <2>5. StageOf'
    BY <2>1, <2>2, <2>4, <2>7, OnPullIsUser
    DEF GithubInv, GithubTypes, StageOf, BeforeChat, BeforePush, Delivered, Complete, HasAnswered, LastComment
  <2>6. ending = "none"
    BY <2>2 DEF GithubInv, GithubTypes
  <2> QED BY <2>1, <2>2, <2>3, <2>4, <2>5, <2>6, <2>7
    DEF GithubInv, StageOf, BeforePush, Delivered, Complete, HasAnswered, Unasked, LastComment
<1> QED BY <1>1, <1>2

(* The process ends well only from there (cli/cmd/github.ts:459).            *)
LEMMA ExitProcessKeeps == GithubInv /\ ExitProcess => GithubInv'
  BY DEF ExitProcess, GithubInv, GithubTypes, StageOf, RunPlaces, BeforeChat, BeforePush, Unasked, Delivered,
         Complete, HasAnswered, LastComment, IsUser, OnPull

(* An error is told last, and the reaction removed, or the process crashes   *)
(* (cli/cmd/github.ts:444-459).                                              *)
LEMMA HandledKeeps == GithubInv /\ Handled => GithubInv'
<1> SUFFICES ASSUME GithubInv, Handled PROVE GithubInv'
  OBVIOUS
<1>1. PICK told : told = [hub EXCEPT !.comments = Append(@, "error")]
  OBVIOUS
<1>2. /\ told \in [pushed : Nat, pull : BOOLEAN, comments : Seq(CommentKinds), reaction : BOOLEAN]
      /\ told.pushed = hub.pushed /\ told.comments = Append(hub.comments, "error")
  <2>1. Append(hub.comments, "error") \in Seq(CommentKinds)
    BY SaidLast DEF CommentKinds, GithubInv, GithubTypes
  <2> QED BY <1>1, <2>1 DEF GithubInv, GithubTypes
<1>0. LastComment' = "error" \/ hub'.comments # Append(hub.comments, "error")
  BY SaidLast DEF LastComment, CommentKinds, GithubInv, GithubTypes
<1>3. /\ place = "catch" /\ place' = "exit" /\ UNCHANGED <<trigger, tree>>
      /\ \/ ~IsUser /\ ending' = "failed" /\ hub' = hub
         \/ IsUser /\ ending' = "failed" /\ hub' = Unreacted(told)
         \/ IsUser /\ ending' = "crashed" /\ hub' \in {hub, told}
  BY <1>1 DEF Handled, Ends
<1>4. /\ Unreacted(told) \in [pushed : Nat, pull : BOOLEAN, comments : Seq(CommentKinds), reaction : BOOLEAN]
      /\ Unreacted(told).pushed = hub.pushed /\ Unreacted(told).comments = Append(hub.comments, "error")
      /\ trigger.ownName => ~Unreacted(told).reaction
  BY <1>2 DEF Unreacted
<1>5. /\ hub' \in [pushed : Nat, pull : BOOLEAN, comments : Seq(CommentKinds), reaction : BOOLEAN]
      /\ hub'.pushed = hub.pushed
  BY <1>2, <1>3, <1>4 DEF GithubInv, GithubTypes
<1>6. \/ hub' = hub /\ LastComment' = LastComment
      \/ LastComment' = "error"
  BY <1>0, <1>2, <1>3, <1>4 DEF LastComment
<1>7. ending' = "failed" /\ IsUser => LastComment' = "error" /\ (trigger.ownName => ~hub'.reaction)
  BY <1>0, <1>2, <1>3, <1>4 DEF LastComment
<1>8. GithubTypes'
  BY <1>3, <1>5 DEF GithubInv, GithubTypes, RunPlaces
<1>9. StageOf'
  BY <1>3 DEF StageOf, BeforePush, BeforeChat
<1>10. HasAnswered' => Delivered'
  BY <1>3, <1>5, <1>6 DEF HasAnswered, Delivered, GithubInv
<1> QED BY <1>3, <1>5, <1>7, <1>8, <1>9, <1>10 DEF GithubInv, Unasked, IsUser

(* Every step keeps the invariant (cli/cmd/github.ts:342-459).               *)
LEMMA GithubStepKeeps == GithubInv /\ [GithubNext]_githubVars => GithubInv'
<1>1. GithubInv /\ UNCHANGED githubVars => GithubInv'
  BY DEF githubVars, GithubInv, GithubTypes, StageOf, RunPlaces, BeforeChat, BeforePush, Unasked,
         Delivered, Complete, HasAnswered, LastComment, IsUser, OnPull
<1> QED
  BY <1>1, SetupKeeps, NoTokenKeeps, AddReactionKeeps, ChatKeeps, BranchIsDirtyKeeps, SummarizeKeeps,
         CommitKeeps,
     PushToNewBranchKeeps, PushToLocalBranchKeeps, PushToForkBranchKeeps, CreatePRKeeps, CreateCommentKeeps,
     RemoveReactionKeeps, ExitProcessKeeps, HandledKeeps DEF GithubNext, Setup

(* From the invariant, a run tells the truth (cli/cmd/github.ts:342-459).    *)
LEMMA GithubInvIsTrue == GithubInv => RunsTellTheTruth
  BY DEF RunsTellTheTruth, GithubInv, GithubTypes, StageOf, RunPlaces, BeforeChat, BeforePush, Unasked,
         Delivered, Complete, HasAnswered, LastComment, IsUser, OnPull

(* Whatever fails, a run that passes has pushed all of the model's work and  *)
(* answered last, one that fails said so last if it could, and nothing is    *)
(* pushed for a user who may not write: for any number of commits            *)
(* (cli/cmd/github.ts:342-459).                                              *)
THEOREM RunsAreTruthful == GithubSpec => []RunsTellTheTruth
  BY GithubBegins, GithubStepKeeps, GithubInvIsTrue, PTL DEF GithubSpec

-----------------------------------------------------------------------------
(* Patches *)

PatchSpec == PatchInit /\ [][PatchNext]_patchVars

(* The same from the end to the start: replacements are put in last one      *)
(* first (patch/index.ts:391-408).                                           *)
LEMMA DownwardsFrom ==
  ASSUME NEW n \in Nat, NEW S, n \in S, \A i \in 1..n : i \in S => i - 1 \in S
  PROVE  \A i \in 0..n : i \in S
<1> DEFINE T == {k \in 0..n : n - k \in S}
<1>1. 0 \in T
  OBVIOUS
<1>2. \A i \in 1..n : i - 1 \in T => i \in T
  <2> TAKE i \in 1..n
  <2>1. n - (i - 1) = (n - i) + 1 /\ n - (i - 1) \in 1..n /\ (n - (i - 1)) - 1 = n - i
    OBVIOUS
  <2> QED BY <2>1
<1>3. \A i \in 0..n : i \in T
  <2> HIDE DEF T
  <2> QED BY <1>1, <1>2, UpwardsTo
<1>4. \A i \in 0..n : n - (n - i) = i /\ n - i \in 0..n
  OBVIOUS
<1> QED BY <1>3, <1>4

ParsedRule(script, n, f) ==
  f = [i \in 0..n |-> IF i = 0 THEN [hunks |-> <<>>, mode |-> "none"] ELSE parseLine(f[i - 1], script[i])]

(* There is a function that tells what is parsed after each line             *)
(* (patch/index.ts:196-232).                                                 *)
LEMMA ParsedExists ==
  ASSUME NEW script, NEW n \in Nat
  PROVE  \E f : ParsedRule(script, n, f)
<1> DEFINE S == {k \in Nat : \E f : ParsedRule(script, k, f)}
<1>1. 0 \in S
  <2> DEFINE f == [i \in 0..0 |-> [hunks |-> <<>>, mode |-> "none"]]
  <2>1. f = [i \in 0..0 |-> IF i = 0 THEN [hunks |-> <<>>, mode |-> "none"] ELSE parseLine(f[i - 1], script[i])]
    OBVIOUS
  <2>2. ParsedRule(script, 0, f)
    BY <2>1 DEF ParsedRule
  <2> HIDE DEF f
  <2> QED BY <2>2
<1>2. ASSUME NEW k \in 1..n, k - 1 \in S PROVE k \in S
  <2>1. PICK f : ParsedRule(script, k - 1, f)
    BY <1>2
  <2> DEFINE g == [i \in 0..k |-> IF i = k THEN parseLine(f[k - 1], script[k]) ELSE f[i]]
  <2>2. \A i \in 0..(k - 1) : f[i] = IF i = 0 THEN [hunks |-> <<>>, mode |-> "none"] ELSE parseLine(f[i - 1], script[i])
    BY <2>1 DEF ParsedRule
  <2>3. \A i \in 0..k : g[i] = IF i = 0 THEN [hunks |-> <<>>, mode |-> "none"] ELSE parseLine(g[i - 1], script[i])
    <3> TAKE i \in 0..k
    <3>1. CASE i = k
      BY <3>1
    <3>2. CASE i # k
      BY <3>2, <2>2
    <3> QED BY <3>1, <3>2
  <2>4. g = [i \in 0..k |-> IF i = 0 THEN [hunks |-> <<>>, mode |-> "none"] ELSE parseLine(g[i - 1], script[i])]
    BY <2>3
  <2>5. ParsedRule(script, k, g)
    BY <2>4 DEF ParsedRule
  <2> HIDE DEF g
  <2> QED BY <2>5
<1>3. n \in S
  <2> HIDE DEF S
  <2> QED BY <1>1, <1>2, UpwardsTo
<1> QED BY <1>3

(* What is parsed after a line is what that line makes of what was parsed    *)
(* before (patch/index.ts:196-232).                                          *)
LEMMA ParsedIs ==
  ASSUME NEW script, Len(script) \in Nat
  PROVE  /\ Parsed(script)[0] = [hunks |-> <<>>, mode |-> "none"]
         /\ \A i \in 1..Len(script) : Parsed(script)[i] = parseLine(Parsed(script)[i - 1], script[i])
<1> DEFINE f == Parsed(script)
<1>1. ParsedRule(script, Len(script), f)
  <2>1. \E g : ParsedRule(script, Len(script), g)
    BY ParsedExists
  <2> QED BY <2>1, Zenon DEF ParsedRule, Parsed
<1>2. \A i \in 0..Len(script) : f[i] = IF i = 0 THEN [hunks |-> <<>>, mode |-> "none"]
        ELSE parseLine(f[i - 1], script[i])
  BY <1>1 DEF ParsedRule
<1> HIDE DEF f
<1>3. f[0] = [hunks |-> <<>>, mode |-> "none"] /\ \A i \in 1..Len(script) : f[i] = parseLine(f[i - 1], script[i])
  BY <1>2
<1> QED BY <1>3 DEF f

SoughtRule(lines, chunks, n, f) ==
  f = [i \in 0..n |-> IF i = 0 THEN [list |-> <<>>, index |-> 1, ok |-> TRUE]
    ELSE computeReplacement(lines, f[i - 1], chunks[i])]

(* There is a function that tells what is found after each chunk             *)
(* (patch/index.ts:343-383).                                                 *)
LEMMA SoughtExists ==
  ASSUME NEW lines, NEW chunks, NEW n \in Nat
  PROVE  \E f : SoughtRule(lines, chunks, n, f)
<1> DEFINE S == {k \in Nat : \E f : SoughtRule(lines, chunks, k, f)}
<1>1. 0 \in S
  <2> DEFINE f == [i \in 0..0 |-> [list |-> <<>>, index |-> 1, ok |-> TRUE]]
  <2>1. f = [i \in 0..0 |-> IF i = 0 THEN [list |-> <<>>, index |-> 1, ok |-> TRUE]
          ELSE computeReplacement(lines, f[i - 1], chunks[i])]
    OBVIOUS
  <2>2. SoughtRule(lines, chunks, 0, f)
    BY <2>1 DEF SoughtRule
  <2> HIDE DEF f
  <2> QED BY <2>2
<1>2. ASSUME NEW k \in 1..n, k - 1 \in S PROVE k \in S
  <2>1. PICK f : SoughtRule(lines, chunks, k - 1, f)
    BY <1>2
  <2> DEFINE g == [i \in 0..k |-> IF i = k THEN computeReplacement(lines, f[k - 1], chunks[k]) ELSE f[i]]
  <2>2. \A i \in 0..(k - 1) : f[i] = IF i = 0 THEN [list |-> <<>>, index |-> 1, ok |-> TRUE]
          ELSE computeReplacement(lines, f[i - 1], chunks[i])
    BY <2>1 DEF SoughtRule
  <2>3. \A i \in 0..k : g[i] = IF i = 0 THEN [list |-> <<>>, index |-> 1, ok |-> TRUE]
          ELSE computeReplacement(lines, g[i - 1], chunks[i])
    <3> TAKE i \in 0..k
    <3>1. CASE i = k
      BY <3>1
    <3>2. CASE i # k
      BY <3>2, <2>2
    <3> QED BY <3>1, <3>2
  <2>4. g = [i \in 0..k |-> IF i = 0 THEN [list |-> <<>>, index |-> 1, ok |-> TRUE]
          ELSE computeReplacement(lines, g[i - 1], chunks[i])]
    BY <2>3
  <2>5. SoughtRule(lines, chunks, k, g)
    BY <2>4 DEF SoughtRule
  <2> HIDE DEF g
  <2> QED BY <2>5
<1>3. n \in S
  <2> HIDE DEF S
  <2> QED BY <1>1, <1>2, UpwardsTo
<1> QED BY <1>3

(* What is found after a chunk is what that chunk adds to what was found     *)
(* before (patch/index.ts:343-383).                                          *)
LEMMA SoughtIs ==
  ASSUME NEW lines, NEW chunks, Len(chunks) \in Nat
  PROVE  /\ Sought(lines, chunks)[0] = [list |-> <<>>, index |-> 1, ok |-> TRUE]
         /\ \A i \in 1..Len(chunks) : Sought(lines, chunks)[i] = computeReplacement(lines, Sought(lines,
              chunks)[i - 1], chunks[i])
<1> DEFINE f == Sought(lines, chunks)
<1>1. SoughtRule(lines, chunks, Len(chunks), f)
  <2>1. \E g : SoughtRule(lines, chunks, Len(chunks), g)
    BY SoughtExists
  <2> QED BY <2>1, Zenon DEF SoughtRule, Sought
<1>2. \A i \in 0..Len(chunks) : f[i] = IF i = 0 THEN [list |-> <<>>, index |-> 1, ok |-> TRUE]
        ELSE computeReplacement(lines, f[i - 1], chunks[i])
  BY <1>1 DEF SoughtRule
<1> HIDE DEF f
<1>3. f[0] = [list |-> <<>>, index |-> 1, ok |-> TRUE] /\ \A i \in 1..Len(chunks) : f[i] = computeReplacement(lines,
        f[i - 1], chunks[i])
  BY <1>2
<1> QED BY <1>3 DEF f

PutInRule(lines, list, n, f) ==
  f = [i \in 0..n |-> IF i = 0 THEN [lines |-> lines, left |-> DOMAIN list] ELSE PutLast(list, f[i - 1])]

(* There is a function that tells the lines after each replacement           *)
(* (patch/index.ts:391-408).                                                 *)
LEMMA PutInExists ==
  ASSUME NEW lines, NEW list, NEW n \in Nat
  PROVE  \E f : PutInRule(lines, list, n, f)
<1> DEFINE S == {k \in Nat : \E f : PutInRule(lines, list, k, f)}
<1>1. 0 \in S
  <2> DEFINE f == [i \in 0..0 |-> [lines |-> lines, left |-> DOMAIN list]]
  <2>1. f = [i \in 0..0 |-> IF i = 0 THEN [lines |-> lines, left |-> DOMAIN list] ELSE PutLast(list, f[i - 1])]
    OBVIOUS
  <2>2. PutInRule(lines, list, 0, f)
    BY <2>1 DEF PutInRule
  <2> HIDE DEF f
  <2> QED BY <2>2
<1>2. ASSUME NEW k \in 1..n, k - 1 \in S PROVE k \in S
  <2>1. PICK f : PutInRule(lines, list, k - 1, f)
    BY <1>2
  <2> DEFINE g == [i \in 0..k |-> IF i = k THEN PutLast(list, f[k - 1]) ELSE f[i]]
  <2>2. \A i \in 0..(k - 1) : f[i] = IF i = 0 THEN [lines |-> lines, left |-> DOMAIN list] ELSE PutLast(list, f[i - 1])
    BY <2>1 DEF PutInRule
  <2>3. \A i \in 0..k : g[i] = IF i = 0 THEN [lines |-> lines, left |-> DOMAIN list] ELSE PutLast(list, g[i - 1])
    <3> TAKE i \in 0..k
    <3>1. CASE i = k
      BY <3>1
    <3>2. CASE i # k
      BY <3>2, <2>2
    <3> QED BY <3>1, <3>2
  <2>4. g = [i \in 0..k |-> IF i = 0 THEN [lines |-> lines, left |-> DOMAIN list] ELSE PutLast(list, g[i - 1])]
    BY <2>3
  <2>5. PutInRule(lines, list, k, g)
    BY <2>4 DEF PutInRule
  <2> HIDE DEF g
  <2> QED BY <2>5
<1>3. n \in S
  <2> HIDE DEF S
  <2> QED BY <1>1, <1>2, UpwardsTo
<1> QED BY <1>3

(* The lines after a replacement are those before with the last replacement  *)
(* of those left put in (patch/index.ts:391-408).                            *)
LEMMA PutInIs ==
  ASSUME NEW lines, NEW list, Len(list) \in Nat
  PROVE  /\ PutIn(lines, list)[0] = [lines |-> lines, left |-> DOMAIN list]
         /\ \A i \in 1..Len(list) : PutIn(lines, list)[i] = PutLast(list, PutIn(lines, list)[i - 1])
<1> DEFINE f == PutIn(lines, list)
<1>1. PutInRule(lines, list, Len(list), f)
  <2>1. \E g : PutInRule(lines, list, Len(list), g)
    BY PutInExists
  <2> QED BY <2>1, Zenon DEF PutInRule, PutIn
<1>2. \A i \in 0..Len(list) : f[i] = IF i = 0 THEN [lines |-> lines, left |-> DOMAIN list] ELSE PutLast(list, f[i - 1])
  BY <1>1 DEF PutInRule
<1> HIDE DEF f
<1>3. f[0] = [lines |-> lines, left |-> DOMAIN list] /\ \A i \in 1..Len(list) : f[i] = PutLast(list, f[i - 1])
  BY <1>2
<1> QED BY <1>3 DEF f

LibraryRule(files, hunks, n, f) ==
  f = [i \in 0..n |-> IF i = 0 THEN [files |-> files, ok |-> hunks # <<>>] ELSE applyHunk(f[i - 1], hunks[i])]

(* There is a function that tells the files after each hunk                  *)
(* (patch/index.ts:469-511).                                                 *)
LEMMA LibraryExists ==
  ASSUME NEW files, NEW hunks, NEW n \in Nat
  PROVE  \E f : LibraryRule(files, hunks, n, f)
<1> DEFINE S == {k \in Nat : \E f : LibraryRule(files, hunks, k, f)}
<1>1. 0 \in S
  <2> DEFINE f == [i \in 0..0 |-> [files |-> files, ok |-> hunks # <<>>]]
  <2>1. f = [i \in 0..0 |-> IF i = 0 THEN [files |-> files, ok |-> hunks # <<>>] ELSE applyHunk(f[i - 1], hunks[i])]
    OBVIOUS
  <2>2. LibraryRule(files, hunks, 0, f)
    BY <2>1 DEF LibraryRule
  <2> HIDE DEF f
  <2> QED BY <2>2
<1>2. ASSUME NEW k \in 1..n, k - 1 \in S PROVE k \in S
  <2>1. PICK f : LibraryRule(files, hunks, k - 1, f)
    BY <1>2
  <2> DEFINE g == [i \in 0..k |-> IF i = k THEN applyHunk(f[k - 1], hunks[k]) ELSE f[i]]
  <2>2. \A i \in 0..(k - 1) : f[i] = IF i = 0 THEN [files |-> files, ok |-> hunks # <<>>]
          ELSE applyHunk(f[i - 1], hunks[i])
    BY <2>1 DEF LibraryRule
  <2>3. \A i \in 0..k : g[i] = IF i = 0 THEN [files |-> files, ok |-> hunks # <<>>] ELSE applyHunk(g[i - 1], hunks[i])
    <3> TAKE i \in 0..k
    <3>1. CASE i = k
      BY <3>1
    <3>2. CASE i # k
      BY <3>2, <2>2
    <3> QED BY <3>1, <3>2
  <2>4. g = [i \in 0..k |-> IF i = 0 THEN [files |-> files, ok |-> hunks # <<>>] ELSE applyHunk(g[i - 1], hunks[i])]
    BY <2>3
  <2>5. LibraryRule(files, hunks, k, g)
    BY <2>4 DEF LibraryRule
  <2> HIDE DEF g
  <2> QED BY <2>5
<1>3. n \in S
  <2> HIDE DEF S
  <2> QED BY <1>1, <1>2, UpwardsTo
<1> QED BY <1>3

(* The files after a hunk are those before with the hunk applied             *)
(* (patch/index.ts:469-511).                                                 *)
LEMMA LibraryIs ==
  ASSUME NEW files, NEW hunks, Len(hunks) \in Nat
  PROVE  /\ applyHunksToFiles(files, hunks)[0] = [files |-> files, ok |-> hunks # <<>>]
         /\ \A i \in 1..Len(hunks) : applyHunksToFiles(files, hunks)[i] = applyHunk(applyHunksToFiles(files,
              hunks)[i - 1], hunks[i])
<1> DEFINE f == applyHunksToFiles(files, hunks)
<1>1. LibraryRule(files, hunks, Len(hunks), f)
  <2>1. \E g : LibraryRule(files, hunks, Len(hunks), g)
    BY LibraryExists
  <2> QED BY <2>1, Zenon DEF LibraryRule, applyHunksToFiles
<1>2. \A i \in 0..Len(hunks) : f[i] = IF i = 0 THEN [files |-> files, ok |-> hunks # <<>>]
        ELSE applyHunk(f[i - 1], hunks[i])
  BY <1>1 DEF LibraryRule
<1> HIDE DEF f
<1>3. f[0] = [files |-> files, ok |-> hunks # <<>>] /\ \A i \in 1..Len(hunks) : f[i] = applyHunk(f[i - 1], hunks[i])
  BY <1>2
<1> QED BY <1>3 DEF f

AnnouncingRule(files, hunks, n, f) ==
  f = [i \in 0..n |-> IF i = 0 THEN [p \in Paths |-> <<"none", Gone>>] ELSE Announced(files, f[i - 1], hunks[i])]

(* There is a function that tells what is announced after each hunk          *)
(* (patch/index.ts:552-600).                                                 *)
LEMMA AnnouncingExists ==
  ASSUME NEW files, NEW hunks, NEW n \in Nat
  PROVE  \E f : AnnouncingRule(files, hunks, n, f)
<1> DEFINE S == {k \in Nat : \E f : AnnouncingRule(files, hunks, k, f)}
<1>1. 0 \in S
  <2> DEFINE f == [i \in 0..0 |-> [p \in Paths |-> <<"none", Gone>>]]
  <2>1. f = [i \in 0..0 |-> IF i = 0 THEN [p \in Paths |-> <<"none", Gone>>] ELSE Announced(files, f[i - 1], hunks[i])]
    OBVIOUS
  <2>2. AnnouncingRule(files, hunks, 0, f)
    BY <2>1 DEF AnnouncingRule
  <2> HIDE DEF f
  <2> QED BY <2>2
<1>2. ASSUME NEW k \in 1..n, k - 1 \in S PROVE k \in S
  <2>1. PICK f : AnnouncingRule(files, hunks, k - 1, f)
    BY <1>2
  <2> DEFINE g == [i \in 0..k |-> IF i = k THEN Announced(files, f[k - 1], hunks[k]) ELSE f[i]]
  <2>2. \A i \in 0..(k - 1) : f[i] = IF i = 0 THEN [p \in Paths |-> <<"none", Gone>>]
          ELSE Announced(files, f[i - 1], hunks[i])
    BY <2>1 DEF AnnouncingRule
  <2>3. \A i \in 0..k : g[i] = IF i = 0 THEN [p \in Paths |-> <<"none", Gone>>]
          ELSE Announced(files, g[i - 1], hunks[i])
    <3> TAKE i \in 0..k
    <3>1. CASE i = k
      BY <3>1
    <3>2. CASE i # k
      BY <3>2, <2>2
    <3> QED BY <3>1, <3>2
  <2>4. g = [i \in 0..k |-> IF i = 0 THEN [p \in Paths |-> <<"none", Gone>>] ELSE Announced(files, g[i - 1], hunks[i])]
    BY <2>3
  <2>5. AnnouncingRule(files, hunks, k, g)
    BY <2>4 DEF AnnouncingRule
  <2> HIDE DEF g
  <2> QED BY <2>5
<1>3. n \in S
  <2> HIDE DEF S
  <2> QED BY <1>1, <1>2, UpwardsTo
<1> QED BY <1>3

(* What is announced after a hunk is what it adds to what was announced      *)
(* before (patch/index.ts:552-600).                                          *)
LEMMA AnnouncingIs ==
  ASSUME NEW files, NEW hunks, Len(hunks) \in Nat
  PROVE  /\ Announcing(files, hunks)[0] = [p \in Paths |-> <<"none", Gone>>]
         /\ \A i \in 1..Len(hunks) : Announcing(files, hunks)[i] = Announced(files, Announcing(files, hunks)[i - 1],
              hunks[i])
<1> DEFINE f == Announcing(files, hunks)
<1>1. AnnouncingRule(files, hunks, Len(hunks), f)
  <2>1. \E g : AnnouncingRule(files, hunks, Len(hunks), g)
    BY AnnouncingExists
  <2> QED BY <2>1, Zenon DEF AnnouncingRule, Announcing
<1>2. \A i \in 0..Len(hunks) : f[i] = IF i = 0 THEN [p \in Paths |-> <<"none", Gone>>]
        ELSE Announced(files, f[i - 1], hunks[i])
  BY <1>1 DEF AnnouncingRule
<1> HIDE DEF f
<1>3. f[0] = [p \in Paths |-> <<"none", Gone>>] /\ \A i \in 1..Len(hunks) : f[i] = Announced(files, f[i - 1], hunks[i])
  BY <1>2
<1> QED BY <1>3 DEF f

MergedRule(lines, chunks, p, n, f) ==
  f = [i \in 0..n |-> IF i = 0 THEN [out |-> <<>>, from |-> 1, tail |-> <<>>]
    ELSE Merge(lines, f[i - 1], chunks[i], p[i])]

(* There is a function that tells what is merged after each chunk            *)
(* (patch/index.ts:335-408).                                                 *)
LEMMA MergedExists ==
  ASSUME NEW lines, NEW chunks, NEW p, NEW n \in Nat
  PROVE  \E f : MergedRule(lines, chunks, p, n, f)
<1> DEFINE S == {k \in Nat : \E f : MergedRule(lines, chunks, p, k, f)}
<1>1. 0 \in S
  <2> DEFINE f == [i \in 0..0 |-> [out |-> <<>>, from |-> 1, tail |-> <<>>]]
  <2>1. f = [i \in 0..0 |-> IF i = 0 THEN [out |-> <<>>, from |-> 1, tail |-> <<>>]
          ELSE Merge(lines, f[i - 1], chunks[i], p[i])]
    OBVIOUS
  <2>2. MergedRule(lines, chunks, p, 0, f)
    BY <2>1 DEF MergedRule
  <2> HIDE DEF f
  <2> QED BY <2>2
<1>2. ASSUME NEW k \in 1..n, k - 1 \in S PROVE k \in S
  <2>1. PICK f : MergedRule(lines, chunks, p, k - 1, f)
    BY <1>2
  <2> DEFINE g == [i \in 0..k |-> IF i = k THEN Merge(lines, f[k - 1], chunks[k], p[k]) ELSE f[i]]
  <2>2. \A i \in 0..(k - 1) : f[i] = IF i = 0 THEN [out |-> <<>>, from |-> 1, tail |-> <<>>]
          ELSE Merge(lines, f[i - 1], chunks[i], p[i])
    BY <2>1 DEF MergedRule
  <2>3. \A i \in 0..k : g[i] = IF i = 0 THEN [out |-> <<>>, from |-> 1, tail |-> <<>>]
          ELSE Merge(lines, g[i - 1], chunks[i], p[i])
    <3> TAKE i \in 0..k
    <3>1. CASE i = k
      BY <3>1
    <3>2. CASE i # k
      BY <3>2, <2>2
    <3> QED BY <3>1, <3>2
  <2>4. g = [i \in 0..k |-> IF i = 0 THEN [out |-> <<>>, from |-> 1, tail |-> <<>>]
          ELSE Merge(lines, g[i - 1], chunks[i], p[i])]
    BY <2>3
  <2>5. MergedRule(lines, chunks, p, k, g)
    BY <2>4 DEF MergedRule
  <2> HIDE DEF g
  <2> QED BY <2>5
<1>3. n \in S
  <2> HIDE DEF S
  <2> QED BY <1>1, <1>2, UpwardsTo
<1> QED BY <1>3

(* What is merged after a chunk is what was merged before with the lines up  *)
(* to the chunk and its new ones (patch/index.ts:335-408).                   *)
LEMMA MergedIs ==
  ASSUME NEW lines, NEW chunks, NEW p, Len(chunks) \in Nat
  PROVE  /\ Merged(lines, chunks, p)[0] = [out |-> <<>>, from |-> 1, tail |-> <<>>]
         /\ \A i \in 1..Len(chunks) : Merged(lines, chunks, p)[i] = Merge(lines, Merged(lines, chunks, p)[i - 1],
              chunks[i], p[i])
<1> DEFINE f == Merged(lines, chunks, p)
<1>1. MergedRule(lines, chunks, p, Len(chunks), f)
  <2>1. \E g : MergedRule(lines, chunks, p, Len(chunks), g)
    BY MergedExists
  <2> QED BY <2>1, Zenon DEF MergedRule, Merged
<1>2. \A i \in 0..Len(chunks) : f[i] = IF i = 0 THEN [out |-> <<>>, from |-> 1, tail |-> <<>>]
        ELSE Merge(lines, f[i - 1], chunks[i], p[i])
  BY <1>1 DEF MergedRule
<1> HIDE DEF f
<1>3. f[0] = [out |-> <<>>, from |-> 1, tail |-> <<>>] /\ \A i \in 1..Len(chunks) : f[i] = Merge(lines, f[i - 1],
        chunks[i], p[i])
  BY <1>2
<1> QED BY <1>3 DEF f

ChunkType == [new : Seq(STRING), old : Seq(STRING), context : STRING]
HunkType ==
  {h \in [type : {"add", "delete", "update"}, path : Paths, move : Paths \cup {Blank}, contents : Seq(STRING),
          chunks : Seq(ChunkType)] : h.move # Blank => h.type = "update"}

\* What is parsed so far: a line is never put into a hunk or a chunk that has
\* not begun.
ParseState(acc) ==
  /\ acc = [hunks |-> acc.hunks, mode |-> acc.mode] /\ acc.hunks \in Seq(HunkType)
  /\ acc.mode \in {"none", "add", "delete", "update", "chunks", "chunk"}
  /\ acc.mode # "none" => acc.hunks # <<>>
  /\ acc.mode \in {"update", "chunks", "chunk"} => Last(acc.hunks).type = "update"
  /\ acc.mode = "chunk" => Last(acc.hunks).chunks # <<>>

(* A sequence with its last element replaced (patch/index.ts:107-159).       *)
LEMMA ReplacedLast ==
  ASSUME NEW S, NEW s \in Seq(S), s # <<>>, NEW e \in S
  PROVE  /\ ReplaceAt(s, Len(s), e) \in Seq(S) /\ ReplaceAt(s, Len(s), e) # <<>>
         /\ Last(ReplaceAt(s, Len(s), e)) = e /\ Last(s) \in S
<1>1. Len(s) \in 1..Len(s)
  BY EmptySeq
<1>2. ReplaceAt(s, Len(s), e) = [s EXCEPT ![Len(s)] = e]
  BY DEF ReplaceAt
<1>3. PICK t : t = [s EXCEPT ![Len(s)] = e]
  OBVIOUS
<1>4. t \in Seq(S) /\ Len(t) = Len(s) /\ t[Len(s)] = e
  BY <1>1, <1>3
<1> QED BY <1>1, <1>2, <1>3, <1>4 DEF Last

(* A header begins a hunk (patch/index.ts:74-105).                           *)
LEMMA HunkIs ==
  ASSUME NEW type \in {"add", "delete", "update"}, NEW path \in Paths
  PROVE  Hunk(type, path) \in HunkType
  BY PatchAssumption DEF Hunk, HunkType

(* A header has a file's name, another line a text (patch/index.ts:74-178).  *)
LEMMA LineIs ==
  ASSUME NEW line \in PatchLines
  PROVE  /\ line[1] \in {"add", "delete", "update", "move", "chunk", "keep", "drop", "plus", "eof"}
         /\ line[1] \in {"add", "delete", "update", "move"} => line[2] \in Paths
         /\ line[1] \notin {"add", "delete", "update", "move"} => line[2] \in STRING
  BY DEF PatchLines

(* The hunk that is read is the last one (patch/index.ts:196-232).           *)
LEMMA WithHunkIs ==
  ASSUME NEW acc, ParseState(acc), acc.hunks # <<>>, NEW h \in HunkType
  PROVE  /\ WithHunk(acc, h) = [hunks |-> WithHunk(acc, h).hunks, mode |-> acc.mode]
         /\ WithHunk(acc, h).hunks \in Seq(HunkType) /\ WithHunk(acc, h).hunks # <<>>
         /\ Last(WithHunk(acc, h).hunks) = h
<1>1. PICK t : t = ReplaceAt(acc.hunks, Len(acc.hunks), h)
  OBVIOUS
<1>2. t \in Seq(HunkType) /\ t # <<>> /\ Last(t) = h
  BY <1>1, ReplacedLast DEF ParseState
<1>3. WithHunk(acc, h) = [hunks |-> t, mode |-> acc.mode]
  BY <1>1 DEF WithHunk, ParseState
<1> QED BY <1>2, <1>3

(* A header leaves a hunk to read lines into; a move belongs to an update    *)
(* that has just begun (patch/index.ts:74-105).                              *)
LEMMA HeaderKeeps ==
  ASSUME NEW acc, ParseState(acc), NEW line \in PatchLines, line[1] \in {"add", "delete", "update", "move"}
  PROVE  ParseState(parsePatchHeader(acc, line))
<1>1. line[2] \in Paths
  BY LineIs
<1>2. CASE line[1] = "move" /\ acc.mode = "update"
  <2>1. acc.hunks # <<>> /\ acc.hunks \in Seq(HunkType) /\ Last(acc.hunks).type = "update"
    BY <1>2 DEF ParseState
  <2>2. Last(acc.hunks) \in HunkType
    BY <2>1, ReplacedLast
  <2>3. PICK h : h = [Last(acc.hunks) EXCEPT !.move = line[2]]
    OBVIOUS
  <2>4. h \in HunkType /\ h.type = "update"
    BY <1>1, <2>1, <2>2, <2>3 DEF HunkType
  <2>5. PICK a : a = WithHunk(acc, h)
    OBVIOUS
  <2>6. a = [hunks |-> a.hunks, mode |-> acc.mode] /\ a.hunks \in Seq(HunkType) /\ a.hunks # <<>> /\ Last(a.hunks) = h
    BY <2>1, <2>4, <2>5, WithHunkIs
  <2>7. parsePatchHeader(acc, line) = [a EXCEPT !.mode = "chunks"]
    BY <1>2, <2>3, <2>5 DEF parsePatchHeader
  <2>8. parsePatchHeader(acc, line) = [hunks |-> a.hunks, mode |-> "chunks"]
    BY <2>6, <2>7
  <2> QED BY <2>4, <2>6, <2>8 DEF ParseState
<1>3. CASE line[1] = "move" /\ acc.mode # "update"
  <2>1. parsePatchHeader(acc, line) = [hunks |-> acc.hunks, mode |-> "none"]
    BY <1>3 DEF parsePatchHeader, ParseState
  <2> QED BY <2>1 DEF ParseState
<1>4. CASE line[1] # "move"
  <2>1. PICK h : h = Hunk(line[1], line[2])
    OBVIOUS
  <2>2. h \in HunkType /\ h.type = line[1]
    BY <1>1, <1>4, <2>1, HunkIs DEF Hunk
  <2>3. PICK s : s = Append(acc.hunks, h)
    OBVIOUS
  <2>4. acc.hunks \in Seq(HunkType)
    BY DEF ParseState
  <2>5. s \in Seq(HunkType) /\ s # <<>> /\ s[Len(s)] = h
    BY <2>2, <2>3, <2>4, AppendProperties
  <2>6. parsePatchHeader(acc, line) = [hunks |-> s, mode |-> line[1]]
    BY <1>4, <2>1, <2>3 DEF parsePatchHeader
  <2> QED BY <1>4, <2>2, <2>5, <2>6 DEF ParseState, Last
<1> QED BY <1>2, <1>3, <1>4

(* A line of a chunk goes into the last chunk of the last hunk               *)
(* (patch/index.ts:107-159).                                                 *)
LEMMA ChunkKeeps ==
  ASSUME NEW acc, ParseState(acc), acc.mode = "chunk", NEW script \in STRING, NEW old \in {<<>>, <<script>>},
         NEW new \in {<<>>, <<script>>}
  PROVE  LET h == Last(acc.hunks)
             c == Last(h.chunks)
             h2 == [h EXCEPT !.chunks = ReplaceAt(@, Len(@), [c EXCEPT !.old = @ \o old, !.new = @ \o new])]
         IN ParseState(WithHunk(acc, h2))
<1>1. PICK h : h = Last(acc.hunks)
  OBVIOUS
<1>2. acc.hunks \in Seq(HunkType) /\ acc.hunks # <<>> /\ h.chunks # <<>> /\ h.type = "update"
  BY <1>1 DEF ParseState
<1>3. h \in HunkType /\ h.chunks \in Seq(ChunkType)
  <2>1. h \in HunkType
    BY <1>1, <1>2, ReplacedLast
  <2> QED BY <2>1 DEF HunkType
<1>4. PICK c : c = Last(h.chunks)
  OBVIOUS
<1>5. c \in ChunkType
  BY <1>2, <1>3, <1>4, ReplacedLast
<1>6. old \in Seq(STRING) /\ new \in Seq(STRING)
  <2>1. <<script>> \in Seq(STRING) /\ <<>> \in Seq(STRING)
    OBVIOUS
  <2>2. (old = <<>> \/ old = <<script>>) /\ (new = <<>> \/ new = <<script>>)
    OBVIOUS
  <2> QED BY <2>1, <2>2, Zenon
<1>7. PICK c2 : c2 = [c EXCEPT !.old = @ \o old, !.new = @ \o new]
  OBVIOUS
<1>8. c.old \o old \in Seq(STRING) /\ c.new \o new \in Seq(STRING)
  BY <1>5, <1>6, ConcatProperties DEF ChunkType
<1>9. c2 \in ChunkType
  BY <1>5, <1>7, <1>8 DEF ChunkType
<1>10. PICK cs : cs = ReplaceAt(h.chunks, Len(h.chunks), c2)
  OBVIOUS
<1>11. cs \in Seq(ChunkType) /\ cs # <<>>
  BY <1>2, <1>3, <1>9, <1>10, ReplacedLast
<1>12. PICK h2 : h2 = [h EXCEPT !.chunks = cs]
  OBVIOUS
<1>13. h2 \in HunkType /\ h2.chunks # <<>> /\ h2.type = "update"
  BY <1>2, <1>3, <1>11, <1>12 DEF HunkType
<1>14. ParseState(WithHunk(acc, h2))
  BY <1>2, <1>13, WithHunkIs DEF ParseState
<1> QED BY <1>1, <1>4, <1>7, <1>10, <1>12, <1>14

(* A line of an update goes into a chunk, begins one or is lost              *)
(* (patch/index.ts:107-159).                                                 *)
LEMMA UpdateKeeps ==
  ASSUME NEW acc, ParseState(acc), NEW line \in PatchLines, line[1] \in {"chunk", "keep", "drop", "plus"},
         acc.mode \in {"update", "chunks", "chunk"}
  PROVE  ParseState(parseUpdateFileChunks(acc, line))
<1>1. line[2] \in STRING
  BY LineIs
<1>2. CASE line[1] = "chunk"
  <2>1. PICK h : h = Last(acc.hunks)
    OBVIOUS
  <2>2. acc.hunks \in Seq(HunkType) /\ acc.hunks # <<>> /\ h.type = "update"
    BY <2>1 DEF ParseState
  <2>3. h \in HunkType /\ h.chunks \in Seq(ChunkType)
    <3>1. h \in HunkType
      BY <2>1, <2>2, ReplacedLast
    <3> QED BY <3>1 DEF HunkType
  <2>4. Chunk(line[2]) \in ChunkType
    BY <1>1 DEF Chunk, ChunkType
  <2>5. PICK cs : cs = Append(h.chunks, Chunk(line[2]))
    OBVIOUS
  <2>6. cs \in Seq(ChunkType) /\ cs # <<>>
    BY <2>3, <2>4, <2>5, AppendProperties
  <2>7. PICK h2 : h2 = [h EXCEPT !.chunks = cs]
    OBVIOUS
  <2>8. h2 \in HunkType /\ h2.chunks # <<>> /\ h2.type = "update"
    BY <2>2, <2>3, <2>6, <2>7 DEF HunkType
  <2>9. PICK a : a = WithHunk(acc, h2)
    OBVIOUS
  <2>10. a = [hunks |-> a.hunks, mode |-> acc.mode] /\ a.hunks \in Seq(HunkType) /\ a.hunks # <<>>
         /\ Last(a.hunks) = h2
    BY <2>2, <2>8, <2>9, WithHunkIs
  <2>11. parseUpdateFileChunks(acc, line) = [a EXCEPT !.mode = "chunk"]
    BY <1>2, <2>1, <2>5, <2>7, <2>9, Zenon DEF parseUpdateFileChunks
  <2>12. parseUpdateFileChunks(acc, line) = [hunks |-> a.hunks, mode |-> "chunk"]
    BY <2>10, <2>11
  <2> QED BY <2>8, <2>10, <2>12 DEF ParseState
<1>3. CASE line[1] # "chunk" /\ acc.mode = "chunk"
  <2> DEFINE h == Last(acc.hunks)
             c == Last(h.chunks)
             Both(old, new) ==
               WithHunk(acc, [h EXCEPT !.chunks = ReplaceAt(@, Len(@), [c EXCEPT !.old = @ \o old, !.new = @ \o new])])
  <2>1. \A old, new \in {<<>>, <<line[2]>>} : ParseState(Both(old, new))
    BY <1>1, <1>3, ChunkKeeps
  <2>2. \E old, new \in {<<>>, <<line[2]>>} : parseUpdateFileChunks(acc, line) = Both(old, new)
    <3>1. CASE line[1] = "keep"
      <4>1. parseUpdateFileChunks(acc, line) = Both(<<line[2]>>, <<line[2]>>)
        BY <1>3, <3>1 DEF parseUpdateFileChunks
      <4> HIDE DEF Both
      <4> QED BY <4>1
    <3>2. CASE line[1] = "drop"
      <4>1. parseUpdateFileChunks(acc, line) = Both(<<line[2]>>, <<>>)
        BY <1>3, <3>2 DEF parseUpdateFileChunks
      <4> HIDE DEF Both
      <4> QED BY <4>1
    <3>3. CASE line[1] = "plus"
      <4>1. parseUpdateFileChunks(acc, line) = Both(<<>>, <<line[2]>>)
        BY <1>3, <3>3 DEF parseUpdateFileChunks
      <4> HIDE DEF Both
      <4> QED BY <4>1
    <3> QED BY <1>3, <3>1, <3>2, <3>3
  <2> HIDE DEF Both
  <2> QED BY <2>1, <2>2
<1>4. CASE line[1] # "chunk" /\ acc.mode # "chunk"
  <2>1. parseUpdateFileChunks(acc, line) = [acc EXCEPT !.mode = IF @ = "update" THEN "chunks" ELSE @]
    BY <1>4 DEF parseUpdateFileChunks
  <2>2. PICK mode : mode = IF acc.mode = "update" THEN "chunks" ELSE acc.mode
    OBVIOUS
  <2>3. parseUpdateFileChunks(acc, line) = [hunks |-> acc.hunks, mode |-> mode]
    BY <2>1, <2>2 DEF ParseState
  <2> QED BY <1>4, <2>2, <2>3 DEF ParseState
<1> QED BY <1>2, <1>3, <1>4

(* No line of a patch is put into a hunk or a chunk that has not begun       *)
(* (patch/index.ts:196-232).                                                 *)
LEMMA LineKeeps ==
  ASSUME NEW acc, ParseState(acc), NEW line \in PatchLines
  PROVE  ParseState(parseLine(acc, line))
<1>1. CASE line[1] \in {"add", "delete", "update", "move"}
  BY <1>1, HeaderKeeps DEF parseLine
<1>2. CASE line[1] = "eof"
  <2>1. parseLine(acc, line) = [hunks |-> acc.hunks, mode |-> "none"]
    BY <1>2 DEF parseLine, ParseState
  <2> QED BY <2>1 DEF ParseState
<1>3. CASE line[1] \in {"chunk", "keep", "drop", "plus"}
  <2>1. CASE acc.mode \in {"update", "chunks", "chunk"}
    <3>1. parseLine(acc, line) = parseUpdateFileChunks(acc, line)
      BY <1>3, <2>1 DEF parseLine
    <3> QED BY <1>3, <2>1, <3>1, UpdateKeeps
  <2>2. CASE acc.mode = "add" /\ line[1] = "plus"
    <3>1. acc.hunks \in Seq(HunkType) /\ acc.hunks # <<>> /\ line[2] \in STRING
      BY <1>3, <2>2, LineIs DEF ParseState
    <3>2. Last(acc.hunks) \in HunkType
      BY <3>1, ReplacedLast
    <3>3. PICK h : h = [Last(acc.hunks) EXCEPT !.contents = Append(@, line[2])]
      OBVIOUS
    <3>4. Append(Last(acc.hunks).contents, line[2]) \in Seq(STRING)
      BY <3>1, <3>2, AppendProperties DEF HunkType
    <3>5. h \in HunkType
      BY <3>2, <3>3, <3>4 DEF HunkType
    <3>6. parseLine(acc, line) = WithHunk(acc, h)
      BY <2>2, <3>3 DEF parseLine, parseAddFileContent
    <3> QED BY <2>2, <3>1, <3>5, <3>6, WithHunkIs DEF ParseState
  <2>3. CASE acc.mode = "add" /\ line[1] # "plus"
    BY <1>3, <2>3 DEF parseLine, parseAddFileContent
  <2>4. CASE acc.mode \in {"none", "delete"}
    BY <1>3, <2>4 DEF parseLine
  <2> QED BY <2>1, <2>2, <2>3, <2>4 DEF ParseState
<1> QED BY <1>1, <1>2, <1>3, LineIs

(* Whatever the lines of a patch, it is parsed into hunks                    *)
(* (patch/index.ts:180-235).                                                 *)
LEMMA ParsesToHunks ==
  ASSUME NEW script \in PatchTexts
  PROVE  parsePatch(script) \in Seq(HunkType)
<1>1. script \in Seq(PatchLines) /\ Len(script) \in Nat
  BY PatchAssumption
<1>2. PICK f : f = Parsed(script)
  OBVIOUS
<1>3. /\ f[0] = [hunks |-> <<>>, mode |-> "none"]
      /\ \A i \in 1..Len(script) : f[i] = parseLine(f[i - 1], script[i])
  BY <1>1, <1>2, ParsedIs
<1> DEFINE S == {i \in 0..Len(script) : ParseState(f[i])}
<1>4. 0 \in S
  <2>1. PICK acc : acc = f[0]
    OBVIOUS
  <2>2. acc = [hunks |-> <<>>, mode |-> "none"]
    BY <1>3, <2>1
  <2>3. ParseState(acc)
    BY <2>2 DEF ParseState
  <2> QED BY <1>1, <2>1, <2>3
<1>5. \A i \in 1..Len(script) : i - 1 \in S => i \in S
  BY <1>1, <1>3, LineKeeps
<1>6. Len(script) \in S
  <2>1. Len(script) \in 0..Len(script)
    BY <1>1
  <2> HIDE DEF S
  <2>2. \A i \in 0..Len(script) : i \in S
    BY <1>1, <1>4, <1>5, UpwardsTo
  <2> QED BY <2>1, <2>2
<1> QED BY <1>2, <1>6 DEF parsePatch, ParseState

\* What a hunk comes to, over the files as they were, and whether it fits.
Planned(h) ==
  [type |-> h.type,
   new |-> IF h.type = "add" THEN AddedContents(h)
           ELSE IF h.type = "delete" THEN Gone ELSE deriveNewContentsFromChunks(before[h.path], h.chunks),
   path |-> h.path, move |-> h.move]
FitsFile(h) == h.type # "add" => before[h.path] # Gone /\ (h.type = "update" => Planned(h).new # Gone)
Target(h) == IF h.move = Blank THEN h.path ELSE h.move
After(files, h) ==
  IF h.move = Blank THEN [files EXCEPT ![h.path] = Planned(h).new]
  ELSE [[files EXCEPT ![h.move] = Planned(h).new] EXCEPT ![h.path] = Gone]
IsFiles(files) == files = [p \in Paths |-> files[p]]
Due == {Planned(patch[i]) : i \in DOMAIN patch}
Upto == applyHunksToFiles(before, patch)
Touched == IF applied < Len(patch) THEN NamesOf(patch[applied + 1]) ELSE {}

\* All hunks are worked out before the first one is written, over the files
\* as they were; what is written is what the library has after as many hunks.
PatchInv ==
  /\ patch \in Seq(HunkType) /\ changes \in Seq(Due) /\ applied \in Nat
  /\ before \in [Paths -> Seq(STRING)] /\ IsFiles(disk)
  /\ step \in {"staging", "applying", "failed", "done"}
  /\ Len(changes) <= Len(patch) /\ applied <= Len(changes)
  /\ \A i \in 1..Len(changes) : changes[i] = Planned(patch[i]) /\ FitsFile(patch[i])
  /\ step = "staging" => disk = before /\ applied = 0
  /\ step \in {"applying", "done"} => Len(changes) = Len(patch) /\ patch # <<>>
  /\ step = "done" => applied = Len(patch)
  /\ Len(changes) < Len(patch) => disk = before /\ applied = 0
  /\ Separate(patch) => \A p \in Paths :
       step # "failed" \/ p \notin Touched => disk[p] = Upto[applied].files[p]

(* A hunk sets its target, removes the file it moves and leaves the others   *)
(* (patch/index.ts:469-511).                                                 *)
LEMMA AfterIs ==
  ASSUME NEW h \in HunkType, NEW files, IsFiles(files), h.move # h.path
  PROVE  /\ IsFiles(After(files, h))
         /\ \A p \in Paths \ NamesOf(h) : After(files, h)[p] = files[p]
         /\ After(files, h)[Target(h)] = Planned(h).new
<1>1. h.path \in Paths /\ h.move \in Paths \cup {Blank} /\ Blank \notin Paths
  BY PatchAssumption DEF HunkType
<1>2. PICK new : new = Planned(h).new
  OBVIOUS
<1>3. CASE h.move = Blank
  <2>1. After(files, h) = [p \in Paths |-> IF p = h.path THEN new ELSE files[p]]
    BY <1>1, <1>2, <1>3 DEF After, IsFiles
  <2> QED BY <1>1, <1>2, <1>3, <2>1 DEF IsFiles, NamesOf, Target
<1>4. CASE h.move # Blank
  <2>1. PICK g : g = [files EXCEPT ![h.move] = new]
    OBVIOUS
  <2>2. g = [p \in Paths |-> IF p = h.move THEN new ELSE files[p]]
    BY <1>1, <1>4, <2>1 DEF IsFiles
  <2>3. After(files, h) = [g EXCEPT ![h.path] = Gone]
    BY <1>2, <1>4, <2>1 DEF After
  <2>4. After(files, h) = [p \in Paths |-> IF p = h.path THEN Gone ELSE g[p]]
    BY <1>1, <2>2, <2>3
  <2>5. \A p \in Paths : After(files, h)[p] = IF p = h.path THEN Gone ELSE IF p = h.move THEN new ELSE files[p]
    BY <2>2, <2>4
  <2> QED BY <1>1, <1>2, <1>4, <2>4, <2>5 DEF IsFiles, NamesOf, Target
<1> QED BY <1>3, <1>4

(* A record whose files are set (patch/index.ts:469-511).                    *)
LEMMA FilesAreSet ==
  ASSUME NEW x, NEW y, NEW ok
  PROVE  [[files |-> x, ok |-> ok] EXCEPT !.files = y] = [files |-> y, ok |-> ok]
OBVIOUS

(* The library does with a fitting hunk what was planned, when the hunk's    *)
(* file is as it was (patch/index.ts:469-511).                               *)
LEMMA HunkApplies ==
  ASSUME NEW h \in HunkType, NEW acc, acc = [files |-> acc.files, ok |-> TRUE], acc.files[h.path] = before[h.path],
           FitsFile(h)
  PROVE  applyHunk(acc, h) = [files |-> After(acc.files, h), ok |-> TRUE]
<1>1. h.type \in {"add", "delete", "update"} /\ (h.move # Blank => h.type = "update")
  BY DEF HunkType
<1>2. PICK new : new = deriveNewContentsFromChunks(acc.files[h.path], h.chunks)
  OBVIOUS
<1>3. Planned(h).new = IF h.type = "add" THEN AddedContents(h) ELSE IF h.type = "delete" THEN Gone ELSE new
  BY <1>2 DEF Planned
<1>4. ~(~acc.ok \/ (h.type = "delete" /\ acc.files[h.path] = Gone) \/ (h.type = "update" /\ new = Gone))
  BY <1>3 DEF FitsFile
<1>5. PICK g : g = After(acc.files, h)
  OBVIOUS
<1>6. g = CASE h.type = "add" -> [acc.files EXCEPT ![h.path] = AddedContents(h)]
              [] h.type = "delete" -> [acc.files EXCEPT ![h.path] = Gone]
              [] h.type = "update" /\ h.move = Blank -> [acc.files EXCEPT ![h.path] = new]
              [] OTHER -> [[acc.files EXCEPT ![IF h.move = Blank THEN h.path
                   ELSE h.move] = new] EXCEPT ![h.path] = Gone]
  <2>1. CASE h.type = "add"
    BY <1>1, <1>3, <1>5, <2>1 DEF After
  <2>2. CASE h.type = "delete"
    BY <1>1, <1>3, <1>5, <2>2 DEF After
  <2>3. CASE h.type = "update" /\ h.move = Blank
    BY <1>3, <1>5, <2>3 DEF After
  <2>4. CASE h.type = "update" /\ h.move # Blank
    BY <1>3, <1>5, <2>4 DEF After
  <2> QED BY <1>1, <2>1, <2>2, <2>3, <2>4
<1>7. applyHunk(acc, h) = [acc EXCEPT !.files = g]
  BY <1>2, <1>4, <1>6 DEF applyHunk
<1>8. PICK files : files = acc.files
  OBVIOUS
<1>9. acc = [files |-> files, ok |-> TRUE]
  BY <1>8
<1>10. PICK yes : yes = TRUE
  OBVIOUS
<1>11. [[files |-> files, ok |-> yes] EXCEPT !.files = g] = [files |-> g, ok |-> yes]
  BY FilesAreSet
<1>12. applyHunk(acc, h) = [files |-> g, ok |-> TRUE]
  BY ONLY <1>7, <1>9, <1>10, <1>11, Zenon
<1> QED BY ONLY <1>5, <1>12

(* The names of different hunks of a separate patch are different            *)
(* (patch/index.ts:469-511).                                                 *)
LEMMA NamesDiffer ==
  ASSUME patch \in Seq(HunkType), Separate(patch), NEW i \in 1..Len(patch), NEW j \in 1..Len(patch), i # j
  PROVE  /\ patch[i] \in HunkType /\ patch[i].move # patch[i].path
         /\ patch[i].path \in NamesOf(patch[i]) /\ Target(patch[i]) \in NamesOf(patch[i])
         /\ NamesOf(patch[i]) \subseteq Paths /\ NamesOf(patch[i]) \cap NamesOf(patch[j]) = {}
<1>1. patch[i] \in HunkType /\ DOMAIN patch = 1..Len(patch)
  OBVIOUS
<1> QED BY <1>1, PatchAssumption DEF Separate, NamesOf, Target, HunkType

\* The library after n hunks: the files it has not come to are as they were,
\* and those it has are as planned over the files as they were.
LibraryAt(n) ==
  /\ Upto[n] = [files |-> Upto[n].files, ok |-> TRUE] /\ IsFiles(Upto[n].files)
  /\ \A p \in Paths : (\A i \in 1..n : p \notin NamesOf(patch[i])) => Upto[n].files[p] = before[p]
  /\ \A i \in 1..n : Upto[n].files[Target(patch[i])] = Planned(patch[i]).new

(* One more hunk of a separate patch finds its file as it was                *)
(* (patch/index.ts:469-511).                                                 *)
LEMMA LibraryGoesOn ==
  ASSUME patch \in Seq(HunkType), Separate(patch), \A i \in 1..Len(patch) : FitsFile(patch[i]),
         NEW n \in 1..Len(patch), LibraryAt(n - 1)
  PROVE  Upto[n] = [files |-> After(Upto[n - 1].files, patch[n]), ok |-> TRUE] /\ LibraryAt(n)
<1>1. PICK h : h = patch[n]
  OBVIOUS
<1>2. PICK acc : acc = Upto[n - 1]
  OBVIOUS
<1>3. h \in HunkType /\ h.move # h.path /\ h.path \in Paths /\ FitsFile(h)
  BY <1>1 DEF Separate, HunkType
<1>4. Upto[n] = applyHunk(acc, h)
  <2>1. Len(patch) \in Nat
    OBVIOUS
  <2>2. applyHunksToFiles(before, patch)[n] = applyHunk(applyHunksToFiles(before, patch)[n - 1], patch[n])
    BY <2>1, LibraryIs
  <2> QED BY <1>1, <1>2, <2>2 DEF Upto
<1>5. acc = [files |-> acc.files, ok |-> TRUE] /\ IsFiles(acc.files)
  BY <1>2 DEF LibraryAt
<1>6. \A i \in 1..(n - 1) : i \in 1..Len(patch) /\ i # n
  OBVIOUS
<1>7. \A i \in 1..(n - 1) : NamesOf(patch[i]) \cap NamesOf(h) = {} /\ Target(patch[i]) \in NamesOf(patch[i])
                           /\ NamesOf(patch[i]) \subseteq Paths
  BY <1>1, <1>6, NamesDiffer
<1>8. acc.files[h.path] = before[h.path]
  BY <1>2, <1>3, <1>7 DEF LibraryAt, NamesOf
<1>9. Upto[n] = [files |-> After(acc.files, h), ok |-> TRUE]
  BY <1>3, <1>4, <1>5, <1>8, HunkApplies
<1>10. PICK files : files = After(acc.files, h)
  OBVIOUS
<1>11. /\ IsFiles(files) /\ files[Target(h)] = Planned(h).new
       /\ \A p \in Paths \ NamesOf(h) : files[p] = acc.files[p]
  BY <1>3, <1>5, <1>10, AfterIs
<1>12. ASSUME NEW p \in Paths, \A i \in 1..n : p \notin NamesOf(patch[i])
       PROVE  files[p] = before[p]
  <2>1. p \notin NamesOf(h) /\ \A i \in 1..(n - 1) : p \notin NamesOf(patch[i])
    BY <1>1, <1>12
  <2> QED BY <1>2, <1>11, <2>1 DEF LibraryAt
<1>13. ASSUME NEW i \in 1..n PROVE files[Target(patch[i])] = Planned(patch[i]).new
  <2>1. CASE i = n
    BY <1>1, <1>11, <2>1
  <2>2. CASE i # n
    <3>1. i \in 1..(n - 1)
      BY <2>2
    <3>2. Target(patch[i]) \in Paths \ NamesOf(h)
      BY <1>7, <3>1
    <3>3. acc.files[Target(patch[i])] = Planned(patch[i]).new
      BY <1>2, <3>1 DEF LibraryAt
    <3> QED BY <1>11, <3>2, <3>3
  <2> QED BY <2>1, <2>2
<1>14. Upto[n] = [files |-> files, ok |-> TRUE]
  BY <1>9, <1>10
<1>15. LibraryAt(n)
  BY <1>11, <1>12, <1>13, <1>14 DEF LibraryAt
<1> QED BY <1>1, <1>2, <1>9, <1>15

(* The library applies every hunk of a separate patch that fits as planned   *)
(* (patch/index.ts:460-514).                                                 *)
LEMMA LibraryGoes ==
  ASSUME patch \in Seq(HunkType), patch # <<>>, Separate(patch), \A i \in 1..Len(patch) : FitsFile(patch[i]),
         before \in [Paths -> Seq(STRING)]
  PROVE  \A n \in 0..Len(patch) : LibraryAt(n)
<1> DEFINE S == {n \in 0..Len(patch) : LibraryAt(n)}
<1>1. Len(patch) \in Nat
  OBVIOUS
<1>2. Upto[0] = [files |-> before, ok |-> TRUE]
  <2>1. applyHunksToFiles(before, patch)[0] = [files |-> before, ok |-> patch # <<>>]
    BY <1>1, LibraryIs
  <2>2. patch # <<>>
    OBVIOUS
  <2> QED BY <2>1, <2>2 DEF Upto
<1>3. LibraryAt(0)
  BY <1>2 DEF LibraryAt, IsFiles
<1>4. 0 \in S
  BY <1>1, <1>3
<1>5. ASSUME NEW n \in 1..Len(patch), n - 1 \in S PROVE n \in S
  <2>1. LibraryAt(n - 1) /\ n \in 0..Len(patch)
    BY <1>1, <1>5
  <2> QED BY <2>1, LibraryGoesOn
<1>6. \A n \in 0..Len(patch) : n \in S
  <2> HIDE DEF S
  <2> QED BY ONLY <1>1, <1>4, <1>5, UpwardsTo
<1> QED BY <1>6

\* What is announced is announced of a hunk.
AnnouncedAt(n) ==
  LET map == Announcing(before, patch)[n] IN
  /\ IsFiles(map)
  /\ \A p \in Paths : map[p][1] # "none" =>
       \E i \in 1..n : /\ p = Target(patch[i])
                       /\ IF map[p][1] = "delete" THEN Planned(patch[i]).new = Gone
                               ELSE map[p][2] = Planned(patch[i]).new

(* A hunk announces of its target what is planned for it                     *)
(* (patch/index.ts:552-600).                                                 *)
LEMMA AnnouncedOnes ==
  ASSUME NEW h \in HunkType, NEW map, IsFiles(map)
  PROVE  LET next == Announced(before, map, h)
         IN /\ IsFiles(next) /\ \A p \in Paths : p # Target(h) => next[p] = map[p]
            /\ IF next[Target(h)][1] = "delete" THEN Planned(h).new = Gone ELSE next[Target(h)][2] = Planned(h).new
<1>1. h.path \in Paths /\ Target(h) \in Paths /\ h.type \in {"add", "delete", "update"}
      /\ (h.move # Blank => h.type = "update")
  BY DEF HunkType, Target
<1>2. CASE h.type = "add"
  <2>1. Announced(before, map, h) = [map EXCEPT ![Target(h)] = <<"add", AddedContents(h)>>]
    BY <1>1, <1>2 DEF Announced, Target
  <2>2. Planned(h).new = AddedContents(h)
    BY <1>2 DEF Planned
  <2>3. PICK x : x = <<"add", AddedContents(h)>>
    OBVIOUS
  <2>4. Announced(before, map, h) = [p \in Paths |-> IF p = Target(h) THEN x ELSE map[p]]
    BY <2>1, <2>3 DEF IsFiles
  <2> QED BY <1>1, <2>2, <2>3, <2>4 DEF IsFiles
<1>3. CASE h.type = "delete"
  <2>1. Announced(before, map, h) = [map EXCEPT ![Target(h)] = <<"delete", before[h.path]>>]
    BY <1>1, <1>3 DEF Announced, Target
  <2>2. Planned(h).new = Gone
    BY <1>3 DEF Planned
  <2>3. PICK x : x = <<"delete", before[h.path]>>
    OBVIOUS
  <2>4. Announced(before, map, h) = [p \in Paths |-> IF p = Target(h) THEN x ELSE map[p]]
    BY <2>1, <2>3 DEF IsFiles
  <2> QED BY <1>1, <2>2, <2>3, <2>4 DEF IsFiles
<1>4. CASE h.type = "update"
  <2>1. PICK new : new = deriveNewContentsFromChunks(before[h.path], h.chunks)
    OBVIOUS
  <2>2. Announced(before, map, h) = [map EXCEPT ![Target(h)] = <<"update", new>>]
    BY <1>1, <1>4, <2>1 DEF Announced, Target
  <2>3. Planned(h).new = new
    BY <1>4, <2>1 DEF Planned
  <2>4. PICK x : x = <<"update", new>>
    OBVIOUS
  <2>5. Announced(before, map, h) = [p \in Paths |-> IF p = Target(h) THEN x ELSE map[p]]
    BY <2>2, <2>4 DEF IsFiles
  <2> QED BY <1>1, <2>3, <2>4, <2>5 DEF IsFiles
<1> QED BY <1>1, <1>2, <1>3, <1>4

(* Everything announced is planned for some hunk (patch/index.ts:523-621).   *)
LEMMA AnnouncedIsPlanned ==
  ASSUME patch \in Seq(HunkType)
  PROVE  AnnouncedAt(Len(patch))
<1> DEFINE S == {n \in 0..Len(patch) : AnnouncedAt(n)}
<1>1. Len(patch) \in Nat
  OBVIOUS
<1>2. PICK f : f = Announcing(before, patch)
  OBVIOUS
<1>3. /\ f[0] = [p \in Paths |-> <<"none", Gone>>]
      /\ \A i \in 1..Len(patch) : f[i] = Announced(before, f[i - 1], patch[i])
  <2>1. /\ Announcing(before, patch)[0] = [p \in Paths |-> <<"none", Gone>>]
        /\ \A i \in 1..Len(patch) : Announcing(before, patch)[i] = Announced(before, Announcing(before, patch)[i - 1],
             patch[i])
    BY ONLY <1>1, AnnouncingIs
  <2> QED BY ONLY <1>2, <2>1, Zenon
<1>4. AnnouncedAt(0)
  BY <1>2, <1>3 DEF AnnouncedAt, IsFiles
<1>5. 0 \in S
  BY <1>1, <1>4
<1>6. ASSUME NEW n \in 1..Len(patch), AnnouncedAt(n - 1) PROVE AnnouncedAt(n)
  <2>1. PICK map : map = f[n - 1]
    OBVIOUS
  <2>2. PICK h : h = patch[n]
    OBVIOUS
  <2>3. PICK next : next = f[n]
    OBVIOUS
  <2>4. h \in HunkType /\ next = Announced(before, map, h)
    BY <1>3, <2>1, <2>2, <2>3
  <2>5. IsFiles(map)
    BY <1>2, <1>6, <2>1 DEF AnnouncedAt
  <2>6. /\ IsFiles(next) /\ \A p \in Paths : p # Target(h) => next[p] = map[p]
        /\ IF next[Target(h)][1] = "delete" THEN Planned(h).new = Gone ELSE next[Target(h)][2] = Planned(h).new
    BY <2>4, <2>5, AnnouncedOnes
  <2>7. ASSUME NEW p \in Paths, next[p][1] # "none"
        PROVE  \E i \in 1..n : /\ p = Target(patch[i])
                 /\ IF next[p][1] = "delete" THEN Planned(patch[i]).new = Gone ELSE next[p][2] = Planned(patch[i]).new
    <3>1. CASE p = Target(h)
      BY <2>2, <2>6, <3>1
    <3>2. CASE p # Target(h)
      <4>1. next[p] = map[p]
        BY <2>6, <3>2
      <4>2. PICK i \in 1..(n - 1) : /\ p = Target(patch[i])
              /\ IF map[p][1] = "delete" THEN Planned(patch[i]).new = Gone ELSE map[p][2] = Planned(patch[i]).new
        BY <1>2, <1>6, <2>1, <2>7, <4>1 DEF AnnouncedAt
      <4>3. i \in 1..n
        OBVIOUS
      <4> QED BY <4>1, <4>2, <4>3
    <3> QED BY <3>1, <3>2
  <2> QED BY <1>2, <2>3, <2>6, <2>7 DEF AnnouncedAt
<1>7. \A n \in 1..Len(patch) : n - 1 \in S => n \in S
  BY <1>1, <1>6
<1>8. Len(patch) \in S
  <2>1. Len(patch) \in 0..Len(patch)
    BY <1>1
  <2> HIDE DEF S
  <2>2. \A i \in 0..Len(patch) : i \in S
    BY ONLY <1>1, <1>5, <1>7, UpwardsTo
  <2> QED BY <2>1, <2>2
<1> QED BY <1>8

(* A parsed patch begins with nothing worked out or written                  *)
(* (tool/patch.ts:21-33).                                                    *)
LEMMA PatchBegins == PatchInit => PatchInv
<1> SUFFICES ASSUME PatchInit PROVE PatchInv
  OBVIOUS
<1>1. patch \in Seq(HunkType)
  BY ParsesToHunks DEF PatchInit
<1>2. Gone \in Seq(STRING)
  BY DEF Gone
<1>3. disk \in [Paths -> Contents0 \cup {Gone}] /\ before = disk
  BY DEF PatchInit
<1>4. \A p \in Paths : disk[p] \in Seq(STRING)
  BY <1>2, <1>3, PatchAssumption
<1>5. before \in [Paths -> Seq(STRING)] /\ IsFiles(disk)
  BY <1>3, <1>4 DEF IsFiles
<1>6. changes = <<>> /\ Len(changes) = 0 /\ applied = 0 /\ step = "staging" /\ changes \in Seq(Due)
  BY DEF PatchInit
<1>7. Len(patch) \in Nat
  BY <1>1
<1>8. Upto[0].files = before
  <2>1. applyHunksToFiles(before, patch)[0] = [files |-> before, ok |-> patch # <<>>]
    BY <1>7, LibraryIs
  <2> QED BY <2>1 DEF Upto
<1> QED BY <1>1, <1>3, <1>5, <1>6, <1>7, <1>8 DEF PatchInv

(* The plan depends only on the patch and the files as they were             *)
(* (tool/patch.ts:48-133).                                                   *)
LEMMA SamePatch ==
  ASSUME UNCHANGED <<before, patch>>
  PROVE  /\ Upto' = Upto /\ Due' = Due /\ Separate(patch)' = Separate(patch) /\ Separate(patch') = Separate(patch)
         /\ \A h : Planned(h)' = Planned(h) /\ FitsFile(h)' = FitsFile(h)
         /\ applied' = applied => Touched' = Touched
  BY DEF Upto, Due, Planned, FitsFile, Touched

(* While hunks are worked out the files are as they were                     *)
(* (tool/patch.ts:48-133).                                                   *)
LEMMA StagingIs ==
  ASSUME PatchInv, step = "staging"
  PROVE  disk = before /\ applied = 0 /\ \A h : Change(h) = Planned(h)
  BY DEF PatchInv, Change, Planned

(* A patch that is refused or does not fit has written nothing               *)
(* (tool/patch.ts:35-64).                                                    *)
LEMMA PatchFailsKeeps == PatchInv /\ step = "staging" /\ PatchFails => PatchInv'
<1> SUFFICES ASSUME PatchInv, step = "staging", PatchFails PROVE PatchInv'
  OBVIOUS
<1>1. step' = "failed" /\ UNCHANGED <<disk, before, patch, changes, applied>>
  BY DEF PatchFails
<1> QED BY <1>1, SamePatch DEF PatchInv, IsFiles

(* A hunk that is worked out is the planned one (tool/patch.ts:48-133).      *)
LEMMA StageHunkKeeps == PatchInv /\ StageHunk => PatchInv'
<1> SUFFICES ASSUME PatchInv, StageHunk PROVE PatchInv'
  OBVIOUS
<1>1. PICK h : h = patch[Len(changes) + 1]
  OBVIOUS
<1>2. step = "staging" /\ Len(changes) < Len(patch)
  BY DEF StageHunk
<1>3. CASE PatchFails
  BY <1>2, <1>3, PatchFailsKeeps
<1>4. CASE ~PatchFails
  <2>1. ~(h.type # "add" /\ (disk[h.path] = Gone \/ (h.type = "update" /\ Change(h).new = Gone)))
        /\ changes' = Append(changes, Change(h)) /\ UNCHANGED <<disk, before, patch, applied, step>>
    BY <1>1, <1>4 DEF StageHunk
  <2>2. disk = before /\ applied = 0 /\ Change(h) = Planned(h)
    BY <1>2, StagingIs
  <2>3. FitsFile(h)
    BY <2>1, <2>2 DEF FitsFile
  <2>4. patch \in Seq(HunkType) /\ changes \in Seq(Due) /\ Len(changes) \in Nat /\ Len(patch) \in Nat
    BY DEF PatchInv
  <2>5. Len(changes) + 1 \in DOMAIN patch
    BY <1>2, <2>4
  <2>6. Planned(h) \in Due
    BY <1>1, <2>5 DEF Due
  <2>7. /\ changes' \in Seq(Due) /\ Len(changes') = Len(changes) + 1 /\ changes'[Len(changes) + 1] = Planned(h)
        /\ \A i \in 1..Len(changes) : changes'[i] = changes[i]
    BY <2>1, <2>2, <2>4, <2>6, AppendProperties
  <2>8. \A i \in 1..Len(changes') : changes'[i] = Planned(patch[i]) /\ FitsFile(patch[i])
    <3> TAKE i \in 1..Len(changes')
    <3>1. CASE i = Len(changes) + 1
      BY <1>1, <2>3, <2>7, <3>1
    <3>2. CASE i # Len(changes) + 1
      <4>1. i \in 1..Len(changes)
        BY <2>4, <2>7, <3>2
      <4> QED BY <2>7, <4>1 DEF PatchInv
    <3> QED BY <3>1, <3>2
  <2>9. \A i \in 1..Len(changes') : changes'[i] = Planned(patch[i])' /\ FitsFile(patch[i])'
    BY <2>1, <2>8 DEF Planned, FitsFile
  <2>10. Upto' = Upto /\ Due' = Due /\ Touched' = Touched /\ Separate(patch') = Separate(patch)
    BY <2>1, SamePatch
  <2>11. Len(changes') <= Len(patch') /\ applied' <= Len(changes')
    BY <1>2, <2>1, <2>2, <2>4, <2>7
  <2>12. Separate(patch') => \A p \in Paths : disk'[p] = Upto'[applied'].files[p]
    BY <1>2, <2>1, <2>10 DEF PatchInv
  <2> QED BY <1>2, <2>1, <2>2, <2>7, <2>9, <2>10, <2>11, <2>12 DEF PatchInv, IsFiles
<1> QED BY <1>3, <1>4

(* Nothing is asked before all hunks are worked out (tool/patch.ts:135-143). *)
LEMMA AskToEditKeeps == PatchInv /\ AskToEdit => PatchInv'
<1> SUFFICES ASSUME PatchInv, AskToEdit PROVE PatchInv'
  OBVIOUS
<1>1. step = "staging" /\ step' = "applying" /\ patch # <<>> /\ Len(changes) = Len(patch)
      /\ UNCHANGED <<disk, before, patch, changes, applied>>
  BY DEF AskToEdit
<1> QED BY <1>1, SamePatch DEF PatchInv, IsFiles

(* Before the end of the writing there is a next hunk, planned and fitting   *)
(* (tool/patch.ts:148-191).                                                  *)
LEMMA NextChange ==
  ASSUME PatchInv, step = "applying", applied < Len(changes)
  PROVE  /\ patch[applied + 1] \in HunkType /\ changes[applied + 1] = Planned(patch[applied + 1])
         /\ Len(changes) = Len(patch) /\ patch # <<>> /\ Touched = NamesOf(patch[applied + 1])
         /\ applied \in 0..Len(patch) /\ applied + 1 \in 1..Len(patch)
<1>1. patch \in Seq(HunkType) /\ Len(changes) = Len(patch) /\ patch # <<>> /\ applied \in Nat /\ Len(patch) \in Nat
  BY DEF PatchInv
<1>2. applied + 1 \in 1..Len(changes) /\ applied + 1 \in 1..Len(patch)
  BY <1>1
<1> QED BY <1>1, <1>2 DEF PatchInv, Touched

(* A change that is written is what the library does with its hunk           *)
(* (tool/patch.ts:148-191).                                                  *)
LEMMA ApplyChangeKeeps == PatchInv /\ ApplyChange => PatchInv'
<1> SUFFICES ASSUME PatchInv, ApplyChange PROVE PatchInv'
  OBVIOUS
<1>1. PICK h : h = patch[applied + 1]
  OBVIOUS
<1>2. step = "applying" /\ applied < Len(changes) /\ applied' = applied + 1 /\ UNCHANGED <<before, patch, changes,
                             step>>
  BY DEF ApplyChange
<1>3. /\ h \in HunkType /\ changes[applied + 1] = Planned(h) /\ Len(changes) = Len(patch) /\ patch # <<>>
      /\ applied \in 0..Len(patch) /\ applied + 1 \in 1..Len(patch)
  BY <1>1, <1>2, NextChange
<1>4. Planned(h).move = h.move /\ Planned(h).path = h.path
  BY DEF Planned
<1>5. disk' = After(disk, h)
  <2>1. CASE h.move = Blank
    BY <1>3, <1>4, <2>1 DEF ApplyChange, Written, After
  <2>2. CASE h.move # Blank
    BY <1>3, <1>4, <2>2 DEF ApplyChange, Written, After
  <2> QED BY <2>1, <2>2
<1>6. IsFiles(disk')
  <2>1. PICK files : files = After(disk, h)
    OBVIOUS
  <2>2. PICK g : g = [disk EXCEPT ![h.move] = Planned(h).new]
    OBVIOUS
  <2>3. IsFiles(disk)
    BY DEF PatchInv
  <2>4. g = [p \in Paths |-> g[p]]
    BY <2>2, <2>3 DEF IsFiles
  <2>5. files = [p \in Paths |-> files[p]]
    <3>1. CASE h.move = Blank
      BY <2>1, <2>3, <3>1 DEF After, IsFiles
    <3>2. CASE h.move # Blank
      <4>1. files = [g EXCEPT ![h.path] = Gone]
        BY <2>1, <2>2, <3>2 DEF After
      <4> QED BY <2>4, <4>1
    <3> QED BY <3>1, <3>2
  <2> QED BY <1>5, <2>1, <2>5 DEF IsFiles
<1>7. ASSUME Separate(patch), NEW p \in Paths PROVE disk'[p] = Upto[applied + 1].files[p]
  <2>1. patch \in Seq(HunkType) /\ before \in [Paths -> Seq(STRING)] /\ IsFiles(disk)
    BY DEF PatchInv
  <2>2. \A i \in 1..Len(patch) : FitsFile(patch[i])
    BY <1>3 DEF PatchInv
  <2>3. LibraryAt(applied)
    BY <1>3, <1>7, <2>1, <2>2, LibraryGoes
  <2>4. (applied + 1) - 1 = applied
    BY <1>3
  <2>5. Upto[applied + 1] = [files |-> After(Upto[applied].files, h), ok |-> TRUE]
    BY <1>1, <1>3, <1>7, <2>1, <2>2, <2>3, <2>4, LibraryGoesOn
  <2>6. \A q \in Paths : disk[q] = Upto[applied].files[q]
    BY <1>2, <1>7 DEF PatchInv
  <2>7. disk = Upto[applied].files
    BY <2>1, <2>3, <2>6 DEF IsFiles, LibraryAt
  <2> QED BY <1>5, <2>5, <2>7
<1>8. Upto' = Upto /\ Due' = Due /\ Separate(patch') = Separate(patch)
      /\ \A g : Planned(g)' = Planned(g) /\ FitsFile(g)' = FitsFile(g)
  BY <1>2, SamePatch
<1>9. applied' \in Nat /\ applied' <= Len(changes') /\ Len(changes') = Len(patch')
  BY <1>2, <1>3
<1>10. \A i \in 1..Len(changes') : changes'[i] = Planned(patch[i])' /\ FitsFile(patch[i])'
  BY <1>2, <1>8 DEF PatchInv
<1>11. Separate(patch') => \A p \in Paths : disk'[p] = Upto'[applied'].files[p]
  BY <1>2, <1>7, <1>8
<1> QED BY <1>2, <1>3, <1>6, <1>8, <1>9, <1>10, <1>11 DEF PatchInv

(* A change that fails has touched no file but its own                       *)
(* (tool/patch.ts:156-180).                                                  *)
LEMMA WriteFailsKeeps == PatchInv /\ WriteFails => PatchInv'
<1> SUFFICES ASSUME PatchInv, WriteFails PROVE PatchInv'
  OBVIOUS
<1>1. PICK h : h = patch[applied + 1]
  OBVIOUS
<1>2. step = "applying" /\ applied < Len(changes) /\ step' = "failed" /\ UNCHANGED <<before, patch, changes, applied>>
  BY DEF WriteFails
<1>3. /\ h \in HunkType /\ changes[applied + 1] = Planned(h) /\ Len(changes) = Len(patch) /\ patch # <<>>
      /\ Touched = NamesOf(h)
  BY <1>1, <1>2, NextChange
<1>4. Planned(h).move = h.move
  BY DEF Planned
<1>5. disk' = disk \/ (h.move # Blank /\ disk' = [disk EXCEPT ![h.move] = Planned(h).new])
  BY <1>3, <1>4 DEF WriteFails, Written
<1>6. IsFiles(disk') /\ \A p \in Paths \ Touched : disk'[p] = disk[p]
  <2>1. IsFiles(disk)
    BY DEF PatchInv
  <2>2. CASE disk' = disk
    BY <2>1, <2>2 DEF IsFiles
  <2>3. CASE h.move # Blank /\ disk' = [disk EXCEPT ![h.move] = Planned(h).new]
    <3>1. h.move \in NamesOf(h)
      BY <2>3 DEF NamesOf
    <3>2. disk' = [p \in Paths |-> IF p = h.move THEN Planned(h).new ELSE disk[p]]
      BY <2>1, <2>3 DEF IsFiles
    <3>3. \A p \in Paths : disk'[p] = IF p = h.move THEN Planned(h).new ELSE disk[p]
      BY <3>2
    <3> QED BY <1>3, <3>1, <3>2, <3>3 DEF IsFiles
  <2> QED BY <1>5, <2>2, <2>3
<1>7. /\ Upto' = Upto /\ Due' = Due /\ Separate(patch') = Separate(patch) /\ Touched' = Touched
      /\ \A g : Planned(g)' = Planned(g) /\ FitsFile(g)' = FitsFile(g)
  BY <1>2, SamePatch
<1>8. \A i \in 1..Len(changes') : changes'[i] = Planned(patch[i])' /\ FitsFile(patch[i])'
  BY <1>2, <1>7 DEF PatchInv
<1>9. Separate(patch') => \A p \in Paths : p \notin Touched' => disk'[p] = Upto'[applied'].files[p]
  BY <1>2, <1>6, <1>7 DEF PatchInv
<1> QED BY <1>2, <1>3, <1>6, <1>7, <1>8, <1>9 DEF PatchInv

(* A patch is done when all of it is written (tool/patch.ts:192-209).        *)
LEMMA PatchDoneKeeps == PatchInv /\ PatchDone => PatchInv'
<1> SUFFICES ASSUME PatchInv, PatchDone PROVE PatchInv'
  OBVIOUS
<1>1. step = "applying" /\ step' = "done" /\ applied = Len(changes) /\ UNCHANGED <<disk, before, patch, changes,
                             applied>>
  BY DEF PatchDone
<1> QED BY <1>1, SamePatch DEF PatchInv, IsFiles

(* Every step keeps the invariant (tool/patch.ts:21-209).                    *)
LEMMA PatchStepKeeps == PatchInv /\ [PatchNext]_patchVars => PatchInv'
<1> SUFFICES ASSUME PatchInv, [PatchNext]_patchVars PROVE PatchInv'
  OBVIOUS
<1>1. CASE UNCHANGED patchVars
  BY <1>1, SamePatch DEF patchVars, PatchInv, IsFiles
<1>2. CASE PatchNext
  BY <1>2, PatchFailsKeeps, StageHunkKeeps, AskToEditKeeps, ApplyChangeKeeps, WriteFailsKeeps, PatchDoneKeeps
  DEF PatchNext, NothingFound, Refused
<1> QED BY <1>1, <1>2

Strings == Seq(STRING)

(* A pattern that is found is at the place, and that is not before the start *)
(* (patch/index.ts:410-430).                                                 *)
LEMMA SeekIs ==
  ASSUME NEW lines \in Strings, NEW pattern \in Strings, NEW start \in Nat, start >= 1,
         NEW i, i = seekSequence(lines, pattern, start), i # 0
  PROVE  /\ i \in Nat /\ start <= i /\ i + Len(pattern) - 1 <= Len(lines) /\ pattern # <<>>
         /\ SubSeq(lines, i, i + Len(pattern) - 1) = pattern
<1> DEFINE found == {j \in start..(Len(lines) - Len(pattern) + 1) : SubSeq(lines, j, j + Len(pattern) - 1) = pattern}
<1>1. pattern # <<>> /\ found # {} /\ i = CHOOSE j \in found : \A k \in found : j <= k
  BY DEF seekSequence
<1>2. Len(lines) \in Nat /\ Len(pattern) \in Nat
  BY DEF Strings
<1>3. found \in SUBSET Nat
  BY <1>2
<1>4. \E j \in found : \A k \in found : j <= k
  <2> HIDE DEF found
  <2> QED BY <1>1, <1>3, LeastOf
<1>5. i \in found
  <2> HIDE DEF found
  <2> QED BY <1>1, <1>4
<1>6. SubSeq(lines, i, i + Len(pattern) - 1) = pattern /\ i \in start..(Len(lines) - Len(pattern) + 1)
  BY <1>5
<1> HIDE DEF found
<1> QED BY <1>1, <1>2, <1>6

\* One more chunk that is found goes behind the one before, or to the end.
Fit(lines, c, from, to, r) ==
  /\ from \in Nat /\ to \in Nat /\ 1 <= from /\ from <= to
  /\ IF c.old = <<>> THEN r = [at |-> Len(lines) + 1, len |-> 0, new |-> c.new]
     ELSE /\ r = [at |-> r.at, len |-> Len(c.old), new |-> c.new] /\ r.at \in Nat /\ from <= r.at
          /\ r.at + Len(c.old) = to /\ to <= Len(lines) + 1 /\ SubSeq(lines, r.at, to - 1) = c.old
Replacement == [at : Nat, len : Nat, new : Strings]
Shaped(acc) == acc = [list |-> acc.list, index |-> acc.index, ok |-> TRUE]
Failed(acc) == acc = [list |-> acc.list, index |-> acc.index, ok |-> FALSE]

(* A sequence of replacements with one more (patch/index.ts:357-382).        *)
LEMMA Appended ==
  ASSUME NEW acc, Shaped(acc), NEW i, NEW r
  PROVE  [acc EXCEPT !.index = i, !.list = Append(@, r)] = [list |-> Append(acc.list, r), index |-> i, ok |-> TRUE]
<1>1. PICK list : list = acc.list
  OBVIOUS
<1>2. PICK index : index = acc.index
  OBVIOUS
<1>3. PICK l : l = Append(list, r)
  OBVIOUS
<1>4. acc = [list |-> list, index |-> index, ok |-> TRUE]
  BY <1>1, <1>2 DEF Shaped
<1>5. PICK yes : yes = TRUE
  OBVIOUS
<1>6. acc = [list |-> list, index |-> index, ok |-> yes]
  BY ONLY <1>4, <1>5, Zenon
<1>7. PICK a : a = [acc EXCEPT !.index = i]
  OBVIOUS
<1>8. a = [list |-> list, index |-> i, ok |-> yes]
  BY ONLY <1>6, <1>7
<1>9. PICK b : b = [a EXCEPT !.list = l]
  OBVIOUS
<1>10. b = [list |-> l, index |-> i, ok |-> yes]
  BY ONLY <1>8, <1>9
<1>11. b = [list |-> Append(acc.list, r), index |-> i, ok |-> TRUE]
  BY ONLY <1>1, <1>3, <1>5, <1>10, Zenon
<1>12. [acc EXCEPT !.index = i, !.list = Append(@, r)] = b
  BY ONLY <1>1, <1>3, <1>7, <1>9
<1> QED BY ONLY <1>11, <1>12

(* A chunk that is found lies behind the one before it, one without old      *)
(* lines goes to the end (patch/index.ts:343-383).                           *)
LEMMA ChunkIsFound ==
  ASSUME NEW lines \in Strings, ~EndsBlank(lines), NEW c \in ChunkType, ~EndsBlank(c.old),
         NEW acc, Shaped(acc), acc.list \in Seq(Replacement), acc.index \in Nat, 1 <= acc.index,
         NEW next, next = computeReplacement(lines, acc, c), ~Failed(next)
  PROVE  /\ Shaped(next)
         /\ \E r \in Replacement : next.list = Append(acc.list, r) /\ Fit(lines, c, acc.index, next.index, r)
<1> DEFINE context == seekSequence(lines, <<c.context>>, acc.index)
           from == IF c.context = Blank THEN acc.index ELSE context + 1
           at == seekSequence(lines, c.old, from)
<1>1. Len(lines) \in Nat /\ c.old \in Strings /\ c.new \in Strings /\ c.context \in STRING /\ Len(c.old) \in Nat
      /\ <<c.context>> \in Strings
  BY DEF Strings, ChunkType
<1>2. next # [acc EXCEPT !.ok = FALSE]
  <2>1. PICK a : a = [acc EXCEPT !.ok = FALSE]
    OBVIOUS
  <2>2. a = [list |-> acc.list, index |-> acc.index, ok |-> FALSE]
    BY <2>1 DEF Shaped
  <2>3. Failed(a)
    BY <2>2 DEF Failed
  <2> QED BY <2>1, <2>3
<1>3. next = IF ~acc.ok \/ (c.context # Blank /\ context = 0) THEN [acc EXCEPT !.ok = FALSE]
             ELSE IF c.old = <<>>
             THEN [acc EXCEPT !.index = from, !.list = Append(@, [at |-> Len(lines) + 1, len |-> 0, new |-> c.new])]
             ELSE IF at = 0 THEN [acc EXCEPT !.ok = FALSE]
             ELSE [acc EXCEPT !.index = at + Len(c.old), !.list = Append(@, [at |-> at, len |-> Len(c.old), new |-> c.new])]
  BY DEF computeReplacement
<1>4. ~(c.context # Blank /\ context = 0)
  BY <1>2, <1>3
<1>5. from \in Nat /\ acc.index <= from
  <2>1. CASE c.context = Blank
    BY <2>1
  <2>2. CASE c.context # Blank
    <3>1. PICK i : i = context
      OBVIOUS
    <3>2. i # 0
      BY <1>4, <2>2, <3>1
    <3>3. i \in Nat /\ acc.index <= i
      <4> HIDE DEF context
      <4> QED BY <1>1, <3>1, <3>2, SeekIs DEF context
    <3>4. from = i + 1
      BY <2>2, <3>1
    <3> QED BY <3>3, <3>4
  <2> QED BY <2>1, <2>2
<1>6. PICK f : f = from
  OBVIOUS
<1>7. CASE c.old = <<>>
  <2>1. PICK r : r = [at |-> Len(lines) + 1, len |-> 0, new |-> c.new]
    OBVIOUS
  <2>2. next = [acc EXCEPT !.index = f, !.list = Append(@, r)]
    BY <1>3, <1>4, <1>6, <1>7, <2>1 DEF Shaped
  <2>3. next = [list |-> Append(acc.list, r), index |-> f, ok |-> TRUE]
    BY <2>2, Appended, Zenon
  <2>4. r \in Replacement
    BY <1>1, <2>1 DEF Replacement
  <2>5. Fit(lines, c, acc.index, f, r)
    BY <1>5, <1>6, <1>7, <2>1 DEF Fit
  <2> QED BY <2>3, <2>4, <2>5 DEF Shaped
<1>8. CASE c.old # <<>>
  <2>1. PICK i : i = at
    OBVIOUS
  <2>2. i # 0
    BY <1>2, <1>3, <1>4, <1>8, <2>1 DEF Shaped
  <2>3. /\ i \in Nat /\ f <= i /\ i + Len(c.old) - 1 <= Len(lines)
        /\ SubSeq(lines, i, i + Len(c.old) - 1) = c.old
    <3>1. f \in Nat /\ f >= 1 /\ i = seekSequence(lines, c.old, f)
      BY <1>5, <1>6, <2>1
    <3>2. c.old \in Strings /\ lines \in Strings
      BY <1>1
    <3>3. PICK old : old = c.old
      OBVIOUS
    <3>4. old \in Strings /\ i = seekSequence(lines, old, f)
      BY ONLY <3>1, <3>2, <3>3
    <3>5. /\ i \in Nat /\ f <= i /\ i + Len(old) - 1 <= Len(lines)
          /\ SubSeq(lines, i, i + Len(old) - 1) = old
      BY ONLY <2>2, <3>1, <3>2, <3>4, SeekIs
    <3> QED BY ONLY <3>3, <3>5
  <2>4. PICK r : r = [at |-> i, len |-> Len(c.old), new |-> c.new]
    OBVIOUS
  <2>5. next = [acc EXCEPT !.index = i + Len(c.old), !.list = Append(@, r)]
    BY <1>3, <1>4, <1>8, <2>1, <2>2, <2>4 DEF Shaped
  <2>6. next = [list |-> Append(acc.list, r), index |-> i + Len(c.old), ok |-> TRUE]
    BY <2>5, Appended, Zenon
  <2>7. r \in Replacement
    BY <1>1, <2>3, <2>4 DEF Replacement
  <2>8. Fit(lines, c, acc.index, i + Len(c.old), r)
    BY <1>1, <1>5, <1>6, <1>8, <2>3, <2>4 DEF Fit
  <2> QED BY <2>6, <2>7, <2>8 DEF Shaped
<1> QED BY <1>7, <1>8

(* After a chunk that is not found nothing is (patch/index.ts:343-383).      *)
LEMMA FailureStays ==
  ASSUME NEW lines, NEW acc, NEW c, Failed(acc)
  PROVE  Failed(computeReplacement(lines, acc, c))
<1>1. computeReplacement(lines, acc, c) = [acc EXCEPT !.ok = FALSE]
  BY DEF computeReplacement, Failed
<1>2. PICK next : next = [acc EXCEPT !.ok = FALSE]
  OBVIOUS
<1>3. next = [list |-> acc.list, index |-> acc.index, ok |-> FALSE]
  BY <1>2 DEF Failed
<1> QED BY <1>1, <1>2, <1>3 DEF Failed

\* After n chunks: the last one was not found, or each of the n is.
SoughtAt(lines, chunks, f, n) ==
  \/ Failed(f[n])
  \/ /\ Shaped(f[n]) /\ f[n].list \in Seq(Replacement) /\ Len(f[n].list) = n /\ f[n].index \in Nat /\ 1 <= f[n].index
     /\ \A i \in 1..n : Fit(lines, chunks[i], f[i - 1].index, f[i].index, f[n].list[i])

(* The chunks are found in their order, each behind the one before           *)
(* (patch/index.ts:335-389).                                                 *)
LEMMA ChunksAreFound ==
  ASSUME NEW lines \in Strings, ~EndsBlank(lines), NEW chunks \in Seq(ChunkType),
         \A i \in 1..Len(chunks) : ~EndsBlank(chunks[i].old)
  PROVE  SoughtAt(lines, chunks, Sought(lines, chunks), Len(chunks))
<1>1. Len(chunks) \in Nat
  OBVIOUS
<1>2. PICK f : f = Sought(lines, chunks)
  OBVIOUS
<1>3. /\ f[0] = [list |-> <<>>, index |-> 1, ok |-> TRUE]
      /\ \A i \in 1..Len(chunks) : f[i] = computeReplacement(lines, f[i - 1], chunks[i])
  BY <1>1, <1>2, SoughtIs
<1> DEFINE S == {n \in 0..Len(chunks) : SoughtAt(lines, chunks, f, n)}
<1>4. 0 \in S
  <2>1. PICK acc : acc = f[0]
    OBVIOUS
  <2>2. acc = [list |-> <<>>, index |-> 1, ok |-> TRUE]
    BY <1>3, <2>1
  <2>3. acc.list = <<>> /\ acc.index = 1 /\ Shaped(acc)
    BY <2>2, Zenon DEF Shaped
  <2>4. SoughtAt(lines, chunks, f, 0)
    BY <2>1, <2>3 DEF SoughtAt
  <2> QED BY <1>1, <2>4
<1>5. ASSUME NEW n \in 1..Len(chunks), SoughtAt(lines, chunks, f, n - 1) PROVE SoughtAt(lines, chunks, f, n)
  <2>1. PICK acc : acc = f[n - 1]
    OBVIOUS
  <2>2. PICK next : next = f[n]
    OBVIOUS
  <2>3. PICK c : c = chunks[n]
    OBVIOUS
  <2>4. next = computeReplacement(lines, acc, c) /\ c \in ChunkType /\ ~EndsBlank(c.old)
    BY <1>3, <2>1, <2>2, <2>3
  <2>5. CASE Failed(next)
    BY <2>2, <2>5 DEF SoughtAt
  <2>6. CASE ~Failed(next)
    <3>1. ~Failed(acc)
      BY <2>4, <2>6, FailureStays
    <3>2. /\ Shaped(acc) /\ acc.list \in Seq(Replacement) /\ Len(acc.list) = n - 1 /\ acc.index \in Nat /\ 1 <= acc.index
          /\ \A i \in 1..(n - 1) : Fit(lines, chunks[i], f[i - 1].index, f[i].index, acc.list[i])
      BY <1>5, <2>1, <3>1 DEF SoughtAt
    <3>3. Shaped(next) /\ \E r \in Replacement : next.list = Append(acc.list, r) /\ Fit(lines, c, acc.index,
                            next.index, r)
      BY <2>4, <2>6, <3>2, ChunkIsFound
    <3>4. PICK r \in Replacement : next.list = Append(acc.list, r) /\ Fit(lines, c, acc.index, next.index, r)
      BY <3>3
    <3>5. PICK list : list = next.list
      OBVIOUS
    <3>6. /\ list \in Seq(Replacement) /\ Len(list) = (n - 1) + 1 /\ list[(n - 1) + 1] = r
          /\ \A i \in 1..(n - 1) : list[i] = acc.list[i]
      BY <3>2, <3>4, <3>5, AppendProperties
    <3>7. (n - 1) + 1 = n
      OBVIOUS
    <3>8. next.index \in Nat /\ 1 <= next.index
      BY <3>4 DEF Fit
    <3>9. ASSUME NEW i \in 1..n PROVE Fit(lines, chunks[i], f[i - 1].index, f[i].index, list[i])
      <4>1. CASE i = n
        BY <2>1, <2>2, <2>3, <3>4, <3>6, <3>7, <4>1
      <4>2. CASE i # n
        <5>1. i \in 1..(n - 1)
          BY <4>2
        <5> QED BY <3>2, <3>6, <5>1
      <4> QED BY <4>1, <4>2
    <3> QED BY <2>2, <3>3, <3>5, <3>6, <3>7, <3>8, <3>9 DEF SoughtAt
  <2> QED BY <2>5, <2>6
<1>6. \A n \in 1..Len(chunks) : n - 1 \in S => n \in S
  BY <1>1, <1>5
<1>7. Len(chunks) \in S
  <2>1. Len(chunks) \in 0..Len(chunks)
    BY <1>1
  <2> HIDE DEF S
  <2>2. \A n \in 0..Len(chunks) : n \in S
    BY ONLY <1>1, <1>4, <1>6, UpwardsTo
  <2> QED BY <2>1, <2>2
<1> QED BY <1>2, <1>7

Groups(a, b, c) == (a \o b) \o c = a \o (b \o c)

(* Three parts of a file (patch/index.ts:391-408).                           *)
LEMMA Associative ==
  ASSUME NEW a \in Strings, NEW b \in Strings, NEW c \in Strings
  PROVE  Groups(a, b, c)
<1>1. a \in Seq(STRING) /\ b \in Seq(STRING) /\ c \in Seq(STRING)
  BY DEF Strings
<1> QED BY <1>1, ConcatAssociative DEF Groups

(* Files with the same lines are the same (patch/index.ts:391-408).          *)
LEMMA SameStrings ==
  ASSUME NEW a \in Strings, NEW b \in Strings, Len(a) = Len(b), \A i \in 1..Len(a) : a[i] = b[i]
  PROVE  a = b
<1>1. a \in Seq(STRING) /\ b \in Seq(STRING)
  BY DEF Strings
<1> QED BY <1>1, SeqEqual

Regroups(a, b, c, d) == ((a \o b) \o c) \o d = a \o (b \o (c \o d))

(* Four parts of a file (patch/index.ts:391-408).                            *)
LEMMA FourParts ==
  ASSUME NEW a \in Strings, NEW b \in Strings, NEW c \in Strings, NEW d \in Strings
  PROVE  Regroups(a, b, c, d)
<1>1. a \in Seq(STRING) /\ b \in Seq(STRING) /\ c \in Seq(STRING) /\ d \in Seq(STRING)
  BY DEF Strings
<1>2. PICK e : e = a \o b
  OBVIOUS
<1>3. PICK f : f = c \o d
  OBVIOUS
<1>4. e \in Strings
  BY <1>1, <1>2, ConcatProperties DEF Strings
<1>5. f \in Strings
  BY <1>1, <1>3, ConcatProperties DEF Strings
<1>6. Groups(e, c, d)
  BY <1>4, Associative
<1>7. Groups(a, b, f)
  BY <1>5, Associative
<1>8. (e \o c) \o d = e \o f
  BY ONLY <1>3, <1>6 DEF Groups
<1>9. e \o f = a \o (b \o f)
  BY ONLY <1>2, <1>7 DEF Groups
<1> QED BY ONLY <1>2, <1>3, <1>8, <1>9 DEF Regroups

(* Two parts of a file can be told apart again (patch/index.ts:391-408).     *)
LEMMA BothParts ==
  ASSUME NEW a \in Strings, NEW b \in Strings
  PROVE  /\ SubSeq(a \o b, 1, Len(a)) = a /\ SubSeq(a \o b, Len(a) + 1, Len(a \o b)) = b
         /\ a \o b \in Strings /\ Len(a \o b) = Len(a) + Len(b) /\ Len(a) \in Nat /\ Len(b) \in Nat
<1>1. Len(a) \in Nat /\ Len(b) \in Nat
  BY DEF Strings
<1>2. PICK c : c = a \o b
  OBVIOUS
<1>3. /\ c \in Seq(STRING) /\ Len(c) = Len(a) + Len(b)
      /\ \A i \in 1..(Len(a) + Len(b)) : c[i] = IF i <= Len(a) THEN a[i] ELSE b[i - Len(a)]
  BY <1>2, ConcatProperties DEF Strings
<1>4. PICK s : s = SubSeq(c, 1, Len(a))
  OBVIOUS
<1>5. PICK t : t = SubSeq(c, Len(a) + 1, Len(c))
  OBVIOUS
<1>6. \A i \in 1..Len(c) : c[i] \in STRING
  BY <1>3
<1>7. s \in Seq(STRING) /\ Len(s) = Len(a) /\ \A i \in 1..Len(a) : s[i] = c[i]
  <2>1. \A i \in 1..Len(a) : c[i] \in STRING
    BY <1>1, <1>3, <1>6
  <2>2. /\ s \in Seq(STRING) /\ Len(s) = IF 1 <= Len(a) THEN Len(a) - 1 + 1 ELSE 0
        /\ \A i \in 1..(Len(a) - 1 + 1) : s[i] = c[1 + i - 1]
    BY <1>1, <1>4, <2>1, SubSeqProperties
  <2>3. \A i \in 1..Len(a) : 1 + i - 1 = i /\ i \in 1..(Len(a) - 1 + 1)
    BY <1>1
  <2> QED BY <1>1, <2>2, <2>3
<1>8. t \in Seq(STRING) /\ Len(t) = Len(b) /\ \A i \in 1..Len(b) : t[i] = c[Len(a) + i]
  <2>1. \A i \in (Len(a) + 1)..Len(c) : c[i] \in STRING
    BY <1>1, <1>3, <1>6
  <2>2. /\ t \in Seq(STRING) /\ Len(t) = IF Len(a) + 1 <= Len(c) THEN Len(c) - (Len(a) + 1) + 1 ELSE 0
        /\ \A i \in 1..(Len(c) - (Len(a) + 1) + 1) : t[i] = c[(Len(a) + 1) + i - 1]
    BY <1>1, <1>3, <1>5, <2>1, SubSeqProperties
  <2>3. \A i \in 1..Len(b) : (Len(a) + 1) + i - 1 = Len(a) + i /\ i \in 1..(Len(c) - (Len(a) + 1) + 1)
    BY <1>1, <1>3
  <2>4. \A i \in 1..Len(b) : t[i] = c[Len(a) + i]
    BY ONLY <2>2, <2>3
  <2>5. Len(t) = Len(b)
    BY <1>1, <1>3, <2>2
  <2> QED BY <2>2, <2>4, <2>5
<1>9. s = a
  <2>1. \A i \in 1..Len(s) : s[i] = a[i]
    BY <1>1, <1>3, <1>7
  <2> QED BY <1>7, <2>1, SameStrings DEF Strings
<1>10. t = b
  <2>1. \A i \in 1..Len(t) : t[i] = b[i]
    <3> TAKE i \in 1..Len(t)
    <3>1. i \in Nat /\ 1 <= i /\ i <= Len(b)
      BY <1>1, <1>8
    <3>2. Len(a) + i \in 1..(Len(a) + Len(b)) /\ ~(Len(a) + i <= Len(a)) /\ (Len(a) + i) - Len(a) = i
      BY <1>1, <3>1
    <3> QED BY <1>3, <1>8, <3>1, <3>2
  <2> QED BY <1>8, <2>1, SameStrings DEF Strings
<1> QED BY <1>1, <1>2, <1>3, <1>4, <1>5, <1>9, <1>10 DEF Strings

(* The lines of a file from one place to another (patch/index.ts:391-408).   *)
LEMMA PieceIs ==
  ASSUME NEW s \in Strings, NEW m \in Nat, NEW n \in Int, 1 <= m, n <= Len(s)
  PROVE  /\ SubSeq(s, m, n) \in Strings /\ Len(SubSeq(s, m, n)) = IF m <= n THEN n - m + 1 ELSE 0
         /\ \A i \in 1..(n - m + 1) : SubSeq(s, m, n)[i] = s[m + i - 1]
<1>1. s \in Seq(STRING) /\ Len(s) \in Nat
  BY DEF Strings
<1>2. \A i \in m..n : s[i] \in STRING
  BY <1>1
<1>3. m \in Int /\ n \in Int
  OBVIOUS
<1>4. PICK t : t = SubSeq(s, m, n)
  OBVIOUS
<1>5. /\ t \in Seq(STRING) /\ Len(t) = IF m <= n THEN n - m + 1 ELSE 0
      /\ \A i \in 1..(n - m + 1) : t[i] = s[m + i - 1]
  BY <1>2, <1>3, <1>4, SubSeqProperties
<1> QED BY <1>4, <1>5 DEF Strings

(* Lines put in at the old end come before what was put there already        *)
(* (patch/index.ts:396-404).                                                 *)
LEMMA SplicedAtEnd ==
  ASSUME NEW lines \in Strings, NEW tail \in Strings, NEW new \in Strings
  PROVE  Spliced(lines \o tail, [at |-> Len(lines) + 1, len |-> 0, new |-> new]) = lines \o (new \o tail)
<1>1. PICK all : all = lines \o tail
  OBVIOUS
<1>2. SubSeq(all, 1, Len(lines)) = lines /\ SubSeq(all, Len(lines) + 1, Len(all)) = tail /\ Len(lines) \in Nat
  BY <1>1, BothParts
<1>3. (Len(lines) + 1) - 1 = Len(lines) /\ (Len(lines) + 1) + 0 = Len(lines) + 1
  BY <1>2
<1>4. Spliced(all, [at |-> Len(lines) + 1, len |-> 0, new |-> new])
        = SubSeq(all, 1, (Len(lines) + 1) - 1) \o new \o SubSeq(all, (Len(lines) + 1) + 0, Len(all))
  BY DEF Spliced
<1>5. Spliced(all, [at |-> Len(lines) + 1, len |-> 0, new |-> new]) = (lines \o new) \o tail
  BY <1>2, <1>3, <1>4
<1>6. Groups(lines, new, tail)
  BY Associative
<1> QED BY <1>1, <1>5, <1>6 DEF Groups

\* The first n lines are the same.
Alike(lines, all, n) == n <= Len(lines) /\ n <= Len(all) /\ SubSeq(all, 1, n) = SubSeq(lines, 1, n)

\* What the lines come to from a place on.
Follows(lines, out, new, at, rest, from, next) ==
  out \o SubSeq(next, from, Len(next)) = ((out \o SubSeq(lines, from, at - 1)) \o new) \o rest

\* The old lines of a chunk are still in their place.
InPlace(lines, all, at, len) == Alike(lines, all, at + len - 1)

\* They are replaced, what is before from stays.
Replaced(lines, all, out, new, at, len, from, next) ==
  /\ next \in Strings /\ Alike(lines, next, from - 1)
  /\ Follows(lines, out, new, at, SubSeq(all, at + len, Len(all)), from, next)

(* New lines are put in the place of the old ones, where the file is still   *)
(* as it was (patch/index.ts:396-404).                                       *)
LEMMA SplicedInside ==
  ASSUME NEW lines \in Strings, NEW all \in Strings, NEW out \in Strings, NEW new \in Strings,
         NEW at \in Nat, NEW len \in Nat, NEW from \in Nat, 1 <= from, from <= at, InPlace(lines, all, at, len),
         NEW next, next = Spliced(all, [at |-> at, len |-> len, new |-> new])
  PROVE  Replaced(lines, all, out, new, at, len, from, next)
<1>0. at + len - 1 <= Len(lines) /\ at + len - 1 <= Len(all) /\ SubSeq(all, 1, at + len - 1) = SubSeq(lines, 1,
                                      at + len - 1)
  BY DEF InPlace, Alike
<1>1. Len(lines) \in Nat /\ Len(all) \in Nat
  BY DEF Strings
<1>2. PICK p : p = SubSeq(lines, 1, from - 1)
  OBVIOUS
<1>3. PICK q : q = SubSeq(lines, from, at - 1)
  OBVIOUS
<1>4. PICK z : z = SubSeq(all, at + len, Len(all))
  OBVIOUS
<1>5. p \in Strings /\ Len(p) = from - 1
  <2>1. from - 1 \in Int /\ from - 1 <= Len(lines)
    BY <1>0, <1>1
  <2>2. p \in Strings /\ Len(p) = IF 1 <= from - 1 THEN (from - 1) - 1 + 1 ELSE 0
    BY <1>2, <2>1, PieceIs
  <2> QED BY <2>2
<1>6. q \in Strings
  <2>1. at - 1 \in Int /\ at - 1 <= Len(lines)
    BY <1>0, <1>1
  <2> QED BY <1>3, <2>1, PieceIs
<1>7. z \in Strings
  <2>1. at + len \in Nat /\ 1 <= at + len /\ Len(all) \in Int /\ Len(all) <= Len(all)
    BY <1>1
  <2> QED BY <1>4, <2>1, PieceIs
<1>8. SubSeq(all, 1, at - 1) = SubSeq(lines, 1, at - 1)
  <2>1. at - 1 \in Int /\ at - 1 <= Len(lines) /\ at - 1 <= Len(all) /\ at + len - 1 \in Int
    BY <1>0, <1>1
  <2>2. PICK k : k = at + len - 1
    OBVIOUS
  <2>3. k \in Int /\ k <= Len(lines) /\ k <= Len(all) /\ at - 1 <= k
    BY <1>0, <2>1, <2>2
  <2>4. \A i \in 1..(k - 1 + 1) : SubSeq(all, 1, k)[i] = all[1 + i - 1]
    BY <2>3, PieceIs
  <2>5. \A i \in 1..(k - 1 + 1) : SubSeq(lines, 1, k)[i] = lines[1 + i - 1]
    BY <2>3, PieceIs
  <2>6. SubSeq(all, 1, k) = SubSeq(lines, 1, k)
    BY <1>0, <2>2
  <2>7. \A i \in 1..k : all[i] = lines[i]
    <3> TAKE i \in 1..k
    <3>1. 1 + i - 1 = i /\ i \in 1..(k - 1 + 1)
      BY <2>3
    <3> QED BY <2>4, <2>5, <2>6, <3>1
  <2>8. PICK a : a = SubSeq(all, 1, at - 1)
    OBVIOUS
  <2>9. PICK b : b = SubSeq(lines, 1, at - 1)
    OBVIOUS
  <2>10. /\ a \in Strings /\ Len(a) = IF 1 <= at - 1 THEN (at - 1) - 1 + 1 ELSE 0
         /\ \A i \in 1..((at - 1) - 1 + 1) : a[i] = all[1 + i - 1]
    BY <2>1, <2>8, PieceIs
  <2>11. /\ b \in Strings /\ Len(b) = IF 1 <= at - 1 THEN (at - 1) - 1 + 1 ELSE 0
         /\ \A i \in 1..((at - 1) - 1 + 1) : b[i] = lines[1 + i - 1]
    BY <2>1, <2>9, PieceIs
  <2>12. \A i \in 1..Len(a) : a[i] = b[i]
    <3> TAKE i \in 1..Len(a)
    <3>1. 1 + i - 1 = i /\ i \in 1..((at - 1) - 1 + 1) /\ i \in 1..k
      BY <2>3, <2>10
    <3> QED BY <2>7, <2>10, <2>11, <3>1
  <2>13. a = b
    BY <2>10, <2>11, <2>12, SameStrings
  <2> QED BY <2>8, <2>9, <2>13
<1>9. SubSeq(lines, 1, at - 1) = p \o q
  <2>1. 1 \in 1..(Len(lines) + 1) /\ from - 1 \in (1 - 1)..Len(lines) /\ at - 1 \in (from - 1)..Len(lines)
        /\ (from - 1) + 1 = from
    BY <1>0, <1>1
  <2>2. SubSeq(lines, 1, from - 1) \o SubSeq(lines, (from - 1) + 1, at - 1) = SubSeq(lines, 1, at - 1)
    BY <2>1, ConcatAdjacentSubSeq DEF Strings
  <2> QED BY <1>2, <1>3, <2>1, <2>2
<1>10. next = ((p \o q) \o new) \o z
  BY <1>4, <1>8, <1>9 DEF Spliced
<1>11. PICK w : w = q \o (new \o z)
  OBVIOUS
<1>12. new \o z \in Strings /\ w \in Strings /\ p \o q \in Strings /\ (p \o q) \o new \in Strings
  BY <1>5, <1>6, <1>7, <1>11, BothParts
<1>13. next = p \o w
  <2>1. p \in Strings
    BY <1>5
  <2>2. Regroups(p, q, new, z)
    BY <1>6, <1>7, <2>1, FourParts
  <2> QED BY ONLY <1>10, <1>11, <2>2 DEF Regroups
<1>14. SubSeq(next, 1, from - 1) = p /\ SubSeq(next, from, Len(next)) = w /\ next \in Strings /\ from - 1 <= Len(next)
  <2>1. SubSeq(p \o w, 1, Len(p)) = p /\ SubSeq(p \o w, Len(p) + 1, Len(p \o w)) = w /\ p \o w \in Strings
        /\ Len(p \o w) = Len(p) + Len(w) /\ Len(w) \in Nat
    BY ONLY <1>5, <1>12, BothParts, Zenon
  <2>2. Len(p) + 1 = from
    BY <1>5
  <2>3. /\ SubSeq(next, 1, Len(p)) = p /\ SubSeq(next, Len(p) + 1, Len(next)) = w /\ next \in Strings
        /\ Len(next) = Len(p) + Len(w)
    BY ONLY <1>13, <2>1
  <2>4. Len(p) = from - 1 /\ from - 1 \in Nat
    BY <1>5
  <2>5. from - 1 <= Len(next)
    BY ONLY <2>1, <2>3, <2>4
  <2> QED BY ONLY <2>2, <2>3, <2>4, <2>5
<1>15. out \o w = ((out \o q) \o new) \o z
  <2>1. Regroups(out, q, new, z)
    BY <1>6, <1>7, FourParts
  <2> QED BY ONLY <1>11, <2>1 DEF Regroups
<1>16. from - 1 <= Len(lines)
  BY <1>0, <1>1
<1>17. Alike(lines, next, from - 1)
  BY ONLY <1>2, <1>14, <1>16 DEF Alike
<1>18. Follows(lines, out, new, at, z, from, next)
  BY ONLY <1>3, <1>14, <1>15 DEF Follows
<1> QED BY ONLY <1>4, <1>14, <1>17, <1>18 DEF Replaced

\* The chunks have their places: x tells how far the file is read after each.
Settled(lines, chunks, x, list) ==
  /\ lines \in Strings /\ chunks \in Seq(ChunkType) /\ list \in Seq(Replacement) /\ Len(list) = Len(chunks)
  /\ x[0] \in Nat /\ 1 <= x[0] /\ \A i \in 1..Len(chunks) : Fit(lines, chunks[i], x[i - 1], x[i], list[i])

MergedAt(lines, m, x) ==
  /\ m = [out |-> m.out, from |-> m.from, tail |-> m.tail] /\ m.out \in Strings /\ m.tail \in Strings
  /\ m.from \in Nat /\ 1 <= m.from /\ m.from <= x /\ m.from <= Len(lines) + 1

\* What a chunk adds to what is put together.
Grown(lines, c, r, y, m, next) ==
  /\ MergedAt(lines, next, y)
  /\ c.old = <<>> => next.out = m.out /\ next.from = m.from /\ next.tail = m.tail \o c.new
  /\ c.old # <<>> =>
       next.out = (m.out \o SubSeq(lines, m.from, r.at - 1)) \o c.new /\ next.from = y /\ next.tail = m.tail

(* What is merged with one more chunk (patch/index.ts:335-408).              *)
LEMMA MergeIs ==
  ASSUME NEW lines \in Strings, NEW c \in ChunkType, NEW r, NEW x, NEW y, Fit(lines, c, x, y, r),
         NEW m, MergedAt(lines, m, x), NEW next, next = Merge(lines, m, c, r.at)
  PROVE  Grown(lines, c, r, y, m, next)
<1>1. c.new \in Strings /\ Len(lines) \in Nat /\ x \in Nat /\ y \in Nat /\ x <= y
  BY DEF ChunkType, Strings, Fit
<1>2. /\ m = [out |-> m.out, from |-> m.from, tail |-> m.tail] /\ m.out \in Strings /\ m.tail \in Strings
      /\ m.from \in Nat /\ 1 <= m.from /\ m.from <= x /\ m.from <= Len(lines) + 1
  BY DEF MergedAt
<1>3. CASE c.old = <<>>
  <2>1. PICK t : t = m.tail \o c.new
    OBVIOUS
  <2>2. t \in Strings
    BY <1>1, <1>2, <2>1, BothParts
  <2>3. next = [m EXCEPT !.tail = t]
    BY <1>3, <2>1 DEF Merge
  <2>4. next = [out |-> m.out, from |-> m.from, tail |-> t]
    BY <1>2, <2>3
  <2>5. MergedAt(lines, next, y)
    BY <1>1, <1>2, <2>2, <2>4 DEF MergedAt
  <2>6. next.out = m.out /\ next.from = m.from /\ next.tail = t
    BY <2>4
  <2> QED BY <1>3, <2>1, <2>5, <2>6 DEF Grown
<1>4. CASE c.old # <<>>
  <2>1. r.at \in Nat /\ x <= r.at /\ r.at + Len(c.old) = y /\ y <= Len(lines) + 1 /\ Len(c.old) \in Nat
    BY <1>4 DEF Fit, ChunkType
  <2>2. SubSeq(lines, m.from, r.at - 1) \in Strings
    <3>1. r.at - 1 \in Int /\ r.at - 1 <= Len(lines)
      BY <1>1, <2>1
    <3> QED BY <1>2, <3>1, PieceIs
  <2>3. PICK o : o = (m.out \o SubSeq(lines, m.from, r.at - 1)) \o c.new
    OBVIOUS
  <2>4. m.out \o SubSeq(lines, m.from, r.at - 1) \in Strings
    BY <1>2, <2>2, BothParts
  <2>5. o \in Strings
    BY <1>1, <2>3, <2>4, BothParts
  <2>6. next = [m EXCEPT !.out = o, !.from = y]
    BY <1>4, <2>1, <2>3 DEF Merge
  <2>7. next = [out |-> o, from |-> y, tail |-> m.tail]
    BY <1>2, <2>6
  <2>8. MergedAt(lines, next, y)
    BY <1>1, <1>2, <2>1, <2>5, <2>7 DEF MergedAt
  <2>9. next.out = o /\ next.from = y /\ next.tail = m.tail
    BY <2>7
  <2> QED BY <1>4, <2>3, <2>8, <2>9 DEF Grown
<1> QED BY <1>3, <1>4

(* How far the file is read is a place in it (patch/index.ts:343-383).       *)
LEMMA PlacesAre ==
  ASSUME NEW lines, NEW chunks, NEW x, NEW list, Settled(lines, chunks, x, list)
  PROVE  \A i \in 0..Len(chunks) : x[i] \in Nat /\ 1 <= x[i]
<1>1. Len(chunks) \in Nat
  BY DEF Settled
<1> DEFINE S == {i \in 0..Len(chunks) : x[i] \in Nat /\ 1 <= x[i]}
<1>2. 0 \in S
  BY <1>1 DEF Settled
<1>3. \A i \in 1..Len(chunks) : i - 1 \in S => i \in S
  <2> TAKE i \in 1..Len(chunks)
  <2>1. Fit(lines, chunks[i], x[i - 1], x[i], list[i])
    BY DEF Settled
  <2> QED BY <1>1, <2>1 DEF Fit
<1>4. \A i \in 0..Len(chunks) : i \in S
  <2> HIDE DEF S
  <2> QED BY <1>1, <1>2, <1>3, UpwardsTo
<1> QED BY <1>4

(* The file is read onwards only (patch/index.ts:343-383).                   *)
LEMMA PlacesGrow ==
  ASSUME NEW lines, NEW chunks, NEW x, NEW list, Settled(lines, chunks, x, list),
         NEW j \in 0..Len(chunks), NEW k \in j..Len(chunks)
  PROVE  x[j] <= x[k]
<1>0. \A i \in 0..Len(chunks) : x[i] \in Nat /\ 1 <= x[i]
  BY PlacesAre
<1>1. Len(chunks) \in Nat /\ \A i \in 0..Len(chunks) : x[i] \in Nat
  BY <1>0 DEF Settled
<1> DEFINE S == {i \in 0..Len(chunks) : j <= i => x[j] <= x[i]}
<1>2. 0 \in S
  BY <1>1
<1>3. \A i \in 1..Len(chunks) : i - 1 \in S => i \in S
  <2> TAKE i \in 1..Len(chunks)
  <2>1. x[i - 1] <= x[i]
    BY DEF Settled, Fit
  <2>2. x[i - 1] \in Nat /\ x[i] \in Nat /\ x[j] \in Nat
    <3>1. i \in 0..Len(chunks) /\ i - 1 \in 0..Len(chunks)
      BY <1>1
    <3> QED BY <1>1, <3>1
  <2>3. CASE j = i
    BY <1>1, <2>2, <2>3
  <2>4. CASE j # i
    BY <1>1, <2>1, <2>2, <2>4
  <2> QED BY <2>3, <2>4
<1>4. \A i \in 0..Len(chunks) : i \in S
  <2> HIDE DEF S
  <2> QED BY <1>1, <1>2, <1>3, UpwardsTo
<1>5. k \in S /\ j <= k
  BY <1>1, <1>4
<1> QED BY <1>5

(* The places of the chunks with old lines grow; the others are at the end   *)
(* (patch/index.ts:343-383).                                                 *)
LEMMA LaterIsLater ==
  ASSUME NEW lines, NEW chunks, NEW x, NEW list, Settled(lines, chunks, x, list),
         NEW j \in 1..Len(chunks), NEW k \in 1..Len(chunks)
  PROVE  /\ list[j].at \in Nat
         /\ chunks[j].old = <<>> => list[j].at = Len(lines) + 1
         /\ chunks[j].old # <<>> => list[j].at <= Len(lines)
         /\ j < k /\ chunks[j].old # <<>> /\ chunks[k].old # <<>> => list[j].at < list[k].at
<1>1. /\ Fit(lines, chunks[j], x[j - 1], x[j], list[j]) /\ Fit(lines, chunks[k], x[k - 1], x[k], list[k])
      /\ Len(chunks) \in Nat /\ chunks[j] \in ChunkType /\ list[j] \in Replacement /\ Len(lines) \in Nat
  BY DEF Settled, Strings
<1>2. list[j].at \in Nat /\ chunks[j].old \in Strings
  BY <1>1 DEF Replacement, ChunkType, Strings
<1>3. chunks[j].old # <<>> => Len(chunks[j].old) >= 1 /\ Len(chunks[j].old) \in Nat
  BY <1>2, EmptySeq DEF Strings
<1>4. chunks[j].old = <<>> => list[j].at = Len(lines) + 1
  BY <1>1 DEF Fit
<1>5. ASSUME chunks[j].old # <<>> PROVE list[j].at <= Len(lines) /\ list[j].at < x[j]
  <2>1. PICK y : y = x[j]
    OBVIOUS
  <2>2. PICK at : at = list[j].at
    OBVIOUS
  <2>3. PICK len : len = Len(chunks[j].old)
    OBVIOUS
  <2>4. at + len = y /\ y <= Len(lines) + 1 /\ y \in Nat
    BY <1>1, <1>5, <2>1, <2>2, <2>3 DEF Fit
  <2>5. at \in Nat /\ len \in Nat /\ len >= 1 /\ Len(lines) \in Nat
    BY <1>1, <1>2, <1>3, <1>5, <2>2, <2>3
  <2>6. at <= Len(lines) /\ at < y
    BY ONLY <2>4, <2>5
  <2> QED BY <2>1, <2>2, <2>6
<1>6. ASSUME j < k, chunks[j].old # <<>>, chunks[k].old # <<>> PROVE list[j].at < list[k].at
  <2>1. j \in 0..Len(chunks) /\ k - 1 \in j..Len(chunks) /\ k - 1 \in 0..Len(chunks)
    BY <1>1, <1>6
  <2>2. x[j] <= x[k - 1] /\ x[j] \in Nat /\ x[k - 1] \in Nat
    BY <2>1, PlacesGrow, PlacesAre
  <2>3. x[k - 1] <= list[k].at /\ list[k].at \in Nat
    BY <1>1, <1>6 DEF Fit
  <2> QED BY <1>2, <1>5, <1>6, <2>2, <2>3
<1> QED BY <1>2, <1>4, <1>5, <1>6

(* The chunks merge one after the other (patch/index.ts:335-408).            *)
LEMMA MergesOn ==
  ASSUME NEW lines, NEW chunks, NEW x, NEW list, Settled(lines, chunks, x, list),
         NEW p, p = [i \in 1..Len(chunks) |-> list[i].at], NEW m, m = Merged(lines, chunks, p)
  PROVE  /\ m[0] = [out |-> <<>>, from |-> 1, tail |-> <<>>]
         /\ \A n \in 0..Len(chunks) : MergedAt(lines, m[n], x[n])
         /\ \A n \in 1..Len(chunks) : Grown(lines, chunks[n], list[n], x[n], m[n - 1], m[n])
<1>1. Len(chunks) \in Nat /\ lines \in Strings /\ Len(lines) \in Nat
  BY DEF Settled, Strings
<1>2. /\ m[0] = [out |-> <<>>, from |-> 1, tail |-> <<>>]
      /\ \A i \in 1..Len(chunks) : m[i] = Merge(lines, m[i - 1], chunks[i], p[i])
  BY <1>1, MergedIs
<1>3. \A i \in 1..Len(chunks) : m[i] = Merge(lines, m[i - 1], chunks[i], list[i].at)
  BY <1>2
<1> DEFINE S == {n \in 0..Len(chunks) : MergedAt(lines, m[n], x[n])}
<1>4. 0 \in S
  <2>1. <<>> \in Strings
    BY DEF Strings
  <2>2. PICK a : a = m[0]
    OBVIOUS
  <2>3. a = [out |-> <<>>, from |-> 1, tail |-> <<>>]
    BY <1>2, <2>2
  <2>4. a.out = <<>> /\ a.from = 1 /\ a.tail = <<>>
    BY <2>3
  <2>5. x[0] \in Nat /\ 1 <= x[0] /\ 1 <= Len(lines) + 1
    BY <1>1 DEF Settled
  <2>6. MergedAt(lines, a, x[0])
    BY <2>1, <2>3, <2>4, <2>5 DEF MergedAt
  <2> QED BY <1>1, <2>2, <2>6
<1>5. ASSUME NEW n \in 1..Len(chunks), MergedAt(lines, m[n - 1], x[n - 1])
      PROVE  Grown(lines, chunks[n], list[n], x[n], m[n - 1], m[n])
  <2>1. Fit(lines, chunks[n], x[n - 1], x[n], list[n]) /\ chunks[n] \in ChunkType
    BY DEF Settled
  <2>2. PICK at : at = list[n].at
    OBVIOUS
  <2>3. m[n] = Merge(lines, m[n - 1], chunks[n], list[n].at)
    BY <1>3
  <2> QED BY <1>1, <1>5, <2>1, <2>3, MergeIs
<1>6. ASSUME NEW n \in 1..Len(chunks), n - 1 \in S PROVE n \in S
  <2>1. Grown(lines, chunks[n], list[n], x[n], m[n - 1], m[n])
    BY <1>5, <1>6
  <2>2. MergedAt(lines, m[n], x[n])
    BY <2>1 DEF Grown
  <2>3. n \in 0..Len(chunks)
    BY <1>1
  <2> QED BY <2>2, <2>3
<1>7. \A n \in 0..Len(chunks) : n \in S
  <2> HIDE DEF S
  <2> QED BY <1>1, <1>4, <1>6, UpwardsTo
<1>8. ASSUME NEW n \in 1..Len(chunks) PROVE Grown(lines, chunks[n], list[n], x[n], m[n - 1], m[n])
  <2>1. n - 1 \in 0..Len(chunks)
    BY <1>1
  <2>2. MergedAt(lines, m[n - 1], x[n - 1])
    BY <1>7, <2>1
  <2> QED BY <1>5, <2>2
<1> QED BY <1>2, <1>7, <1>8

(* The replacement put in next is the one with no later one left             *)
(* (patch/index.ts:385-398).                                                 *)
LEMMA LastIs ==
  ASSUME NEW list, NEW left \in SUBSET Nat, NEW k \in left, \A j \in left : list[j].at \in Nat,
         \A j \in left : list[j].at < list[k].at \/ (list[j].at = list[k].at /\ j <= k)
  PROVE  LastOf(list, left) = k
<1> DEFINE Latest(i) == \A j \in left : list[j].at < list[i].at \/ (list[j].at = list[i].at /\ j <= i)
<1>1. ASSUME NEW i \in left, Latest(i) PROVE i = k
  <2>1. list[k].at < list[i].at \/ (list[k].at = list[i].at /\ k <= i)
    BY <1>1
  <2>2. list[i].at < list[k].at \/ (list[i].at = list[k].at /\ i <= k)
    OBVIOUS
  <2>3. list[i].at \in Nat /\ list[k].at \in Nat /\ i \in Nat /\ k \in Nat
    OBVIOUS
  <2> QED BY <2>1, <2>2, <2>3
<1>2. Latest(k)
  OBVIOUS
<1>3. LastOf(list, left) = CHOOSE i \in left : Latest(i)
  BY DEF LastOf
<1> HIDE DEF Latest
<1> QED BY <1>1, <1>2, <1>3

\* After n replacements those of left are left.
Putting(lines, list, g, n, left) ==
  /\ list \in Seq(Replacement) /\ g = PutIn(lines, list) /\ n \in 0..Len(list)
  /\ g[n].left = left /\ IsFiniteSet(left) /\ n + Cardinality(left) = Len(list)

\* One replacement more is made.
Advanced(lines, list, g, n, left, k) ==
  Putting(lines, list, g, n + 1, left \ {k}) /\ g[n + 1].lines = Spliced(g[n].lines, list[k])

(* The next replacement is put in and is not left any more                   *)
(* (patch/index.ts:391-408).                                                 *)
LEMMA OneMore ==
  ASSUME NEW lines, NEW list, NEW g, NEW n, NEW left, Putting(lines, list, g, n, left),
         NEW k \in left, LastOf(list, left) = k
  PROVE  Advanced(lines, list, g, n, left, k)
<1>1. /\ list \in Seq(Replacement) /\ g = PutIn(lines, list) /\ n \in Nat /\ Len(list) \in Nat
      /\ g[n].left = left /\ IsFiniteSet(left) /\ n + Cardinality(left) = Len(list)
  BY DEF Putting
<1>2. Cardinality(left) \in Nat
  BY <1>1, FS_CardinalityType
<1>3. Cardinality(left) # 0
  BY <1>1, FS_EmptySet
<1>4. IsFiniteSet(left \ {k}) /\ Cardinality(left \ {k}) = Cardinality(left) - 1
  BY <1>1, FS_RemoveElement
<1>5. n + 1 \in 1..Len(list) /\ n + 1 \in 0..Len(list) /\ (n + 1) - 1 = n
      /\ (n + 1) + Cardinality(left \ {k}) = Len(list)
  BY <1>1, <1>2, <1>3, <1>4
<1>6. g[n + 1] = PutLast(list, g[n])
  <2>1. \A i \in 1..Len(list) : g[i] = PutLast(list, g[i - 1])
    BY <1>1, PutInIs
  <2>2. g[n + 1] = PutLast(list, g[(n + 1) - 1])
    BY <1>5, <2>1
  <2> QED BY <1>5, <2>2
<1>7. g[n + 1] = [lines |-> Spliced(g[n].lines, list[k]), left |-> left \ {k}]
  BY <1>1, <1>6 DEF PutLast
<1>8. g[n + 1].lines = Spliced(g[n].lines, list[k]) /\ g[n + 1].left = left \ {k}
  BY <1>7
<1>9. Putting(lines, list, g, n + 1, left \ {k})
  BY <1>1, <1>4, <1>5, <1>8 DEF Putting
<1> QED BY <1>8, <1>9 DEF Advanced

(* The front of a file that something is put behind                          *)
(* (patch/index.ts:391-408).                                                 *)
LEMMA FrontOfConcat ==
  ASSUME NEW a \in Strings, NEW b \in Strings, NEW from \in Nat, 1 <= from, from <= Len(a) + 1
  PROVE  /\ a \o b \in Strings /\ Alike(a, a \o b, from - 1)
         /\ SubSeq(a \o b, from, Len(a \o b)) = SubSeq(a, from, Len(a)) \o b
<1>1. Len(a) \in Nat /\ from - 1 \in Nat /\ Len(a) \in Int
  BY DEF Strings
<1>2. PICK p : p = SubSeq(a, 1, from - 1)
  OBVIOUS
<1>3. PICK q : q = SubSeq(a, from, Len(a))
  OBVIOUS
<1>4. p \in Strings /\ Len(p) = from - 1
  <2>1. from - 1 \in Int /\ from - 1 <= Len(a)
    BY <1>1
  <2>2. p \in Strings /\ Len(p) = IF 1 <= from - 1 THEN (from - 1) - 1 + 1 ELSE 0
    BY <1>2, <2>1, PieceIs
  <2> QED BY <1>1, <2>2
<1>5. q \in Strings
  BY <1>1, <1>3, PieceIs
<1>6. a = p \o q
  <2>1. 1 \in 1..(Len(a) + 1) /\ from - 1 \in (1 - 1)..Len(a) /\ Len(a) \in (from - 1)..Len(a) /\ (from - 1) + 1 = from
    BY <1>1
  <2>2. SubSeq(a, 1, from - 1) \o SubSeq(a, (from - 1) + 1, Len(a)) = SubSeq(a, 1, Len(a))
    BY <2>1, ConcatAdjacentSubSeq DEF Strings
  <2>3. SubSeq(a, 1, Len(a)) = a
    BY SubSeqFull DEF Strings
  <2> QED BY <1>2, <1>3, <2>1, <2>2, <2>3
<1>7. PICK w : w = q \o b
  OBVIOUS
<1>8. w \in Strings /\ a \o b = p \o w
  <2>1. p \in Strings
    BY <1>4
  <2>2. Groups(p, q, b)
    BY <1>5, <2>1, Associative
  <2>3. w \in Strings
    BY <1>5, <1>7, BothParts
  <2>4. a \o b = p \o w
    BY ONLY <1>6, <1>7, <2>2 DEF Groups
  <2> QED BY <2>3, <2>4
<1>9. /\ SubSeq(p \o w, 1, Len(p)) = p /\ SubSeq(p \o w, Len(p) + 1, Len(p \o w)) = w /\ p \o w \in Strings
      /\ Len(p \o w) = Len(p) + Len(w) /\ Len(w) \in Nat
  BY <1>4, <1>8, BothParts
<1>10. Len(p) + 1 = from /\ from - 1 <= Len(a) /\ Len(p) = from - 1 /\ Len(p) \in Nat
  BY <1>1, <1>4
<1>11. PICK all : all = a \o b
  OBVIOUS
<1>12. /\ SubSeq(all, 1, Len(p)) = p /\ SubSeq(all, Len(p) + 1, Len(all)) = w /\ all \in Strings
       /\ Len(all) = Len(p) + Len(w) /\ Len(w) \in Nat
  BY ONLY <1>8, <1>9, <1>11
<1>13. from - 1 <= Len(all)
  BY ONLY <1>10, <1>12
<1>14. SubSeq(all, 1, from - 1) = SubSeq(a, 1, from - 1) /\ SubSeq(all, from, Len(all)) = SubSeq(a, from, Len(a)) \o b
  BY ONLY <1>2, <1>3, <1>7, <1>10, <1>12
<1> QED BY ONLY <1>10, <1>11, <1>12, <1>13, <1>14 DEF Alike

\* What is left: first the chunks without old lines go to the end, the last
\* one first; then the others go to their places, the last one first.
TailLeft(chunks, k) == {i \in 1..Len(chunks) : chunks[i].old # <<>> \/ i <= k}
BodyLeft(chunks, k) == {i \in 1..k : chunks[i].old # <<>>}

(* Which replacements are left at the start, between the tail and the body,  *)
(* and at the end (patch/index.ts:391-408).                                  *)
LEMMA LeftToDo ==
  ASSUME NEW chunks, Len(chunks) \in Nat
  PROVE  /\ TailLeft(chunks, Len(chunks)) = 1..Len(chunks) /\ TailLeft(chunks, 0) = BodyLeft(chunks, Len(chunks))
         /\ BodyLeft(chunks, 0) = {}
  BY DEF TailLeft, BodyLeft

(* The chunks without old lines are put in one after the other, the last one *)
(* first (patch/index.ts:385-408).                                           *)
LEMMA TailGoes ==
  ASSUME NEW chunks, Len(chunks) \in Nat, NEW k \in 1..Len(chunks)
  PROVE  /\ TailLeft(chunks, k) \subseteq 1..Len(chunks)
         /\ \A j \in TailLeft(chunks, k) : chunks[j].old # <<>> \/ j <= k
         /\ chunks[k].old # <<>> => TailLeft(chunks, k - 1) = TailLeft(chunks, k)
         /\ chunks[k].old = <<>> => k \in TailLeft(chunks, k) /\ TailLeft(chunks, k) \ {k} = TailLeft(chunks, k - 1)
<1>1. \A i \in 1..Len(chunks) : i <= k <=> (i = k \/ i <= k - 1)
  OBVIOUS
<1>2. ~(k <= k - 1) /\ k <= k
  OBVIOUS
<1>3. chunks[k].old # <<>> => TailLeft(chunks, k - 1) = TailLeft(chunks, k)
  BY <1>1 DEF TailLeft
<1>4. chunks[k].old = <<>> => k \in TailLeft(chunks, k) /\ TailLeft(chunks, k) \ {k} = TailLeft(chunks, k - 1)
  BY <1>1, <1>2 DEF TailLeft
<1>5. TailLeft(chunks, k) \subseteq 1..Len(chunks) /\ \A j \in TailLeft(chunks, k) : chunks[j].old # <<>> \/ j <= k
  BY DEF TailLeft
<1> QED BY <1>3, <1>4, <1>5

(* So are then the chunks with old lines (patch/index.ts:385-408).           *)
LEMMA BodyGoes ==
  ASSUME NEW chunks, Len(chunks) \in Nat, NEW k \in 1..Len(chunks)
  PROVE  /\ BodyLeft(chunks, k) \subseteq 1..Len(chunks)
         /\ \A j \in BodyLeft(chunks, k) : chunks[j].old # <<>> /\ j <= k
         /\ chunks[k].old = <<>> => BodyLeft(chunks, k - 1) = BodyLeft(chunks, k)
         /\ chunks[k].old # <<>> => k \in BodyLeft(chunks, k) /\ BodyLeft(chunks, k) \ {k} = BodyLeft(chunks, k - 1)
<1>1. \A i : i \in 1..k <=> (i = k \/ i \in 1..(k - 1))
  OBVIOUS
<1>2. k \notin 1..(k - 1) /\ k \in 1..k
  OBVIOUS
<1>3. chunks[k].old = <<>> => BodyLeft(chunks, k - 1) = BodyLeft(chunks, k)
  BY <1>1 DEF BodyLeft
<1>4. chunks[k].old # <<>> => k \in BodyLeft(chunks, k) /\ BodyLeft(chunks, k) \ {k} = BodyLeft(chunks, k - 1)
  BY <1>1, <1>2 DEF BodyLeft
<1>5. BodyLeft(chunks, k) \subseteq 1..Len(chunks) /\ \A j \in BodyLeft(chunks, k) : chunks[j].old # <<>> /\ j <= k
  BY DEF BodyLeft
<1> QED BY <1>3, <1>4, <1>5

(* Finitely many chunks are left (patch/index.ts:391-408).                   *)
LEMMA FiniteUpTo ==
  ASSUME NEW n \in Nat
  PROVE  Cardinality(1..n) = n /\ \A S : S \subseteq 1..n => IsFiniteSet(S)
<1>1. 1 \in Int /\ n \in Int
  OBVIOUS
<1>2. IsFiniteSet(1..n) /\ Cardinality(1..n) = IF 1 > n THEN 0 ELSE n - 1 + 1
  BY <1>1, FS_Interval
<1>3. Cardinality(1..n) = n
  BY <1>2
<1>4. ASSUME NEW S, S \subseteq 1..n PROVE IsFiniteSet(S)
  <2>1. S \in SUBSET (1..n)
    BY <1>4
  <2> QED BY <1>2, <2>1, FS_Subset
<1> QED BY <1>3, <1>4

\* Which chunks are put in when the k-th comes next, and what the file is then.
TailAt(lines, chunks, list, m, g, k) ==
  \E n \in 0..Len(chunks), t \in Strings :
    /\ Putting(lines, list, g, n, TailLeft(chunks, k)) /\ g[n].lines = lines \o t
    /\ m[k].tail \o t = m[Len(chunks)].tail

(* At first the file is its lines and all chunks are left                    *)
(* (patch/index.ts:391-408).                                                 *)
LEMMA TailsBegin ==
  ASSUME NEW lines, NEW chunks, NEW x, NEW list, Settled(lines, chunks, x, list),
         NEW p, p = [i \in 1..Len(chunks) |-> list[i].at], NEW m, m = Merged(lines, chunks, p),
         NEW g, g = PutIn(lines, list)
  PROVE  TailAt(lines, chunks, list, m, g, Len(chunks))
<1>1. /\ Len(chunks) \in Nat /\ lines \in Strings /\ Len(list) = Len(chunks) /\ DOMAIN list = 1..Len(chunks)
      /\ list \in Seq(Replacement)
  BY DEF Settled, Strings
<1>2. g[0] = [lines |-> lines, left |-> 1..Len(chunks)]
  <2>1. Len(list) \in Nat
    BY <1>1
  <2>2. g[0] = [lines |-> lines, left |-> DOMAIN list]
    BY <2>1, PutInIs
  <2> QED BY <1>1, <2>2
<1>3. 0 + Cardinality(1..Len(chunks)) = Len(chunks) /\ IsFiniteSet(1..Len(chunks))
  BY <1>1, FiniteUpTo
<1>4. PICK e : e = m[Len(chunks)].tail
  OBVIOUS
<1>5. e \in Strings
  <2>1. Len(chunks) \in 0..Len(chunks)
    BY <1>1
  <2>2. MergedAt(lines, m[Len(chunks)], x[Len(chunks)])
    BY <2>1, MergesOn
  <2> QED BY <1>4, <2>2 DEF MergedAt
<1>6. lines \o <<>> = lines /\ e \o <<>> = e /\ <<>> \in Strings
  <2>1. lines \in Seq(STRING) /\ e \in Seq(STRING)
    BY <1>1, <1>5 DEF Strings
  <2>2. lines \o <<>> = lines /\ e \o <<>> = e
    BY <2>1, ConcatEmptySeq
  <2> QED BY <2>2 DEF Strings
<1>7. TailLeft(chunks, Len(chunks)) = 1..Len(chunks)
  BY <1>1, LeftToDo
<1>8. g[0].left = 1..Len(chunks) /\ g[0].lines = lines
  BY <1>2
<1>9. 0 \in 0..Len(chunks) /\ 0 \in 0..Len(list)
  BY <1>1
<1>10. Putting(lines, list, g, 0, TailLeft(chunks, Len(chunks)))
  BY <1>1, <1>3, <1>7, <1>8, <1>9 DEF Putting
<1>11. g[0].lines = lines \o <<>>
  BY ONLY <1>6, <1>8
<1>12. m[Len(chunks)].tail \o <<>> = m[Len(chunks)].tail
  BY ONLY <1>4, <1>6
<1>13. <<>> \in Strings
  BY <1>6
<1> QED BY <1>9, <1>10, <1>11, <1>12, <1>13 DEF TailAt

(* A chunk without old lines comes behind the file and before those put      *)
(* there already (patch/index.ts:391-408).                                   *)
LEMMA TailIsPut ==
  ASSUME NEW lines, NEW chunks, NEW x, NEW list, Settled(lines, chunks, x, list),
         NEW p, p = [i \in 1..Len(chunks) |-> list[i].at], NEW m, m = Merged(lines, chunks, p),
         NEW g, NEW k \in 1..Len(chunks), TailAt(lines, chunks, list, m, g, k)
  PROVE  TailAt(lines, chunks, list, m, g, k - 1)
<1>1. /\ Len(chunks) \in Nat /\ lines \in Strings /\ Len(lines) \in Nat /\ Len(list) = Len(chunks)
  BY DEF Settled, Strings
<1>2. PICK left : left = TailLeft(chunks, k)
  OBVIOUS
<1>3. PICK n \in 0..Len(chunks), t \in Strings :
        /\ Putting(lines, list, g, n, left) /\ g[n].lines = lines \o t
        /\ m[k].tail \o t = m[Len(chunks)].tail
  BY <1>2 DEF TailAt
<1>4. /\ left \subseteq 1..Len(chunks) /\ \A j \in left : chunks[j].old # <<>> \/ j <= k
      /\ chunks[k].old # <<>> => TailLeft(chunks, k - 1) = left
      /\ chunks[k].old = <<>> => k \in left /\ left \ {k} = TailLeft(chunks, k - 1)
  BY <1>1, <1>2, TailGoes
<1>5. Grown(lines, chunks[k], list[k], x[k], m[k - 1], m[k])
  BY MergesOn
<1>6. CASE chunks[k].old # <<>>
  <2>1. m[k].tail = m[k - 1].tail
    BY <1>5, <1>6 DEF Grown
  <2>2. Putting(lines, list, g, n, TailLeft(chunks, k - 1))
    BY <1>3, <1>4, <1>6
  <2>3. m[k - 1].tail \o t = m[Len(chunks)].tail
    BY ONLY <1>3, <2>1
  <2> QED BY <1>3, <2>2, <2>3 DEF TailAt
<1>7. CASE chunks[k].old = <<>>
  <2>1. k \in left
    BY <1>4, <1>7
  <2>2. left \in SUBSET Nat
    BY <1>1, <1>4
  <2>3. \A j \in left : list[j].at \in Nat
    <3> TAKE j \in left
    <3>1. j \in 1..Len(chunks)
      BY <1>4
    <3> QED BY <3>1, LaterIsLater
  <2>4. list[k].at = Len(lines) + 1
    BY <1>7, LaterIsLater
  <2>5. ASSUME NEW j \in left PROVE list[j].at < list[k].at \/ (list[j].at = list[k].at /\ j <= k)
    <3>1. j \in 1..Len(chunks)
      BY <1>4
    <3>2. CASE chunks[j].old = <<>>
      <4>1. list[j].at = Len(lines) + 1
        BY <3>1, <3>2, LaterIsLater
      <4> QED BY <1>4, <2>4, <3>2, <4>1
    <3>3. CASE chunks[j].old # <<>>
      <4>1. list[j].at <= Len(lines) /\ list[j].at \in Nat
        BY <3>1, <3>3, LaterIsLater
      <4> QED BY <1>1, <2>4, <4>1
    <3> QED BY <3>2, <3>3
  <2>6. LastOf(list, left) = k
    BY <2>1, <2>2, <2>3, <2>5, LastIs
  <2>7. Putting(lines, list, g, n + 1, left \ {k}) /\ g[n + 1].lines = Spliced(g[n].lines, list[k])
    <3>1. Putting(lines, list, g, n, left)
      BY <1>3
    <3>2. Advanced(lines, list, g, n, left, k)
      BY ONLY <2>1, <2>6, <3>1, OneMore
    <3> QED BY ONLY <3>2 DEF Advanced
  <2>8. PICK c : c = chunks[k]
    OBVIOUS
  <2>9. c \in ChunkType /\ Fit(lines, c, x[k - 1], x[k], list[k])
    BY <2>8 DEF Settled
  <2>10. PICK new : new = c.new
    OBVIOUS
  <2>11. new \in Strings
    BY <2>9, <2>10 DEF ChunkType, Strings
  <2>12. list[k] = [at |-> Len(lines) + 1, len |-> 0, new |-> new]
    BY <1>7, <2>8, <2>9, <2>10 DEF Fit
  <2>13. PICK u : u = new \o t
    OBVIOUS
  <2>14. u \in Strings
    BY <2>11, <2>13, BothParts
  <2>15. g[n + 1].lines = lines \o u
    <3>1. Spliced(lines \o t, [at |-> Len(lines) + 1, len |-> 0, new |-> new]) = lines \o (new \o t)
      BY <1>1, <2>11, SplicedAtEnd
    <3> QED BY ONLY <1>3, <2>7, <2>12, <2>13, <3>1
  <2>16. PICK a : a = m[k - 1].tail
    OBVIOUS
  <2>17. m[k].tail = a \o new
    BY <1>5, <1>7, <2>8, <2>10, <2>16 DEF Grown
  <2>18. a \in Strings
    <3>1. k - 1 \in 0..Len(chunks)
      BY <1>1
    <3>2. MergedAt(lines, m[k - 1], x[k - 1])
      BY <3>1, MergesOn
    <3> QED BY <2>16, <3>2 DEF MergedAt
  <2>19. a \o u = m[Len(chunks)].tail
    <3>1. Groups(a, new, t)
      BY <2>11, <2>18, Associative
    <3> QED BY ONLY <1>3, <2>13, <2>17, <3>1 DEF Groups
  <2>20. n + 1 \in 0..Len(chunks)
    BY <1>1, <2>7 DEF Putting
  <2>21. Putting(lines, list, g, n + 1, TailLeft(chunks, k - 1))
    BY <1>4, <1>7, <2>7
  <2>22. m[k - 1].tail \o u = m[Len(chunks)].tail
    BY ONLY <2>16, <2>19
  <2> QED BY <2>14, <2>15, <2>20, <2>21, <2>22 DEF TailAt
<1> QED BY <1>6, <1>7

(* All chunks without old lines come to the end of the file, in their order  *)
(* (patch/index.ts:391-408).                                                 *)
LEMMA TailsArePut ==
  ASSUME NEW lines, NEW chunks, NEW x, NEW list, Settled(lines, chunks, x, list),
         NEW p, p = [i \in 1..Len(chunks) |-> list[i].at], NEW m, m = Merged(lines, chunks, p),
         NEW g, g = PutIn(lines, list)
  PROVE  TailAt(lines, chunks, list, m, g, 0)
<1> DEFINE S == {k \in 0..Len(chunks) : TailAt(lines, chunks, list, m, g, k)}
<1>1. Len(chunks) \in Nat
  BY DEF Settled
<1>2. Len(chunks) \in S
  <2>1. Len(chunks) \in 0..Len(chunks)
    BY <1>1
  <2>2. TailAt(lines, chunks, list, m, g, Len(chunks))
    BY TailsBegin
  <2> QED BY <2>1, <2>2
<1>3. ASSUME NEW k \in 1..Len(chunks), k \in S PROVE k - 1 \in S
  <2>1. TailAt(lines, chunks, list, m, g, k)
    BY <1>3
  <2>2. TailAt(lines, chunks, list, m, g, k - 1)
    BY <2>1, TailIsPut
  <2>3. k - 1 \in 0..Len(chunks)
    BY <1>1
  <2> QED BY <2>2, <2>3
<1>4. 0 \in S
  <2>1. 0 \in 0..Len(chunks)
    BY <1>1
  <2> HIDE DEF S
  <2>2. \A k \in 0..Len(chunks) : k \in S
    BY <1>1, <1>2, <1>3, DownwardsFrom
  <2> QED BY <2>1, <2>2
<1> QED BY <1>4

\* What is before the place of a chunk is as it was until it is put in.
Whole(lines, m) == (m.out \o SubSeq(lines, m.from, Len(lines))) \o m.tail
BodyAt(lines, chunks, list, m, g, k) ==
  \E n \in 0..Len(chunks), all \in Strings :
    /\ Putting(lines, list, g, n, BodyLeft(chunks, k)) /\ g[n].lines = all /\ Alike(lines, all, m[k].from - 1)
    /\ m[k].out \o SubSeq(all, m[k].from, Len(all)) = Whole(lines, m[Len(chunks)])

(* Then the file up to the last chunk with old lines is as it was            *)
(* (patch/index.ts:391-408).                                                 *)
LEMMA BodyBegins ==
  ASSUME NEW lines, NEW chunks, NEW x, NEW list, Settled(lines, chunks, x, list),
         NEW p, p = [i \in 1..Len(chunks) |-> list[i].at], NEW m, m = Merged(lines, chunks, p),
         NEW g, g = PutIn(lines, list)
  PROVE  BodyAt(lines, chunks, list, m, g, Len(chunks))
<1>1. Len(chunks) \in Nat /\ lines \in Strings
  BY DEF Settled
<1>2. TailAt(lines, chunks, list, m, g, 0)
  BY TailsArePut
<1>3. PICK n \in 0..Len(chunks), t \in Strings :
        /\ Putting(lines, list, g, n, TailLeft(chunks, 0)) /\ g[n].lines = lines \o t
        /\ m[0].tail \o t = m[Len(chunks)].tail
  BY <1>2 DEF TailAt
<1>4. PICK e : e = m[Len(chunks)]
  OBVIOUS
<1>5. t = e.tail
  <2>1. m[0] = [out |-> <<>>, from |-> 1, tail |-> <<>>]
    BY MergesOn
  <2>2. m[0].tail = <<>>
    BY <2>1
  <2>3. <<>> \o t = t
    <3>1. t \in Seq(STRING)
      BY DEF Strings
    <3> QED BY <3>1, ConcatEmptySeq
  <2> QED BY ONLY <1>3, <1>4, <2>2, <2>3
<1>6. e.out \in Strings /\ e.from \in Nat /\ 1 <= e.from /\ e.from <= Len(lines) + 1
  <2>1. Len(chunks) \in 0..Len(chunks)
    BY <1>1
  <2>2. MergedAt(lines, m[Len(chunks)], x[Len(chunks)])
    BY <2>1, MergesOn
  <2> QED BY <1>4, <2>2 DEF MergedAt
<1>7. PICK all : all = lines \o t
  OBVIOUS
<1>8. PICK from : from = e.from
  OBVIOUS
<1>9. /\ all \in Strings /\ Alike(lines, all, from - 1)
      /\ SubSeq(all, from, Len(all)) = SubSeq(lines, from, Len(lines)) \o t
  <2>1. from \in Nat /\ 1 <= from /\ from <= Len(lines) + 1
    BY <1>6, <1>8
  <2> QED BY <1>1, <1>7, <2>1, FrontOfConcat
<1>10. e.out \o SubSeq(all, from, Len(all)) = Whole(lines, e)
  <2>1. SubSeq(lines, from, Len(lines)) \in Strings
    <3>1. Len(lines) \in Int /\ Len(lines) <= Len(lines)
      BY <1>1 DEF Strings
    <3>2. from \in Nat /\ 1 <= from
      BY <1>6, <1>8
    <3> QED BY <1>1, <3>1, <3>2, PieceIs
  <2>2. PICK q : q = SubSeq(lines, from, Len(lines))
    OBVIOUS
  <2>3. PICK o : o = e.out
    OBVIOUS
  <2>4. o \in Strings
    BY <1>6, <2>3
  <2>5. q \in Strings
    BY <2>1, <2>2
  <2>6. Groups(o, q, t)
    BY <2>4, <2>5, Associative
  <2>7. SubSeq(all, from, Len(all)) = q \o t
    BY <1>9, <2>2
  <2> QED BY ONLY <1>5, <1>8, <2>2, <2>3, <2>6, <2>7 DEF Whole, Groups
<1>11. Putting(lines, list, g, n, BodyLeft(chunks, Len(chunks)))
  <2>1. TailLeft(chunks, 0) = BodyLeft(chunks, Len(chunks))
    BY <1>1, LeftToDo
  <2> QED BY <1>3, <2>1
<1>12. g[n].lines = all
  BY ONLY <1>3, <1>7
<1>13. Alike(lines, all, m[Len(chunks)].from - 1)
  BY ONLY <1>4, <1>8, <1>9
<1>14. m[Len(chunks)].out \o SubSeq(all, m[Len(chunks)].from, Len(all)) = Whole(lines, m[Len(chunks)])
  BY ONLY <1>4, <1>8, <1>10
<1>15. all \in Strings
  BY <1>9
<1> QED BY <1>11, <1>12, <1>13, <1>14, <1>15 DEF BodyAt

(* A chunk that is put in leaves the file up to the one before as it was     *)
(* (patch/index.ts:391-408).                                                 *)
LEMMA BodyIsPut ==
  ASSUME NEW lines, NEW chunks, NEW x, NEW list, Settled(lines, chunks, x, list),
         NEW p, p = [i \in 1..Len(chunks) |-> list[i].at], NEW m, m = Merged(lines, chunks, p),
         NEW g, NEW k \in 1..Len(chunks), BodyAt(lines, chunks, list, m, g, k)
  PROVE  BodyAt(lines, chunks, list, m, g, k - 1)
<1>1. Len(chunks) \in Nat /\ lines \in Strings /\ Len(lines) \in Nat /\ Len(list) = Len(chunks)
  BY DEF Settled, Strings
<1>2. PICK left : left = BodyLeft(chunks, k)
  OBVIOUS
<1>3. PICK whole : whole = Whole(lines, m[Len(chunks)])
  OBVIOUS
<1>4. PICK n \in 0..Len(chunks), all \in Strings :
        /\ Putting(lines, list, g, n, left) /\ g[n].lines = all /\ Alike(lines, all, m[k].from - 1)
        /\ m[k].out \o SubSeq(all, m[k].from, Len(all)) = whole
  BY <1>2, <1>3 DEF BodyAt
<1>5. /\ left \subseteq 1..Len(chunks) /\ \A j \in left : chunks[j].old # <<>> /\ j <= k
      /\ chunks[k].old = <<>> => BodyLeft(chunks, k - 1) = left
      /\ chunks[k].old # <<>> => k \in left /\ left \ {k} = BodyLeft(chunks, k - 1)
  BY <1>1, <1>2, BodyGoes
<1>6. Grown(lines, chunks[k], list[k], x[k], m[k - 1], m[k])
  BY MergesOn
<1>7. CASE chunks[k].old = <<>>
  <2>1. m[k].out = m[k - 1].out /\ m[k].from = m[k - 1].from
    BY <1>6, <1>7 DEF Grown
  <2>2. Putting(lines, list, g, n, BodyLeft(chunks, k - 1))
    BY <1>4, <1>5, <1>7
  <2>3. Alike(lines, all, m[k - 1].from - 1)
    BY ONLY <1>4, <2>1
  <2>4. m[k - 1].out \o SubSeq(all, m[k - 1].from, Len(all)) = Whole(lines, m[Len(chunks)])
    BY ONLY <1>3, <1>4, <2>1
  <2> QED BY <1>4, <2>2, <2>3, <2>4 DEF BodyAt
<1>8. CASE chunks[k].old # <<>>
  <2>1. k \in left
    BY <1>5, <1>8
  <2>2. left \in SUBSET Nat
    BY <1>1, <1>5
  <2>3. \A j \in left : list[j].at \in Nat
    <3> TAKE j \in left
    <3>1. j \in 1..Len(chunks)
      BY <1>5
    <3> QED BY <3>1, LaterIsLater
  <2>4. ASSUME NEW j \in left PROVE list[j].at < list[k].at \/ (list[j].at = list[k].at /\ j <= k)
    <3>1. j \in 1..Len(chunks) /\ j <= k /\ chunks[j].old # <<>>
      BY <1>5
    <3>2. CASE j = k
      BY <3>2
    <3>3. CASE j # k
      <4>1. j < k
        BY <1>1, <3>1, <3>3
      <4> QED BY <1>8, <3>1, <4>1, LaterIsLater
    <3> QED BY <3>2, <3>3
  <2>5. LastOf(list, left) = k
    BY <2>1, <2>2, <2>3, <2>4, LastIs
  <2>6. PICK r : r = list[k]
    OBVIOUS
  <2>7. Putting(lines, list, g, n + 1, left \ {k}) /\ g[n + 1].lines = Spliced(g[n].lines, list[k])
    <3>1. Putting(lines, list, g, n, left)
      BY <1>4
    <3>2. Advanced(lines, list, g, n, left, k)
      BY ONLY <2>1, <2>5, <3>1, OneMore
    <3> QED BY ONLY <3>2 DEF Advanced
  <2>8. PICK c : c = chunks[k]
    OBVIOUS
  <2>9. PICK y : y = x[k - 1]
    OBVIOUS
  <2>10. PICK z : z = x[k]
    OBVIOUS
  <2>11. Fit(lines, c, y, z, r) /\ c \in ChunkType
    BY <2>6, <2>8, <2>9, <2>10 DEF Settled
  <2>12. PICK new : new = c.new
    OBVIOUS
  <2>13. new \in Strings
    BY <2>11, <2>12 DEF ChunkType, Strings
  <2>14. PICK len : len = Len(c.old)
    OBVIOUS
  <2>15. len \in Nat
    BY <2>11, <2>14 DEF ChunkType
  <2>16. PICK at : at = r.at
    OBVIOUS
  <2>17. r = [at |-> at, len |-> len, new |-> new] /\ at \in Nat
    BY <1>8, <2>8, <2>11, <2>12, <2>14, <2>16 DEF Fit
  <2>18. y <= at /\ at + len = z /\ z <= Len(lines) + 1 /\ y \in Nat /\ z \in Nat
    BY <1>8, <2>8, <2>11, <2>14, <2>16 DEF Fit
  <2>19. PICK a : a = m[k - 1]
    OBVIOUS
  <2>20. PICK out : out = a.out
    OBVIOUS
  <2>21. PICK from : from = a.from
    OBVIOUS
  <2>22. out \in Strings /\ from \in Nat /\ 1 <= from /\ from <= y
    <3>1. k - 1 \in 0..Len(chunks)
      BY <1>1
    <3>2. MergedAt(lines, m[k - 1], x[k - 1])
      BY <3>1, MergesOn
    <3>3. MergedAt(lines, a, y)
      BY <2>9, <2>19, <3>2
    <3> QED BY <2>20, <2>21, <3>3 DEF MergedAt
  <2>23. m[k].out = (out \o SubSeq(lines, from, at - 1)) \o new /\ m[k].from = z
    <3>1. Grown(lines, c, r, z, a, m[k])
      BY <1>6, <2>6, <2>8, <2>10, <2>19
    <3>2. m[k].out = (a.out \o SubSeq(lines, a.from, r.at - 1)) \o c.new /\ m[k].from = z
      BY <1>8, <2>8, <3>1 DEF Grown
    <3> QED BY ONLY <2>12, <2>16, <2>20, <2>21, <3>2
  <2>24. PICK next : next = Spliced(all, r)
    OBVIOUS
  <2>25. Replaced(lines, all, out, new, at, len, from, next)
    <3>1. from <= at /\ at + len - 1 = z - 1
      BY <2>15, <2>17, <2>18, <2>22
    <3>2. Alike(lines, all, z - 1)
      BY ONLY <1>4, <2>23
    <3>3. InPlace(lines, all, at, len)
      BY <3>1, <3>2 DEF InPlace
    <3>4. next = Spliced(all, [at |-> at, len |-> len, new |-> new])
      BY <2>17, <2>24
    <3>5. out \in Strings /\ from \in Nat /\ 1 <= from
      BY <2>22
    <3>6. at \in Nat /\ from <= at
      BY <2>17, <3>1
    <3>7. lines \in Strings /\ all \in Strings
      BY <1>1
    <3> QED BY ONLY <2>13, <2>15, <3>3, <3>4, <3>5, <3>6, <3>7, SplicedInside
  <2>26. out \o SubSeq(next, from, Len(next)) = whole
    BY ONLY <1>4, <2>18, <2>23, <2>25 DEF Replaced, Follows
  <2>27. n + 1 \in 0..Len(chunks)
    BY <1>1, <2>7 DEF Putting
  <2>28. Putting(lines, list, g, n + 1, BodyLeft(chunks, k - 1))
    BY <1>5, <1>8, <2>7
  <2>29. g[n + 1].lines = next
    BY ONLY <1>4, <2>6, <2>7, <2>24
  <2>30. Alike(lines, next, m[k - 1].from - 1)
    BY ONLY <2>19, <2>21, <2>25 DEF Replaced
  <2>31. m[k - 1].out \o SubSeq(next, m[k - 1].from, Len(next)) = Whole(lines, m[Len(chunks)])
    BY ONLY <1>3, <2>19, <2>20, <2>21, <2>26
  <2>32. next \in Strings
    BY ONLY <2>25 DEF Replaced
  <2> QED BY <2>27, <2>28, <2>29, <2>30, <2>31, <2>32 DEF BodyAt
<1> QED BY <1>7, <1>8

(* Put in from the last to the first, the replacements make the file that is *)
(* merged from the first to the last (patch/index.ts:391-408).               *)
LEMMA AllIsPut ==
  ASSUME NEW lines, NEW chunks, NEW x, NEW list, Settled(lines, chunks, x, list),
         NEW p, p = [i \in 1..Len(chunks) |-> list[i].at], NEW m, m = Merged(lines, chunks, p)
  PROVE  applyReplacements(lines, list) = Whole(lines, m[Len(chunks)])
<1>1. Len(chunks) \in Nat /\ Len(list) = Len(chunks)
  BY DEF Settled
<1>2. PICK g : g = PutIn(lines, list)
  OBVIOUS
<1> DEFINE S == {k \in 0..Len(chunks) : BodyAt(lines, chunks, list, m, g, k)}
<1>3. Len(chunks) \in S
  <2>1. Len(chunks) \in 0..Len(chunks)
    BY <1>1
  <2>2. BodyAt(lines, chunks, list, m, g, Len(chunks))
    BY <1>2, BodyBegins
  <2> QED BY <2>1, <2>2
<1>4. ASSUME NEW k \in 1..Len(chunks), k \in S PROVE k - 1 \in S
  <2>1. BodyAt(lines, chunks, list, m, g, k)
    BY <1>4
  <2>2. BodyAt(lines, chunks, list, m, g, k - 1)
    BY <2>1, BodyIsPut
  <2>3. k - 1 \in 0..Len(chunks)
    BY <1>1
  <2> QED BY <2>2, <2>3
<1>5. BodyAt(lines, chunks, list, m, g, 0)
  <2>1. 0 \in 0..Len(chunks)
    BY <1>1
  <2>2. 0 \in S
    <3> HIDE DEF S
    <3>1. \A k \in 0..Len(chunks) : k \in S
      BY <1>1, <1>3, <1>4, DownwardsFrom
    <3> QED BY <2>1, <3>1
  <2> QED BY <2>2
<1>6. PICK n \in 0..Len(chunks), all \in Strings :
        /\ Putting(lines, list, g, n, BodyLeft(chunks, 0)) /\ g[n].lines = all
        /\ m[0].out \o SubSeq(all, m[0].from, Len(all)) = Whole(lines, m[Len(chunks)])
  BY <1>5 DEF BodyAt
<1>7. m[0].out = <<>> /\ m[0].from = 1
  <2>1. m[0] = [out |-> <<>>, from |-> 1, tail |-> <<>>]
    BY MergesOn
  <2> QED BY <2>1
<1>8. n = Len(chunks)
  <2>1. Cardinality(BodyLeft(chunks, 0)) = 0
    BY <1>1, LeftToDo, FS_EmptySet
  <2>2. n + Cardinality(BodyLeft(chunks, 0)) = Len(list)
    BY <1>6 DEF Putting
  <2> QED BY <1>1, <2>1, <2>2
<1>9. all = Whole(lines, m[Len(chunks)])
  <2>1. all \in Seq(STRING)
    BY DEF Strings
  <2>2. SubSeq(all, 1, Len(all)) = all
    BY <2>1, SubSeqFull
  <2>3. <<>> \o all = all
    BY <2>1, ConcatEmptySeq
  <2>4. <<>> \o SubSeq(all, 1, Len(all)) = Whole(lines, m[Len(chunks)])
    BY ONLY <1>6, <1>7
  <2> QED BY ONLY <2>2, <2>3, <2>4
<1>10. applyReplacements(lines, list) = g[Len(chunks)].lines
  BY <1>1, <1>2 DEF applyReplacements
<1> QED BY ONLY <1>6, <1>8, <1>9, <1>10

(* A file whose chunks are all found is its lines with the chunks put in     *)
(* (patch/index.ts:300-333).                                                 *)
LEMMA DerivedIsPatched ==
  ASSUME NEW content \in Strings, NEW chunks \in Seq(ChunkType), ~EndsBlank(WithoutBlank(content)),
         \A i \in 1..Len(chunks) : ~EndsBlank(chunks[i].old),
         NEW new, new = deriveNewContentsFromChunks(content, chunks), new # Gone
  PROVE  IsPatched(content, chunks, new)
<1>1. PICK lines : lines = WithoutBlank(content)
  OBVIOUS
<1>2. lines \in Strings
  <2>1. CASE EndsBlank(content)
    <3>1. content # <<>> /\ Len(content) \in Nat \ {0}
      BY <2>1, EmptySeq DEF EndsBlank, Strings
    <3>2. lines = SubSeq(content, 1, Len(content) - 1)
      BY <1>1, <2>1 DEF WithoutBlank, Front
    <3>3. Len(content) - 1 \in Int /\ Len(content) - 1 <= Len(content)
      BY <3>1
    <3> QED BY <3>2, <3>3, PieceIs
  <2>2. CASE ~EndsBlank(content)
    BY <1>1, <2>2 DEF WithoutBlank
  <2> QED BY <2>1, <2>2
<1>3. Len(chunks) \in Nat /\ Len(lines) \in Nat /\ DOMAIN chunks = 1..Len(chunks)
  BY <1>2 DEF Strings
<1>4. PICK f : f = Sought(lines, chunks)
  OBVIOUS
<1>5. PICK found : found = f[Len(chunks)]
  OBVIOUS
<1>6. new = WithNewline(applyReplacements(lines, found.list)) /\ ~Failed(found)
  <2>1. found = computeReplacements(lines, chunks)
    BY <1>4, <1>5 DEF computeReplacements
  <2> QED BY <1>1, <2>1 DEF deriveNewContentsFromChunks, Failed
<1>7. PICK list : list = found.list
  OBVIOUS
<1>8. SoughtAt(lines, chunks, f, Len(chunks))
  BY <1>1, <1>2, <1>4, ChunksAreFound
<1>9. /\ list \in Seq(Replacement) /\ Len(list) = Len(chunks)
      /\ \A i \in 1..Len(chunks) : Fit(lines, chunks[i], f[i - 1].index, f[i].index, list[i])
  BY <1>5, <1>6, <1>7, <1>8 DEF SoughtAt
<1>10. PICK x : x = [i \in 0..Len(chunks) |-> f[i].index]
  OBVIOUS
<1>11. \A i \in 0..Len(chunks) : x[i] = f[i].index
  BY <1>10
<1>12. f[0].index = 1
  BY <1>3, <1>4, SoughtIs
<1>13. \A i \in 1..Len(chunks) : Fit(lines, chunks[i], x[i - 1], x[i], list[i])
  <2> TAKE i \in 1..Len(chunks)
  <2>1. i \in 0..Len(chunks) /\ i - 1 \in 0..Len(chunks)
    BY <1>3
  <2> QED BY <1>9, <1>11, <2>1
<1>14. Settled(lines, chunks, x, list)
  BY <1>2, <1>3, <1>9, <1>11, <1>12, <1>13 DEF Settled
<1>15. PICK p : p = [i \in 1..Len(chunks) |-> list[i].at]
  OBVIOUS
<1>16. PICK m : m = Merged(lines, chunks, p)
  OBVIOUS
<1>17. new = WithNewline(Whole(lines, m[Len(chunks)]))
  BY <1>6, <1>7, <1>14, <1>15, <1>16, AllIsPut
<1>18. \A i \in 1..Len(chunks) : p[i] = list[i].at
  BY <1>15
<1>19. p \in [DOMAIN chunks -> 1..(Len(lines) + 1)]
  <2>1. ASSUME NEW i \in 1..Len(chunks) PROVE list[i].at \in 1..(Len(lines) + 1)
    <3>1. list[i].at \in Nat /\ (list[i].at = Len(lines) + 1 \/ list[i].at <= Len(lines))
      BY <1>14, LaterIsLater
    <3>2. CASE chunks[i].old = <<>>
      BY <1>3, <1>14, <3>2, LaterIsLater
    <3>3. CASE chunks[i].old # <<>>
      <4>1. 1 <= x[i - 1] /\ x[i - 1] \in Nat /\ x[i - 1] <= list[i].at
        BY <1>13, <3>3 DEF Fit
      <4> QED BY <1>3, <3>1, <4>1
    <3> QED BY <3>2, <3>3
  <2> QED BY <1>3, <1>15, <2>1
<1>20. ASSUME NEW n \in 1..Len(chunks), chunks[n].old # <<>>
       PROVE  SubSeq(lines, p[n], p[n] + Len(chunks[n].old) - 1) = chunks[n].old /\ m[n - 1].from <= p[n]
  <2>1. Fit(lines, chunks[n], x[n - 1], x[n], list[n]) /\ n - 1 \in 0..Len(chunks)
    BY <1>3, <1>13
  <2>2. /\ p[n] \in Nat /\ x[n - 1] <= p[n] /\ p[n] + Len(chunks[n].old) = x[n] /\ x[n - 1] \in Nat
        /\ SubSeq(lines, p[n], x[n] - 1) = chunks[n].old
    BY <1>18, <1>20, <2>1 DEF Fit
  <2>3. m[n - 1].from \in Nat /\ m[n - 1].from <= x[n - 1]
    BY <1>14, <1>15, <1>16, <2>1, MergesOn DEF MergedAt
  <2>4. PICK len : len = Len(chunks[n].old)
    OBVIOUS
  <2>5. PICK at : at = p[n]
    OBVIOUS
  <2>6. PICK from : from = m[n - 1].from
    OBVIOUS
  <2>7. PICK y : y = x[n - 1]
    OBVIOUS
  <2>8. at \in Nat /\ y <= at /\ y \in Nat /\ from \in Nat /\ from <= y
    BY <2>2, <2>3, <2>5, <2>6, <2>7
  <2>9. from <= at
    BY ONLY <2>8
  <2>10. SubSeq(lines, at, at + len - 1) = chunks[n].old
    BY ONLY <2>2, <2>4, <2>5
  <2> QED BY ONLY <2>4, <2>5, <2>6, <2>9, <2>10
<1> QED BY <1>1, <1>3, <1>16, <1>17, <1>19, <1>20 DEF IsPatched, Whole

(* From the invariant, a patch is whole (patch/index.ts:460-621,             *)
(* tool/patch.ts:21-209).                                                    *)
LEMMA PatchInvIsTrue == PatchInv => PatchIsWhole
<1> SUFFICES ASSUME PatchInv, Separate(patch) PROVE PatchIsWhole
  BY DEF PatchIsWhole
<1>1. /\ patch \in Seq(HunkType) /\ Len(patch) \in Nat /\ applied \in 0..Len(patch) /\ IsFiles(disk)
      /\ before \in [Paths -> Strings] /\ DOMAIN patch = 1..Len(patch)
  <2>1. patch \in Seq(HunkType) /\ Len(changes) \in Nat /\ Len(changes) <= Len(patch) /\ applied <= Len(changes)
        /\ applied \in Nat
    BY DEF PatchInv
  <2> QED BY <2>1 DEF PatchInv, Strings
<1>2. ASSUME step = "done"
      PROVE  /\ applied = Len(patch) /\ LibraryAt(Len(patch)) /\ disk = Upto[Len(patch)].files
             /\ \A i \in 1..Len(patch) : FitsFile(patch[i])
  <2>1. applied = Len(patch) /\ Len(changes) = Len(patch) /\ patch # <<>>
    BY <1>2 DEF PatchInv
  <2>2. \A i \in 1..Len(patch) : FitsFile(patch[i])
    BY <2>1 DEF PatchInv
  <2>3. Len(patch) \in 0..Len(patch)
    BY <1>1
  <2>4. LibraryAt(Len(patch))
    BY <1>1, <2>1, <2>2, <2>3, LibraryGoes DEF Strings
  <2>5. \A p \in Paths : disk[p] = Upto[Len(patch)].files[p]
    BY <1>2, <2>1 DEF PatchInv
  <2> QED BY <1>1, <2>1, <2>2, <2>4, <2>5 DEF LibraryAt, IsFiles
<1>3. step = "done" => Upto[applied].ok /\ disk = Upto[applied].files
  BY <1>2 DEF LibraryAt
<1>4. \A p \in Paths \ Touched : disk[p] = Upto[applied].files[p]
  BY DEF PatchInv
<1>5. step = "failed" /\ Len(changes) < Len(patch) => disk = before
  BY DEF PatchInv
<1>6. ASSUME step = "done", NEW p \in Paths, NEW map, map = maybeParseApplyPatchVerified(before, patch),
               map[p][1] # "none"
      PROVE  disk[p] = IF map[p][1] = "delete" THEN Gone ELSE map[p][2]
  <2>1. AnnouncedAt(Len(patch))
    BY <1>1, AnnouncedIsPlanned
  <2>2. map = Announcing(before, patch)[Len(patch)]
    BY <1>6 DEF maybeParseApplyPatchVerified
  <2>3. PICK i \in 1..Len(patch) : /\ p = Target(patch[i])
          /\ IF map[p][1] = "delete" THEN Planned(patch[i]).new = Gone ELSE map[p][2] = Planned(patch[i]).new
    BY <1>6, <2>1, <2>2 DEF AnnouncedAt
  <2>4. disk[p] = Planned(patch[i]).new
    BY <1>2, <1>6, <2>3 DEF LibraryAt
  <2> QED BY <2>3, <2>4
<1>7. ASSUME step = "done", NEW i \in 1..Len(patch), Exact(patch[i])
      PROVE  IsPatched(before[patch[i].path], patch[i].chunks, disk[Target(patch[i])])
  <2>1. PICK h : h = patch[i]
    OBVIOUS
  <2>2. h \in HunkType /\ h.chunks \in Seq(ChunkType) /\ h.path \in Paths /\ before[h.path] \in Strings
    <3>1. h \in HunkType
      BY <1>1, <2>1
    <3> QED BY <1>1, <3>1 DEF HunkType
  <2>3. /\ h.type = "update" /\ ~EndsBlank(WithoutBlank(before[h.path]))
        /\ \A j \in DOMAIN h.chunks : ~EndsBlank(h.chunks[j].old)
    BY <1>7, <2>1 DEF Exact
  <2>4. PICK new : new = deriveNewContentsFromChunks(before[h.path], h.chunks)
    OBVIOUS
  <2>5. Planned(h).new = new
    BY <2>3, <2>4 DEF Planned
  <2>6. new # Gone
    BY <1>2, <1>7, <2>1, <2>3, <2>5 DEF FitsFile
  <2>7. disk[Target(h)] = new
    BY <1>2, <1>7, <2>1, <2>5 DEF LibraryAt
  <2>8. \A j \in 1..Len(h.chunks) : ~EndsBlank(h.chunks[j].old)
    BY <2>2, <2>3
  <2>9. IsPatched(before[h.path], h.chunks, new)
    BY <2>2, <2>3, <2>4, <2>6, <2>8, DerivedIsPatched
  <2> QED BY <2>1, <2>7, <2>9
<1>8. \A p \in Paths : step = "done" /\ maybeParseApplyPatchVerified(before, patch)[p][1] # "none" =>
        disk[p] = IF maybeParseApplyPatchVerified(before, patch)[p][1] = "delete" THEN Gone
                  ELSE maybeParseApplyPatchVerified(before, patch)[p][2]
  BY <1>6
<1>9. step = "done" => \A i \in DOMAIN patch : Exact(patch[i]) =>
        IsPatched(before[patch[i].path], patch[i].chunks,
                  disk[IF patch[i].move = Blank THEN patch[i].path ELSE patch[i].move])
  BY <1>1, <1>7 DEF Target
<1> QED BY <1>3, <1>4, <1>5, <1>8, <1>9, Zenon DEF PatchIsWhole, Upto, Touched

(* The tool writes all of a patch or, when a hunk does not fit, nothing;     *)
(* what it writes is what the library would leave and what was announced,    *)
(* each updated file its old lines with the chunks put in their places, and  *)
(* after an error of the file system only the hunk at hand is in doubt: for  *)
(* any files and any patch text, however many its hunks, chunks and lines    *)
(* (tool/patch.ts:21-209, patch/index.ts:180-621).                           *)
THEOREM PatchesAreWhole == PatchSpec => []PatchIsWhole
<1>1. PatchInit => PatchInv
  BY PatchBegins
<1>2. PatchInv /\ [PatchNext]_patchVars => PatchInv'
  BY PatchStepKeeps
<1>3. PatchInv => PatchIsWhole
  BY PatchInvIsTrue
<1> QED BY <1>1, <1>2, <1>3, PTL DEF PatchSpec
=============================================================================
