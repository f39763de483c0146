----------------------------- MODULE McpClients -----------------------------
(* The clients of one MCP server (src/src/mcp/index.ts) and the OAuth flow    *)
(* that unlocks it (oauth-callback.ts, auth.ts). Callers interleave at every  *)
(* await: two may be connecting, closing and listing the same server.         *)
EXTENDS Naturals, FiniteSets

CONSTANTS McpCallers,  \* concurrent callers of connect, add, disconnect, tools
          McpClient,   \* clients, each made once
          Flows,       \* calls of authenticate, each a state of its own
          Remote       \* the server's type is remote, and may want OAuth

VARIABLES mcpStatus,   \* the status shown for the server
          registered,  \* the client tools are taken from: none or one
          open,        \* clients connected and not closed
          made,        \* clients made so far
          mcpCall,     \* what each caller is doing, and with which client
          transport,   \* pendingOAuthTransports: the flow whose transport it is
          flow,        \* where each authenticate stands
          oauthState,  \* auth.ts: the stored OAuth state, a flow's
          callbacks,   \* pendingAuths: the flows whose waiter is kept
          revoked      \* the states stored when credentials were removed

mcpVars == <<mcpStatus, registered, open, made, mcpCall, transport, flow,
             oauthState, callbacks, revoked>>
oauthVars == <<flow, oauthState, callbacks, revoked>>

NoClient == {}
Statuses == {"none", "connected", "disabled", "failed", "needs_auth", "needs_registration"}
NoMcpCall == [at |-> "idle", client |-> NoClient, status |-> "none"]

McpTypeOK ==
    /\ mcpStatus \in Statuses
    /\ registered \subseteq McpClient /\ Cardinality(registered) <= 1
    /\ open \subseteq made /\ made \subseteq McpClient
    /\ mcpCall \in [McpCallers -> [at : {"idle", "connecting", "probing", "made", "closing", "listing"},
                                   client : SUBSET McpClient, status : Statuses]]
    /\ transport \subseteq Flows \cup {"connect"} /\ Cardinality(transport) <= 1
    /\ flow \in [Flows -> [at : {"new", "started", "opened", "waiting", "answered",
                                "finishing", "stuck", "ended"}, state : SUBSET Flows]]
    /\ oauthState \subseteq Flows /\ Cardinality(oauthState) <= 1
    /\ callbacks \subseteq Flows /\ revoked \subseteq Flows

McpInit ==
    /\ mcpStatus = "none" /\ registered = {} /\ open = {} /\ made = {}
    /\ mcpCall = [c \in McpCallers |-> NoMcpCall]
    /\ transport = {} /\ oauthState = {} /\ callbacks = {} /\ revoked = {}
    /\ flow = [f \in Flows |-> [at |-> "new", state |-> {}]]

Doing(c, at, client, status) ==
    mcpCall' = [mcpCall EXCEPT ![c] = [at |-> at, client |-> client, status |-> status]]
Idle(c) == mcpCall' = [mcpCall EXCEPT ![c] = NoMcpCall]

(* connect and add: create first.                                             *)
McpConnect(c) ==
    /\ mcpCall[c].at = "idle"
    /\ Doing(c, "connecting", NoClient, "none")
    /\ UNCHANGED <<mcpStatus, registered, open, made, transport, oauthVars>>

(* create's transports: the first that connects; an unauthorized one keeps    *)
(* its transport for finishAuth and ends the search.                          *)
Connected(c) ==
    /\ mcpCall[c].at = "connecting"
    /\ \E k \in McpClient \ made :
         made' = made \cup {k} /\ open' = open \cup {k} /\ Doing(c, "probing", {k}, "connected")
    /\ UNCHANGED <<mcpStatus, registered, transport, oauthVars>>

NotConnected(c) ==
    /\ mcpCall[c].at = "connecting"
    /\ \/ Doing(c, "made", NoClient, "failed") /\ UNCHANGED transport
       \/ Remote /\ Doing(c, "made", NoClient, "needs_registration") /\ UNCHANGED transport
       \/ Remote /\ Doing(c, "made", NoClient, "needs_auth") /\ transport' = {"connect"}
    /\ UNCHANGED <<mcpStatus, registered, open, made, oauthVars>>

(* create's listTools: in time, or the client is closed and the server failed.*)
Probed(c) ==
    /\ mcpCall[c].at = "probing"
    /\ \/ Doing(c, "made", mcpCall[c].client, "connected") /\ UNCHANGED open
       \/ Doing(c, "made", NoClient, "failed") /\ open' = open \ mcpCall[c].client
    /\ UNCHANGED <<mcpStatus, registered, made, transport, oauthVars>>

Register(c) ==
    /\ mcpCall[c].at = "made"
    /\ mcpStatus' = mcpCall[c].status
    /\ registered' = IF mcpCall[c].client = NoClient THEN registered ELSE mcpCall[c].client
    /\ Idle(c)
    /\ UNCHANGED <<open, made, transport, oauthVars>>

Disconnect(c) ==
    /\ mcpCall[c].at = "idle"
    /\ IF registered = NoClient
       THEN mcpStatus' = "disabled" /\ UNCHANGED mcpCall
       ELSE Doing(c, "closing", registered, "none") /\ UNCHANGED mcpStatus
    /\ UNCHANGED <<registered, open, made, transport, oauthVars>>

(* Mutant: the status is left as it was.                                      *)
ClosedQuietly(c) ==
    /\ mcpCall[c].at = "closing"
    /\ open' = open \ mcpCall[c].client
    /\ registered' = NoClient
    /\ Idle(c)
    /\ UNCHANGED <<mcpStatus, made, transport, oauthVars>>

(* The close awaited: whichever client is registered by now is dropped.       *)
Closed(c) ==
    /\ mcpCall[c].at = "closing"
    /\ open' = open \ mcpCall[c].client
    /\ registered' = NoClient
    /\ mcpStatus' = "disabled"
    /\ Idle(c)
    /\ UNCHANGED <<made, transport, oauthVars>>

McpTools(c) ==
    /\ mcpCall[c].at = "idle" /\ mcpStatus = "connected" /\ registered # NoClient
    /\ Doing(c, "listing", registered, "none")
    /\ UNCHANGED <<mcpStatus, registered, open, made, transport, oauthVars>>

Listed(c) ==
    /\ mcpCall[c].at = "listing"
    /\ \/ /\ mcpCall[c].client \subseteq open
          /\ UNCHANGED <<mcpStatus, registered>>
       \/ mcpStatus' = "failed" /\ registered' = NoClient
    /\ Idle(c)
    /\ UNCHANGED <<open, made, transport, oauthVars>>

(* authenticate: startAuth stores the state, then its transport; the state is *)
(* read again, which may be a later flow's by then, the browser opened, and   *)
(* only then is the callback waited for.                                      *)
FlowAt(f, at) == flow' = [flow EXCEPT ![f].at = at]
mcpPool == <<mcpStatus, registered, open, made>>

StartAuth(f) ==
    /\ flow[f].at = "new" /\ Remote
    /\ oauthState' = {f}
    /\ FlowAt(f, "started")
    /\ UNCHANGED <<mcpPool, mcpCall, transport, callbacks, revoked>>

Unauthorized(f) ==
    /\ flow[f].at = "started"
    /\ transport' = {f}
    /\ flow' = [flow EXCEPT ![f].state = oauthState,
                            ![f].at = IF oauthState = {} THEN "ended" ELSE "opened"]
    /\ UNCHANGED <<mcpPool, mcpCall, oauthState, callbacks, revoked>>

(* A state waited for twice keeps the later waiter only.                      *)
WaitForCallback(f) ==
    /\ flow[f].at = "opened"
    /\ callbacks' = {g \in callbacks : flow[g].state # flow[f].state} \cup {f}
    /\ FlowAt(f, "waiting")
    /\ UNCHANGED <<mcpPool, mcpCall, transport, oauthState, revoked>>

Callback(f) ==
    /\ flow[f].at = "waiting" /\ f \in callbacks
    /\ callbacks' = callbacks \ {f}
    /\ \E end \in {"answered", "ended"} : FlowAt(f, end)
    /\ UNCHANGED <<mcpPool, mcpCall, transport, oauthState, revoked>>

(* The five minutes pass: the entry of the state goes, whoever waits for it,  *)
(* and without one the promise stays unsettled.                               *)
CallbackTimeout(f) ==
    /\ flow[f].at = "waiting"
    /\ LET mine == {g \in callbacks : flow[g].state = flow[f].state} IN
         /\ callbacks' = callbacks \ mine
         /\ FlowAt(f, IF mine = {} THEN "stuck" ELSE "ended")
    /\ UNCHANGED <<mcpPool, mcpCall, transport, oauthState, revoked>>

(* The stored state is compared and cleared: a flow started since wins.       *)
Validate(f) ==
    /\ flow[f].at = "answered"
    /\ FlowAt(f, IF oauthState = flow[f].state THEN "finishing" ELSE "ended")
    /\ oauthState' = {}
    /\ UNCHANGED <<mcpPool, mcpCall, transport, callbacks, revoked>>

(* finishAuth: the code goes over the pending transport, or there is none or  *)
(* the exchange fails; then add, by a caller of its own.                      *)
FinishAuth(f) ==
    /\ flow[f].at = "finishing"
    /\ FlowAt(f, "ended")
    /\ \/ /\ transport # {} /\ transport' = {}
          /\ \E c \in McpCallers :
               mcpCall[c].at = "idle" /\ Doing(c, "connecting", NoClient, "none")
       \/ UNCHANGED <<transport, mcpCall>>
    /\ UNCHANGED <<mcpPool, oauthState, callbacks, revoked>>

(* removeAuth: cancelPending looks a state up by the server's name, so no     *)
(* flow is cancelled; the transport and the stored state go.                  *)
RemoveAuth ==
    /\ oauthState # {} \/ transport # {}
    /\ revoked' = revoked \cup oauthState
    /\ transport' = {} /\ oauthState' = {}
    /\ UNCHANGED <<mcpPool, mcpCall, flow, callbacks>>

FlowStep(f) ==
    Unauthorized(f) \/ WaitForCallback(f) \/ Callback(f) \/ CallbackTimeout(f)
        \/ Validate(f) \/ FinishAuth(f)

McpCallStep(c) ==
    NotConnected(c) \/ Connected(c) \/ Probed(c) \/ Register(c) \/ Closed(c) \/ Listed(c)

McpNext ==
    \/ \E c \in McpCallers : McpConnect(c) \/ Disconnect(c) \/ McpTools(c) \/ McpCallStep(c)
    \/ \E f \in Flows : StartAuth(f) \/ FlowStep(f)
    \/ RemoveAuth

(* A server shown as connected has a client whose tools can be asked for: no  *)
(* order of connects, closes and failed listings leaves "connected" without   *)
(* one (mcp/index.ts: tools and disconnect reset the status with the client). *)
ConnectedHasClient == mcpStatus = "connected" => registered # NoClient

(* A flow revoked before it was validated never exchanges its code, though    *)
(* removeAuth cannot cancel its waiter (mcp/index.ts removeAuth, authenticate:*)
(* the state stored is compared with the one waited for).                     *)
RevokedFlowsEnd == \A f \in Flows : flow[f].at = "finishing" => flow[f].state \cap revoked = {}

(* What is used is what was connected, and what was granted and not revoked.  *)
AuthorityIsCurrent == McpTypeOK /\ ConnectedHasClient /\ RevokedFlowsEnd
=============================================================================
