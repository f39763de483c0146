------------------------------ MODULE AcpAgent ------------------------------
(* The agent an editor drives over ACP (src/src/acp/agent.ts, session.ts):    *)
(* sessions made or loaded, a prompt in flight, and the event subscription of *)
(* each session, which handles one event at a time and puts permission        *)
(* requests to the editor's user.                                             *)
EXTENDS Naturals, Sequences

CONSTANTS AcpSessions,   \* sessions of one directory
          AcpCalls,      \* tool calls, each asking for a permission
          MaxStreams     \* bound: subscriptions made for a session

VARIABLES acpSession,  \* the sessions the manager knows
          streams,     \* subscriptions: the session, what they hear, what they do
          asked,       \* permissions asked for and not replied to
          replied,     \* the reply each permission got
          prompting,   \* sessions whose prompt has not returned
          toolState,   \* each call's state on the server
          shownState   \* per session, the states told to the editor of a call

acpVars == <<acpSession, streams, asked, replied, prompting, toolState, shownState>>

Offered == {"once", "always", "reject"}
CallEvents == {<<"asked", k>> : k \in AcpCalls}
                  \cup {<<"part", k, n>> : k \in AcpCalls, n \in 1..3}

AcpInit ==
    /\ acpSession = {} /\ streams = <<>> /\ asked = {} /\ prompting = {}
    /\ replied = [k \in AcpCalls |-> "none"]
    /\ toolState = [k \in AcpCalls |-> 0]
    /\ shownState = [s \in AcpSessions |-> [k \in AcpCalls |-> 0]]

Subscribed(s) == Append(streams, [session |-> s, events |-> <<>>, at |-> "next"])
MayStream == Len(streams) < MaxStreams

(* newSession: the state is stored, then the subscription is set up.          *)
NewSession(s) ==
    /\ s \notin acpSession /\ MayStream
    /\ acpSession' = acpSession \cup {s}
    /\ streams' = Subscribed(s)
    /\ UNCHANGED <<asked, replied, prompting, toolState, shownState>>

(* processMessage: what the stored messages say of each call is told again.   *)
Replayed(s) == [shownState EXCEPT ![s] = toolState]

(* loadSession: a session loaded again is subscribed again, and its history   *)
(* is replayed from the messages as they are.                                 *)
LoadSession(s) ==
    /\ MayStream
    /\ acpSession' = acpSession \cup {s}
    /\ streams' = Subscribed(s)
    /\ shownState' = Replayed(s)
    /\ UNCHANGED <<asked, replied, prompting, toolState>>

(* The server's stream is of the directory: every subscription hears it.      *)
Heard(e) == [i \in DOMAIN streams |-> [streams[i] EXCEPT !.events = Append(@, e)]]

Prompt(s) ==
    /\ s \in acpSession /\ s \notin prompting
    /\ prompting' = prompting \cup {s}
    /\ UNCHANGED <<acpSession, streams, asked, replied, toolState, shownState>>

(* The session's run: a call appears, asks, and goes on once it is replied to.*)
CallMoves(k) ==
    /\ prompting # {} /\ toolState[k] < 3
    /\ toolState[k] = 1 => replied[k] # "none"
    /\ toolState' = [toolState EXCEPT ![k] = @ + 1]
    /\ streams' = Heard(<<"part", k, toolState[k] + 1>>)
    /\ UNCHANGED <<acpSession, asked, replied, prompting, shownState>>

CallAsks(k) ==
    /\ prompting # {} /\ toolState[k] = 1 /\ replied[k] = "none" /\ k \notin asked
    /\ asked' = asked \cup {k}
    /\ streams' = Heard(<<"asked", k>>)
    /\ UNCHANGED <<acpSession, replied, prompting, toolState, shownState>>

Took(i) == [streams EXCEPT ![i].events = Tail(@), ![i].at = "next"]

(* message.part.updated: told under the subscription's own session.           *)
HearPart(i) ==
    /\ streams[i].at = "next" /\ streams[i].events # <<>>
    /\ Head(streams[i].events)[1] = "part"
    /\ LET e == Head(streams[i].events) IN
         shownState' = [shownState EXCEPT ![streams[i].session][e[2]] = e[3]]
    /\ streams' = Took(i)
    /\ UNCHANGED <<acpSession, asked, replied, prompting, toolState>>

HearAsked(i) ==
    /\ streams[i].at = "next" /\ streams[i].events # <<>>
    /\ Head(streams[i].events)[1] = "asked"
    /\ streams' = [streams EXCEPT ![i].at = "asking"]
    /\ UNCHANGED <<acpSession, asked, replied, prompting, toolState, shownState>>

(* The editor selects an option, dismisses the request or fails: anything but *)
(* a selection is a rejection. A reply to a settled request changes nothing,  *)
(* and whatever happened the loop goes on (finally { break }).                *)
PermissionReply(k, answer) ==
    IF k \in asked THEN asked' = asked \ {k} /\ replied' = [replied EXCEPT ![k] = answer]
                   ELSE UNCHANGED <<asked, replied>>

Selected(i) ==
    /\ streams[i].at = "asking"
    /\ \E choice \in Offered : PermissionReply(Head(streams[i].events)[2], choice)
    /\ streams' = Took(i)
    /\ UNCHANGED <<acpSession, prompting, toolState, shownState>>

(* Mutant: the handler returns without replying.                              *)
DismissedSilently(i) ==
    /\ streams[i].at = "asking"
    /\ streams' = Took(i)
    /\ UNCHANGED <<acpSession, asked, replied, prompting, toolState, shownState>>

Dismissed(i) ==
    /\ streams[i].at = "asking"
    /\ PermissionReply(Head(streams[i].events)[2], "reject")
    /\ streams' = Took(i)
    /\ UNCHANGED <<acpSession, prompting, toolState, shownState>>

(* prompt returns end_turn when the run is over, or was aborted by cancel.    *)
PromptEnds(s) ==
    /\ s \in prompting /\ asked = {}
    /\ prompting' = prompting \ {s}
    /\ UNCHANGED <<acpSession, streams, asked, replied, toolState, shownState>>

StreamStep(i) ==
    /\ i \in DOMAIN streams
    /\ HearPart(i) \/ HearAsked(i) \/ Selected(i) \/ Dismissed(i)

AcpNext ==
    \/ \E s \in AcpSessions : NewSession(s) \/ LoadSession(s) \/ Prompt(s) \/ PromptEnds(s)
    \/ \E k \in AcpCalls : CallMoves(k) \/ CallAsks(k)
    \/ \E i \in 1..MaxStreams : StreamStep(i)

(* Every permission asked for is replied to, though each subscription waits   *)
(* for the editor's answer before it hears the next event and an answer may   *)
(* be a dismissal or a failure (agent.ts: finally { break } after a return).  *)
PermissionsAreReplied == \A k \in AcpCalls : k \in asked ~> k \notin asked
=============================================================================
