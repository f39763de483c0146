----------------------------- MODULE Processor ------------------------------
(* Permission requests (permission/next.ts): a call asks for permission to   *)
(* use patterns, the rules decide or a client does, once, always or never.   *)
(* Wildcards are abstracted to the relation Covers between a wildcard and    *)
(* the names it matches; session, permission, patterns and the patterns an   *)
(* "always" would approve are fixed per request.                             *)
(*                                                                           *)
(* One assistant message (session/processor.ts): the processor reads the     *)
(* model's stream one event at a time and stores the parts, while the tools  *)
(* of the calls it announces run beside it and ask for permission.  A call's *)
(* part has a stored form and, in toolcalls, the form the processor          *)
(* remembers.  Texts and reasoning only add parts and are left out of the    *)
(* order of events; what the stream is waiting for is what the provider and  *)
(* the tools have produced.                                                  *)
EXTENDS Naturals, Sequences, FiniteSets, FiniteSetsExt

-----------------------------------------------------------------------------
(* Permission *)

CONSTANTS
  Requests,    \* the requests calls may make
  SessionOf,   \* request -> session
  NeedOf,      \* request -> permission
  PatternsOf,  \* request -> sequence of patterns
  AlwaysOf,    \* request -> set of patterns approved by "always"
  Ruleset,     \* the configured rules, in order
  Covers       \* <<wildcard, name>>: the wildcard matches the name

VARIABLES
  pending,    \* requests waiting for a client's answer
  approved,   \* rules approved with "always", as <<permission, pattern>>
  verdict,    \* how each request was settled
  swept       \* history: the rules approved when a session's requests were last swept

permissionVars == <<pending, approved, verdict, swept>>

Matches(wildcard, name) == <<wildcard, name>> \in Covers

\* evaluate: the last rule that matches, and the approved rules, all "allow",
\* come after the configured ones.
Hits(need, pattern) ==
  {i \in DOMAIN Ruleset : Matches(Ruleset[i].permission, need) /\ Matches(Ruleset[i].pattern, pattern)}

ApprovedBy(need, pattern, rules) ==
  \E rule \in rules : Matches(rule[1], need) /\ Matches(rule[2], pattern)

Evaluate(need, pattern, rules) ==
  IF ApprovedBy(need, pattern, rules) THEN "allow"
  ELSE IF Hits(need, pattern) = {} THEN "ask"
  ELSE Ruleset[Max(Hits(need, pattern))].action

ActionAt(r, i) == Evaluate(NeedOf[r], PatternsOf[r][i], approved)

\* The first pattern that is not allowed decides.
Undecided(r) == {i \in DOMAIN PatternsOf[r] : ActionAt(r, i) # "allow"}
Decide(r) == IF Undecided(r) = {} THEN "allow" ELSE ActionAt(r, Min(Undecided(r)))

PermissionInit ==
  /\ pending = {}
  /\ approved = {}
  /\ verdict = [r \in Requests |-> "none"]
  /\ swept = [r \in Requests |-> {}]

Settled(S, v) == [r \in Requests |-> IF r \in S THEN v ELSE verdict[r]]

Ask(r) ==
  /\ verdict[r] = "none"
  /\ r \notin pending
  /\ \/ Decide(r) = "deny" /\ verdict' = Settled({r}, "denied") /\ UNCHANGED pending
     \/ Decide(r) = "ask" /\ pending' = pending \cup {r} /\ UNCHANGED verdict
     \/ Decide(r) = "allow" /\ verdict' = Settled({r}, "allowed") /\ UNCHANGED pending
  /\ UNCHANGED <<approved, swept>>

Peers(r) == {q \in pending \ {r} : SessionOf[q] = SessionOf[r]}

ReplyOnce(r) ==
  /\ r \in pending
  /\ pending' = pending \ {r}
  /\ verdict' = Settled({r}, "allowed")
  /\ UNCHANGED <<approved, swept>>

\* A refusal refuses every request of the session.
ReplyReject(r) ==
  /\ r \in pending
  /\ pending' = (pending \ {r}) \ Peers(r)
  /\ verdict' = Settled({r} \cup Peers(r), "rejected")
  /\ UNCHANGED <<approved, swept>>

\* "always" approves the request's patterns and settles the session's requests
\* that the approved rules alone now allow.
Covered(q, rules) ==
  \A i \in DOMAIN PatternsOf[q] : ApprovedBy(NeedOf[q], PatternsOf[q][i], rules)

ReplyAlways(r) ==
  /\ r \in pending
  /\ LET rules == approved \cup {<<NeedOf[r], pattern>> : pattern \in AlwaysOf[r]}
         freed == {q \in Peers(r) : Covered(q, rules)}
     IN /\ approved' = rules
        /\ pending' = (pending \ {r}) \ freed
        /\ verdict' = Settled({r} \cup freed, "allowed")
        /\ swept' = [q \in Requests |-> IF SessionOf[q] = SessionOf[r] THEN rules ELSE swept[q]]

Reply(r) == ReplyOnce(r) \/ ReplyReject(r) \/ ReplyAlways(r)

PermissionTypeOK ==
  /\ pending \in SUBSET Requests
  /\ \A rule \in approved : Len(rule) = 2
  /\ verdict \in [Requests -> {"none", "allowed", "denied", "rejected"}]
  /\ \A r \in Requests : swept[r] \subseteq approved

(* A request is settled once and never both settled and waiting, and none    *)
(* waits for an answer its session has already given: whatever the session's *)
(* last "always" approved no longer holds up one of its requests             *)
(* (next.ts:153-216).                                                        *)
PendingIsUnanswered ==
  \A r \in pending : verdict[r] = "none" /\ ~ Covered(r, swept[r])

-----------------------------------------------------------------------------
(* The message *)

CONSTANTS
  Calls,          \* the tool calls of the message; each is also its request
  SameCall,       \* call -> its tool and input
  DoomAsk,        \* the request made when a call repeats the last ones
  ShouldBreak,    \* whether a refusal ends the turn (experimental.continue_loop_on_deny)
  DoomThreshold,  \* how many equal calls in a row make a doom loop
  MaxAttempts     \* bound: failures of the provider that are retried

ASSUME ProcessorAssumption ==
  /\ Calls \subseteq Requests /\ DoomAsk \in Requests
  /\ ShouldBreak \in BOOLEAN /\ MaxAttempts \in Nat

VARIABLES
  part,      \* the stored status of each call's part
  order,     \* the parts in the order they were created
  toolcalls, \* the status the processor remembers for each call
  tool,      \* the tool's execution
  reader,    \* what the processor is doing
  attempt,
  snapshot,  \* whether a step's snapshot is open
  orphans,   \* calls of a stream that failed: nobody reads their tools any more
  aborted,
  blocked, needsCompaction, error,
  result

processorVars ==
  <<part, order, toolcalls, tool, reader, attempt, snapshot, orphans, aborted,
    blocked, needsCompaction, error, result>>

Open == {"pending", "running"}

ProcessorInit ==
  /\ PermissionInit
  /\ part = [c \in Calls |-> "none"]
  /\ order = <<>>
  /\ toolcalls = [c \in Calls |-> "none"]
  /\ tool = [c \in Calls |-> "none"]
  /\ reader = "start"
  /\ attempt = 0
  /\ snapshot = FALSE
  /\ orphans = {}
  /\ aborted = FALSE
  /\ blocked = FALSE
  /\ needsCompaction = FALSE
  /\ error = FALSE
  /\ result = "none"

\* throwIfAborted runs before every event is handled.
Reading == reader = "reading" /\ ~aborted

-----------------------------------------------------------------------------
(* Events of the stream.                                                     *)

StartStep ==
  /\ reader = "start"
  /\ ~aborted
  /\ reader' = "reading"
  /\ snapshot' = TRUE
  /\ UNCHANGED <<permissionVars, part, order, toolcalls, tool, attempt, orphans, aborted,
                 blocked, needsCompaction, error, result>>

\* tool-input-start: a part for the call, reused when the call is known.
ToolInputStart(c) ==
  /\ Reading
  /\ toolcalls[c] = "none" /\ tool[c] = "none"
  /\ part' = [part EXCEPT ![c] = "pending"]
  /\ order' = IF part[c] = "none" THEN Append(order, c) ELSE order
  /\ toolcalls' = [toolcalls EXCEPT ![c] = "pending"]
  /\ UNCHANGED <<permissionVars, tool, reader, attempt, snapshot, orphans, aborted,
                 blocked, needsCompaction, error, result>>

\* The last parts of the message are this call again and again.
Doomed(c) ==
  LET from == Len(order) - DoomThreshold + 1
  IN /\ from >= 1
     /\ \A i \in from..Len(order) :
          SameCall[order[i]] = SameCall[c] /\ (order[i] = c \/ part[order[i]] # "pending")

\* tool-call: the tool starts by itself; a doom loop stops the reading until a
\* client answers.
ToolCall(c) ==
  /\ Reading
  /\ toolcalls[c] = "pending"
  /\ part' = [part EXCEPT ![c] = "running"]
  /\ toolcalls' = [toolcalls EXCEPT ![c] = "running"]
  /\ tool' = [tool EXCEPT ![c] = "started"]
  /\ IF Doomed(c) /\ verdict[DoomAsk] = "none"
     THEN Ask(DoomAsk) /\ reader' = "asking"
     ELSE UNCHANGED <<permissionVars, reader>>
  /\ UNCHANGED <<order, attempt, snapshot, orphans, aborted, blocked, needsCompaction,
                 error, result>>

\* The doom loop's question was answered; a refusal is thrown out of the loop.
DoomAnswered ==
  /\ reader = "asking"
  /\ verdict[DoomAsk] # "none"
  /\ IF verdict[DoomAsk] = "allowed"
     THEN reader' = "reading" /\ UNCHANGED error
     ELSE reader' = "closing" /\ error' = TRUE
  /\ UNCHANGED <<permissionVars, part, order, toolcalls, tool, attempt, snapshot, orphans,
                 aborted, blocked, needsCompaction, result>>

Forget(c, status) ==
  /\ part' = [part EXCEPT ![c] = status]
  /\ toolcalls' = [toolcalls EXCEPT ![c] = "none"]
  /\ tool' = [tool EXCEPT ![c] = "reported"]

ToolResult(c) ==
  /\ Reading
  /\ tool[c] = "ok" /\ c \notin orphans
  /\ toolcalls[c] = "running"
  /\ Forget(c, "completed")
  /\ UNCHANGED <<permissionVars, order, reader, attempt, snapshot, orphans, aborted,
                 blocked, needsCompaction, error, result>>

\* A tool that was refused by a client blocks the loop, one that was denied by
\* a rule or failed does not.
ToolError(c) ==
  /\ Reading
  /\ tool[c] \in {"failed", "refused"} /\ c \notin orphans
  /\ toolcalls[c] = "running"
  /\ Forget(c, "error")
  /\ blocked' = IF tool[c] = "refused" THEN ShouldBreak ELSE blocked
  /\ UNCHANGED <<permissionVars, order, reader, attempt, snapshot, orphans, aborted,
                 needsCompaction, error, result>>

\* finish-step, once every tool of the step has been reported.
FinishStep ==
  /\ Reading
  /\ \A c \in Calls \ orphans : toolcalls[c] # "pending" /\ tool[c] \in {"none", "reported"}
  /\ snapshot' = FALSE
  /\ needsCompaction' \in BOOLEAN
  /\ reader' = "closing"
  /\ UNCHANGED <<permissionVars, part, order, toolcalls, tool, attempt, orphans, aborted,
                 blocked, error, result>>

-----------------------------------------------------------------------------
(* Failures.                                                                 *)

\* The provider's error, or the abort: retried or kept on the message.
StreamError ==
  /\ reader \in {"start", "reading"}
  /\ \/ /\ ~aborted
        /\ attempt < MaxAttempts
        /\ attempt' = attempt + 1
        /\ reader' = "sleeping"
        /\ UNCHANGED error
     \/ /\ error' = TRUE
        /\ reader' = "closing"
        /\ UNCHANGED attempt
  /\ UNCHANGED <<permissionVars, part, order, toolcalls, tool, snapshot, orphans, aborted,
                 blocked, needsCompaction, result>>

(* Mutant: the abort takes the timer away and does not end the sleep.        *)
RetryUnlessAborted ==
  /\ reader = "sleeping"
  /\ ~aborted
  /\ reader' = "start"
  /\ orphans' = {c \in Calls : toolcalls[c] # "none" \/ tool[c] # "none"}
  /\ UNCHANGED <<permissionVars, part, order, toolcalls, tool, attempt, snapshot, aborted,
                 blocked, needsCompaction, error, result>>

\* The delay is over or cut short by the abort; the stream is opened again.
Retry ==
  /\ reader = "sleeping"
  /\ reader' = "start"
  /\ orphans' = {c \in Calls : toolcalls[c] # "none" \/ tool[c] # "none"}
  /\ UNCHANGED <<permissionVars, part, order, toolcalls, tool, attempt, snapshot, aborted,
                 blocked, needsCompaction, error, result>>

\* What is left open is closed and the caller told what to do next.
Close ==
  /\ reader = "closing"
  /\ snapshot' = FALSE
  /\ part' = [c \in Calls |-> IF part[c] \in Open THEN "error" ELSE part[c]]
  /\ reader' = "returned"
  /\ result' = IF needsCompaction THEN "compact"
               ELSE IF blocked \/ error THEN "stop" ELSE "continue"
  /\ UNCHANGED <<permissionVars, order, toolcalls, tool, attempt, orphans, aborted,
                 blocked, needsCompaction, error>>

Abort ==
  /\ ~aborted
  /\ reader # "returned"
  /\ aborted' = TRUE
  /\ UNCHANGED <<permissionVars, part, order, toolcalls, tool, reader, attempt, snapshot,
                 orphans, blocked, needsCompaction, error, result>>

-----------------------------------------------------------------------------
(* The tools, beside the reader.                                             *)

ToolAsks(c) ==
  /\ tool[c] = "started"
  /\ Ask(c)
  /\ tool' = [tool EXCEPT ![c] = "asking"]
  /\ UNCHANGED <<part, order, toolcalls, reader, attempt, snapshot, orphans, aborted,
                 blocked, needsCompaction, error, result>>

Ended(v) == CASE v = "allowed" -> {"ok", "failed"} [] v = "denied" -> {"failed"}
              [] v = "rejected" -> {"refused"} [] OTHER -> {}

ToolEnds(c) ==
  /\ tool[c] = "asking"
  /\ \E how \in Ended(verdict[c]) : tool' = [tool EXCEPT ![c] = how]
  /\ UNCHANGED <<permissionVars, part, order, toolcalls, reader, attempt, snapshot, orphans,
                 aborted, blocked, needsCompaction, error, result>>

\* A running tool reports progress through the remembered part.
ToolProgress(c) ==
  /\ tool[c] = "asking" /\ verdict[c] = "allowed"
  /\ toolcalls[c] = "running"
  /\ part' = [part EXCEPT ![c] = "running"]
  /\ UNCHANGED <<permissionVars, order, toolcalls, tool, reader, attempt, snapshot, orphans,
                 aborted, blocked, needsCompaction, error, result>>

ClientReplies == (\E r \in Requests : Reply(r)) /\ UNCHANGED processorVars

ReaderStep ==
  \/ StartStep \/ DoomAnswered \/ FinishStep \/ StreamError \/ Retry \/ Close
  \/ \E c \in Calls : ToolInputStart(c) \/ ToolCall(c) \/ ToolResult(c) \/ ToolError(c)

ProcessorNext ==
  \/ ReaderStep \/ Abort \/ ClientReplies
  \/ \E c \in Calls : ToolAsks(c) \/ ToolEnds(c) \/ ToolProgress(c)

ProcessorTypeOK ==
  /\ PermissionTypeOK
  /\ part \in [Calls -> {"none", "pending", "running", "completed", "error"}]
  /\ toolcalls \in [Calls -> {"none", "pending", "running"}]
  /\ tool \in [Calls -> {"none", "started", "asking", "ok", "failed", "refused", "reported"}]
  /\ reader \in {"start", "reading", "asking", "sleeping", "closing", "returned"}
  /\ attempt \in 0..MaxAttempts
  /\ result \in {"none", "compact", "stop", "continue"}

(* The step that returns leaves no part of the message open, and tells the   *)
(* loop to go on only when nothing failed and no refusal that is to end the  *)
(* turn was reported, whatever was retried, orphaned, aborted or is still    *)
(* running (processor.ts:335-396).                                           *)
ReturnedClean ==
  [][result' # result =>
       /\ \A c \in Calls : part'[c] \notin Open
       /\ result' = "continue" =>
            /\ ~error
            /\ ShouldBreak =>
                 \A c \in Calls : tool[c] = "reported" => verdict[c] # "rejected"]_processorVars

(* An abort ends the processing, during a retry's delay as well, unless the  *)
(* reader is held by a doom loop's question (processor.ts:54-56, 351, 156).  *)
AbortEnds == aborted ~> (reader \in {"asking", "returned"})

(* The reader of a stream always comes to an end that fits what it was told: *)
(* aborted it returns, no part is left open when it does, and no question    *)
(* waits for an answer already given.                                        *)
ReaderEndsClean == [](ProcessorTypeOK /\ PendingIsUnanswered) /\ ReturnedClean /\ AbortEnds
=============================================================================
