----------------------------- MODULE SessionLoop -----------------------------
(* The prompt loop of one session (session/prompt.ts, with the compaction   *)
(* branch of session/compaction.ts).  A caller stores a user message and     *)
(* then either becomes the session's loop or queues behind the one that is   *)
(* registered; a loop answers until the newest user message is older than a  *)
(* finished assistant message, hands that answer to the queued callers and   *)
(* runs its deferred cancel.  Awaits separate the actions: whatever a loop   *)
(* has read may be stale when it is used.  Message identifiers are positions *)
(* in msgs, allocated in order and possibly written out of order.            *)
EXTENDS Naturals, Sequences, FiniteSets, FiniteSetsExt

CONSTANTS
  Callers,      \* the calls of prompt and shell on the session
  Kinds,        \* the assignments of a kind of call to each caller
  MaxMessages,  \* bound: messages the loops may still allocate
  MaxCancels,   \* bound: cancellations and disposals
  Nobody

CallKinds == {"turn", "prompt", "noReply", "command", "summarize", "shell"}

ASSUME CallersAssumption == Nobody \notin Callers
ASSUME KindsAssumption == Kinds \subseteq [Callers -> CallKinds]
ASSUME BoundsAssumption == MaxMessages \in Nat /\ MaxCancels \in Nat

VARIABLES
  kind,     \* what each caller does
  msgs,     \* the session's messages by identifier
  entry,    \* the registered loop and the callers queued behind it
  aborted,  \* the callers whose abort signal has fired
  pc,       \* where each caller is
  mine,     \* the user message of each caller
  plan,     \* what a loop decided from the messages it read
  outcome,  \* how each call ended
  status,   \* the session's published status
  cancels

sessionVars == <<kind, msgs, entry, aborted, pc, mine, plan, outcome, status, cancels>>

NoEntry == [owner |-> Nobody, queued |-> {}]
NoPlan == [do |-> "none", user |-> 0]
Pending == [how |-> "pending", answer |-> 0]

LoopPhases == {"top", "planned", "working", "exit", "leaving"}
ShellPhases == {"shell", "command"}
Phases == {"idle", "creating", "stored", "waiting", "done"} \cup LoopPhases \cup ShellPhases

Finishes == {"none", "stop", "tool-calls"}
Contents == {"prompt", "compaction", "subtask", "synthetic", "answer", "summary", "task", "bash"}
Message(role, content, parent) ==
  [role |-> role, content |-> content, parent |-> parent, finish |-> "none",
   stored |-> TRUE]

Ids == 1..Len(msgs)
Newest(S) == IF S = {} THEN 0 ELSE Max(S)
Users == {i \in Ids : msgs[i].stored /\ msgs[i].role = "user"}
Assistants == {i \in Ids : msgs[i].stored /\ msgs[i].role = "assistant"}
Finished == {i \in Assistants : msgs[i].finish # "none"}
Room == Len(msgs) < MaxMessages

LastUser == Newest(Users)
LastAssistant == Newest(Assistants)
LastFinished == Newest(Finished)

\* The oldest compaction or subtask part newer than the last finished answer.
Tasks == {i \in Users : i > LastFinished /\ msgs[i].content \in {"compaction", "subtask"}}

(* Mutant: the answer is not compared with the newest user message.          *)
AnsweredAtAll == LastAssistant # 0 /\ msgs[LastAssistant].finish = "stop"

\* The loop is over when the newest assistant message finished without asking
\* for tools and answers the newest user message.
Answered ==
  /\ LastAssistant # 0
  /\ msgs[LastAssistant].finish = "stop"
  /\ LastUser < LastAssistant

\* Only an answer that is not itself a summary can be too long for the context
\* of the model the newest prompt names, which need not be the model that wrote it.
MayOverflow == LastFinished # 0 /\ msgs[LastFinished].content # "summary" /\ Room

Decisions ==
  IF Answered THEN {"exit"}
  ELSE IF Tasks # {} THEN {msgs[Min(Tasks)].content}
  ELSE {"answer"} \cup (IF MayOverflow THEN {"overflow"} ELSE {})

Running == {c \in Callers : pc[c] \in LoopPhases \cup ShellPhases}

SessionInit ==
  /\ kind \in Kinds
  /\ msgs = <<>>
  /\ entry = NoEntry
  /\ aborted = {}
  /\ pc = [c \in Callers |-> "idle"]
  /\ mine = [c \in Callers |-> 0]
  /\ plan = [c \in Callers |-> NoPlan]
  /\ outcome = [c \in Callers |-> Pending]
  /\ status = "idle"
  /\ cancels = 0

-----------------------------------------------------------------------------

(* prompt: the identifier is allocated, then the parts are read and written.  *)
(* A command may ask for a subtask, a summarize call for a compaction.       *)
UserContent(k) ==
  CASE k = "command" -> "subtask" [] k = "summarize" -> "compaction" [] OTHER -> "prompt"

Create(c) ==
  /\ pc[c] = "idle"
  /\ kind[c] # "shell"
  /\ msgs' = Append(msgs, [Message("user", UserContent(kind[c]), 0) EXCEPT !.stored = FALSE])
  /\ mine' = [mine EXCEPT ![c] = Len(msgs) + 1]
  /\ pc' = [pc EXCEPT ![c] = "creating"]
  /\ UNCHANGED <<kind, entry, aborted, plan, outcome, status, cancels>>

Store(c) ==
  /\ pc[c] = "creating"
  /\ msgs' = [msgs EXCEPT ![mine[c]].stored = TRUE]
  /\ IF kind[c] = "noReply"
     THEN /\ pc' = [pc EXCEPT ![c] = "done"]
          /\ outcome' = [outcome EXCEPT ![c] = [how |-> "stored", answer |-> 0]]
     ELSE /\ pc' = [pc EXCEPT ![c] = "stored"]
          /\ UNCHANGED outcome
  /\ UNCHANGED <<kind, entry, aborted, mine, plan, status, cancels>>

\* start: register a loop if the session has none.
Register(c, phase) ==
  /\ entry = NoEntry
  /\ entry' = [owner |-> c, queued |-> {}]
  /\ pc' = [pc EXCEPT ![c] = phase]

StartLoop(c) ==
  /\ pc[c] = "stored"
  /\ Register(c, "top")
  /\ UNCHANGED <<kind, msgs, aborted, mine, plan, outcome, status, cancels>>

(* Mutant: the promise is made and not kept in the registry.                 *)
QueueUnheld(c) ==
  /\ pc[c] = "stored"
  /\ entry # NoEntry
  /\ pc' = [pc EXCEPT ![c] = "waiting"]
  /\ UNCHANGED <<kind, msgs, entry, aborted, mine, plan, outcome, status, cancels>>

Queue(c) ==
  /\ pc[c] = "stored"
  /\ entry # NoEntry
  /\ entry' = [entry EXCEPT !.queued = @ \cup {c}]
  /\ pc' = [pc EXCEPT ![c] = "waiting"]
  /\ UNCHANGED <<kind, msgs, aborted, mine, plan, outcome, status, cancels>>

-----------------------------------------------------------------------------
(* The loop.                                                                 *)

\* One turn of the loop reads the stored messages and decides what to do.
Top(c) ==
  /\ pc[c] = "top"
  /\ status' = "busy"
  /\ \E do \in IF c \in aborted THEN {"exit"} ELSE Decisions :
       IF do = "exit"
       THEN /\ pc' = [pc EXCEPT ![c] = "exit"]
            /\ UNCHANGED plan
       ELSE /\ pc' = [pc EXCEPT ![c] = "planned"]
            /\ plan' = [plan EXCEPT ![c] = [do |-> do, user |-> LastUser]]
  /\ UNCHANGED <<kind, msgs, entry, aborted, mine, outcome, cancels>>

Goto(c, phase) ==
  /\ pc' = [pc EXCEPT ![c] = phase]
  /\ plan' = [plan EXCEPT ![c] = NoPlan]

\* The last answer overflowed the context: ask for a compaction.
RequestCompaction(c) ==
  /\ pc[c] = "planned"
  /\ plan[c].do = "overflow"
  /\ msgs' = Append(msgs, Message("user", "compaction", 0))
  /\ Goto(c, "top")
  /\ UNCHANGED <<kind, entry, aborted, mine, outcome, status, cancels>>

\* The model the prompt asks for is not available: the loop throws.
Throw(c) ==
  /\ pc[c] = "planned"
  /\ Goto(c, "leaving")
  /\ outcome' = [outcome EXCEPT ![c] = [how |-> "failed", answer |-> 0]]
  /\ UNCHANGED <<kind, msgs, entry, aborted, mine, status, cancels>>

\* Write the assistant message of an answer, a summary or a subtask.
Reply == [answer |-> "answer", compaction |-> "summary", subtask |-> "task"]
Begin(c) ==
  /\ pc[c] = "planned"
  /\ plan[c].do \in DOMAIN Reply
  /\ msgs' = Append(msgs, Message("assistant", Reply[plan[c].do], plan[c].user))
  /\ plan' = [plan EXCEPT ![c].user = Len(msgs) + 1]
  /\ pc' = [pc EXCEPT ![c] = "working"]
  /\ UNCHANGED <<kind, entry, aborted, mine, outcome, status, cancels>>

\* The model answered (SessionProcessor.process): with text, with tool calls,
\* or filling the context.  An answer that overflowed is followed by a request
\* for compaction in the same iteration.
Answer(c) ==
  /\ pc[c] = "working"
  /\ plan[c].do = "answer"
  /\ \E finish \in {"stop", "tool-calls"}, full \in BOOLEAN :
       /\ (finish = "tool-calls" \/ full) => Room
       /\ LET done == [msgs EXCEPT ![plan[c].user].finish = finish]
          IN msgs' = IF full THEN Append(done, Message("user", "compaction", 0)) ELSE done
  /\ Goto(c, "top")
  /\ UNCHANGED <<kind, entry, aborted, mine, outcome, status, cancels>>

\* A summary is followed by a synthetic "continue" message when it was automatic.
Summarise(c) ==
  /\ pc[c] = "working"
  /\ plan[c].do = "compaction"
  /\ \E auto \in BOOLEAN :
       /\ auto => Room
       /\ LET done == [msgs EXCEPT ![plan[c].user].finish = "stop"]
          IN msgs' = IF auto THEN Append(done, Message("user", "synthetic", 0)) ELSE done
  /\ Goto(c, "top")
  /\ UNCHANGED <<kind, entry, aborted, mine, outcome, status, cancels>>

\* A subtask ends, with a result or an error, and a synthetic user message.
EndTask(c) ==
  /\ pc[c] = "working"
  /\ plan[c].do = "subtask"
  /\ msgs' = Append([msgs EXCEPT ![plan[c].user].finish = "tool-calls"],
                    Message("user", "synthetic", 0))
  /\ Goto(c, "top")
  /\ UNCHANGED <<kind, entry, aborted, mine, outcome, status, cancels>>

\* The provider failed, a permission was refused, or the signal fired.
Fail(c) ==
  /\ pc[c] = "working"
  /\ plan[c].do # "subtask"
  /\ Goto(c, "exit")
  /\ UNCHANGED <<kind, msgs, entry, aborted, mine, outcome, status, cancels>>

-----------------------------------------------------------------------------
(* Leaving: the newest assistant message answers the loop's caller and the   *)
(* callers queued behind whatever loop is registered by then; the deferred   *)
(* cancel then removes that entry, whoever owns it.                          *)

Settle(S, how, answer) ==
  outcome' = [c \in Callers |-> IF c \in S THEN [how |-> how, answer |-> answer] ELSE outcome[c]]

WaitingNow == {c \in entry.queued : pc[c] = "waiting"}

Resolve(c) ==
  /\ pc[c] = "exit"
  /\ IF Assistants = {}
     THEN /\ Settle({c}, "failed", 0)
          /\ pc' = [pc EXCEPT ![c] = "leaving"]
     ELSE /\ Settle({c} \cup WaitingNow, "answered", LastAssistant)
          /\ pc' = [d \in Callers |-> IF d = c THEN "leaving"
                                      ELSE IF d \in WaitingNow THEN "done" ELSE pc[d]]
  /\ UNCHANGED <<kind, msgs, entry, aborted, mine, plan, status, cancels>>

(* Mutant: the registered loop is not told to stop.                          *)
UnregisterUntold(finished) ==
  /\ entry' = NoEntry
  /\ aborted' = aborted
  /\ status' = IF entry = NoEntry THEN status ELSE "idle"
  /\ Settle(WaitingNow, "refused", 0)
  /\ pc' = [d \in Callers |-> IF d \in WaitingNow \cup finished THEN "done" ELSE pc[d]]

\* cancel: nothing without an entry; otherwise abort its loop, refuse the
\* callers still queued, delete the entry and publish "idle".
Unregister(finished) ==
  /\ entry' = NoEntry
  /\ aborted' = IF entry = NoEntry THEN aborted ELSE aborted \cup {entry.owner}
  /\ status' = IF entry = NoEntry THEN status ELSE "idle"
  /\ Settle(WaitingNow, "refused", 0)
  /\ pc' = [d \in Callers |-> IF d \in WaitingNow \cup finished THEN "done" ELSE pc[d]]

DeferredCancel(c) ==
  /\ pc[c] = "leaving"
  /\ Unregister({c})
  /\ UNCHANGED <<kind, msgs, mine, plan, cancels>>

\* A client's abort of the session.
Cancel ==
  /\ cancels < MaxCancels
  /\ entry # NoEntry
  /\ Unregister({})
  /\ cancels' = cancels + 1
  /\ UNCHANGED <<kind, msgs, mine, plan>>

\* The instance is disposed: every loop is aborted, queued callers are refused,
\* and the next call finds a fresh state.
Dispose ==
  /\ cancels < MaxCancels
  /\ entry # NoEntry
  /\ Unregister({})
  /\ cancels' = cancels + 1
  /\ UNCHANGED <<kind, msgs, mine, plan>>

-----------------------------------------------------------------------------
(* shell: a command run by the user, under the same registration.            *)

ShellStart(c) ==
  /\ pc[c] = "idle"
  /\ kind[c] = "shell"
  /\ IF entry = NoEntry
     THEN Register(c, "shell") /\ UNCHANGED outcome
     ELSE /\ pc' = [pc EXCEPT ![c] = "done"]
          /\ Settle({c}, "busy", 0)
          /\ UNCHANGED entry
  /\ UNCHANGED <<kind, msgs, aborted, mine, plan, status, cancels>>

ShellSpawn(c) ==
  /\ pc[c] = "shell"
  /\ msgs' = msgs \o <<Message("user", "synthetic", 0), Message("assistant", "bash", Len(msgs) + 1)>>
  /\ mine' = [mine EXCEPT ![c] = Len(msgs) + 1]
  /\ pc' = [pc EXCEPT ![c] = "command"]
  /\ UNCHANGED <<kind, entry, aborted, plan, outcome, status, cancels>>

\* The process closed, by itself or killed by the abort handler.
ShellExit(c) ==
  /\ pc[c] = "command"
  /\ Settle({c}, "answered", mine[c] + 1)
  /\ pc' = [pc EXCEPT ![c] = "leaving"]
  /\ UNCHANGED <<kind, msgs, entry, aborted, mine, plan, status, cancels>>

-----------------------------------------------------------------------------
LoopStep(c) ==
  \/ Store(c) \/ StartLoop(c) \/ Queue(c)
  \/ Top(c) \/ RequestCompaction(c) \/ Begin(c)
  \/ Answer(c) \/ Summarise(c) \/ EndTask(c) \/ Fail(c) \/ Throw(c)
  \/ Resolve(c) \/ DeferredCancel(c)
  \/ ShellSpawn(c) \/ ShellExit(c)

SessionTypeOK ==
  /\ kind \in [Callers -> CallKinds]
  /\ msgs \in Seq([role : {"user", "assistant"}, content : Contents, parent : Nat,
                   finish : Finishes, stored : BOOLEAN])
  /\ entry \in [owner : Callers \cup {Nobody}, queued : SUBSET Callers]
  /\ aborted \in SUBSET Callers
  /\ pc \in [Callers -> Phases]
  /\ mine \in [Callers -> Nat]
  /\ plan \in [Callers -> [do : {"none", "answer", "compaction", "subtask", "overflow"}, user : Nat]]
  /\ outcome \in [Callers -> [how : {"pending", "stored", "answered", "refused", "failed", "busy"},
                              answer : Nat]]
  /\ status \in {"idle", "busy"}
  /\ cancels \in Nat

(* At most one loop or shell command works on the session without having    *)
(* been told to stop, and it is the one the registry names: although an old  *)
(* loop's deferred cancel may remove the registration of a newer one, no two *)
(* loops write answers side by side unaware of each other (prompt.ts:232-255). *)
OneLiveLoop ==
  Running \ aborted = IF entry = NoEntry THEN {} ELSE {entry.owner}

(* A call that waits for another's loop is held by the registry, where some *)
(* loop's end, a cancel or a disposal will find it: a removal of the entry   *)
(* never forgets a queued promise (prompt.ts:258-264, 243-255).              *)
WaitersAreHeld ==
  /\ \A c \in Callers : pc[c] = "waiting" => c \in entry.queued
  /\ \A c \in Callers : pc[c] = "done" <=> outcome[c].how # "pending" /\ pc[c] # "leaving"

(* The registry is right about who works and who waits on the session,       *)
(* whatever loops were cancelled and started while others ran out.           *)
RegistryIsTrue == SessionTypeOK /\ OneLiveLoop /\ WaitersAreHeld

(* A loop nobody aborted never hands its own caller an answer older than the *)
(* caller's prompt, whatever other prompts, subtasks, shell commands and     *)
(* compactions were stored meanwhile (prompt.ts:293-302, 596-604).           *)
OwnAnswerIsNewer ==
  \A c \in Callers :
    pc[c] = "leaving" /\ c \notin aborted /\ outcome[c].how = "answered"
      => outcome[c].answer > mine[c]
=============================================================================
