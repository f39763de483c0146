------------------------------- MODULE Subtasks -------------------------------
(* A batch of tool calls (tool/batch.ts), subtasks among them (tool/task.ts).*)
(* A subtask prompts a session, one of its own or one it is given, and waits *)
(* for its loop; the message's reader settles the parts when the turn is     *)
(* aborted, while the calls are still under way.  Sessions and the loops     *)
(* that run them have numbers: the turn's own is Root, a call's new session  *)
(* and the loop it runs have the call's number.                              *)
EXTENDS Integers, Sequences, FiniteSets

CONSTANTS
  Batches,       \* sequences of calls [tool, session]
  MaxCalls,      \* the calls a batch may have (10 in batch.ts)
  MaxFaults      \* bound of the writes that fail

VARIABLES
  calls,         \* the batch
  batch,         \* "running", "recording" what is over the limit, "returned" or "rejected"
  at,            \* call -> what it does next
  parts,         \* call -> the status of its part, "none" before it is stored
  entries,       \* session -> its registered loop and the calls queued behind it
  stopped,       \* loops whose signal is aborted
  listening,     \* subtasks that hear the turn's abort
  late,          \* subtasks that prompted after the abort
  reader,        \* "streaming", "settling" or "ended"
  unsettled,     \* calls whose parts the reader found unfinished
  faults

taskVars == <<calls, batch, at, parts, entries, stopped, listening, late, reader, unsettled, faults>>

OwnSession == 0
GivenSession == -1
NewSession == -2
NoLoop == [owner |-> GivenSession, queued |-> {}]
ToolCall(tool) == [tool |-> tool, session |-> GivenSession]
Task(session) == [tool |-> "task", session |-> session]
BatchCalls == DOMAIN calls
WithinLimit == {i \in BatchCalls : i <= MaxCalls}
TaskSessions == {OwnSession, GivenSession} \cup 1..MaxCalls

\* Tools that are not run: batch itself, one that is not in the registry, and
\* parameters that do not parse.
NotRun == {"batch", "missing", "invalid"}

\* The session of a subtask: the one it names if there is one, else a new one.
SessionOf(i) == IF calls[i].session = NewSession THEN i ELSE calls[i].session

SubtasksInit ==
  /\ calls \in Batches /\ batch = "running"
  /\ at = [i \in BatchCalls |-> IF i <= MaxCalls THEN "new" ELSE "over"]
  /\ parts = [i \in BatchCalls |-> "none"]
  /\ entries = [s \in TaskSessions |-> IF s = OwnSession THEN [owner |-> OwnSession, queued |-> {}] ELSE NoLoop]
  /\ stopped = {} /\ listening = {} /\ late = {}
  /\ reader = "streaming" /\ unsettled = {} /\ faults = 0

Go(i, from, to) == at[i] = from /\ at' = [at EXCEPT ![i] = to]
LoopsStay == UNCHANGED <<entries, stopped, listening, late>>
ReaderStays == UNCHANGED <<calls, reader, unsettled>>

-----------------------------------------------------------------------------
(* The calls of a batch, all at once (executeCall). *)

\* A part is stored, or storing it fails, which the caller catches.
StorePart(i, status, next, failed) ==
  \/ /\ parts' = [parts EXCEPT ![i] = status] /\ at' = [at EXCEPT ![i] = next]
     /\ UNCHANGED faults
  \/ /\ faults < MaxFaults /\ faults' = faults + 1
     /\ at' = [at EXCEPT ![i] = failed] /\ UNCHANGED parts

BeginCall(i) ==
  /\ at[i] = "new"
  /\ IF calls[i].tool \in NotRun THEN Go(i, "new", "failed") /\ UNCHANGED <<parts, faults>>
     ELSE StorePart(i, "running", IF calls[i].tool = "task" THEN "asking" ELSE "executing", "failed")
  /\ LoopsStay /\ ReaderStays /\ UNCHANGED batch

Executed(i) ==
  /\ Go(i, "executing", IF calls[i].tool = "throws" THEN "failed" ELSE "succeeded")
  /\ LoopsStay /\ ReaderStays /\ UNCHANGED <<batch, parts, faults>>

RecordCompleted(i) ==
  /\ at[i] = "succeeded" /\ StorePart(i, "completed", "completed", "failed")
  /\ LoopsStay /\ ReaderStays /\ UNCHANGED batch

\* What is thrown while an error is stored nobody catches: the batch is
\* rejected, and the other calls go on.
RecordError(i) ==
  /\ at[i] = "failed" /\ StorePart(i, "error", "error", "lost")
  /\ batch' = IF at'[i] = "lost" /\ batch = "running" THEN "rejected" ELSE batch
  /\ LoopsStay /\ ReaderStays

\* Calls over the limit are recorded in turn when the others are done.
AllDone ==
  /\ batch = "running" /\ \A i \in WithinLimit : at[i] \in {"completed", "error"}
  /\ batch' = "recording"
  /\ LoopsStay /\ ReaderStays /\ UNCHANGED <<at, parts, faults>>
RecordDiscarded(i) ==
  /\ batch = "recording" /\ at[i] = "over" /\ \A j \in BatchCalls : at[j] = "over" => i <= j
  /\ StorePart(i, "error", "error", "lost")
  /\ batch' = IF at'[i] = "lost" THEN "rejected" ELSE batch
  /\ LoopsStay /\ ReaderStays
Return ==
  /\ batch = "recording" /\ \A i \in BatchCalls : at[i] # "over"
  /\ batch' = "returned"
  /\ LoopsStay /\ ReaderStays /\ UNCHANGED <<at, parts, faults>>

-----------------------------------------------------------------------------
(* A subtask. *)

\* The user is asked; an agent that is not known is an error.
Asked(i) ==
  /\ Go(i, "asking", "finding") \/ Go(i, "asking", "failed")
  /\ LoopsStay /\ ReaderStays /\ UNCHANGED <<batch, parts, faults>>

\* Only when the session is found or made, and the message read again, does
\* the subtask listen for the abort.
Listen(i) ==
  /\ Go(i, "finding", "resolving") /\ listening' = listening \cup {i}
  /\ ReaderStays /\ UNCHANGED <<batch, parts, faults, entries, stopped, late>>

\* The prompt's files are looked up and its message is stored; then the
\* session's loop is the subtask's own, or one it queues behind.
PromptTask(i) ==
  /\ LET s == SessionOf(i)
         mine == entries[s] = NoLoop IN
     /\ Go(i, "resolving", IF mine THEN "looping" ELSE "waiting")
     /\ entries' = [entries EXCEPT ![s] = IF mine THEN [owner |-> i, queued |-> {}]
                                          ELSE [@ EXCEPT !.queued = @ \cup {i}]]
  /\ late' = IF OwnSession \in stopped THEN late \cup {i} ELSE late
  /\ ReaderStays /\ UNCHANGED <<batch, parts, faults, stopped, listening>>

\* Mutant: the calls queued behind a cancelled loop are forgotten.
BehindNone(S) == {}

\* cancel, of each session of S: its loop is aborted, and the calls queued
\* behind it are rejected.
Behind(S) == UNION {entries[s].queued : s \in S}
Cancelled(S) ==
  /\ stopped' = stopped \cup {entries[s].owner : s \in {t \in S : entries[t] # NoLoop}}
  /\ entries' = [s \in TaskSessions |-> IF s \in S THEN NoLoop ELSE entries[s]]

Deaf == listening' = {i \in listening : at'[i] # "failed"}

\* The loop of a subtask ends, aborted or not, and answers those queued on its
\* session; or it fails and rejects them.  Its deferred cancel is of whatever
\* loop is registered by then.
LoopEnds(i) ==
  /\ at[i] = "looping"
  /\ \E how \in {"answered", "failed"} :
       LET queued == Behind({SessionOf(i)}) IN
       at' = [j \in BatchCalls |-> IF j = i \/ j \in queued THEN how ELSE at[j]]
  /\ Cancelled({SessionOf(i)}) /\ Deaf
  /\ ReaderStays /\ UNCHANGED <<batch, parts, faults, late>>

\* The session's messages are read for the report, and the subtask is over.
Report(i) ==
  /\ Go(i, "answered", "succeeded") /\ listening' = listening \ {i}
  /\ ReaderStays /\ UNCHANGED <<batch, parts, faults, entries, stopped, late>>

\* A client aborts one session, the turn's own among them: then every subtask
\* that listens cancels its session as well.
AbortSession(s) ==
  /\ entries[s] # NoLoop
  /\ LET heard == IF s = OwnSession THEN {SessionOf(i) : i \in listening} ELSE {} IN
     /\ Cancelled({s} \cup heard)
     /\ at' = [j \in BatchCalls |-> IF j \in Behind({s} \cup heard) THEN "failed" ELSE at[j]]
  /\ Deaf /\ ReaderStays /\ UNCHANGED <<batch, parts, faults, late>>

-----------------------------------------------------------------------------
(* The reader of the turn's message: when the batch is over or the turn      *)
(* aborted it reads the parts, and writes those that were not finished.      *)
ReaderReads ==
  /\ reader = "streaming" /\ (OwnSession \in stopped \/ batch \in {"returned", "rejected"})
  /\ reader' = "settling" /\ unsettled' = {i \in BatchCalls : parts[i] = "running"}
  /\ LoopsStay /\ UNCHANGED <<calls, batch, at, parts, faults>>
ReaderSettles(i) ==
  /\ reader = "settling" /\ i \in unsettled
  /\ unsettled' = unsettled \ {i} /\ parts' = [parts EXCEPT ![i] = "error"]
  /\ LoopsStay /\ UNCHANGED <<calls, batch, at, reader, faults>>
ReaderEnds ==
  /\ reader = "settling" /\ unsettled = {} /\ reader' = "ended"
  /\ LoopsStay /\ UNCHANGED <<calls, batch, at, parts, unsettled, faults>>

CallStep(i) ==
  BeginCall(i) \/ Executed(i) \/ RecordCompleted(i) \/ RecordError(i) \/ RecordDiscarded(i) \/ Listen(i) \/ PromptTask(i) \/ Report(i)
BatchStep == AllDone \/ Return
ReaderOfTurn == ReaderReads \/ ReaderEnds \/ \E i \in BatchCalls : ReaderSettles(i)
SubtasksNext ==
  \/ \E i \in BatchCalls : CallStep(i) \/ Asked(i) \/ LoopEnds(i)
  \/ \E s \in TaskSessions : AbortSession(s)
  \/ BatchStep \/ ReaderOfTurn

\* Of the loops only those that are aborted must end.
AbortedLoopEnds(i) == i \in stopped /\ LoopEnds(i)

-----------------------------------------------------------------------------
FinishedStates == {"completed", "error"}

\* A batch that returned without an abort reports what the parts say: every
\* call has one, finished, and it is completed exactly when the call is
\* counted as a success.
ReportAddsUp ==
  batch = "returned" /\ OwnSession \notin stopped =>
    \A i \in BatchCalls : parts[i] = at[i] /\ at[i] \in FinishedStates

\* When the turn is aborted its calls end and their parts with them, but for
\* those that still ask, those that prompted too late to hear of it, and one
\* whose error could not be stored.
Over(i) ==
  /\ at[i] \in FinishedStates \cup {"lost", "over"}
  /\ at[i] \in FinishedStates => parts[i] \in FinishedStates
CallsFollow == \A i \in BatchCalls \ late : at[i] # "asking" => Over(i)

\* Whatever a batch tells agrees with its parts, and an abort reaches the
\* subtasks that wait for a session, of their own, shared, or the turn's.
BatchesSettle == []ReportAddsUp /\ (<>(OwnSession \in stopped) => <>[]CallsFollow)
=============================================================================
