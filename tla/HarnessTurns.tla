---------------------------- MODULE HarnessTurns ----------------------------
(* The JSON-RPC harness (harness/server.ts, thread-manager.ts and the life   *)
(* cycle of turn-runner.ts) composed with the session's prompt loop: a turn  *)
(* is a caller of SessionPrompt.prompt, turn.cancel is its cancel.  Callers  *)
(* that are not turns come from the HTTP server or a tool and call the loop  *)
(* directly.  One thread is modelled: threads share no state but the maps.   *)
EXTENDS SessionLoop

VARIABLES
  thread,      \* the thread manager's record of the thread, if it has one
  turn,        \* the state of each turn
  replaced     \* turns under way when a handler that loaded the thread replaced its record

harnessVars == <<thread, turn, replaced>>
vars == <<sessionVars, harnessVars>>

Turns == {c \in Callers : kind[c] = "turn"}
TurnStates == {"none", "loading", "busy", "notFound", "started", "running",
               "completed", "cancelled", "error"}
Active == {"started", "running"}

\* The session may be stored by an earlier process, or not exist at all.
Init ==
  /\ SessionInit
  /\ thread \in {[known |-> FALSE, stored |-> s, active |-> Nobody] : s \in BOOLEAN}
  /\ turn = [c \in Callers |-> "none"]
  /\ replaced = {}

\* thread.create: a new session and its record.
CreateThread ==
  /\ Turns # {}
  /\ ~thread.stored
  /\ thread' = [known |-> TRUE, stored |-> TRUE, active |-> Nobody]
  /\ UNCHANGED <<sessionVars, turn, replaced>>

(* Mutant: a thread with an active turn is not busy.                         *)
NeverBusy(t, record) ==
  turn' = [turn EXCEPT ![t] = "started"] /\ thread' = [record EXCEPT !.active = t]

\* The busy test and TurnRunner.start up to its first await.
BusyOrStart(t, record) ==
  IF record.active # Nobody
  THEN turn' = [turn EXCEPT ![t] = "busy"] /\ thread' = record
  ELSE turn' = [turn EXCEPT ![t] = "started"] /\ thread' = [record EXCEPT !.active = t]

\* turn.start on a thread the manager knows.
TurnStart(t) ==
  /\ turn[t] = "none"
  /\ thread.known
  /\ BusyOrStart(t, thread)
  /\ UNCHANGED <<sessionVars, replaced>>

\* turn.start on a thread it does not know: Session.get is awaited ...
TurnLoad(t) ==
  /\ turn[t] = "none"
  /\ ~thread.known
  /\ turn' = [turn EXCEPT ![t] = "loading"]
  /\ UNCHANGED <<sessionVars, thread, replaced>>

\* ... and createThread replaces whatever record the thread has by then.
TurnLoaded(t) ==
  /\ turn[t] = "loading"
  /\ IF thread.stored
     THEN /\ BusyOrStart(t, [known |-> TRUE, stored |-> TRUE, active |-> Nobody])
          /\ replaced' = replaced \cup {u \in Turns : turn[u] \in Active}
     ELSE /\ turn' = [turn EXCEPT ![t] = "notFound"]
          /\ UNCHANGED <<thread, replaced>>
  /\ UNCHANGED sessionVars

\* The turn's first events are logged, the bus subscribed, the model resolved,
\* and SessionPrompt.prompt is called.
TurnPrompt(t) ==
  /\ turn[t] = "started"
  /\ Create(t)
  /\ turn' = [turn EXCEPT ![t] = "running"]
  /\ UNCHANGED <<thread, replaced>>

\* What prompt throws: a queued caller is refused with undefined, a loop fails
\* with a plain Error.
ErrorName(how) == IF how = "refused" THEN "undefined" ELSE "Error"

\* completeTurn, after prompt returned or threw.
TurnEnd(t) ==
  /\ turn[t] = "running"
  /\ pc[t] = "done"
  /\ turn' = [turn EXCEPT ![t] =
       IF outcome[t].how = "answered" THEN "completed"
       ELSE IF ErrorName(outcome[t].how) = "MessageAbortedError" THEN "cancelled" ELSE "error"]
  /\ thread' = IF thread.active = t THEN [thread EXCEPT !.active = Nobody] ELSE thread
  /\ UNCHANGED <<sessionVars, replaced>>

\* turn.cancel answers ok whether or not a loop is registered.
TurnCancel ==
  /\ Turns # {}
  /\ cancels < MaxCancels
  /\ \/ Cancel
     \/ entry = NoEntry /\ cancels' = cancels + 1
        /\ UNCHANGED <<kind, msgs, entry, aborted, pc, mine, plan, outcome, status>>
  /\ UNCHANGED <<thread, turn, replaced>>

\* The other callers, without the harness.
Direct ==
  /\ \/ \E c \in Callers \ Turns : Create(c) \/ ShellStart(c)
     \/ Turns = {} /\ (Cancel \/ Dispose)
  /\ UNCHANGED harnessVars

Work(c) == LoopStep(c) /\ UNCHANGED harnessVars

TurnStep(t) ==
  \/ TurnStart(t) \/ TurnLoad(t) \/ TurnLoaded(t) \/ TurnPrompt(t) \/ TurnEnd(t)

Next ==
  \/ CreateThread
  \/ \E t \in Turns : TurnStep(t)
  \/ TurnCancel
  \/ Direct
  \/ \E c \in Callers : Work(c)

Spec == Init /\ [][Next]_vars

\* Awaited storage, timers and provider calls return, and a handler that was
\* started runs on: nothing obliges a client to call or to cancel.
Fairness ==
  \A c \in Callers :
    /\ WF_vars(Work(c))
    /\ WF_vars(TurnLoaded(c) \/ TurnPrompt(c) \/ TurnEnd(c))

FairSpec == Spec /\ Fairness

TypeOK ==
  /\ SessionTypeOK
  /\ thread \in [known : BOOLEAN, stored : BOOLEAN, active : Callers \cup {Nobody}]
  /\ turn \in [Callers -> TurnStates]
  /\ replaced \in SUBSET Callers

(* Two turns of one thread are under way together only if the record that    *)
(* named one of them was replaced meanwhile, by a handler that had to load   *)
(* the thread: but for that window the busy test of turn.start and the       *)
(* clearing of activeTurnId keep turns apart (server.ts:166-179,             *)
(* thread-manager.ts:59-103).                                                *)
OneTurnUnlessReloaded ==
  /\ TypeOK
  /\ \A t, u \in Turns :
       t # u /\ {turn[t], turn[u]} \subseteq Active => {t, u} \cap replaced # {}

(* Every call that stored its message and every turn that was started comes  *)
(* to an end: no queued caller is forgotten, whoever cancels                 *)
(* (prompt.ts:257-606, turn-runner.ts:95-127).                               *)
EverythingEnds ==
  \A c \in Callers :
    (pc[c] = "stored" \/ turn[c] = "started") ~>
      (pc[c] = "done" /\ turn[c] \notin Active)
=============================================================================
