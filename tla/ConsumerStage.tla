---------------------------- MODULE ConsumerStage ----------------------------
(***************************************************************************)
(* What the four consumers of mocknet (TradeIngestionService,              *)
(* TradeMatchingEngine, NettingCalculator, SettlementInstructor) have in   *)
(* common: processLoop claims a message, runs the stage's handler, and     *)
(* completes or fails the message by what the handler did.  The queue is   *)
(* WorkQueue, which QueueBroker implements.  A stage EXTENDS this module,  *)
(* adds the handler's steps between "claimed" and an outcome, and its own  *)
(* variables to what Begin, Dispose and Crash change.                      *)
(***************************************************************************)
EXTENDS WorkQueue

CONSTANT MaxFaults    \* bound: crashes, takeovers and database errors together

ASSUME StageAssumption ==
  /\ Nobody \notin Workers
  /\ MaxFaults \in Nat
  /\ MaxAttempts \in Nat \ {0}

VARIABLES
  pc,               \* pc[w]: where worker w is in processLoop and its handler
  job,              \* job[w]: the message worker w was given
  crashes,          \* faults so far, by kind
  takeovers,
  errors

faultVars == <<crashes, takeovers, errors>>
stageVars == <<absVars, pc, job, faultVars>>

(* complete(message); fail() with a retryable failure; fail() otherwise.   *)
HandlerOutcomes == {"succeeded", "retryable", "terminal"}

StageTypeOK(points) ==
  /\ AbsTypeOK
  /\ pc \in [Workers -> points \union {"idle", "claimed"} \union HandlerOutcomes]
  /\ job \in [Workers -> Messages \union {Nobody}]
  /\ crashes \in Nat /\ takeovers \in Nat /\ errors \in Nat

StageInit ==
  /\ holder = [m \in Messages |-> Nobody]
  /\ failures = [m \in Messages |-> 0]
  /\ pc = [w \in Workers |-> "idle"]
  /\ job = [w \in Workers |-> Nobody]
  /\ crashes = 0 /\ takeovers = 0 /\ errors = 0

FaultLeft == crashes + takeovers + errors < MaxFaults

(* The handler of w goes on.                                               *)
Goto(w, point) ==
  /\ pc' = [pc EXCEPT ![w] = point]
  /\ UNCHANGED <<absVars, job>>

Begin(w, m) ==
  /\ pc[w] = "idle"
  /\ Take(w, m)
  /\ pc' = [pc EXCEPT ![w] = "claimed"]
  /\ job' = [job EXCEPT ![w] = m]
  /\ UNCHANGED <<crashes, errors>>

(* A message nobody holds: new, due for a retry, or orphaned by a crash.   *)
Claim(w, m) ==
  /\ holder[m] = Nobody
  /\ Begin(w, m)
  /\ UNCHANGED takeovers

(* The lease of a live worker ran out.                                     *)
TakeOver(w, m) ==
  /\ holder[m] # Nobody
  /\ FaultLeft
  /\ Begin(w, m)
  /\ takeovers' = takeovers + 1

Release(w) ==
  /\ pc' = [pc EXCEPT ![w] = "idle"]
  /\ job' = [job EXCEPT ![w] = Nobody]

(* Mutant: a retryable failure is not reported and keeps its claim.        *)
DisposeForgetsRetryable(w) ==
  /\ pc[w] \in HandlerOutcomes
  /\ LET m == job[w] IN
       \/ (holder[m] # w \/ pc[w] = "retryable") /\ UNCHANGED absVars
       \/ pc[w] = "succeeded" /\ Finish(w, m)
       \/ pc[w] = "terminal" /\ Bury(w, m)
  /\ Release(w)
  /\ UNCHANGED faultVars

(* processLoop after the handler.  Neither complete nor fail does anything *)
(* when the claim has passed to another worker.                            *)
Dispose(w) ==
  /\ pc[w] \in HandlerOutcomes
  /\ LET m == job[w] IN
       \/ holder[m] # w /\ UNCHANGED absVars
       \/ pc[w] = "succeeded" /\ Finish(w, m)
       \/ pc[w] = "retryable" /\ Retry(w, m)
       \/ pc[w] = "retryable" /\ failures[m] + 1 >= MaxAttempts /\ Bury(w, m)
       \/ pc[w] = "terminal" /\ Bury(w, m)
  /\ Release(w)
  /\ UNCHANGED faultVars

(* The process died: what the worker held is held by nobody.               *)
Crash(w) ==
  /\ pc[w] # "idle"
  /\ FaultLeft
  /\ crashes' = crashes + 1
  /\ IF holder[job[w]] = w THEN Lose(job[w]) ELSE UNCHANGED absVars
  /\ Release(w)
  /\ UNCHANGED <<takeovers, errors>>

(* A database call of worker w throws.                                     *)
Errored ==
  /\ FaultLeft
  /\ errors' = errors + 1
  /\ UNCHANGED <<crashes, takeovers>>

(* complete() itself throws: the worker fails the message instead, as      *)
(* retryable or not by what FailureClassifier makes of the exception.      *)
CompleteThrows(w) ==
  /\ Errored
  /\ pc[w] = "succeeded"
  /\ \E outcome \in {"retryable", "terminal"} : Goto(w, outcome)

(* Every message is disposed of and every worker polls an empty queue.     *)
QueueDrained ==
  /\ \A m \in Messages : phase[m] \in {"done", "dead"}
  /\ \A w \in Workers : pc[w] = "idle"
=============================================================================
