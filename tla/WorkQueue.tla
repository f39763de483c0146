------------------------------ MODULE WorkQueue ------------------------------
(***************************************************************************)
(* What a stage of the pipeline may assume of the durable broker, with no  *)
(* clock, no lease, no claim columns and no polling: a message waits, is   *)
(* held by at most one worker at a time, and leaves the queue only through *)
(* the worker that holds it.  A hold can be lost (the holder died) or be   *)
(* given to another worker (the holder overstayed), and a worker that no   *)
(* longer holds a message can do nothing to it.  QueueBroker implements    *)
(* this specification.                                                     *)
(***************************************************************************)
EXTENDS Naturals

CONSTANTS
  Workers,        \* consumer threads of one queue, over all running instances
  Nobody,         \* the holder of a message no live worker holds
  Messages,       \* message identifiers
  MaxAttempts     \* a retryable failure is retried below this many attempts

VARIABLES
  phase,          \* phase[m]: where message m is in its life
  holder,         \* holder[m]: the worker that may dispose of m
  failures        \* failures[m]: disposed attempts of m that failed

absVars == <<phase, holder, failures>>

Phases == {"absent", "waiting", "held", "done", "dead"}

AbsTypeOK ==
  /\ phase \in [Messages -> Phases]
  /\ holder \in [Messages -> Workers \union {Nobody}]
  /\ failures \in [Messages -> Nat]

AbsInit ==
  /\ phase = [m \in Messages |-> "absent"]
  /\ holder = [m \in Messages |-> Nobody]
  /\ failures = [m \in Messages |-> 0]

Submit(m) ==
  /\ phase[m] = "absent"
  /\ phase' = [phase EXCEPT ![m] = "waiting"]
  /\ UNCHANGED <<holder, failures>>

(* A waiting message, or one whose holder lost it or overstayed, is given  *)
(* to a worker that does not hold it.                                      *)
Take(w, m) ==
  /\ phase[m] \in {"waiting", "held"}
  /\ holder[m] # w
  /\ phase' = [phase EXCEPT ![m] = "held"]
  /\ holder' = [holder EXCEPT ![m] = w]
  /\ UNCHANGED failures

Lose(m) ==
  /\ holder[m] # Nobody
  /\ holder' = [holder EXCEPT ![m] = Nobody]
  /\ UNCHANGED <<phase, failures>>

Finish(w, m) ==
  /\ holder[m] = w
  /\ phase' = [phase EXCEPT ![m] = "done"]
  /\ holder' = [holder EXCEPT ![m] = Nobody]
  /\ UNCHANGED failures

Retry(w, m) ==
  /\ holder[m] = w
  /\ failures[m] + 1 < MaxAttempts
  /\ phase' = [phase EXCEPT ![m] = "waiting"]
  /\ holder' = [holder EXCEPT ![m] = Nobody]
  /\ failures' = [failures EXCEPT ![m] = @ + 1]

Bury(w, m) ==
  /\ holder[m] = w
  /\ phase' = [phase EXCEPT ![m] = "dead"]
  /\ holder' = [holder EXCEPT ![m] = Nobody]
  /\ failures' = [failures EXCEPT ![m] = @ + 1]

AbsNext ==
  \E m \in Messages :
    \/ Submit(m)
    \/ Lose(m)
    \/ \E w \in Workers : Take(w, m) \/ Finish(w, m) \/ Retry(w, m) \/ Bury(w, m)

AbsSpec == AbsInit /\ [][AbsNext]_absVars
=============================================================================
