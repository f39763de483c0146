----------------------------- MODULE QueueBroker -----------------------------
(***************************************************************************)
(* One queue of mocknet's database-backed broker: the rows of              *)
(* queue_messages, the claim protocol of QueueBroker.java with the         *)
(* conditional updates of QueueMessageRepository, the claim journal        *)
(* (processing_attempts) that OperationalTelemetry writes in the same      *)
(* transactions, the dead letters, and the processLoop of the consumer     *)
(* threads.  A database transaction is one action.  claimNext is several:  *)
(* it reads the clock once, selects candidates, and tries them one by one, *)
(* while other workers and the clock move between the reads and each       *)
(* conditional update.                                                     *)
(*                                                                         *)
(* Workers may belong to several instances that share the database, and    *)
(* thread names repeat across instances (QueueConfig names a pool's        *)
(* threads prefix-1, prefix-2, ...), hence ThreadName.                     *)
(***************************************************************************)
EXTENDS Integers, FiniteSets

CONSTANTS
  Workers,          \* consumer threads of this queue, over all instances
  Nobody,           \* no worker
  Names,            \* values of the worker_name column
  NoName,           \* the null worker_name
  ThreadName,       \* ThreadName[w]: the name thread w writes into its claims
  MessageCount,     \* bound: messages published
  ClaimTimeout,     \* mocknet.broker.claim-timeout, in clock units
  RetryDelay,       \* mocknet.broker.retry-delay, in clock units
  MaxAttempts,      \* mocknet.broker.max-attempts
  BatchSize,        \* CLAIM_BATCH_SIZE
  MaxFaults         \* bound: deaths of a worker, and overruns of a lease

ASSUME WorkersAssumption == IsFiniteSet(Workers) /\ Nobody \notin Workers
ASSUME NamesAssumption == ThreadName \in [Workers -> Names] /\ NoName \notin Names
ASSUME BoundsAssumption == MessageCount \in Nat /\ MaxFaults \in Nat
ASSUME LeaseAssumption == ClaimTimeout \in Nat \ {0} /\ RetryDelay \in Nat \ {0}
ASSUME PolicyAssumption == MaxAttempts \in Nat \ {0} /\ BatchSize \in Nat \ {0}

Messages == 1 .. MessageCount       \* identity column: ids in creation order
NoMessage == 0
NoTime == -1                        \* the null timestamp

VARIABLES
  clock,            \* Instant.now()
  status,           \* queue_messages, column by column; "NONE": no such row
  attempts,
  availableAt,
  claimedAt,
  workerName,
  journal,          \* journal[m]: the processing_attempts rows of m
  deadLetters,      \* deadLetters[m]: DEAD_LETTER messages published for m
  pc,               \* pc[w]: where thread w is in processLoop and claimNext
  now,              \* now[w]: the instant claimNext read, then the claim's token
  candidates,       \* candidates[w]: ids selected and not yet tried
  held,             \* held[w]: the claimed message thread w works on
  seen,             \* seen[w]: attempts of the claimed message, as loaded
  faults            \* faults so far

rows == <<status, attempts, availableAt, claimedAt, workerName>>
locals == <<pc, now, candidates, held, seen>>
vars == <<clock, rows, journal, deadLetters, locals, faults>>

Statuses == {"NONE", "NEW", "PROCESSING", "DONE", "FAILED"}
Outcomes == {"processing", "abandoned", "completed", "retried", "failed"}
Attempt == [at : Nat, number : Nat, worker : Names, outcome : Outcomes]
Candidate == [id : Messages, key : Int]

TypeOK ==
  /\ clock \in Nat
  /\ status \in [Messages -> Statuses]
  /\ attempts \in [Messages -> Nat]
  /\ availableAt \in [Messages -> Nat]
  /\ claimedAt \in [Messages -> Nat \union {NoTime}]
  /\ workerName \in [Messages -> Names \union {NoName}]
  /\ journal \in [Messages -> SUBSET Attempt]
  /\ deadLetters \in [Messages -> Nat]
  /\ pc \in [Workers -> {"idle", "fresh", "stale", "working"}]
  /\ now \in [Workers -> Nat]
  /\ candidates \in [Workers -> SUBSET Candidate]
  /\ held \in [Workers -> Messages \union {NoMessage}]
  /\ seen \in [Workers -> Nat]
  /\ faults \in Nat

Init ==
  /\ clock = 0
  /\ status = [m \in Messages |-> "NONE"]
  /\ attempts = [m \in Messages |-> 0]
  /\ availableAt = [m \in Messages |-> 0]
  /\ claimedAt = [m \in Messages |-> NoTime]
  /\ workerName = [m \in Messages |-> NoName]
  /\ journal = [m \in Messages |-> {}]
  /\ deadLetters = [m \in Messages |-> 0]
  /\ pc = [w \in Workers |-> "idle"]
  /\ now = [w \in Workers |-> 0]
  /\ candidates = [w \in Workers |-> {}]
  /\ held = [w \in Workers |-> NoMessage]
  /\ seen = [w \in Workers |-> 0]
  /\ faults = 0

-----------------------------------------------------------------------------
(* Publishing.                                                             *)

(* A NEW row, available at once.  ids are handed out in order.             *)
Publish(m) ==
  /\ status[m] = "NONE"
  /\ \A k \in 1 .. (m - 1) : status[k] # "NONE"
  /\ status' = [status EXCEPT ![m] = "NEW"]
  /\ availableAt' = [availableAt EXCEPT ![m] = clock]
  /\ UNCHANGED <<clock, attempts, claimedAt, workerName, journal, deadLetters,
                 locals, faults>>

-----------------------------------------------------------------------------
(* Claiming.                                                               *)

(* ORDER BY key, id                                                        *)
Before(c, d) == c.key < d.key \/ (c.key = d.key /\ c.id < d.id)

(* PageRequest.of(0, BatchSize)                                            *)
FirstOf(S) == {c \in S : Cardinality({d \in S : Before(d, c)}) < BatchSize}

(* NEW rows whose time has come, oldest first.                             *)
ClaimableNew(t) ==
  FirstOf({c \in [id : Messages, key : {0}] :
             status[c.id] = "NEW" /\ availableAt[c.id] <= t})

(* PROCESSING rows whose lease is over, longest overdue first.             *)
StaleProcessing(t) ==
  FirstOf({[id |-> m, key |-> claimedAt[m]] :
             m \in {k \in Messages : /\ status[k] = "PROCESSING"
                                     /\ claimedAt[k] <= t - ClaimTimeout}})

(* Mutants: the claiming UPDATE has no lease; the recovery of stale rows   *)
(* is forgotten.                                                           *)
ClaimableNoLease(m, t) ==
  \/ status[m] = "NEW" /\ availableAt[m] <= t
  \/ status[m] = "PROCESSING" /\ claimedAt[m] <= t

ClaimableNewOnly(m, t) == status[m] = "NEW" /\ availableAt[m] <= t

(* The WHERE clause of the claiming UPDATE, re-evaluated on the row as it  *)
(* is then, with the instant read when claimNext began.                    *)
Claimable(m, t) ==
  \/ status[m] = "NEW" /\ availableAt[m] <= t
  \/ status[m] = "PROCESSING" /\ claimedAt[m] <= t - ClaimTimeout

(* Mutant: the attempt taken over stays open.                              *)
JournalClaimKeepsOpen(m, t, name) ==
  journal[m] \union {[at |-> t, number |-> attempts[m] + 1, worker |-> name,
                      outcome |-> "processing"]}

(* OperationalTelemetry.claimed: an open attempt is closed as abandoned    *)
(* and a new one opened.                                                   *)
JournalClaim(m, t, name) ==
  {IF h.outcome = "processing" THEN [h EXCEPT !.outcome = "abandoned"] ELSE h :
     h \in journal[m]}
  \union {[at |-> t, number |-> attempts[m] + 1, worker |-> name,
           outcome |-> "processing"]}

(* OperationalTelemetry.finished: the attempt of that claim is closed.     *)
JournalFinish(m, t, outcome) ==
  {IF h.at = t THEN [h EXCEPT !.outcome = outcome] ELSE h : h \in journal[m]}

(* claimNext begins: the clock is read and NEW candidates are selected.    *)
Poll(w) ==
  /\ pc[w] = "idle"
  /\ pc' = [pc EXCEPT ![w] = "fresh"]
  /\ now' = [now EXCEPT ![w] = clock]
  /\ candidates' = [candidates EXCEPT ![w] = ClaimableNew(clock)]
  /\ UNCHANGED <<clock, rows, journal, deadLetters, held, seen, faults>>

(* The next candidate is claimed, and its row loaded, if the conditional   *)
(* UPDATE matches it; otherwise the loop goes on to the one after it.      *)
TryClaim(w) ==
  /\ pc[w] \in {"fresh", "stale"}
  /\ \E c \in candidates[w] :
       /\ \A d \in candidates[w] \ {c} : Before(c, d)
       /\ IF Claimable(c.id, now[w])
          THEN /\ status' = [status EXCEPT ![c.id] = "PROCESSING"]
               /\ claimedAt' = [claimedAt EXCEPT ![c.id] = now[w]]
               /\ workerName' = [workerName EXCEPT ![c.id] = ThreadName[w]]
               /\ journal' = [journal EXCEPT
                                ![c.id] = JournalClaim(c.id, now[w], ThreadName[w])]
               /\ pc' = [pc EXCEPT ![w] = "working"]
               /\ candidates' = [candidates EXCEPT ![w] = {}]
               /\ held' = [held EXCEPT ![w] = c.id]
               /\ seen' = [seen EXCEPT ![w] = attempts[c.id]]
          ELSE /\ candidates' = [candidates EXCEPT ![w] = @ \ {c}]
               /\ UNCHANGED <<status, claimedAt, workerName, journal, pc, held, seen>>
  /\ UNCHANGED <<clock, attempts, availableAt, deadLetters, now, faults>>

(* No NEW candidate could be claimed: stale ones are selected, with the    *)
(* instant already read.                                                   *)
LookForStale(w) ==
  /\ pc[w] = "fresh"
  /\ candidates[w] = {}
  /\ pc' = [pc EXCEPT ![w] = "stale"]
  /\ candidates' = [candidates EXCEPT ![w] = StaleProcessing(now[w])]
  /\ UNCHANGED <<clock, rows, journal, deadLetters, now, held, seen, faults>>

Free(w) ==
  /\ pc' = [pc EXCEPT ![w] = "idle"]
  /\ now' = [now EXCEPT ![w] = 0]
  /\ held' = [held EXCEPT ![w] = NoMessage]
  /\ seen' = [seen EXCEPT ![w] = 0]
  /\ candidates' = candidates

(* claimNext returns empty; the thread sleeps for the poll interval.       *)
ClaimNothing(w) ==
  /\ pc[w] = "stale"
  /\ candidates[w] = {}
  /\ Free(w)
  /\ UNCHANGED <<clock, rows, journal, deadLetters, faults>>

-----------------------------------------------------------------------------
(* Disposing of a claimed message.                                         *)

(* Mutant: the disposing UPDATEs compare the worker's name alone.          *)
StillClaimedByName(w) ==
  /\ status[held[w]] = "PROCESSING"
  /\ workerName[held[w]] = ThreadName[w]

(* WHERE status = PROCESSING and workerName and claimedAt are those of the *)
(* worker's copy of the message: the claim is still its own.               *)
StillClaimedBy(w) ==
  /\ status[held[w]] = "PROCESSING"
  /\ workerName[held[w]] = ThreadName[w]
  /\ claimedAt[held[w]] = now[w]

(* The handler returned: complete().                                       *)
Complete(w) ==
  /\ pc[w] = "working"
  /\ LET m == held[w] IN
       IF StillClaimedBy(w)
       THEN /\ status' = [status EXCEPT ![m] = "DONE"]
            /\ journal' = [journal EXCEPT ![m] = JournalFinish(m, now[w], "completed")]
       ELSE UNCHANGED <<status, journal>>
  /\ Free(w)
  /\ UNCHANGED <<clock, attempts, availableAt, claimedAt, workerName, deadLetters,
                 faults>>

(* fail() with a retryable failure and attempts left: the row is NEW again *)
(* after the retry delay.  The count of attempts is the copy's.            *)
Reschedule(w) ==
  /\ pc[w] = "working"
  /\ seen[w] + 1 < MaxAttempts
  /\ LET m == held[w] IN
       IF StillClaimedBy(w)
       THEN /\ status' = [status EXCEPT ![m] = "NEW"]
            /\ attempts' = [attempts EXCEPT ![m] = seen[w] + 1]
            /\ availableAt' = [availableAt EXCEPT ![m] = clock + RetryDelay]
            /\ claimedAt' = [claimedAt EXCEPT ![m] = NoTime]
            /\ workerName' = [workerName EXCEPT ![m] = NoName]
            /\ journal' = [journal EXCEPT ![m] = JournalFinish(m, now[w], "retried")]
       ELSE UNCHANGED <<rows, journal>>
  /\ Free(w)
  /\ UNCHANGED <<clock, deadLetters, faults>>

(* Mutant: the dead letter is published whether or not the UPDATE matched. *)
FailForGoodUnconditionally(w) ==
  /\ pc[w] = "working"
  /\ LET m == held[w] IN
       /\ deadLetters' = [deadLetters EXCEPT ![m] = @ + 1]
       /\ IF StillClaimedBy(w)
          THEN /\ status' = [status EXCEPT ![m] = "FAILED"]
               /\ attempts' = [attempts EXCEPT ![m] = seen[w] + 1]
               /\ journal' = [journal EXCEPT ![m] = JournalFinish(m, now[w], "failed")]
          ELSE UNCHANGED <<status, attempts, journal>>
  /\ Free(w)
  /\ UNCHANGED <<clock, availableAt, claimedAt, workerName, faults>>

(* fail() otherwise: FAILED for good, and a dead letter in the same        *)
(* transaction.                                                            *)
FailForGood(w) ==
  /\ pc[w] = "working"
  /\ LET m == held[w] IN
       IF StillClaimedBy(w)
       THEN /\ status' = [status EXCEPT ![m] = "FAILED"]
            /\ attempts' = [attempts EXCEPT ![m] = seen[w] + 1]
            /\ journal' = [journal EXCEPT ![m] = JournalFinish(m, now[w], "failed")]
            /\ deadLetters' = [deadLetters EXCEPT ![m] = @ + 1]
       ELSE UNCHANGED <<status, attempts, journal, deadLetters>>
  /\ Free(w)
  /\ UNCHANGED <<clock, availableAt, claimedAt, workerName, faults>>

(* The handler threw: retryable or not is the failure's.                   *)
Fail(w) == Reschedule(w) \/ FailForGood(w)

-----------------------------------------------------------------------------
(* The environment.                                                        *)

(* The process died while the thread worked, or the disposing transaction  *)
(* itself failed and processLoop only logged it: the claim stays on the    *)
(* row and nobody works on it.                                             *)
Abandon(w) ==
  /\ pc[w] = "working"
  /\ faults < MaxFaults
  /\ faults' = faults + 1
  /\ Free(w)
  /\ UNCHANGED <<clock, rows, journal, deadLetters>>

(* Threads that will have been busy for a whole lease after the next tick. *)
Overrunning == {w \in Workers : pc[w] # "idle" /\ now[w] + ClaimTimeout = clock + 1}

(* Some row has a deadline ahead.  With none, more time changes nothing a  *)
(* worker can tell apart.                                                  *)
DeadlineAhead ==
  \E m \in Messages :
    \/ status[m] = "NEW" /\ availableAt[m] > clock
    \/ status[m] = "PROCESSING" /\ claimedAt[m] + ClaimTimeout > clock

(* Time passes.  A thread may outlive its lease, as a fault.               *)
Tick ==
  /\ DeadlineAhead
  /\ faults + Cardinality(Overrunning) <= MaxFaults
  /\ faults' = faults + Cardinality(Overrunning)
  /\ clock' = clock + 1
  /\ UNCHANGED <<rows, journal, deadLetters, locals>>

-----------------------------------------------------------------------------

Work(w) ==
  \/ Poll(w)
  \/ TryClaim(w)
  \/ LookForStale(w)
  \/ ClaimNothing(w)
  \/ Complete(w)
  \/ Fail(w)

Next ==
  \/ \E m \in Messages : Publish(m)
  \/ \E w \in Workers : Work(w) \/ Abandon(w)
  \/ Tick

(* Each consumer thread runs its loop for ever, and time passes.           *)
Fairness == WF_vars(Tick) /\ \A w \in Workers : WF_vars(Work(w))

Spec == Init /\ [][Next]_vars

FairSpec == Spec /\ Fairness

-----------------------------------------------------------------------------
(* What the broker promises.                                               *)

(* At most one worker still holds the claim on a message, even when two    *)
(* threads of two instances write the same worker name and one of them     *)
(* claimed with an instant it read long ago: (worker_name, claimed_at) in  *)
(* the disposing UPDATEs identifies one claim.                             *)
Holds(w, m) == pc[w] = "working" /\ held[w] = m /\ StillClaimedBy(w)

OneHolder ==
  \A m \in Messages : \A v, w \in Workers : Holds(v, m) /\ Holds(w, m) => v = w

(* Two threads work on one message at a time only if the earlier claim's   *)
(* lease was over when the later one was taken: the claim timeout is the   *)
(* whole protection against concurrent handlers.                           *)
LeasesDisjoint ==
  \A v, w \in Workers :
    /\ v # w /\ pc[v] = "working" /\ pc[w] = "working" /\ held[v] = held[w]
    => \/ now[v] + ClaimTimeout <= now[w]
       \/ now[w] + ClaimTimeout <= now[v]

(* A message is one worker's at a time, in the database's eyes and, within *)
(* the lease, in fact.                                                     *)
ClaimsExclude == OneHolder /\ LeasesDisjoint

(* A message has one dead letter once it has FAILED and none before, also  *)
(* when workers whose claim was taken over fail late.                      *)
DeadLetterIffFailed ==
  \A m \in Messages : deadLetters[m] = IF status[m] = "FAILED" THEN 1 ELSE 0

(* processing_attempts, which support reads as the history of a message,   *)
(* agrees with the row: an attempt is open iff the row is PROCESSING, and  *)
(* it is the current claim's; as many attempts were disposed as retried or *)
(* failed as the row counts; completed and failed are the last word.       *)
JournalOf(m, outcome) == {h \in journal[m] : h.outcome = outcome}

JournalAgrees ==
  \A m \in Messages :
    /\ JournalOf(m, "processing") =
         IF status[m] = "PROCESSING"
         THEN {[at |-> claimedAt[m], number |-> attempts[m] + 1,
                worker |-> workerName[m], outcome |-> "processing"]}
         ELSE {}
    /\ Cardinality(JournalOf(m, "retried") \union JournalOf(m, "failed")) = attempts[m]
    /\ (JournalOf(m, "completed") # {}) = (status[m] = "DONE")
    /\ (JournalOf(m, "failed") # {}) = (status[m] = "FAILED")

(* A claim's instant is later than that of every claim of the message      *)
(* before it, so the unique index on (queueMessageId, claimedAt) never     *)
(* refuses the journal row, and no old copy ever matches a new claim.      *)
FreshToken ==
  [][\A m \in Messages :
       claimedAt'[m] \notin {claimedAt[m], NoTime}
         => \A h \in journal[m] : h.at < claimedAt'[m]]_vars

(* Every published message is DONE or FAILED in the end, however workers   *)
(* die or overrun (finitely often): a claim nobody works on is found.      *)
EventuallyDisposed ==
  \A m \in Messages : status[m] = "NEW" ~> status[m] \in {"DONE", "FAILED"}

(* The broker is the work queue of WorkQueue: a row is held by the worker  *)
(* whose copy still matches it, and everything a worker does with a claim  *)
(* it lost is invisible.                                                   *)
PhaseOf(m) ==
  CASE status[m] = "NONE" -> "absent"
    [] status[m] = "NEW" -> "waiting"
    [] status[m] = "PROCESSING" -> "held"
    [] status[m] = "DONE" -> "done"
    [] status[m] = "FAILED" -> "dead"

HolderOf(m) ==
  IF \E w \in Workers : Holds(w, m) THEN CHOOSE w \in Workers : Holds(w, m) ELSE Nobody

WQ == INSTANCE WorkQueue WITH
        phase <- [m \in Messages |-> PhaseOf(m)],
        holder <- [m \in Messages |-> HolderOf(m)],
        failures <- attempts

ImplementsWorkQueue == WQ!AbsSpec

(* README.md: "up to 3 attempts, 500 ms fixed backoff, 30 s stale-claim    *)
(* timeout": no message is handed to a worker more often than that.        *)
AttemptsWithinPolicy == \A m \in Messages : Cardinality(journal[m]) <= MaxAttempts
=============================================================================
