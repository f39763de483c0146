---------------------------- MODULE TwoPhaseCommit ----------------------------
(***************************************************************************)
(* The netting stage of mocknet: NettingCalculator's workers take matched  *)
(* pairs from the NETTING queue and run TwoPhaseCommitCoordinator on them. *)
(* Each call of executeTransaction is a new transaction in the log, and    *)
(* each of its database transactions is one action here; the one that      *)
(* creates the netting sets and settlement instructions is two, the reads  *)
(* and the flush, because that is where the version column of Trade bites. *)
(*                                                                         *)
(* The queue is WorkQueue, which QueueBroker implements: a message is      *)
(* identified with the matched pair it names, and a claim may be lost      *)
(* (Crash) or pass to another worker while its holder still runs           *)
(* (TakeOver, a lease that ran out).  Coordinators therefore overlap.      *)
(***************************************************************************)
EXTENDS ConsumerStage, Sequences, FiniteSets, Functions

CONSTANT
  TradesOf          \* TradesOf[m]: the trades trade1Id and trade2Id of pair m

Trades == UNION {TradesOf[m] : m \in Messages}

(* Matching never puts a trade into two pairs.                             *)
ASSUME PairsAssumption ==
  \A m \in Messages :
    /\ TradesOf[m] # {}
    /\ \A n \in Messages \ {m} : TradesOf[m] \intersect TradesOf[n] = {}

VARIABLES
  trade,            \* trade[t]: status and version columns of trades
  pairStatus,       \* the status column of matched_trades
  log,              \* transaction_log, a transaction id is an index
  votes,            \* participant_votes
  results,          \* results[m]: transactions whose commit saved two netting
                    \* sets and their settlement instructions for pair m
  tx,               \* tx[w]: its transaction id, 0 before initiate
  ready,            \* ready[w]: nettingReady
  snapshot          \* snapshot[w]: the trades as commitTransaction read them

rows == <<trade, pairStatus, log, votes, results>>
locals == <<tx, ready, snapshot>>
vars == <<stageVars, rows, locals>>

Status == {"INITIATED", "PREPARE_SENT", "PREPARED", "COMMITTING", "COMMITTED",
           "ABORTING", "ABORTED"}
Participants == {"NettingCalculator", "SettlementInstructor"}
TradeRow == [status : {"MATCHED", "NETTED"}, version : Nat]

Points == {"initiate", "send", "askNetting", "askSettlement",
           "prepared", "committing", "commit", "flush", "committed", "aborting",
           "aborted"}

TypeOK ==
  /\ StageTypeOK(Points)
  /\ trade \in [Trades -> TradeRow]
  /\ pairStatus \in [Messages -> {"MATCHED", "NETTED"}]
  /\ log \in Seq([pair : Messages, status : Status])
  /\ votes \subseteq [tx : 1 .. Len(log), participant : Participants, commit : BOOLEAN]
  /\ results \in [Messages -> SUBSET (1 .. Len(log))]
  /\ tx \in [Workers -> 0 .. Len(log)]
  /\ ready \in [Workers -> BOOLEAN]
  /\ DOMAIN snapshot = Workers
  /\ \A w \in Workers : /\ snapshot[w] \in [DOMAIN snapshot[w] -> TradeRow]
                        /\ pc[w] = "flush" => DOMAIN snapshot[w] = TradesOf[job[w]]

Unread == [t \in {} |-> 0]

(* Every pair is MATCHED and its message published: one transaction of the *)
(* matching engine did both.                                               *)
Init ==
  /\ phase = [m \in Messages |-> "waiting"]
  /\ StageInit
  /\ trade = [t \in Trades |-> [status |-> "MATCHED", version |-> 0]]
  /\ pairStatus = [m \in Messages |-> "MATCHED"]
  /\ log = << >>
  /\ votes = {}
  /\ results = [m \in Messages |-> {}]
  /\ tx = [w \in Workers |-> 0]
  /\ ready = [w \in Workers |-> FALSE]
  /\ snapshot = [w \in Workers |-> Unread]

(* The locals of executeTransaction end with the call.                     *)
Forget(w) ==
  /\ tx' = [tx EXCEPT ![w] = 0]
  /\ ready' = [ready EXCEPT ![w] = FALSE]
  /\ snapshot' = [snapshot EXCEPT ![w] = Unread]

-----------------------------------------------------------------------------
(* executeTransaction                                                      *)

(* A pair that is already NETTED is a success at once.                     *)
CheckNetted(w) ==
  /\ pc[w] = "claimed"
  /\ Goto(w, IF pairStatus[job[w]] = "NETTED" THEN "succeeded" ELSE "initiate")
  /\ UNCHANGED <<rows, locals, faultVars>>

Initiate(w) ==
  /\ pc[w] = "initiate"
  /\ log' = Append(log, [pair |-> job[w], status |-> "INITIATED"])
  /\ tx' = [tx EXCEPT ![w] = Len(log) + 1]
  /\ Goto(w, "send")
  /\ UNCHANGED <<trade, pairStatus, votes, results, ready, snapshot, faultVars>>

(* updateTxStatus and updateTxStatusWithCompletion: from a point, the      *)
(* status written to the log and the point after it.  abortTransaction,    *)
(* between ABORTING and ABORTED, changes nothing.                          *)
LogWrites ==
  { <<"send", "PREPARE_SENT", "askNetting">>,
    <<"prepared", "PREPARED", "committing">>,
    <<"committing", "COMMITTING", "commit">>,
    <<"committed", "COMMITTED", "succeeded">>,
    <<"aborting", "ABORTING", "aborted">>,
    <<"aborted", "ABORTED", "retryable">> }

UpdateTxStatus(w) ==
  /\ \E write \in LogWrites :
       /\ pc[w] = write[1]
       /\ log' = [log EXCEPT ![tx[w]].status = write[2]]
       /\ Goto(w, write[3])
  /\ UNCHANGED <<trade, pairStatus, votes, results, locals, faultVars>>

Vote(w, p, yes) == votes' = votes \union {[tx |-> tx[w], participant |-> p, commit |-> yes]}

(* The netting participant wants both trades MATCHED.  Their amounts are   *)
(* positive since ingestion, and no row is ever deleted.                   *)
PrepareNetting(w) ==
  /\ pc[w] = "askNetting"
  /\ LET yes == \A t \in TradesOf[job[w]] : trade[t].status = "MATCHED" IN
       /\ Vote(w, "NettingCalculator", yes)
       /\ ready' = [ready EXCEPT ![w] = yes]
  /\ Goto(w, "askSettlement")
  /\ UNCHANGED <<trade, pairStatus, log, results, tx, snapshot, faultVars>>

(* The settlement participant looks at columns that are never null.        *)
PrepareSettlement(w) ==
  /\ pc[w] = "askSettlement"
  /\ Vote(w, "SettlementInstructor", TRUE)
  /\ Goto(w, IF ready[w] THEN "prepared" ELSE "aborting")
  /\ UNCHANGED <<trade, pairStatus, log, results, locals, faultVars>>

-----------------------------------------------------------------------------
(* commitTransaction                                                       *)

ReadForCommit(w) ==
  /\ pc[w] = "commit"
  /\ snapshot' = [snapshot EXCEPT ![w] = Restrict(trade, TradesOf[job[w]])]
  /\ Goto(w, "flush")
  /\ UNCHANGED <<rows, tx, ready, faultVars>>

(* Only an entity that changed is written: a trade read as NETTED is not.  *)
Dirty(w) == {t \in DOMAIN snapshot[w] : snapshot[w][t].status # "NETTED"}

(* Mutant: the rows are locked, and whoever finds another in its commit    *)
(* gives up.                                                               *)
LockConflict(w) == \E v \in Workers \ {w} : pc[v] = "flush" /\ job[v] = job[w]

(* UPDATE ... WHERE version = the version read.                            *)
VersionConflict(w) == \E t \in Dirty(w) : trade[t].version # snapshot[w][t].version

(* Mutants: the trades, or the trades and the pair, stay MATCHED.          *)
WritePairOnly(w) ==
  /\ results' = [results EXCEPT ![job[w]] = @ \union {tx[w]}]
  /\ pairStatus' = [pairStatus EXCEPT ![job[w]] = "NETTED"]
  /\ UNCHANGED trade

WriteNoStatus(w) ==
  /\ results' = [results EXCEPT ![job[w]] = @ \union {tx[w]}]
  /\ UNCHANGED <<pairStatus, trade>>

(* What the transaction writes: the netting sets and instructions, the     *)
(* pair, and the trades that changed.                                      *)
WriteResults(w) ==
  LET m == job[w] IN
    /\ results' = [results EXCEPT ![m] = @ \union {tx[w]}]
    /\ pairStatus' = [pairStatus EXCEPT ![m] = "NETTED"]
    /\ trade' = [t \in Trades |->
                   IF t \in Dirty(w)
                   THEN [status |-> "NETTED", version |-> trade[t].version + 1]
                   ELSE trade[t]]

(* The updates are flushed when the transaction commits, outside the try   *)
(* of the callback: a version conflict is thrown through executeTransaction*)
(* and leaves the log at COMMITTING.                                       *)
Flush(w) ==
  /\ pc[w] = "flush"
  /\ IF VersionConflict(w)
     THEN Goto(w, "terminal") /\ UNCHANGED <<results, pairStatus, trade>>
     ELSE Goto(w, "committed") /\ WriteResults(w)
  /\ UNCHANGED <<log, votes, locals, faultVars>>

-----------------------------------------------------------------------------
(* Back in processNettingMessage: false is a retryable failure, every      *)
(* exception one that is not.                                              *)

(* A database error in a log write, in the first read, in initiate, or     *)
(* when the results' transaction begins or ends unsuccessfully.            *)
CallThrows(w) ==
  /\ Errored
  /\ pc[w] \in {"claimed", "initiate", "commit", "flush"} \union {l[1] : l \in LogWrites}
  /\ Goto(w, "terminal")
  /\ UNCHANGED <<rows, locals>>

(* The acknowledgement of the results' transaction was lost.               *)
CommitUnacknowledged(w) ==
  /\ Errored
  /\ pc[w] = "flush"
  /\ ~VersionConflict(w)
  /\ WriteResults(w)
  /\ Goto(w, "terminal")
  /\ UNCHANGED <<log, votes, locals>>

(* An error inside a participant's check is a vote to abort.               *)
CheckThrows(w) ==
  /\ Errored
  /\ \/ /\ pc[w] = "askNetting"
        /\ Vote(w, "NettingCalculator", FALSE)
        /\ ready' = [ready EXCEPT ![w] = FALSE]
        /\ Goto(w, "askSettlement")
     \/ /\ pc[w] = "askSettlement"
        /\ Vote(w, "SettlementInstructor", FALSE)
        /\ Goto(w, "aborting")
        /\ UNCHANGED ready
  /\ UNCHANGED <<trade, pairStatus, log, results, tx, snapshot>>

(* Mutant: setRollbackOnly is forgotten.                                   *)
CommitNotRolledBack(w) ==
  /\ Errored
  /\ pc[w] = "flush"
  /\ WriteResults(w)
  /\ Goto(w, "aborted")
  /\ UNCHANGED <<log, votes, locals>>

(* An error inside the callback of commitTransaction: rolled back, false.  *)
CommitRolledBack(w) ==
  /\ Errored
  /\ pc[w] \in {"commit", "flush"}
  /\ Goto(w, "aborted")
  /\ UNCHANGED <<rows, locals>>

Error(w) ==
  \/ CallThrows(w)
  \/ CommitUnacknowledged(w)
  \/ CheckThrows(w)
  \/ CommitRolledBack(w)
  \/ CompleteThrows(w) /\ UNCHANGED <<rows, locals>>

-----------------------------------------------------------------------------

Coordinate(w) ==
  \/ CheckNetted(w)
  \/ Initiate(w)
  \/ UpdateTxStatus(w)
  \/ PrepareNetting(w)
  \/ PrepareSettlement(w)
  \/ ReadForCommit(w)
  \/ Flush(w)

Consume(w) ==
  \/ Dispose(w) /\ Forget(w) /\ UNCHANGED rows
  \/ \E m \in Messages : Claim(w, m) /\ UNCHANGED <<rows, locals>>

Next ==
  \/ \E w \in Workers :
       \/ Coordinate(w) \/ Consume(w) \/ Error(w)
       \/ Crash(w) /\ Forget(w) /\ UNCHANGED rows
       \/ \E m \in Messages : TakeOver(w, m) /\ UNCHANGED <<rows, locals>>
  \/ QueueDrained /\ UNCHANGED vars

(* Each worker runs its loop for ever: it finishes what it does, and takes *)
(* a message nobody holds (QueueBroker shows that one is always found).    *)
Fairness ==
  \A w \in Workers : WF_vars(Coordinate(w) \/ Consume(w))

Spec == Init /\ [][Next]_vars

FairSpec == Spec /\ Fairness

-----------------------------------------------------------------------------
(* Properties.                                                             *)

(* TwoPhaseCommitCoordinator.java: netting and settlement "either both     *)
(* succeed or both fail atomically": the pair and all its trades are       *)
(* NETTED exactly when netting sets and instructions exist for it.         *)
BothOrNeither ==
  \A m \in Messages :
    /\ (pairStatus[m] = "NETTED") = (results[m] # {})
    /\ \A t \in TradesOf[m] : trade[t].status = pairStatus[m]

(* What a reader of the log may conclude: a COMMITTED transaction has      *)
(* created its results, and one that is ABORTED, or was not yet told to    *)
(* commit, has created none.  COMMITTING alone says nothing.               *)
LogIsHonest ==
  \A i \in 1 .. Len(log) :
    LET wrote == i \in results[log[i].pair] IN
      /\ log[i].status = "COMMITTED" => wrote
      /\ log[i].status \notin {"COMMITTING", "COMMITTED"} => ~wrote

(* A message is DONE only when its pair is settled, whatever happened to   *)
(* the workers that had it.                                                *)
DoneMeansSettled ==
  \A m \in Messages : phase[m] = "done" => pairStatus[m] = "NETTED"

(* Crashes and database errors, with every redelivery they cause, never    *)
(* settle a pair twice: only a lease that ran out can.                     *)
SettledOnceWithinLeases ==
  takeovers = 0 => \A m \in Messages : Cardinality(results[m]) <= 1

(* observability/README.md: "a completed netting result is recognized on   *)
(* re-delivery": crashes alone never dead-letter a pair.                   *)
CrashesNeverBury ==
  takeovers = 0 /\ errors = 0 => \A m \in Messages : phase[m] # "dead"

(* Without a database error no pair is lost: a message is dead-lettered    *)
(* only when another coordinator has settled its pair, also when a version *)
(* conflict is reported as a failure that is not retryable.                *)
BuriedOnlyIfSettled ==
  errors = 0 => \A m \in Messages : phase[m] = "dead" => pairStatus[m] = "NETTED"

(* A message is done with only for a settled pair: DONE always, and        *)
(* dead-lettered unless the database failed.                               *)
EndsAreEarned == DoneMeansSettled /\ BuriedOnlyIfSettled

(* Of coordinators that read the same pair before it was settled, one at   *)
(* most creates results: a second set comes only from a coordinator that   *)
(* read its trades as NETTED.                                              *)
VersionsCatchOverlap ==
  [][\A m \in Messages :
       results[m] # {} /\ results'[m] # results[m]
         => \E w \in Workers : pc[w] = "flush" /\ job[w] = m /\ Dirty(w) = {}]_vars

(* Every matched pair is settled or its message dead-lettered.             *)
EventuallySettled ==
  \A m \in Messages : []<>(pairStatus[m] = "NETTED" \/ phase[m] = "dead")

(* ConcurrencyLoadTest.java: "2 netting sets per matched pair", "Each      *)
(* matched pair should have 1 committed 2PC tx".                           *)
SettledOnce == \A m \in Messages : Cardinality(results[m]) <= 1

(* README.md: "Retryable errors (concurrency conflicts, transient DB       *)
(* failures) are rescheduled": without a database error, a message is      *)
(* dead-lettered after MaxAttempts failures and not before.                *)
ConflictsAreRescheduled ==
  errors = 0 => \A m \in Messages : phase[m] = "dead" => failures[m] >= MaxAttempts
=============================================================================
