------------------------ MODULE TwoPhaseCommitProofs ------------------------
(***************************************************************************)
(* The netting stage's safety for every number of workers, pairs, attempts *)
(* and faults.                                                             *)
(***************************************************************************)
EXTENDS TwoPhaseCommit, FiniteSetTheorems, SequenceTheorems, TLAPS

AllPoints == Points \union {"idle", "claimed"} \union HandlerOutcomes

(* A worker that is not idle has a message.                                *)
JobOK == \A w \in Workers : pc[w] # "idle" => job[w] \in Messages

(* Between initiate and the end of executeTransaction.                     *)
Owns(w) == pc[w] \in Points \ {"initiate"}

(* A running coordinator has a transaction of its own, which says          *)
(* COMMITTING when its results are written, and has results afterwards     *)
(* only.                                                                   *)
TxOK ==
  \A w \in Workers : Owns(w) =>
    /\ tx[w] \in 1 .. Len(log)
    /\ log[tx[w]].pair = job[w]
    /\ pc[w] \in {"commit", "flush"} => log[tx[w]].status = "COMMITTING"
    /\ (tx[w] \in results[job[w]]) = (pc[w] = "committed")

TxDistinct ==
  \A v, w \in Workers : v # w /\ Owns(v) /\ Owns(w) => tx[v] # tx[w]

TxInv == TxOK /\ TxDistinct /\ LogIsHonest

Inv == TypeOK /\ JobOK /\ TxInv

-----------------------------------------------------------------------------
(* The consumer loop                                                       *)

LEMMA StageGoto ==
  ASSUME StageTypeOK(Points), JobOK, NEW w \in Workers, NEW p \in AllPoints,
         pc[w] # "idle", Goto(w, p), UNCHANGED faultVars \/ Errored
  PROVE  StageTypeOK(Points)' /\ JobOK'
BY DEF StageTypeOK, AbsTypeOK, faultVars, absVars, Goto, Errored, AllPoints, JobOK

LEMMA StageDispose ==
  ASSUME StageTypeOK(Points), JobOK, NEW w \in Workers, Dispose(w)
  PROVE  StageTypeOK(Points)' /\ JobOK'
<1>1. job[w] \in Messages
  BY DEF Dispose, HandlerOutcomes, JobOK
<1>2. AbsTypeOK'
  BY <1>1 DEF Dispose, StageTypeOK, AbsTypeOK, Phases, absVars, Finish, Retry, Bury
<1> QED
  BY <1>2 DEF Dispose, Release, StageTypeOK, faultVars, JobOK

LEMMA StageTake ==
  ASSUME StageTypeOK(Points), JobOK, NEW w \in Workers, NEW m \in Messages,
         Claim(w, m) \/ TakeOver(w, m)
  PROVE  StageTypeOK(Points)' /\ JobOK'
<1>1. Begin(w, m) /\ takeovers' \in Nat
  BY DEF Claim, TakeOver, StageTypeOK
<1> QED
  BY <1>1 DEF Begin, Take, StageTypeOK, AbsTypeOK, Phases, JobOK

LEMMA StageCrash ==
  ASSUME StageTypeOK(Points), JobOK, NEW w \in Workers, Crash(w)
  PROVE  StageTypeOK(Points)' /\ JobOK'
<1>1. job[w] \in Messages
  BY DEF Crash, JobOK
<1>2. AbsTypeOK'
  BY <1>1 DEF Crash, StageTypeOK, AbsTypeOK, absVars, Lose
<1> QED
  BY <1>2 DEF Crash, Release, StageTypeOK, JobOK

-----------------------------------------------------------------------------
(* TypeOK                                                                  *)

LEMMA NextCases ==
  ASSUME [Next]_vars
  PROVE  \/ UNCHANGED vars
         \/ \E w \in Workers : Coordinate(w) \/ Error(w)
         \/ \E w \in Workers : (Dispose(w) \/ Crash(w)) /\ Forget(w) /\ UNCHANGED rows
         \/ \E w \in Workers, m \in Messages :
              (Claim(w, m) \/ TakeOver(w, m)) /\ UNCHANGED <<rows, locals>>
BY DEF Next, Consume

LEMMA LogWriteCases ==
  ASSUME NEW write \in LogWrites
  PROVE  \/ write[1] = "send" /\ write[2] = "PREPARE_SENT" /\ write[3] = "askNetting"
         \/ write[1] = "prepared" /\ write[2] = "PREPARED" /\ write[3] = "committing"
         \/ write[1] = "committing" /\ write[2] = "COMMITTING" /\ write[3] = "commit"
         \/ write[1] = "committed" /\ write[2] = "COMMITTED" /\ write[3] = "succeeded"
         \/ write[1] = "aborting" /\ write[2] = "ABORTING" /\ write[3] = "aborted"
         \/ write[1] = "aborted" /\ write[2] = "ABORTED" /\ write[3] = "retryable"
BY DEF LogWrites

(* Where an error can be thrown through executeTransaction.                *)
LEMMA ThrowPoints ==
  ASSUME NEW w \in Workers, CallThrows(w)
  PROVE  pc[w] \in {"claimed", "initiate", "commit", "flush", "send", "prepared",
                    "committing", "committed", "aborting", "aborted"}
BY LogWriteCases DEF CallThrows

(* The stage's variables, in every step.                                   *)
LEMMA StageStep ==
  ASSUME StageTypeOK(Points), JobOK, [Next]_vars
  PROVE  StageTypeOK(Points)' /\ JobOK'
<1> USE DEF AllPoints, Points, HandlerOutcomes
<1>1. ASSUME NEW w \in Workers, Coordinate(w)
      PROVE  /\ pc[w] # "idle" /\ UNCHANGED faultVars
             /\ \E p \in AllPoints : Goto(w, p)
  <2>1. CASE UpdateTxStatus(w)
    <3>1. PICK write \in LogWrites : pc[w] = write[1] /\ Goto(w, write[3])
      BY <2>1 DEF UpdateTxStatus
    <3> QED
      BY <2>1, <3>1, LogWriteCases DEF UpdateTxStatus
  <2> QED
    BY <1>1, <2>1 DEF Coordinate, CheckNetted, Initiate, PrepareNetting,
                      PrepareSettlement, ReadForCommit, Flush
<1>2. ASSUME NEW w \in Workers, Error(w)
      PROVE  /\ pc[w] # "idle" /\ Errored
             /\ \E p \in AllPoints : Goto(w, p)
  BY <1>2, ThrowPoints DEF Error, CallThrows, CommitUnacknowledged, CheckThrows,
                           CommitRolledBack, CompleteThrows
<1>3. CASE UNCHANGED vars
  BY <1>3 DEF vars, stageVars, absVars, faultVars, StageTypeOK, AbsTypeOK, JobOK
<1> QED
  BY <1>1, <1>2, <1>3, StageGoto, StageDispose, StageTake, StageCrash DEF Next, Consume

LEMMA LogUpdate ==
  ASSUME NEW S, NEW i \in 1 .. Len(log), NEW s \in Status,
         log \in Seq([pair : S, status : Status]),
         log' = [log EXCEPT ![i].status = s]
  PROVE  /\ log' \in Seq([pair : S, status : Status])
         /\ Len(log') = Len(log)
         /\ log'[i] = [pair |-> log[i].pair, status |-> s]
         /\ \A k \in (1 .. Len(log)) \ {i} : log'[k] = log[k]
<1> DEFINE T == [pair : S, status : Status]
<1>1. log[i] \in T
  BY ElementOfSeq
<1>2. [log[i] EXCEPT !.status = s] = [pair |-> log[i].pair, status |-> s]
  BY <1>1
<1>3. [pair |-> log[i].pair, status |-> s] \in T
  BY <1>1
<1>4. log' = [log EXCEPT ![i] = [pair |-> log[i].pair, status |-> s]]
  BY <1>2
<1> QED
  BY <1>3, <1>4, ExceptSeq

LEMMA LogAppend ==
  ASSUME NEW S, NEW e \in S, log \in Seq(S)
  PROVE  /\ Append(log, e) \in Seq(S)
         /\ Len(Append(log, e)) = Len(log) + 1
         /\ Len(log) \in Nat
         /\ Append(log, e)[Len(log) + 1] = e
         /\ \A k \in 1 .. Len(log) : Append(log, e)[k] = log[k]
OBVIOUS

(* The snapshot of the trades of a pair.                                   *)
LEMMA SnapshotOfPair ==
  ASSUME trade \in [Trades -> TradeRow], NEW m \in Messages
  PROVE  /\ Restrict(trade, TradesOf[m]) \in [TradesOf[m] -> TradeRow]
         /\ DOMAIN Restrict(trade, TradesOf[m]) = TradesOf[m]
         /\ \A t \in TradesOf[m] : t \in Trades /\ Restrict(trade, TradesOf[m])[t] = trade[t]
<1>1. TradesOf[m] \subseteq Trades
  BY DEF Trades
<1>2. Restrict(trade, TradesOf[m]) \in [TradesOf[m] -> TradeRow]
  BY <1>1 DEF Restrict
<1> QED
  BY <1>1, <1>2 DEF Restrict

(* The rows and the locals of the coordinators.                            *)
RowsTypeOK ==
  /\ trade \in [Trades -> TradeRow]
  /\ pairStatus \in [Messages -> {"MATCHED", "NETTED"}]
  /\ log \in Seq([pair : Messages, status : Status])
  /\ votes \subseteq [tx : 1 .. Len(log), participant : Participants, commit : BOOLEAN]
  /\ results \in [Messages -> SUBSET (1 .. Len(log))]

LocalsTypeOK ==
  /\ tx \in [Workers -> 0 .. Len(log)]
  /\ ready \in [Workers -> BOOLEAN]
  /\ DOMAIN snapshot = Workers
  /\ \A w \in Workers : snapshot[w] \in [DOMAIN snapshot[w] -> TradeRow]

FlushRead == \A w \in Workers : pc[w] = "flush" => DOMAIN snapshot[w] = TradesOf[job[w]]

LEMMA TypeParts ==
  TypeOK <=> StageTypeOK(Points) /\ RowsTypeOK /\ LocalsTypeOK /\ FlushRead
BY DEF TypeOK, RowsTypeOK, LocalsTypeOK, FlushRead

(* What a commit writes.                                                   *)
LEMMA WriteResultsType ==
  ASSUME RowsTypeOK, LocalsTypeOK, TxOK, NEW w \in Workers, pc[w] = "flush",
         job[w] \in Messages, WriteResults(w), UNCHANGED <<log, votes>>
  PROVE  RowsTypeOK'
<1>1. tx[w] \in 1 .. Len(log)
  BY DEF TxOK, Owns, Points
<1>2. trade' \in [Trades -> TradeRow]
  BY DEF WriteResults, RowsTypeOK, TradeRow
<1> QED
  BY <1>1, <1>2 DEF WriteResults, RowsTypeOK

LEMMA VoteType ==
  ASSUME RowsTypeOK, TxOK, NEW w \in Workers, pc[w] \in {"askNetting", "askSettlement"},
         NEW p \in Participants, NEW yes \in BOOLEAN, Vote(w, p, yes),
         UNCHANGED <<trade, pairStatus, log, results>>
  PROVE  RowsTypeOK'
<1>1. tx[w] \in 1 .. Len(log)
  BY DEF TxOK, Owns, Points
<1> QED
  BY <1>1 DEF Vote, RowsTypeOK

LEMMA UnreadType == Unread \in [{} -> TradeRow] /\ DOMAIN Unread = {}
BY DEF Unread

LEMMA ForgetType ==
  ASSUME RowsTypeOK, LocalsTypeOK, FlushRead, NEW w \in Workers, Forget(w), UNCHANGED rows,
         pc'[w] = "idle", \A v \in Workers \ {w} : pc'[v] = pc[v] /\ job'[v] = job[v]
  PROVE  RowsTypeOK' /\ LocalsTypeOK' /\ FlushRead'
<1>1. RowsTypeOK' /\ UNCHANGED log
  BY DEF RowsTypeOK, rows
<1>2. 0 \in 0 .. Len(log)
  BY LenProperties DEF RowsTypeOK
<1>3. LocalsTypeOK'
  BY <1>1, <1>2, UnreadType DEF Forget, LocalsTypeOK
<1>4. FlushRead'
  BY DEF FlushRead, Forget, LocalsTypeOK
<1> QED
  BY <1>1, <1>3, <1>4

(* Every step keeps the types of rows and locals.                          *)
LEMMA RowsStep ==
  ASSUME Inv, [Next]_vars
  PROVE  RowsTypeOK' /\ LocalsTypeOK' /\ FlushRead'
<1> USE TypeParts DEF Inv, TxInv, rows, locals
<1>1. ASSUME NEW w \in Workers, CheckNetted(w)
      PROVE  RowsTypeOK' /\ LocalsTypeOK' /\ FlushRead'
  BY <1>1 DEF CheckNetted, Goto, StageTypeOK, RowsTypeOK, LocalsTypeOK, FlushRead
<1>2. ASSUME NEW w \in Workers, Initiate(w)
      PROVE  RowsTypeOK' /\ LocalsTypeOK' /\ FlushRead'
  <2> DEFINE e == [pair |-> job[w], status |-> "INITIATED"]
  <2>1. e \in [pair : Messages, status : Status]
    BY <1>2 DEF Initiate, JobOK, Status
  <2>2. /\ log' \in Seq([pair : Messages, status : Status])
        /\ Len(log) \in Nat /\ Len(log') = Len(log) + 1
    BY <1>2, <2>1, LogAppend DEF Initiate, RowsTypeOK
  <2>3. RowsTypeOK'
    BY <1>2, <2>2 DEF Initiate, RowsTypeOK
  <2>4. LocalsTypeOK'
    BY <1>2, <2>2 DEF Initiate, LocalsTypeOK
  <2>5. FlushRead'
    BY <1>2 DEF Initiate, Goto, StageTypeOK, FlushRead
  <2> QED
    BY <2>3, <2>4, <2>5
<1>3. ASSUME NEW w \in Workers, UpdateTxStatus(w)
      PROVE  RowsTypeOK' /\ LocalsTypeOK' /\ FlushRead'
  <2>1. PICK write \in LogWrites : /\ pc[w] = write[1] /\ Goto(w, write[3])
                                   /\ log' = [log EXCEPT ![tx[w]].status = write[2]]
    BY <1>3 DEF UpdateTxStatus
  <2>2. tx[w] \in 1 .. Len(log) /\ write[2] \in Status /\ write[3] # "flush"
    BY <2>1, LogWriteCases DEF TxOK, Owns, Points, Status
  <2>3. /\ log' \in Seq([pair : Messages, status : Status])
        /\ Len(log') = Len(log)
    BY <2>1, <2>2, LogUpdate DEF RowsTypeOK
  <2>4. RowsTypeOK' /\ LocalsTypeOK'
    BY <1>3, <2>3 DEF UpdateTxStatus, RowsTypeOK, LocalsTypeOK
  <2>5. FlushRead'
    BY <1>3, <2>1, <2>2 DEF UpdateTxStatus, Goto, StageTypeOK, FlushRead
  <2> QED
    BY <2>4, <2>5
<1>4. ASSUME NEW w \in Workers,
             PrepareNetting(w) \/ PrepareSettlement(w) \/ CheckThrows(w)
      PROVE  RowsTypeOK' /\ LocalsTypeOK' /\ FlushRead'
  <2>1. PICK p \in Participants, yes \in BOOLEAN :
          pc[w] \in {"askNetting", "askSettlement"} /\ Vote(w, p, yes)
    BY <1>4 DEF PrepareNetting, PrepareSettlement, CheckThrows, Participants
  <2>2. UNCHANGED <<trade, pairStatus, log, results, tx, snapshot>>
    BY <1>4 DEF PrepareNetting, PrepareSettlement, CheckThrows
  <2>3. RowsTypeOK'
    BY <2>1, <2>2, VoteType
  <2>4. ready' \in [Workers -> BOOLEAN]
    BY <1>4 DEF PrepareNetting, PrepareSettlement, CheckThrows, LocalsTypeOK
  <2>5. LocalsTypeOK'
    BY <2>2, <2>4 DEF LocalsTypeOK
  <2>6. FlushRead'
    BY <1>4 DEF PrepareNetting, PrepareSettlement, CheckThrows, Goto, StageTypeOK, FlushRead
  <2> QED
    BY <2>3, <2>5, <2>6
<1>5. ASSUME NEW w \in Workers, ReadForCommit(w)
      PROVE  RowsTypeOK' /\ LocalsTypeOK' /\ FlushRead'
  <2>1. job[w] \in Messages
    BY <1>5 DEF ReadForCommit, JobOK
  <2>2. /\ snapshot'[w] \in [DOMAIN snapshot'[w] -> TradeRow]
        /\ DOMAIN snapshot'[w] = TradesOf[job[w]]
        /\ snapshot' = [snapshot EXCEPT ![w] = snapshot'[w]]
    BY <1>5, <2>1, SnapshotOfPair DEF ReadForCommit, RowsTypeOK, LocalsTypeOK
  <2>3. RowsTypeOK' /\ LocalsTypeOK'
    BY <1>5, <2>2 DEF ReadForCommit, RowsTypeOK, LocalsTypeOK
  <2>4. FlushRead'
    BY <1>5, <2>2 DEF ReadForCommit, Goto, StageTypeOK, FlushRead, LocalsTypeOK
  <2> QED
    BY <2>3, <2>4
<1>6. ASSUME NEW w \in Workers,
             \/ Flush(w) \/ CommitUnacknowledged(w) \/ CommitRolledBack(w) \/ CallThrows(w)
             \/ (CompleteThrows(w) /\ UNCHANGED <<rows, locals>>)
      PROVE  RowsTypeOK' /\ LocalsTypeOK' /\ FlushRead'
  <2>1. UNCHANGED <<log, votes, locals>>
    BY <1>6 DEF Flush, CommitUnacknowledged, CommitRolledBack, CallThrows
  <2>2. \/ UNCHANGED <<trade, pairStatus, results>>
        \/ pc[w] = "flush" /\ WriteResults(w)
    BY <1>6 DEF Flush, CommitUnacknowledged, CommitRolledBack, CallThrows
  <2>3. RowsTypeOK'
    <3>1. CASE UNCHANGED <<trade, pairStatus, results>>
      BY <2>1, <3>1 DEF RowsTypeOK
    <3>2. CASE pc[w] = "flush" /\ WriteResults(w)
      BY <2>1, <3>2, WriteResultsType DEF JobOK
    <3> QED
      BY <2>2, <3>1, <3>2
  <2>4. LocalsTypeOK'
    BY <2>1 DEF LocalsTypeOK
  <2>5. FlushRead'
    BY <1>6, <2>1 DEF Flush, CommitUnacknowledged, CommitRolledBack, CallThrows, CompleteThrows,
                      Goto, StageTypeOK, FlushRead
  <2> QED
    BY <2>3, <2>4, <2>5
<1>7. ASSUME NEW w \in Workers, (Dispose(w) \/ Crash(w)) /\ Forget(w) /\ UNCHANGED rows
      PROVE  RowsTypeOK' /\ LocalsTypeOK' /\ FlushRead'
  <2>1. Release(w)
    BY <1>7 DEF Dispose, Crash
  <2> QED
    BY <1>7, <2>1, ForgetType DEF Release, StageTypeOK
<1>8. ASSUME NEW w \in Workers, NEW m \in Messages,
             (Claim(w, m) \/ TakeOver(w, m)) /\ UNCHANGED <<rows, locals>>
      PROVE  RowsTypeOK' /\ LocalsTypeOK' /\ FlushRead'
  <2>1. Begin(w, m)
    BY <1>8 DEF Claim, TakeOver
  <2> QED
    BY <1>8, <2>1 DEF Begin, StageTypeOK, RowsTypeOK, LocalsTypeOK, FlushRead
<1>9. CASE UNCHANGED vars
  BY <1>9 DEF vars, stageVars, RowsTypeOK, LocalsTypeOK, FlushRead
<1> QED
  <2>1. ASSUME NEW w \in Workers, Coordinate(w) \/ Error(w)
        PROVE  RowsTypeOK' /\ LocalsTypeOK' /\ FlushRead'
    BY <2>1, <1>1, <1>2, <1>3, <1>4, <1>5, <1>6 DEF Coordinate, Error
  <2> QED
    BY <2>1, <1>7, <1>8, <1>9, NextCases

LEMMA TypeStep == Inv /\ [Next]_vars => TypeOK' /\ JobOK'
BY StageStep, RowsStep, TypeParts DEF Inv, TypeOK, StageTypeOK, RowsTypeOK, LocalsTypeOK,
                                      FlushRead


-----------------------------------------------------------------------------
(* LogIsHonest                                                             *)

Others(w) ==
  \A v \in Workers \ {w} : pc'[v] = pc[v] /\ job'[v] = job[v] /\ tx'[v] = tx[v]

(* A worker goes on and writes neither the log nor results.                *)
LEMMA TxMoves ==
  ASSUME TxInv, NEW w \in Workers, UNCHANGED <<log, results>>, Others(w),
         Owns(w)' => /\ Owns(w) /\ job'[w] = job[w] /\ tx'[w] = tx[w]
                     /\ pc'[w] \in {"commit", "flush"} => pc[w] \in {"commit", "flush"}
                     /\ (pc'[w] = "committed") = (pc[w] = "committed")
  PROVE  TxInv'
<1>1. TxOK'
  BY DEF TxInv, TxOK, Others, Owns
<1>2. TxDistinct'
  BY DEF TxInv, TxDistinct, Others, Owns
<1>3. LogIsHonest'
  BY DEF TxInv, LogIsHonest
<1> QED
  BY <1>1, <1>2, <1>3 DEF TxInv

LEMMA TxInitiates ==
  ASSUME TypeOK, JobOK, TxInv, NEW w \in Workers, Initiate(w)
  PROVE  TxInv'
<1> DEFINE e == [pair |-> job[w], status |-> "INITIATED"]
<1>1. e \in [pair : Messages, status : Status]
  BY DEF Initiate, JobOK, Status
<1>2. /\ Len(log) \in Nat /\ Len(log') = Len(log) + 1
      /\ log'[Len(log) + 1] = e
      /\ \A k \in 1 .. Len(log) : log'[k] = log[k]
  BY <1>1, LogAppend DEF Initiate, TypeOK
<1>3. /\ tx'[w] = Len(log) + 1 /\ pc'[w] = "send" /\ job' = job /\ results' = results
      /\ Others(w)
  BY DEF Initiate, Goto, TypeOK, StageTypeOK, Others
<1>4. job[w] \in Messages
  BY DEF Initiate, JobOK
<1>5. \A m \in Messages : results[m] \subseteq 1 .. Len(log)
  BY DEF TypeOK
<1>6. TxOK'
  <2> SUFFICES ASSUME NEW v \in Workers, Owns(v)'
               PROVE  /\ tx'[v] \in 1 .. Len(log')
                      /\ log'[tx'[v]].pair = job'[v]
                      /\ pc'[v] \in {"commit", "flush"} => log'[tx'[v]].status = "COMMITTING"
                      /\ (tx'[v] \in results'[job'[v]]) = (pc'[v] = "committed")
    BY DEF TxOK
  <2>1. CASE v = w
    BY <2>1, <1>2, <1>3, <1>4, <1>5
  <2>2. CASE v # w
    BY <2>2, <1>2, <1>3 DEF TxInv, TxOK, Others, Owns
  <2> QED
    BY <2>1, <2>2
<1>7. TxDistinct'
  <2>1. \A v \in Workers \ {w} : Owns(v)' => tx'[v] \in 1 .. Len(log) /\ Owns(v) /\ tx'[v] = tx[v]
    BY <1>3 DEF TxInv, TxOK, Others, Owns
  <2>2. \A v \in Workers \ {w} : Owns(v)' => tx'[v] # tx'[w]
    BY <2>1, <1>2, <1>3
  <2> QED
    BY <2>1, <2>2 DEF TxInv, TxDistinct
<1>8. LogIsHonest'
  BY <1>2, <1>3, <1>4, <1>5 DEF TxInv, LogIsHonest
<1> QED
  BY <1>6, <1>7, <1>8 DEF TxInv

LEMMA TxLogs ==
  ASSUME TypeOK, TxInv, NEW w \in Workers, UpdateTxStatus(w)
  PROVE  TxInv'
<1>1. PICK write \in LogWrites : /\ pc[w] = write[1] /\ Goto(w, write[3])
                                 /\ log' = [log EXCEPT ![tx[w]].status = write[2]]
  BY DEF UpdateTxStatus
<1>2. /\ Owns(w) /\ tx[w] \in 1 .. Len(log) /\ write[2] \in Status
      /\ write[3] \in {"commit", "flush"} => write[2] = "COMMITTING"
      /\ write[3] # "committed"
      /\ (write[2] = "COMMITTED") = (pc[w] = "committed")
      /\ pc[w] = "committed" => write[3] = "succeeded"
  BY <1>1, LogWriteCases DEF TxInv, TxOK, Owns, Points, Status
<1>3. /\ Len(log') = Len(log)
      /\ log'[tx[w]] = [pair |-> log[tx[w]].pair, status |-> write[2]]
      /\ \A k \in (1 .. Len(log)) \ {tx[w]} : log'[k] = log[k]
  <2>1. log \in Seq([pair : Messages, status : Status])
    BY DEF TypeOK
  <2> QED
    BY <1>1, <1>2, <2>1, LogUpdate
<1>4. /\ pc'[w] = write[3] /\ job' = job /\ tx' = tx /\ results' = results
      /\ Others(w)
  <2>1. tx' = tx /\ results' = results
    BY DEF UpdateTxStatus, locals
  <2> QED
    BY <1>1, <2>1 DEF Goto, TypeOK, StageTypeOK, Others
<1>5. TxOK'
  <2> SUFFICES ASSUME NEW v \in Workers, Owns(v)'
               PROVE  /\ tx'[v] \in 1 .. Len(log')
                      /\ log'[tx'[v]].pair = job'[v]
                      /\ pc'[v] \in {"commit", "flush"} => log'[tx'[v]].status = "COMMITTING"
                      /\ (tx'[v] \in results'[job'[v]]) = (pc'[v] = "committed")
    BY DEF TxOK
  <2>1. CASE v = w
    <3>1. pc[w] # "committed"
      BY <2>1, <1>2, <1>4 DEF Owns, Points
    <3> QED
      BY <2>1, <3>1, <1>2, <1>3, <1>4 DEF TxInv, TxOK
  <2>2. CASE v # w
    <3>1. Owns(v) /\ tx[v] # tx[w]
      BY <2>2, <1>2, <1>4 DEF TxInv, TxDistinct, Others, Owns
    <3> QED
      BY <2>2, <3>1, <1>3, <1>4 DEF TxInv, TxOK, Others
  <2> QED
    BY <2>1, <2>2
<1>6. TxDistinct'
  <2>1. \A v \in Workers : Owns(v)' => Owns(v)
    BY <1>2, <1>4 DEF Others, Owns
  <2> QED
    BY <2>1, <1>4 DEF TxInv, TxDistinct
<1>7. LogIsHonest'
  <2> SUFFICES ASSUME NEW i \in 1 .. Len(log')
               PROVE  /\ log'[i].status = "COMMITTED" => i \in results'[log'[i].pair]
                      /\ log'[i].status \notin {"COMMITTING", "COMMITTED"}
                           => i \notin results'[log'[i].pair]
    BY DEF LogIsHonest
  <2>1. CASE i = tx[w]
    BY <2>1, <1>2, <1>3, <1>4 DEF TxInv, TxOK
  <2>2. CASE i # tx[w]
    BY <2>2, <1>3, <1>4 DEF TxInv, LogIsHonest
  <2> QED
    BY <2>1, <2>2
<1> QED
  BY <1>5, <1>6, <1>7 DEF TxInv

(* The results are written, and the worker knows or does not.              *)
LEMMA TxWrites ==
  ASSUME TypeOK, JobOK, TxInv, NEW w \in Workers, pc[w] = "flush", WriteResults(w),
         UNCHANGED <<log, tx>>, NEW p \in {"committed", "terminal"}, Goto(w, p)
  PROVE  TxInv'
<1>1. /\ Owns(w) /\ tx[w] \in 1 .. Len(log) /\ log[tx[w]].status = "COMMITTING"
      /\ log[tx[w]].pair = job[w] /\ job[w] \in Messages
  BY DEF TxInv, TxOK, JobOK, Owns, Points
<1>2. /\ results'[job[w]] = results[job[w]] \union {tx[w]}
      /\ \A m \in Messages \ {job[w]} : results'[m] = results[m]
  BY <1>1 DEF WriteResults, TypeOK
<1>3. /\ pc'[w] = p /\ job' = job /\ log' = log /\ tx' = tx
      /\ Others(w)
  BY DEF Goto, TypeOK, StageTypeOK, Others
<1>4. TxOK'
  <2> SUFFICES ASSUME NEW v \in Workers, Owns(v)'
               PROVE  /\ tx'[v] \in 1 .. Len(log')
                      /\ log'[tx'[v]].pair = job'[v]
                      /\ pc'[v] \in {"commit", "flush"} => log'[tx'[v]].status = "COMMITTING"
                      /\ (tx'[v] \in results'[job'[v]]) = (pc'[v] = "committed")
    BY DEF TxOK
  <2>1. CASE v = w
    BY <2>1, <1>1, <1>2, <1>3 DEF TxInv, TxOK, Owns, Points
  <2>2. CASE v # w
    <3>1. Owns(v) /\ tx[v] # tx[w] /\ job[v] \in Messages
      BY <2>2, <1>1, <1>3 DEF TxInv, TxDistinct, Others, Owns, JobOK, Points
    <3> QED
      BY <2>2, <3>1, <1>2, <1>3 DEF TxInv, TxOK, Others
  <2> QED
    BY <2>1, <2>2
<1>5. TxDistinct'
  <2>1. \A v \in Workers : Owns(v)' => Owns(v)
    BY <1>1, <1>3 DEF Others, Owns
  <2> QED
    BY <2>1, <1>3 DEF TxInv, TxDistinct
<1>6. LogIsHonest'
  <2> SUFFICES ASSUME NEW i \in 1 .. Len(log)
               PROVE  /\ log[i].status = "COMMITTED" => i \in results'[log[i].pair]
                      /\ log[i].status \notin {"COMMITTING", "COMMITTED"}
                           => i \notin results'[log[i].pair]
    BY <1>3 DEF LogIsHonest
  <2>1. log[i].pair \in Messages
    <3>1. log[i] \in [pair : Messages, status : Status]
      BY ElementOfSeq DEF TypeOK
    <3> QED
      BY <3>1
  <2>2. CASE i = tx[w]
    BY <2>2, <1>1, <1>2
  <2>3. CASE i # tx[w]
    BY <2>1, <2>3, <1>2 DEF TxInv, LogIsHonest
  <2> QED
    BY <2>2, <2>3
<1> QED
  BY <1>4, <1>5, <1>6 DEF TxInv

LEMMA TxStep ==
  ASSUME TypeOK, JobOK, TxInv, [Next]_vars
  PROVE  TxInv'
<1> USE DEF Owns, Points
<1>1. ASSUME NEW w \in Workers, Coordinate(w) \/ Error(w)
      PROVE  TxInv'
  <2>1. CASE \/ CheckNetted(w) \/ PrepareNetting(w) \/ PrepareSettlement(w)
             \/ ReadForCommit(w) \/ CommitRolledBack(w) \/ CheckThrows(w)
             \/ (CompleteThrows(w) /\ UNCHANGED <<rows, locals>>)
    <3>1. /\ UNCHANGED <<log, results, tx, job>>
          /\ pc'[w] \in {"commit", "flush"} => pc[w] = "commit"
          /\ Others(w) /\ pc[w] # "committed" /\ pc'[w] # "committed"
          /\ pc'[w] \in Points \ {"initiate"} => pc[w] \in Points \ {"initiate"}
      BY <2>1 DEF CheckNetted, PrepareNetting, PrepareSettlement, ReadForCommit, CommitRolledBack,
                  CheckThrows, CompleteThrows, Goto, TypeOK, StageTypeOK, Others, rows, locals
    <3> QED
      BY <3>1, TxMoves
  <2>2. CASE CallThrows(w) \/ (Flush(w) /\ VersionConflict(w))
    <3>1. /\ UNCHANGED <<log, results>> /\ Others(w) /\ pc'[w] = "terminal"
      BY <2>2 DEF CallThrows, Flush, Goto, TypeOK, StageTypeOK, Others, rows, locals
    <3> QED
      BY <3>1, TxMoves
  <2>3. CASE (Flush(w) /\ ~VersionConflict(w)) \/ CommitUnacknowledged(w)
    <3>1. PICK p \in {"committed", "terminal"} : Goto(w, p)
      BY <2>3 DEF Flush, CommitUnacknowledged
    <3>2. pc[w] = "flush" /\ WriteResults(w) /\ UNCHANGED <<log, tx>>
      BY <2>3 DEF Flush, CommitUnacknowledged, locals
    <3> QED
      BY <3>1, <3>2, TxWrites
  <2> QED
    BY <1>1, <2>1, <2>2, <2>3, TxInitiates, TxLogs DEF Coordinate, Error
<1>2. ASSUME NEW w \in Workers, (Dispose(w) \/ Crash(w)) /\ Forget(w) /\ UNCHANGED rows
      PROVE  TxInv'
  <2>1. UNCHANGED <<log, results>> /\ Others(w) /\ pc'[w] = "idle"
    BY <1>2 DEF Dispose, Crash, Release, Forget, TypeOK, StageTypeOK, Others, rows
  <2> QED
    BY <2>1, TxMoves
<1>3. ASSUME NEW w \in Workers, NEW m \in Messages,
             (Claim(w, m) \/ TakeOver(w, m)) /\ UNCHANGED <<rows, locals>>
      PROVE  TxInv'
  <2>1. UNCHANGED <<log, results>> /\ Others(w) /\ pc'[w] = "claimed"
    BY <1>3 DEF Claim, TakeOver, Begin, TypeOK, StageTypeOK, Others, rows, locals
  <2> QED
    BY <2>1, TxMoves
<1>4. CASE UNCHANGED vars
  BY <1>4 DEF vars, stageVars, rows, locals, TxInv, TxOK, TxDistinct, LogIsHonest
<1> QED
  BY <1>1, <1>2, <1>3, <1>4, NextCases


(* The invariant of the types, the jobs and the transactions.              *)
LEMMA InvInit == Init => Inv
<1> SUFFICES ASSUME Init PROVE Inv
  OBVIOUS
<1> USE StageAssumption DEF Init, StageInit
<1>1. StageTypeOK(Points)
  BY DEF StageTypeOK, AbsTypeOK, Phases
<1>2. log \in Seq([pair : Messages, status : Status]) /\ Len(log) = 0
  OBVIOUS
<1>3. trade \in [Trades -> TradeRow]
  BY DEF TradeRow
<1>4. TypeOK
  BY <1>1, <1>2, <1>3, UnreadType DEF TypeOK
<1>5. JobOK /\ TxOK /\ TxDistinct
  BY DEF JobOK, TxOK, TxDistinct, Owns, Points
<1>6. LogIsHonest
  BY <1>2 DEF LogIsHonest
<1> QED
  BY <1>4, <1>5, <1>6 DEF Inv, TxInv

LEMMA InvStep == Inv /\ [Next]_vars => Inv'
BY TypeStep, TxStep DEF Inv

LEMMA InvAlways == Spec => []Inv
BY InvInit, InvStep, PTL DEF Spec

(* The variables have their types, in particular every transaction id of a *)
(* vote, a result or a coordinator is one of the log.                      *)
THEOREM StageTypeCorrect == Spec => []TypeOK
<1>1. Inv => TypeOK
  BY DEF Inv
<1> QED
  BY <1>1, InvAlways, PTL

(* What the transaction log says of the results is true, for any number of *)
(* overlapping coordinators, crashes and errors.                           *)
THEOREM LogTellsTheTruth == Spec => []LogIsHonest
<1>1. Inv => LogIsHonest
  BY DEF Inv, TxInv
<1> QED
  BY <1>1, InvAlways, PTL


-----------------------------------------------------------------------------
(* BothOrNeither, DoneMeansSettled and BuriedOnlyIfSettled                 *)

(* A trade is written once, when it is NETTED.                             *)
RowOK(row) == row \in TradeRow /\ (row.version = 0) = (row.status = "MATCHED")

RowsOK == \A t \in Trades : RowOK(trade[t])

(* A coordinator may have read what is no longer so, but no trade goes     *)
(* back to MATCHED.                                                        *)
ReadOK(w) ==
  \A t \in TradesOf[job[w]] :
    /\ RowOK(snapshot[w][t])
    /\ snapshot[w][t].status = "NETTED" => trade[t].status = "NETTED"

SnapshotsOK == \A w \in Workers : pc[w] = "flush" => ReadOK(w)

(* A coordinator that succeeds, or that fails without a database error,    *)
(* has met a settled pair.                                                 *)
Fails(w) ==
  \/ pc[w] \in {"aborting", "aborted", "retryable", "terminal"}
  \/ pc[w] = "askSettlement" /\ ~ready[w]

Knows(w) ==
  \/ pc[w] \in {"committed", "succeeded"}
  \/ errors = 0 /\ Fails(w)

KnowledgeOK == \A w \in Workers : Knows(w) => pairStatus[job[w]] = "NETTED"

SettledInv ==
  /\ BothOrNeither
  /\ RowsOK
  /\ SnapshotsOK
  /\ KnowledgeOK
  /\ DoneMeansSettled
  /\ BuriedOnlyIfSettled

OthersKeep(w) ==
  \A v \in Workers \ {w} :
    /\ pc'[v] = pc[v] /\ job'[v] = job[v]
    /\ ready'[v] = ready[v] /\ snapshot'[v] = snapshot[v]

(* Nothing a reader of the results sees changes.                           *)
LEMMA SettledMoves ==
  ASSUME TypeOK, SettledInv, NEW w \in Workers, OthersKeep(w),
         UNCHANGED <<trade, pairStatus, results>>, errors' = 0 => errors = 0,
         pc'[w] = "flush" => ReadOK(w)',
         Knows(w)' => pairStatus[job'[w]] = "NETTED",
         \A m \in Messages :
           /\ phase'[m] = "done" => phase[m] = "done" \/ pairStatus[m] = "NETTED"
           /\ errors' = 0 /\ phase'[m] = "dead" => phase[m] = "dead" \/ pairStatus[m] = "NETTED"
  PROVE  SettledInv'
<1> USE DEF SettledInv
<1>1. BothOrNeither' /\ RowsOK'
  BY DEF BothOrNeither, RowsOK
<1>2. SnapshotsOK'
  BY DEF SnapshotsOK, ReadOK, OthersKeep
<1>3. KnowledgeOK'
  BY DEF KnowledgeOK, Knows, Fails, OthersKeep
<1>4. DoneMeansSettled' /\ BuriedOnlyIfSettled'
  BY DEF DoneMeansSettled, BuriedOnlyIfSettled
<1> QED
  BY <1>1, <1>2, <1>3, <1>4

(* What a coordinator without a version conflict finds and leaves.         *)
LEMMA CommitReads ==
  ASSUME TypeOK, SettledInv, NEW w \in Workers, pc[w] = "flush", job[w] \in Messages
  PROVE  /\ TradesOf[job[w]] \subseteq Trades
         /\ Dirty(w) = {t \in TradesOf[job[w]] : snapshot[w][t].status = "MATCHED"}
         /\ VersionConflict(w) => pairStatus[job[w]] = "NETTED"
         /\ ~VersionConflict(w) => \A t \in Dirty(w) : trade[t].status = "MATCHED"
<1>1. DOMAIN snapshot[w] = TradesOf[job[w]] /\ ReadOK(w)
  BY DEF TypeOK, SettledInv, SnapshotsOK
<1>2. TradesOf[job[w]] \subseteq Trades
  BY DEF Trades
<1>3. Dirty(w) = {t \in TradesOf[job[w]] : snapshot[w][t].status = "MATCHED"}
  BY <1>1 DEF Dirty, ReadOK, RowOK, TradeRow
<1>4. \A t \in Dirty(w) : /\ t \in TradesOf[job[w]]
                          /\ snapshot[w][t].version = 0
                          /\ (trade[t].version = 0) = (trade[t].status = "MATCHED")
                          /\ trade[t].status \in {"MATCHED", "NETTED"}
  BY <1>1, <1>2, <1>3 DEF ReadOK, RowOK, SettledInv, RowsOK, TradeRow
<1>5. ~VersionConflict(w) => \A t \in Dirty(w) : trade[t].status = "MATCHED"
  BY <1>4 DEF VersionConflict
<1>6. ASSUME VersionConflict(w) PROVE pairStatus[job[w]] = "NETTED"
  <2>1. PICK t \in Dirty(w) : trade[t].version # snapshot[w][t].version
    BY <1>6 DEF VersionConflict
  <2>2. trade[t].status = "NETTED" /\ t \in TradesOf[job[w]]
    BY <1>4, <2>1
  <2> QED
    BY <2>2 DEF SettledInv, BothOrNeither
<1> QED
  BY <1>2, <1>3, <1>5, <1>6

(* The rows after a commit: those of its pair are settled, the others as   *)
(* before.                                                                 *)
LEMMA CommitWrites ==
  ASSUME TypeOK, SettledInv, NEW w \in Workers, pc[w] = "flush", job[w] \in Messages,
         ~VersionConflict(w), WriteResults(w)
  PROVE  /\ pairStatus'[job[w]] = "NETTED" /\ results'[job[w]] = results[job[w]] \union {tx[w]}
         /\ \A t \in TradesOf[job[w]] : trade'[t].status = "NETTED"
         /\ \A m \in Messages \ {job[w]} :
              /\ pairStatus'[m] = pairStatus[m] /\ results'[m] = results[m]
              /\ \A t \in TradesOf[m] : trade'[t] = trade[t]
         /\ \A t \in Trades : /\ RowOK(trade'[t])
                              /\ trade[t].status = "NETTED" => trade'[t].status = "NETTED"
<1> DEFINE m == job[w]
<1>1. /\ TradesOf[m] \subseteq Trades
      /\ Dirty(w) = {t \in TradesOf[m] : snapshot[w][t].status = "MATCHED"}
      /\ \A t \in Dirty(w) : trade[t].status = "MATCHED"
  BY CommitReads
<1>2. /\ \A t \in Dirty(w) : trade'[t] = [status |-> "NETTED", version |-> trade[t].version + 1]
      /\ \A t \in Trades \ Dirty(w) : trade'[t] = trade[t]
  BY <1>1 DEF WriteResults
<1>3. \A t \in Trades : trade[t] \in TradeRow /\ RowOK(trade[t])
  BY DEF TypeOK, SettledInv, RowsOK
<1>4. \A t \in Dirty(w) : RowOK(trade'[t]) /\ trade'[t].status = "NETTED"
  <2> SUFFICES ASSUME NEW t \in Dirty(w)
               PROVE  RowOK(trade'[t]) /\ trade'[t].status = "NETTED"
    OBVIOUS
  <2> DEFINE v == trade[t].version + 1
  <2>1. trade[t].version \in Nat
    BY <1>1, <1>3 DEF TradeRow
  <2>2. v \in Nat /\ v # 0
    BY <2>1
  <2>3. trade'[t] = [status |-> "NETTED", version |-> v]
    BY <1>2
  <2> HIDE DEF v
  <2> QED
    BY <2>2, <2>3 DEF RowOK, TradeRow
<1>5. \A t \in TradesOf[m] : trade'[t].status = "NETTED"
  <2> SUFFICES ASSUME NEW t \in TradesOf[m], t \notin Dirty(w)
               PROVE  trade'[t].status = "NETTED"
    BY <1>4
  <2>1. snapshot[w][t].status = "NETTED" /\ trade[t].status = "NETTED"
    BY <1>1 DEF SettledInv, SnapshotsOK, ReadOK, RowOK, TradeRow
  <2> QED
    BY <1>1, <1>2, <2>1
<1>6. \A n \in Messages \ {m} : /\ pairStatus'[n] = pairStatus[n] /\ results'[n] = results[n]
                                /\ \A t \in TradesOf[n] : trade'[t] = trade[t]
  <2> SUFFICES ASSUME NEW n \in Messages \ {m}
               PROVE  /\ pairStatus'[n] = pairStatus[n] /\ results'[n] = results[n]
                      /\ \A t \in TradesOf[n] : trade'[t] = trade[t]
    OBVIOUS
  <2>1. pairStatus'[n] = pairStatus[n] /\ results'[n] = results[n]
    BY DEF WriteResults, TypeOK
  <2>2. TradesOf[n] \intersect TradesOf[m] = {} /\ TradesOf[n] \subseteq Trades
    BY PairsAssumption DEF Trades
  <2> QED
    BY <1>1, <1>2, <2>1, <2>2
<1>7. pairStatus'[m] = "NETTED" /\ results'[m] = results[m] \union {tx[w]}
  BY DEF WriteResults, TypeOK
<1> QED
  BY <1>2, <1>3, <1>4, <1>5, <1>6, <1>7

LEMMA SettledWrites ==
  ASSUME TypeOK, JobOK, SettledInv, NEW w \in Workers, pc[w] = "flush", ~VersionConflict(w),
         WriteResults(w), NEW p \in {"committed", "terminal"}, Goto(w, p),
         UNCHANGED locals, errors' = 0 => errors = 0
  PROVE  SettledInv'
<1>1. job[w] \in Messages
  BY DEF JobOK
<1>2. /\ pairStatus'[job[w]] = "NETTED" /\ results'[job[w]] = results[job[w]] \union {tx[w]}
      /\ \A t \in TradesOf[job[w]] : trade'[t].status = "NETTED"
      /\ \A m \in Messages \ {job[w]} :
           /\ pairStatus'[m] = pairStatus[m] /\ results'[m] = results[m]
           /\ \A t \in TradesOf[m] : trade'[t] = trade[t]
      /\ \A t \in Trades : /\ RowOK(trade'[t])
                           /\ trade[t].status = "NETTED" => trade'[t].status = "NETTED"
  BY <1>1, CommitWrites
<1>3. /\ OthersKeep(w) /\ job' = job /\ pc'[w] = p /\ phase' = phase
      /\ ready' = ready /\ snapshot' = snapshot
  BY DEF Goto, TypeOK, StageTypeOK, OthersKeep, locals, absVars
<1>4. \A m \in Messages : pairStatus[m] = "NETTED" => pairStatus'[m] = "NETTED"
  BY <1>2
<1>5. BothOrNeither'
  BY <1>2 DEF SettledInv, BothOrNeither
<1>6. RowsOK'
  BY <1>2 DEF RowsOK
<1>7. SnapshotsOK'
  <2> SUFFICES ASSUME NEW v \in Workers, pc'[v] = "flush"
               PROVE  ReadOK(v)'
    BY DEF SnapshotsOK
  <2>1. v # w /\ pc[v] = "flush" /\ job[v] \in Messages
    BY <1>3 DEF OthersKeep, JobOK
  <2>2. TradesOf[job[v]] \subseteq Trades
    BY <2>1 DEF Trades
  <2> QED
    BY <1>2, <1>3, <2>1, <2>2 DEF SettledInv, SnapshotsOK, ReadOK
<1>8. KnowledgeOK'
  <2> SUFFICES ASSUME NEW v \in Workers, Knows(v)'
               PROVE  pairStatus'[job'[v]] = "NETTED"
    BY DEF KnowledgeOK
  <2>1. CASE v = w
    BY <1>2, <1>3, <2>1
  <2>2. CASE v # w
    <3>1. Knows(v) /\ pc[v] # "idle"
      BY <1>3, <2>2 DEF Knows, Fails, OthersKeep
    <3> QED
      BY <1>3, <1>4, <3>1 DEF SettledInv, KnowledgeOK, JobOK
  <2> QED
    BY <2>1, <2>2
<1>9. DoneMeansSettled' /\ BuriedOnlyIfSettled'
  BY <1>3, <1>4 DEF SettledInv, DoneMeansSettled, BuriedOnlyIfSettled
<1> QED
  BY <1>5, <1>6, <1>7, <1>8, <1>9 DEF SettledInv


(* The steps of a coordinator that write no results.                       *)
LEMMA SettledGoes ==
  ASSUME TypeOK, JobOK, SettledInv, NEW w \in Workers, pc[w] # "idle",
         OthersKeep(w), UNCHANGED <<trade, pairStatus, results, job, phase>>,
         errors' = 0 => errors = 0,
         pc'[w] = "flush" => ReadOK(w)', Knows(w)' => pairStatus[job[w]] = "NETTED"
  PROVE  SettledInv'
<1>1. \A m \in Messages :
        /\ phase'[m] = "done" => phase[m] = "done" \/ pairStatus[m] = "NETTED"
        /\ errors' = 0 /\ phase'[m] = "dead" => phase[m] = "dead" \/ pairStatus[m] = "NETTED"
  OBVIOUS
<1> QED
  BY <1>1, SettledMoves

LEMMA SettledStep ==
  ASSUME Inv, SettledInv, [Next]_vars
  PROVE  SettledInv'
<1> USE DEF Inv
<1>0. Errored => errors' # 0
  BY DEF TypeOK, StageTypeOK, Errored
<1>1. ASSUME NEW w \in Workers, CheckNetted(w)
      PROVE  SettledInv'
  <2>1. /\ OthersKeep(w) /\ UNCHANGED <<trade, pairStatus, results, job, phase, errors>>
        /\ pc[w] # "idle"
        /\ pc'[w] = IF pairStatus[job[w]] = "NETTED" THEN "succeeded" ELSE "initiate"
    BY <1>1 DEF CheckNetted, Goto, TypeOK, StageTypeOK, OthersKeep, rows, locals, faultVars, absVars
  <2> QED
    BY <2>1, SettledGoes DEF Knows, Fails
<1>2. ASSUME NEW w \in Workers, Initiate(w)
      PROVE  SettledInv'
  <2>1. /\ OthersKeep(w) /\ UNCHANGED <<trade, pairStatus, results, job, phase, errors>>
        /\ pc[w] # "idle" /\ pc'[w] = "send"
    BY <1>2 DEF Initiate, Goto, TypeOK, StageTypeOK, OthersKeep, faultVars, absVars
  <2> QED
    BY <2>1, SettledGoes DEF Knows, Fails
<1>3. ASSUME NEW w \in Workers, UpdateTxStatus(w)
      PROVE  SettledInv'
  <2>1. PICK write \in LogWrites : pc[w] = write[1] /\ Goto(w, write[3])
    BY <1>3 DEF UpdateTxStatus
  <2>2. UNCHANGED <<trade, pairStatus, results, ready, snapshot, errors>>
    BY <1>3 DEF UpdateTxStatus, locals, faultVars
  <2>3. OthersKeep(w) /\ UNCHANGED <<job, phase>> /\ pc'[w] = write[3]
    BY <2>1, <2>2 DEF Goto, TypeOK, StageTypeOK, OthersKeep, absVars
  <2>4. pc[w] # "idle" /\ pc'[w] # "flush" /\ (Knows(w)' => Knows(w))
    BY <2>1, <2>2, <2>3, LogWriteCases DEF Knows, Fails
  <2> QED
    BY <2>2, <2>3, <2>4, SettledGoes DEF SettledInv, KnowledgeOK
<1>4. ASSUME NEW w \in Workers, PrepareNetting(w)
      PROVE  SettledInv'
  <2>1. /\ OthersKeep(w) /\ UNCHANGED <<trade, pairStatus, results, job, phase, errors>>
        /\ pc[w] # "idle" /\ pc'[w] = "askSettlement"
        /\ ready'[w] = (\A t \in TradesOf[job[w]] : trade[t].status = "MATCHED")
    BY <1>4 DEF PrepareNetting, Goto, TypeOK, StageTypeOK, OthersKeep, faultVars, absVars
  <2>2. ASSUME ~ready'[w] PROVE pairStatus[job[w]] = "NETTED"
    BY <2>1, <2>2 DEF SettledInv, BothOrNeither, TypeOK, JobOK
  <2> QED
    BY <2>1, <2>2, SettledGoes DEF Knows, Fails
<1>5. ASSUME NEW w \in Workers, PrepareSettlement(w)
      PROVE  SettledInv'
  <2>1. /\ OthersKeep(w) /\ UNCHANGED <<trade, pairStatus, results, job, phase, errors>>
        /\ pc[w] = "askSettlement"
        /\ pc'[w] = IF ready[w] THEN "prepared" ELSE "aborting"
    BY <1>5 DEF PrepareSettlement, Goto, TypeOK, StageTypeOK, OthersKeep, locals, faultVars, absVars
  <2> QED
    BY <2>1, SettledGoes DEF Knows, Fails, SettledInv, KnowledgeOK
<1>6. ASSUME NEW w \in Workers, ReadForCommit(w)
      PROVE  SettledInv'
  <2>1. /\ OthersKeep(w) /\ UNCHANGED <<trade, pairStatus, results, job, phase, errors>>
        /\ pc[w] = "commit" /\ pc'[w] = "flush"
        /\ snapshot'[w] = Restrict(trade, TradesOf[job[w]])
    BY <1>6 DEF ReadForCommit, Goto, TypeOK, StageTypeOK, OthersKeep, rows, faultVars, absVars
  <2>2. \A t \in TradesOf[job[w]] : t \in Trades /\ snapshot'[w][t] = trade[t]
    BY <2>1, SnapshotOfPair DEF TypeOK, JobOK
  <2>3. ReadOK(w)'
    BY <2>1, <2>2 DEF ReadOK, SettledInv, RowsOK
  <2> QED
    BY <2>1, <2>3, SettledGoes DEF Knows, Fails
<1>7. ASSUME NEW w \in Workers, Flush(w)
      PROVE  SettledInv'
  <2>0. job[w] \in Messages /\ pc[w] = "flush" /\ UNCHANGED <<errors, locals>>
    BY <1>7 DEF Flush, JobOK, faultVars
  <2>1. CASE VersionConflict(w)
    <3>1. /\ OthersKeep(w) /\ UNCHANGED <<trade, pairStatus, results, job, phase>>
          /\ pc'[w] = "terminal"
      BY <1>7, <2>1 DEF Flush, Goto, TypeOK, StageTypeOK, OthersKeep, locals, absVars
    <3> QED
      BY <2>0, <2>1, <3>1, CommitReads, SettledGoes
  <2>2. CASE ~VersionConflict(w)
    BY <1>7, <2>0, <2>2, SettledWrites DEF Flush
  <2> QED
    BY <2>1, <2>2
<1>8. ASSUME NEW w \in Workers, CommitUnacknowledged(w)
      PROVE  SettledInv'
  BY <1>0, <1>8, SettledWrites DEF CommitUnacknowledged
<1>9. ASSUME NEW w \in Workers,
             \/ CallThrows(w) \/ CheckThrows(w) \/ CommitRolledBack(w)
             \/ (CompleteThrows(w) /\ UNCHANGED <<rows, locals>>)
      PROVE  SettledInv'
  <2>1. /\ OthersKeep(w) /\ UNCHANGED <<trade, pairStatus, results, job, phase>>
        /\ pc[w] # "idle" /\ pc'[w] \notin {"flush", "committed", "succeeded"} /\ Errored
    <3>1. CASE CallThrows(w)
      BY <3>1, ThrowPoints DEF CallThrows, Goto, TypeOK, StageTypeOK, OthersKeep, rows, locals, absVars
    <3>2. CASE ~CallThrows(w)
      BY <1>9, <3>2 DEF CheckThrows, CommitRolledBack, CompleteThrows, Goto, TypeOK, StageTypeOK,
                        OthersKeep, rows, locals, absVars
    <3> QED
      BY <3>1, <3>2
  <2> QED
    BY <1>0, <2>1, SettledGoes DEF Knows
<1>10. ASSUME NEW w \in Workers, (Dispose(w) \/ Crash(w)) /\ Forget(w) /\ UNCHANGED rows
       PROVE  SettledInv'
  <2>1. /\ OthersKeep(w) /\ UNCHANGED <<trade, pairStatus, results, errors>> /\ pc'[w] = "idle"
        /\ job[w] \in Messages
    BY <1>10 DEF Dispose, HandlerOutcomes, Crash, Release, Forget, TypeOK, StageTypeOK, OthersKeep,
                 rows, faultVars, JobOK
  <2>2. \A m \in Messages :
          /\ phase'[m] = "done" => phase[m] = "done" \/ pairStatus[m] = "NETTED"
          /\ errors' = 0 /\ phase'[m] = "dead" => phase[m] = "dead" \/ pairStatus[m] = "NETTED"
    <3>1. CASE Crash(w)
      BY <3>1 DEF Crash, Lose, absVars
    <3>2. CASE Dispose(w)
      <4>1. \/ phase' = phase
            \/ phase' = [phase EXCEPT ![job[w]] = "waiting"]
            \/ pc[w] = "succeeded" /\ phase' = [phase EXCEPT ![job[w]] = "done"]
            \/ pc[w] \in {"retryable", "terminal"} /\ phase' = [phase EXCEPT ![job[w]] = "dead"]
        BY <3>2 DEF Dispose, Finish, Retry, Bury, absVars
      <4>2. Knows(w) => pairStatus[job[w]] = "NETTED"
        BY DEF SettledInv, KnowledgeOK
      <4> QED
        BY <2>1, <4>1, <4>2 DEF Knows, Fails, TypeOK, StageTypeOK, AbsTypeOK
    <3> QED
      BY <1>10, <3>1, <3>2
  <2> QED
    BY <2>1, <2>2, SettledMoves DEF Knows, Fails
<1>11. ASSUME NEW w \in Workers, NEW m \in Messages,
              (Claim(w, m) \/ TakeOver(w, m)) /\ UNCHANGED <<rows, locals>>
       PROVE  SettledInv'
  <2>1. /\ OthersKeep(w) /\ UNCHANGED <<trade, pairStatus, results, errors>> /\ pc'[w] = "claimed"
        /\ phase' = [phase EXCEPT ![m] = "held"]
    BY <1>11 DEF Claim, TakeOver, Begin, Take, TypeOK, StageTypeOK, OthersKeep, rows, locals
  <2>2. \A n \in Messages : phase'[n] \in {"done", "dead"} => phase'[n] = phase[n]
    BY <2>1 DEF TypeOK, StageTypeOK, AbsTypeOK
  <2> QED
    BY <2>1, <2>2, SettledMoves DEF Knows, Fails
<1>12. CASE UNCHANGED vars
  BY <1>12 DEF vars, stageVars, absVars, faultVars, rows, locals, SettledInv, BothOrNeither, RowsOK,
               SnapshotsOK, ReadOK, KnowledgeOK, Knows, Fails, DoneMeansSettled, BuriedOnlyIfSettled
<1> QED
  <2>1. ASSUME NEW w \in Workers, Coordinate(w) \/ Error(w)
        PROVE  SettledInv'
    BY <2>1, <1>1, <1>2, <1>3, <1>4, <1>5, <1>6, <1>7, <1>8, <1>9 DEF Coordinate, Error
  <2> QED
    BY <2>1, <1>10, <1>11, <1>12, NextCases


LEMMA SettledInit == Init => SettledInv
<1> SUFFICES ASSUME Init PROVE SettledInv
  OBVIOUS
<1>1. \A m \in Messages : TradesOf[m] \subseteq Trades
  BY DEF Trades
<1>2. BothOrNeither /\ RowsOK
  BY <1>1 DEF Init, BothOrNeither, RowsOK, RowOK, TradeRow
<1> QED
  BY <1>2 DEF Init, StageInit, SettledInv, SnapshotsOK, KnowledgeOK, Knows, Fails,
              DoneMeansSettled, BuriedOnlyIfSettled

LEMMA SettledAlways == Spec => [](Inv /\ SettledInv)
<1>1. Inv /\ SettledInv /\ [Next]_vars => Inv' /\ SettledInv'
  BY InvStep, SettledStep
<1> QED
  BY <1>1, InvInit, SettledInit, PTL DEF Spec

(* Netting and settlement instructions exist for a pair exactly when it    *)
(* and its trades are NETTED.                                              *)
THEOREM NettingIsAtomic == Spec => []BothOrNeither
<1>1. SettledInv => BothOrNeither
  BY DEF SettledInv
<1> QED
  BY <1>1, SettledAlways, PTL

(* A message is completed only when its pair is settled.                   *)
THEOREM CompletionIsEarned == Spec => []DoneMeansSettled
<1>1. SettledInv => DoneMeansSettled
  BY DEF SettledInv
<1> QED
  BY <1>1, SettledAlways, PTL

(* Crashes, leases that run out and version conflicts lose no pair.        *)
THEOREM OnlyErrorsLosePairs == Spec => []BuriedOnlyIfSettled
<1>1. SettledInv => BuriedOnlyIfSettled
  BY DEF SettledInv
<1> QED
  BY <1>1, SettledAlways, PTL

(* A message is done with only for a settled pair: NettingCalculator's loop *)
(* over executeTransaction.                                                *)
THEOREM NettingEndsAreEarned == Spec => []EndsAreEarned
<1>1. DoneMeansSettled /\ BuriedOnlyIfSettled => EndsAreEarned
  BY DEF EndsAreEarned
<1> QED
  BY <1>1, CompletionIsEarned, OnlyErrorsLosePairs, PTL

(* Which step adds results, and for whom.                                  *)
LEMMA ResultsChange ==
  ASSUME [Next]_vars, results' # results
  PROVE  \E w \in Workers : pc[w] = "flush" /\ ~VersionConflict(w) /\ WriteResults(w)
<1>1. ASSUME NEW w \in Workers, Coordinate(w) \/ Error(w)
      PROVE  pc[w] = "flush" /\ ~VersionConflict(w) /\ WriteResults(w)
  BY <1>1 DEF Coordinate, CheckNetted, Initiate, UpdateTxStatus, PrepareNetting, PrepareSettlement,
              ReadForCommit, Flush, Error, CallThrows, CommitUnacknowledged, CheckThrows,
              CommitRolledBack, rows
<1> QED
  BY <1>1, NextCases DEF vars, rows

(* A second set of results for a pair comes only from a coordinator that   *)
(* read the trades after they were NETTED.                                 *)
THEOREM VersionsAreEnough == Spec => VersionsCatchOverlap
<1>1. ASSUME Inv, SettledInv, [Next]_vars, NEW m \in Messages,
             results[m] # {}, results'[m] # results[m]
      PROVE  \E w \in Workers : pc[w] = "flush" /\ job[w] = m /\ Dirty(w) = {}
  <2>1. PICK w \in Workers : pc[w] = "flush" /\ ~VersionConflict(w) /\ WriteResults(w)
    BY <1>1, ResultsChange
  <2>2. job[w] = m
    BY <1>1, <2>1 DEF WriteResults, Inv, TypeOK
  <2>3. \A t \in Dirty(w) : t \in TradesOf[m] /\ trade[t].status = "MATCHED"
    BY <1>1, <2>1, <2>2, CommitReads DEF Inv
  <2>4. \A t \in TradesOf[m] : trade[t].status = "NETTED"
    BY <1>1 DEF SettledInv, BothOrNeither, Inv, TypeOK
  <2> QED
    BY <2>1, <2>2, <2>3, <2>4
<1>2. Inv /\ SettledInv /\ [Next]_vars
        => [\A m \in Messages :
              results[m] # {} /\ results'[m] # results[m]
                => \E w \in Workers : pc[w] = "flush" /\ job[w] = m /\ Dirty(w) = {}]_vars
  BY <1>1
<1> QED
  BY <1>2, SettledAlways, PTL DEF Spec, VersionsCatchOverlap


-----------------------------------------------------------------------------
(* SettledOnceWithinLeases and CrashesNeverBury                            *)

Holds == \A w \in Workers : pc[w] # "idle" => holder[job[w]] = w

(* Inside executeTransaction, until its own commit.                        *)
Inside(w) == pc[w] \in Points \ {"committed"}

StillMatched == \A w \in Workers : Inside(w) => pairStatus[job[w]] = "MATCHED"

AtMostOnce == \A m \in Messages : \A i, j \in results[m] : i = j

NobodyFails ==
  errors = 0 => /\ \A w \in Workers : ~Fails(w)
                /\ \A m \in Messages : phase[m] # "dead"

Leased == Holds /\ StillMatched /\ AtMostOnce /\ NobodyFails

(* While no lease has run out, a pair has one coordinator at a time.       *)
LeaseInv == takeovers = 0 => Leased

(* A coordinator goes on and writes no results.                            *)
LEMMA LeaseGoes ==
  ASSUME Leased, NEW w \in Workers, pc[w] # "idle", OthersKeep(w),
         UNCHANGED <<pairStatus, results, job, holder, phase>>, errors' = 0 => errors = 0,
         Inside(w)' => pairStatus[job[w]] = "MATCHED", Fails(w)' => errors' # 0
  PROVE  Leased'
<1> USE DEF Leased
<1>1. Holds'
  BY DEF Holds, OthersKeep
<1>2. StillMatched'
  BY DEF StillMatched, Inside, OthersKeep
<1>3. AtMostOnce'
  BY DEF AtMostOnce
<1>4. NobodyFails'
  BY DEF NobodyFails, Fails, OthersKeep
<1> QED
  BY <1>1, <1>2, <1>3, <1>4

LEMMA LeaseWrites ==
  ASSUME TypeOK, JobOK, SettledInv, Leased, NEW w \in Workers, pc[w] = "flush",
         ~VersionConflict(w), WriteResults(w), NEW p \in {"committed", "terminal"}, Goto(w, p),
         UNCHANGED locals, errors' = 0 => errors = 0, p = "terminal" => errors' # 0
  PROVE  Leased'
<1> USE DEF Leased
<1>1. /\ job[w] \in Messages /\ holder[job[w]] = w /\ pairStatus[job[w]] = "MATCHED"
  BY DEF JobOK, Holds, StillMatched, Inside, Points
<1>2. /\ OthersKeep(w) /\ pc'[w] = p /\ UNCHANGED <<job, holder, phase>>
  BY DEF Goto, TypeOK, StageTypeOK, OthersKeep, locals, absVars
<1>3. /\ results'[job[w]] = results[job[w]] \union {tx[w]}
      /\ \A m \in Messages \ {job[w]} : pairStatus'[m] = pairStatus[m] /\ results'[m] = results[m]
  BY <1>1, CommitWrites
<1>4. Holds'
  BY <1>2 DEF Holds, OthersKeep
<1>5. StillMatched'
  <2> SUFFICES ASSUME NEW v \in Workers, Inside(v)'
               PROVE  pairStatus'[job'[v]] = "MATCHED"
    BY DEF StillMatched
  <2>1. v # w /\ Inside(v) /\ pc[v] # "idle" /\ job'[v] = job[v]
    BY <1>2 DEF Inside, OthersKeep, Points
  <2>2. job[v] \in Messages \ {job[w]}
    BY <1>1, <2>1 DEF JobOK, Holds
  <2> QED
    BY <1>3, <2>1, <2>2 DEF StillMatched
<1>6. AtMostOnce'
  <2>1. results[job[w]] = {}
    BY <1>1 DEF SettledInv, BothOrNeither
  <2> QED
    BY <1>3, <2>1 DEF AtMostOnce
<1>7. NobodyFails'
  BY <1>2 DEF NobodyFails, Fails, OthersKeep
<1> QED
  BY <1>4, <1>5, <1>6, <1>7

LEMMA LeaseCoordinates ==
  ASSUME Inv, SettledInv, Leased, NEW w \in Workers, Coordinate(w)
  PROVE  Leased'
<1> USE DEF Inv, Leased
<1>1. CASE CheckNetted(w)
  <2>1. /\ OthersKeep(w) /\ UNCHANGED <<pairStatus, results, job, holder, phase, errors>>
        /\ pc[w] = "claimed" /\ job[w] \in Messages
        /\ pc'[w] = IF pairStatus[job[w]] = "NETTED" THEN "succeeded" ELSE "initiate"
    BY <1>1 DEF CheckNetted, Goto, TypeOK, StageTypeOK, OthersKeep, rows, locals, faultVars, absVars, JobOK
  <2>2. pairStatus[job[w]] \in {"MATCHED", "NETTED"}
    BY <2>1 DEF TypeOK
  <2> QED
    BY <2>1, <2>2, LeaseGoes DEF Inside, Points, Fails
<1>2. CASE UpdateTxStatus(w)
  <2>1. PICK write \in LogWrites : pc[w] = write[1] /\ Goto(w, write[3])
    BY <1>2 DEF UpdateTxStatus
  <2>2. UNCHANGED <<pairStatus, results, ready, snapshot, errors>>
    BY <1>2 DEF UpdateTxStatus, locals, faultVars
  <2>3. OthersKeep(w) /\ UNCHANGED <<job, holder, phase>> /\ pc'[w] = write[3]
    BY <2>1, <2>2 DEF Goto, TypeOK, StageTypeOK, OthersKeep, absVars
  <2>4. pc[w] # "idle" /\ (Inside(w)' => Inside(w)) /\ (Fails(w)' => Fails(w))
    BY <2>1, <2>2, <2>3, LogWriteCases DEF Inside, Points, Fails
  <2> QED
    BY <2>2, <2>3, <2>4, LeaseGoes DEF StillMatched, NobodyFails
<1>3. CASE PrepareNetting(w)
  <2>1. /\ OthersKeep(w) /\ UNCHANGED <<pairStatus, results, job, holder, phase, errors>>
        /\ pc[w] = "askNetting" /\ pc'[w] = "askSettlement"
        /\ ready'[w] = (\A t \in TradesOf[job[w]] : trade[t].status = "MATCHED")
    BY <1>3 DEF PrepareNetting, Goto, TypeOK, StageTypeOK, OthersKeep, faultVars, absVars
  <2>2. pairStatus[job[w]] = "MATCHED" /\ job[w] \in Messages
    BY <2>1 DEF StillMatched, Inside, Points, JobOK
  <2>3. ready'[w]
    BY <2>1, <2>2 DEF SettledInv, BothOrNeither
  <2> QED
    BY <2>1, <2>2, <2>3, LeaseGoes DEF Fails
<1>4. CASE Initiate(w) \/ PrepareSettlement(w) \/ ReadForCommit(w)
  <2>1. /\ OthersKeep(w) /\ UNCHANGED <<pairStatus, results, job, holder, phase, errors>>
        /\ pc[w] \in Points \ {"committed"}
        /\ Fails(w)' => Fails(w)
    BY <1>4 DEF Initiate, PrepareSettlement, ReadForCommit, Goto, TypeOK, StageTypeOK, OthersKeep,
                rows, locals, faultVars, absVars, Points, Fails
  <2>2. pc[w] # "idle" /\ pairStatus[job[w]] = "MATCHED"
    BY <2>1 DEF StillMatched, Inside, Points
  <2> QED
    BY <2>1, <2>2, LeaseGoes DEF NobodyFails
<1>5. CASE Flush(w)
  <2>1. /\ job[w] \in Messages /\ pc[w] = "flush" /\ UNCHANGED <<errors, locals>>
        /\ pairStatus[job[w]] = "MATCHED"
    BY <1>5 DEF Flush, JobOK, faultVars, StillMatched, Inside, Points
  <2>2. ~VersionConflict(w)
    BY <2>1, CommitReads
  <2> QED
    BY <1>5, <2>1, <2>2, LeaseWrites DEF Flush
<1> QED
  BY <1>1, <1>2, <1>3, <1>4, <1>5 DEF Coordinate

LEMMA LeaseErrors ==
  ASSUME Inv, SettledInv, Leased, NEW w \in Workers, Error(w)
  PROVE  Leased'
<1> USE DEF Inv, Leased
<1>0. Errored /\ errors' # 0
  <2>1. Errored
    BY DEF Error, CallThrows, CommitUnacknowledged, CheckThrows, CommitRolledBack, CompleteThrows
  <2>2. errors \in Nat
    BY DEF TypeOK, StageTypeOK
  <2> QED
    BY <2>1, <2>2 DEF Errored
<1>1. CASE CommitUnacknowledged(w)
  BY <1>0, <1>1, LeaseWrites DEF CommitUnacknowledged
<1>2. CASE ~CommitUnacknowledged(w)
  <2>1. /\ OthersKeep(w) /\ UNCHANGED <<pairStatus, results, job, holder, phase>>
        /\ pc[w] # "idle" /\ (Inside(w)' => Inside(w))
    <3>1. CASE CallThrows(w)
      BY <3>1, ThrowPoints DEF CallThrows, Goto, TypeOK, StageTypeOK, OthersKeep, rows, locals, absVars,
                               Inside, Points
    <3>2. CASE ~CallThrows(w)
      BY <1>2, <3>2 DEF Error, CheckThrows, CommitRolledBack, CompleteThrows, Goto, TypeOK, StageTypeOK,
                        OthersKeep, rows, locals, absVars, Inside, Points
    <3> QED
      BY <3>1, <3>2
  <2> QED
    BY <1>0, <2>1, LeaseGoes DEF StillMatched
<1> QED
  BY <1>1, <1>2

LEMMA LeaseDisposes ==
  ASSUME Inv, Leased, NEW w \in Workers, Dispose(w) \/ Crash(w), Forget(w), UNCHANGED rows
  PROVE  Leased'
<1> USE DEF Inv, Leased
<1>1. /\ OthersKeep(w) /\ UNCHANGED <<pairStatus, results, errors>> /\ pc'[w] = "idle"
      /\ pc[w] # "idle" /\ job[w] \in Messages /\ holder[job[w]] = w
  BY DEF Dispose, HandlerOutcomes, Crash, Release, Forget, TypeOK, StageTypeOK, OthersKeep,
         rows, faultVars, JobOK, Holds
<1>2. \A m \in Messages \ {job[w]} : holder'[m] = holder[m] /\ phase'[m] = phase[m]
  BY DEF Dispose, Crash, Lose, Finish, Retry, Bury, absVars, TypeOK, StageTypeOK, AbsTypeOK
<1>3. Holds'
  <2> SUFFICES ASSUME NEW v \in Workers \ {w}, pc[v] # "idle"
               PROVE  holder'[job[v]] = v
    BY <1>1 DEF Holds, OthersKeep
  <2>1. job[v] \in Messages \ {job[w]}
    BY <1>1 DEF Holds, JobOK
  <2> QED
    BY <1>2, <2>1 DEF Holds
<1>4. StillMatched'
  BY <1>1 DEF StillMatched, Inside, OthersKeep, Points
<1>5. AtMostOnce'
  BY <1>1 DEF AtMostOnce
<1>6. NobodyFails'
  <2> SUFFICES ASSUME errors = 0
               PROVE  /\ \A v \in Workers : ~Fails(v)'
                      /\ \A m \in Messages : phase'[m] # "dead"
    BY <1>1 DEF NobodyFails
  <2>1. \A v \in Workers : ~Fails(v)'
    BY <1>1 DEF NobodyFails, Fails, OthersKeep
  <2>2. pc[w] \notin {"retryable", "terminal"}
    BY DEF NobodyFails, Fails
  <2>3. phase'[job[w]] # "dead"
    BY <1>1, <2>2 DEF Dispose, Crash, Lose, Finish, Retry, Bury, absVars, TypeOK, StageTypeOK,
                      AbsTypeOK, NobodyFails
  <2> QED
    BY <1>2, <2>1, <2>3 DEF NobodyFails
<1> QED
  BY <1>3, <1>4, <1>5, <1>6

LEMMA LeaseClaims ==
  ASSUME Inv, Leased, NEW w \in Workers, NEW m \in Messages, Claim(w, m),
         UNCHANGED <<rows, locals>>
  PROVE  Leased'
<1> USE DEF Inv, Leased
<1>1. /\ OthersKeep(w) /\ UNCHANGED <<pairStatus, results, errors>> /\ pc'[w] = "claimed"
      /\ job'[w] = m /\ holder[m] = Nobody /\ holder' = [holder EXCEPT ![m] = w]
      /\ phase' = [phase EXCEPT ![m] = "held"]
  BY DEF Claim, Begin, Take, TypeOK, StageTypeOK, OthersKeep, rows, locals
<1>2. Holds'
  <2>1. holder'[m] = w /\ \A n \in Messages \ {m} : holder'[n] = holder[n]
    BY <1>1 DEF TypeOK, StageTypeOK, AbsTypeOK
  <2>2. \A v \in Workers \ {w} :
          pc'[v] # "idle" => job'[v] \in Messages \ {m} /\ holder[job'[v]] = v
    BY <1>1, StageAssumption DEF Holds, OthersKeep, JobOK
  <2> QED
    BY <1>1, <2>1, <2>2 DEF Holds
<1>3. StillMatched'
  BY <1>1 DEF StillMatched, Inside, OthersKeep, Points
<1>4. AtMostOnce'
  BY <1>1 DEF AtMostOnce
<1>5. NobodyFails'
  BY <1>1 DEF NobodyFails, Fails, OthersKeep, TypeOK, StageTypeOK, AbsTypeOK
<1> QED
  BY <1>2, <1>3, <1>4, <1>5

LEMMA LeaseStep ==
  ASSUME Inv, SettledInv, LeaseInv, [Next]_vars
  PROVE  LeaseInv'
<1> SUFFICES ASSUME takeovers' = 0 PROVE Leased'
  BY DEF LeaseInv
<1>0. ASSUME UNCHANGED takeovers PROVE Leased
  BY <1>0 DEF LeaseInv
<1>1. ASSUME NEW w \in Workers, Coordinate(w)
      PROVE  Leased'
  <2>1. UNCHANGED takeovers
    BY <1>1 DEF Coordinate, CheckNetted, Initiate, UpdateTxStatus, PrepareNetting, PrepareSettlement,
                ReadForCommit, Flush, faultVars
  <2> QED
    BY <1>0, <1>1, <2>1, LeaseCoordinates
<1>2. ASSUME NEW w \in Workers, Error(w)
      PROVE  Leased'
  <2>1. UNCHANGED takeovers
    BY <1>2 DEF Error, CallThrows, CommitUnacknowledged, CheckThrows, CommitRolledBack,
                CompleteThrows, Errored
  <2> QED
    BY <1>0, <1>2, <2>1, LeaseErrors
<1>3. ASSUME NEW w \in Workers, (Dispose(w) \/ Crash(w)) /\ Forget(w) /\ UNCHANGED rows
      PROVE  Leased'
  <2>1. UNCHANGED takeovers
    BY <1>3 DEF Dispose, Crash, faultVars
  <2> QED
    BY <1>0, <1>3, <2>1, LeaseDisposes
<1>4. ASSUME NEW w \in Workers, NEW m \in Messages,
             (Claim(w, m) \/ TakeOver(w, m)) /\ UNCHANGED <<rows, locals>>
      PROVE  Leased'
  <2>1. Claim(w, m) /\ UNCHANGED takeovers
    BY <1>4 DEF Claim, TakeOver, Inv, TypeOK, StageTypeOK
  <2> QED
    BY <1>0, <1>4, <2>1, LeaseClaims
<1>5. CASE UNCHANGED vars
  <2>1. UNCHANGED takeovers
    BY <1>5 DEF vars, stageVars, faultVars
  <2> QED
    BY <1>0, <1>5, <2>1 DEF vars, stageVars, absVars, faultVars, rows, locals, Leased, Holds,
                            StillMatched, Inside, AtMostOnce, NobodyFails, Fails
<1> QED
  BY <1>1, <1>2, <1>3, <1>4, <1>5, NextCases


LEMMA LeaseInit == Init => LeaseInv
BY DEF Init, StageInit, LeaseInv, Leased, Holds, StillMatched, Inside, Points, AtMostOnce,
       NobodyFails, Fails

LEMMA LeaseAlways == Spec => [](Inv /\ SettledInv /\ LeaseInv)
<1>1. Inv /\ SettledInv /\ LeaseInv /\ [Next]_vars => LeaseInv'
  BY LeaseStep
<1>2. Init => LeaseInv
  BY LeaseInit
<1> QED
  BY <1>1, <1>2, SettledAlways, PTL DEF Spec

LEMMA AtMostOneElement ==
  ASSUME NEW S, \A i, j \in S : i = j
  PROVE  Cardinality(S) <= 1
<1>1. CASE S = {}
  BY <1>1, FS_EmptySet
<1>2. CASE S # {}
  <2>1. PICK i : i \in S
    BY <1>2
  <2>2. S = {i}
    BY <2>1
  <2>3. Cardinality({i}) = 1
    BY FS_Singleton
  <2> QED
    BY <2>2, <2>3
<1> QED
  BY <1>1, <1>2

(* Crashes, database errors and the redeliveries they cause never settle a *)
(* pair twice.                                                             *)
THEOREM OnlyLeasesSettleTwice == Spec => []SettledOnceWithinLeases
<1>1. LeaseInv => SettledOnceWithinLeases
  <2> SUFFICES ASSUME LeaseInv, takeovers = 0, NEW m \in Messages
               PROVE  Cardinality(results[m]) <= 1
    BY DEF SettledOnceWithinLeases
  <2>1. \A i, j \in results[m] : i = j
    BY DEF LeaseInv, Leased, AtMostOnce
  <2> QED
    BY <2>1, AtMostOneElement
<1> QED
  BY <1>1, LeaseAlways, PTL

(* Crashes alone dead-letter no pair, however often they happen.           *)
THEOREM CrashesAreHarmless == Spec => []CrashesNeverBury
<1>1. LeaseInv => CrashesNeverBury
  BY DEF LeaseInv, Leased, NobodyFails, CrashesNeverBury
<1> QED
  BY <1>1, LeaseAlways, PTL
=============================================================================
