-------------------------- MODULE QueueBrokerProofs --------------------------
(***************************************************************************)
(* The broker's safety for every number of workers, messages, attempts,    *)
(* batch size and lease, and every assignment of thread names.             *)
(***************************************************************************)
EXTENDS QueueBroker, FiniteSetTheorems, TLAPS

(* What the rows of a claim say to a thread that works on it: its claim is *)
(* the current one, or a later claim or a retry began after its lease.     *)
LeaseOf(w) ==
  LET m == held[w] IN
  \/ status[m] = "PROCESSING" /\ claimedAt[m] = now[w] /\ workerName[m] = ThreadName[w]
  \/ status[m] = "PROCESSING" /\ now[w] + ClaimTimeout <= claimedAt[m]
  \/ status[m] = "NEW" /\ now[w] + ClaimTimeout <= availableAt[m]
  \/ status[m] \in {"DONE", "FAILED"}

(* The inductive invariant: types; instants that were read lie in the      *)
(* past; a working thread has a message, and its lease is in order.        *)
PastOK ==
  /\ \A w \in Workers : now[w] <= clock
  /\ \A m \in Messages : claimedAt[m] <= clock
  /\ \A m \in Messages : status[m] = "PROCESSING" => claimedAt[m] \in Nat

LeasesOK ==
  \A w \in Workers : pc[w] = "working" => held[w] \in Messages /\ LeaseOf(w)

Inv == TypeOK /\ PastOK /\ LeasesOK /\ LeasesDisjoint

-----------------------------------------------------------------------------
(* TypeOK                                                                  *)

LEMMA OverrunningCount == Cardinality(Overrunning) \in Nat
<1>1. IsFiniteSet(Overrunning)
  BY WorkersAssumption, FS_Subset DEF Overrunning
<1> QED
  BY <1>1, FS_CardinalityType

LEMMA JournalClaimType ==
  ASSUME TypeOK, NEW m \in Messages, NEW t \in Nat, NEW w \in Workers
  PROVE  JournalClaim(m, t, ThreadName[w]) \in SUBSET Attempt
<1>1. journal[m] \in SUBSET Attempt /\ attempts[m] + 1 \in Nat /\ ThreadName[w] \in Names
  BY NamesAssumption DEF TypeOK
<1>2. \A h \in Attempt : [h EXCEPT !.outcome = "abandoned"] \in Attempt
  BY DEF Attempt, Outcomes
<1>3. [at |-> t, number |-> attempts[m] + 1, worker |-> ThreadName[w],
       outcome |-> "processing"] \in Attempt
  BY <1>1 DEF Attempt, Outcomes
<1> QED
  BY <1>1, <1>2, <1>3 DEF JournalClaim

LEMMA JournalFinishType ==
  ASSUME TypeOK, NEW m \in Messages, NEW t \in Nat, NEW o \in Outcomes
  PROVE  JournalFinish(m, t, o) \in SUBSET Attempt
<1>1. journal[m] \in SUBSET Attempt
  BY DEF TypeOK
<1>2. \A h \in Attempt : [h EXCEPT !.outcome = o] \in Attempt
  BY DEF Attempt
<1> QED
  BY <1>1, <1>2 DEF JournalFinish

LEMMA TypeInit == Init => TypeOK
BY DEF Init, TypeOK, Statuses, Messages, NoTime, NoMessage

LEMMA CandidatesType ==
  ASSUME TypeOK, NEW t \in Int
  PROVE  ClaimableNew(t) \in SUBSET Candidate /\ StaleProcessing(t) \in SUBSET Candidate
<1>1. \A S : FirstOf(S) \subseteq S
  BY DEF FirstOf
<1>2. {c \in [id : Messages, key : {0}] : status[c.id] = "NEW" /\ availableAt[c.id] <= t}
        \subseteq Candidate
  BY DEF Candidate
<1>3. \A m \in Messages : claimedAt[m] \in Int
  BY DEF TypeOK, NoTime
<1>4. {[id |-> m, key |-> claimedAt[m]] :
         m \in {k \in Messages : status[k] = "PROCESSING" /\ claimedAt[k] <= t - ClaimTimeout}}
        \subseteq Candidate
  BY <1>3 DEF Candidate
<1> QED
  BY <1>1, <1>2, <1>4 DEF ClaimableNew, StaleProcessing

LEMMA TypeStep == Inv /\ [Next]_vars => TypeOK'
<1> SUFFICES ASSUME Inv, [Next]_vars
             PROVE  TypeOK'
  OBVIOUS
<1> USE DEF Inv
<1>1. ASSUME NEW m \in Messages, Publish(m)
      PROVE  TypeOK'
  BY <1>1 DEF Publish, TypeOK, rows, locals, Statuses
<1>2. ASSUME NEW w \in Workers, Poll(w)
      PROVE  TypeOK'
  <2>1. ClaimableNew(clock) \in SUBSET Candidate
    BY CandidatesType DEF TypeOK
  <2> QED
    BY <1>2, <2>1 DEF Poll, TypeOK, rows
<1>3. ASSUME NEW w \in Workers, TryClaim(w)
      PROVE  TypeOK'
  <2>1. PICK c \in candidates[w] : TryClaim(w)!2!(c)
    BY <1>3 DEF TryClaim
  <2>2. c \in Candidate /\ c.id \in Messages /\ now[w] \in Nat
    BY DEF TypeOK, Candidate
  <2>3. JournalClaim(c.id, now[w], ThreadName[w]) \in SUBSET Attempt
    BY <2>2, JournalClaimType
  <2>4. ThreadName[w] \in Names
    BY NamesAssumption
  <2>5. CASE Claimable(c.id, now[w])
    BY <1>3, <2>1, <2>2, <2>3, <2>4, <2>5 DEF TryClaim, TypeOK, Statuses
  <2>6. CASE ~Claimable(c.id, now[w])
    BY <1>3, <2>1, <2>2, <2>6 DEF TryClaim, TypeOK
  <2> QED
    BY <2>5, <2>6
<1>4. ASSUME NEW w \in Workers, LookForStale(w)
      PROVE  TypeOK'
  <2>1. StaleProcessing(now[w]) \in SUBSET Candidate
    BY CandidatesType DEF TypeOK
  <2> QED
    BY <1>4, <2>1 DEF LookForStale, TypeOK, rows
<1>5. ASSUME NEW w \in Workers, ClaimNothing(w)
      PROVE  TypeOK'
  BY <1>5 DEF ClaimNothing, Free, TypeOK, rows
<1>6. ASSUME NEW w \in Workers, Complete(w)
      PROVE  TypeOK'
  <2>1. held[w] \in Messages /\ now[w] \in Nat
    BY <1>6 DEF Complete, LeasesOK, TypeOK
  <2>2. JournalFinish(held[w], now[w], "completed") \in SUBSET Attempt
    BY <2>1, JournalFinishType DEF Outcomes
  <2> QED
    BY <1>6, <2>1, <2>2 DEF Complete, Free, TypeOK, Statuses
<1>7. ASSUME NEW w \in Workers, Reschedule(w)
      PROVE  TypeOK'
  <2>1. held[w] \in Messages /\ now[w] \in Nat /\ seen[w] + 1 \in Nat
    BY <1>7 DEF Reschedule, LeasesOK, TypeOK
  <2>2. JournalFinish(held[w], now[w], "retried") \in SUBSET Attempt
    BY <2>1, JournalFinishType DEF Outcomes
  <2>3. clock + RetryDelay \in Nat
    BY LeaseAssumption DEF TypeOK
  <2>4. CASE StillClaimedBy(w)
    BY <1>7, <2>1, <2>2, <2>3, <2>4 DEF Reschedule, Free, TypeOK, Statuses, rows
  <2>5. CASE ~StillClaimedBy(w)
    BY <1>7, <2>5 DEF Reschedule, Free, TypeOK, rows
  <2> QED
    BY <2>4, <2>5
<1>8. ASSUME NEW w \in Workers, FailForGood(w)
      PROVE  TypeOK'
  <2>1. held[w] \in Messages /\ now[w] \in Nat /\ seen[w] + 1 \in Nat
    BY <1>8 DEF FailForGood, LeasesOK, TypeOK
  <2>2. JournalFinish(held[w], now[w], "failed") \in SUBSET Attempt
    BY <2>1, JournalFinishType DEF Outcomes
  <2> QED
    BY <1>8, <2>1, <2>2 DEF FailForGood, Free, TypeOK, Statuses
<1>9. ASSUME NEW w \in Workers, Abandon(w)
      PROVE  TypeOK'
  BY <1>9 DEF Abandon, Free, TypeOK, rows
<1>10. CASE Tick
  BY <1>10, OverrunningCount DEF Tick, TypeOK, rows, locals
<1>11. CASE UNCHANGED vars
  BY <1>11 DEF vars, rows, locals, TypeOK
<1> QED
  BY <1>1, <1>2, <1>3, <1>4, <1>5, <1>6, <1>7, <1>8, <1>9, <1>10, <1>11 DEF Next, Work, Fail

-----------------------------------------------------------------------------
(* The lease invariant                                                     *)

(* Disposing of a message the thread still holds ends its claim; no other  *)
(* thread working on the message still holds it.                           *)
LEMMA OthersLostIt ==
  ASSUME Inv, NEW w \in Workers, pc[w] = "working", StillClaimedBy(w),
         NEW v \in Workers, v # w, pc[v] = "working", held[v] = held[w]
  PROVE  now[v] + ClaimTimeout <= claimedAt[held[w]]
<1>1. now[v] \in Nat /\ now[w] \in Nat /\ ClaimTimeout \in Nat \ {0}
  BY LeaseAssumption DEF Inv, TypeOK
<1>2. now[v] # claimedAt[held[w]]
  BY <1>1 DEF Inv, LeasesDisjoint, StillClaimedBy
<1> QED
  BY <1>1, <1>2 DEF Inv, LeasesOK, LeaseOf, StillClaimedBy

LEMMA LeaseStep == Inv /\ [Next]_vars => PastOK' /\ LeasesOK' /\ LeasesDisjoint'
<1> SUFFICES ASSUME Inv, [Next]_vars
             PROVE  PastOK' /\ LeasesOK' /\ LeasesDisjoint'
  OBVIOUS
<1> USE DEF Inv
<1>0. /\ clock \in Nat
      /\ \A w \in Workers : now[w] \in Nat
      /\ \A m \in Messages : availableAt[m] \in Nat /\ claimedAt[m] \in Int
      /\ ClaimTimeout \in Nat \ {0} /\ RetryDelay \in Nat \ {0}
      /\ NoTime \in Int /\ NoTime < 0
  BY LeaseAssumption DEF TypeOK, NoTime
<1>1. ASSUME NEW m \in Messages, Publish(m)
      PROVE  PastOK' /\ LeasesOK' /\ LeasesDisjoint'
  <2>1. PastOK' /\ LeasesDisjoint'
    BY <1>1 DEF Publish, TypeOK, PastOK, LeasesDisjoint, rows, locals
  <2>2. LeasesOK'
    BY <1>1 DEF Publish, TypeOK, LeasesOK, LeaseOf, rows, locals
  <2> QED
    BY <2>1, <2>2
<1>2. ASSUME NEW w \in Workers, Poll(w)
      PROVE  PastOK' /\ LeasesOK' /\ LeasesDisjoint'
  BY <1>0, <1>2 DEF Poll, TypeOK, PastOK, LeasesOK, LeaseOf, LeasesDisjoint, rows
<1>3. ASSUME NEW w \in Workers, TryClaim(w)
      PROVE  PastOK' /\ LeasesOK' /\ LeasesDisjoint'
  <2>1. PICK c \in candidates[w] : TryClaim(w)!2!(c)
    BY <1>3 DEF TryClaim
  <2> DEFINE m == c.id
  <2>2. m \in Messages
    BY DEF TypeOK, Candidate
  <2>3. CASE ~Claimable(m, now[w])
    BY <1>0, <1>3, <2>1, <2>3
       DEF TryClaim, TypeOK, PastOK, LeasesOK, LeaseOf, LeasesDisjoint
  <2>4. CASE Claimable(m, now[w])
    <3>1. /\ status' = [status EXCEPT ![m] = "PROCESSING"]
          /\ claimedAt' = [claimedAt EXCEPT ![m] = now[w]]
          /\ workerName' = [workerName EXCEPT ![m] = ThreadName[w]]
          /\ pc' = [pc EXCEPT ![w] = "working"]
          /\ held' = [held EXCEPT ![w] = m]
          /\ UNCHANGED <<now, availableAt, clock>>
      BY <1>3, <2>1, <2>4 DEF TryClaim
    <3>2. ASSUME NEW v \in Workers, v # w, pc[v] = "working", held[v] = m
          PROVE  now[v] + ClaimTimeout <= now[w]
      BY <1>0, <2>2, <2>4, <3>2 DEF Claimable, LeasesOK, LeaseOf
    <3>3. PastOK'
      BY <1>0, <2>2, <3>1 DEF TypeOK, PastOK
    <3>4. LeasesOK'
      BY <1>0, <2>2, <3>1, <3>2 DEF TypeOK, LeasesOK, LeaseOf
    <3>5. LeasesDisjoint'
      BY <1>0, <2>2, <3>1, <3>2 DEF TypeOK, LeasesDisjoint
    <3> QED
      BY <3>3, <3>4, <3>5
  <2> QED
    BY <2>3, <2>4
<1>4. ASSUME NEW w \in Workers, LookForStale(w)
      PROVE  PastOK' /\ LeasesOK' /\ LeasesDisjoint'
  BY <1>0, <1>4 DEF LookForStale, TypeOK, PastOK, LeasesOK, LeaseOf, LeasesDisjoint, rows
<1>5. ASSUME NEW w \in Workers, Free(w), UNCHANGED <<clock, rows>>
      PROVE  PastOK' /\ LeasesOK' /\ LeasesDisjoint'
  BY <1>0, <1>5 DEF Free, TypeOK, PastOK, LeasesOK, LeaseOf, LeasesDisjoint, rows
<1>6. ASSUME NEW w \in Workers, pc[w] = "working", StillClaimedBy(w), Free(w),
             NEW s \in {"DONE", "FAILED"}, status' = [status EXCEPT ![held[w]] = s],
             UNCHANGED <<clock, availableAt, claimedAt, workerName>>
      PROVE  PastOK' /\ LeasesOK' /\ LeasesDisjoint'
  BY <1>0, <1>6 DEF Free, TypeOK, PastOK, LeasesOK, LeaseOf, LeasesDisjoint
<1>7. ASSUME NEW w \in Workers, Complete(w)
      PROVE  PastOK' /\ LeasesOK' /\ LeasesDisjoint'
  BY <1>5, <1>6, <1>7 DEF Complete, rows
<1>8. ASSUME NEW w \in Workers, Reschedule(w)
      PROVE  PastOK' /\ LeasesOK' /\ LeasesDisjoint'
  <2>1. CASE ~StillClaimedBy(w)
    BY <1>5, <1>8, <2>1 DEF Reschedule
  <2>2. CASE StillClaimedBy(w)
    <3> DEFINE m == held[w]
    <3>1. /\ pc[w] = "working" /\ m \in Messages
          /\ status' = [status EXCEPT ![m] = "NEW"]
          /\ availableAt' = [availableAt EXCEPT ![m] = clock + RetryDelay]
          /\ claimedAt' = [claimedAt EXCEPT ![m] = NoTime]
          /\ workerName' = [workerName EXCEPT ![m] = NoName]
          /\ pc' = [pc EXCEPT ![w] = "idle"]
          /\ now' = [now EXCEPT ![w] = 0]
          /\ held' = [held EXCEPT ![w] = NoMessage]
          /\ clock' = clock
      BY <1>8, <2>2 DEF Reschedule, Free, LeasesOK
    <3>2. ASSUME NEW v \in Workers, v # w, pc[v] = "working", held[v] = m
          PROVE  now[v] + ClaimTimeout <= clock + RetryDelay
      <4>1. now[v] + ClaimTimeout <= claimedAt[m]
        BY <2>2, <3>1, <3>2, OthersLostIt
      <4> QED
        BY <1>0, <3>1, <4>1 DEF PastOK
    <3>3. PastOK'
      BY <1>0, <3>1 DEF TypeOK, PastOK
    <3>4. LeasesOK'
      <4> SUFFICES ASSUME NEW v \in Workers, pc'[v] = "working"
                   PROVE  (held[v] \in Messages /\ LeaseOf(v))'
        BY DEF LeasesOK
      <4>1. v # w /\ pc[v] = "working" /\ held'[v] = held[v] /\ now'[v] = now[v]
        BY <3>1 DEF TypeOK
      <4>2. held[v] \in Messages /\ LeaseOf(v)
        BY <4>1 DEF LeasesOK
      <4>3. CASE held[v] = m
        BY <1>0, <3>1, <3>2, <4>1, <4>3 DEF TypeOK, LeaseOf
      <4>4. CASE held[v] # m
        BY <3>1, <4>1, <4>2, <4>4 DEF TypeOK, LeaseOf
      <4> QED
        BY <4>3, <4>4
    <3>5. LeasesDisjoint'
      BY <3>1 DEF TypeOK, LeasesDisjoint
    <3> QED
      BY <3>3, <3>4, <3>5
  <2> QED
    BY <2>1, <2>2
<1>9. ASSUME NEW w \in Workers, FailForGood(w)
      PROVE  PastOK' /\ LeasesOK' /\ LeasesDisjoint'
  BY <1>5, <1>6, <1>9 DEF FailForGood, rows
<1>10. ASSUME NEW w \in Workers, ClaimNothing(w) \/ Abandon(w)
      PROVE  PastOK' /\ LeasesOK' /\ LeasesDisjoint'
  BY <1>5, <1>10 DEF ClaimNothing, Abandon
<1>11. CASE Tick
  BY <1>0, <1>11 DEF Tick, PastOK, LeasesOK, LeaseOf, LeasesDisjoint, rows, locals
<1>12. CASE UNCHANGED vars
  BY <1>12 DEF vars, rows, locals, PastOK, LeasesOK, LeaseOf, LeasesDisjoint
<1> QED
  BY <1>1, <1>2, <1>3, <1>4, <1>7, <1>8, <1>9, <1>10, <1>11, <1>12 DEF Next, Work, Fail

LEMMA InvInit == Init => Inv
BY TypeInit DEF Init, Inv, PastOK, LeasesOK, LeasesDisjoint, NoTime

LEMMA Invariance == Spec => []Inv
<1>1. Inv /\ [Next]_vars => Inv'
  BY TypeStep, LeaseStep DEF Inv
<1> QED
  BY InvInit, <1>1, PTL DEF Spec

(* The broker's variables keep their types.                                *)
THEOREM TypeCorrect == Spec => []TypeOK
<1>1. Inv => TypeOK
  BY DEF Inv
<1> QED
  BY Invariance, <1>1, PTL

(* Two threads are at one message at a time only across the end of a       *)
(* lease: QueueBroker.claimNext with QueueMessageRepository.claimMessage.  *)
THEOREM LeasesDoNotOverlap == Spec => []LeasesDisjoint
<1>1. Inv => LeasesDisjoint
  BY DEF Inv
<1> QED
  BY Invariance, <1>1, PTL

(* The disposing UPDATEs of complete() and fail() match the row for one    *)
(* worker at most, whatever the thread names.                              *)
THEOREM SingleHolder == Spec => []OneHolder
<1>1. ASSUME Inv
      PROVE  OneHolder
  <2> SUFFICES ASSUME NEW m \in Messages, NEW v \in Workers, NEW w \in Workers,
                      Holds(v, m), Holds(w, m), v # w
               PROVE  FALSE
    BY DEF OneHolder
  <2>1. now[v] = now[w] /\ now[v] \in Nat /\ ClaimTimeout \in Nat \ {0}
    BY <1>1, LeaseAssumption DEF Holds, StillClaimedBy, Inv, TypeOK
  <2> QED
    BY <1>1, <2>1 DEF Inv, LeasesDisjoint, Holds
<1> QED
  BY Invariance, <1>1, PTL

(* A message is one worker's at a time: QueueBroker.claimNext, complete and *)
(* fail.                                                                   *)
THEOREM ClaimsAreExclusive == Spec => []ClaimsExclude
<1>1. OneHolder /\ LeasesDisjoint => ClaimsExclude
  BY DEF ClaimsExclude
<1> QED
  BY <1>1, SingleHolder, LeasesDoNotOverlap, PTL

-----------------------------------------------------------------------------
(* Claim tokens                                                            *)

(* The instants of a message's claims lie before the time it is available  *)
(* again, or up to the current claim.                                      *)
TokensOK ==
  \A m \in Messages : \A h \in journal[m] :
    /\ status[m] # "NONE"
    /\ status[m] = "NEW" => h.at < availableAt[m]
    /\ status[m] = "PROCESSING" => h.at <= claimedAt[m]

LEMMA FinishKeepsInstants ==
  ASSUME TypeOK, NEW m \in Messages, NEW t, NEW o, NEW h \in JournalFinish(m, t, o)
  PROVE  \E g \in journal[m] : g.at = h.at
<1>1. PICK g \in journal[m] : h = IF g.at = t THEN [g EXCEPT !.outcome = o] ELSE g
  BY DEF JournalFinish
<1>2. g \in Attempt
  BY DEF TypeOK
<1> QED
  BY <1>1, <1>2 DEF Attempt

LEMMA ClaimAddsInstant ==
  ASSUME TypeOK, NEW m \in Messages, NEW t, NEW n, NEW h \in JournalClaim(m, t, n)
  PROVE  h.at = t \/ \E g \in journal[m] : g.at = h.at
<1>1. CASE h = [at |-> t, number |-> attempts[m] + 1, worker |-> n,
                outcome |-> "processing"]
  BY <1>1
<1>2. ASSUME NEW g \in journal[m],
             h = IF g.outcome = "processing" THEN [g EXCEPT !.outcome = "abandoned"] ELSE g
      PROVE  g.at = h.at
  <2>1. g \in Attempt
    BY DEF TypeOK
  <2> QED
    BY <1>2, <2>1 DEF Attempt
<1> QED
  BY <1>1, <1>2 DEF JournalClaim

(* What a claim does to the row, and why the row could be claimed.         *)
LEMMA ClaimLater ==
  ASSUME Inv, TokensOK, NEW w \in Workers, NEW m \in Messages, Claimable(m, now[w])
  PROVE  \A h \in journal[m] : h.at < now[w]
<1> SUFFICES ASSUME NEW h \in journal[m]
             PROVE  h.at < now[w]
  OBVIOUS
<1>1. h.at \in Nat /\ now[w] \in Nat /\ availableAt[m] \in Nat /\ claimedAt[m] \in Int
      /\ ClaimTimeout \in Nat \ {0}
  BY LeaseAssumption DEF Inv, TypeOK, Attempt, NoTime
<1> QED
  BY <1>1 DEF TokensOK, Claimable

LEMMA TokensStep == Inv /\ TokensOK /\ [Next]_vars => TokensOK'
<1> SUFFICES ASSUME Inv, TokensOK, [Next]_vars
             PROVE  TokensOK'
  OBVIOUS
<1> USE DEF Inv
<1>0. /\ clock \in Nat
      /\ \A w \in Workers : now[w] \in Nat
      /\ \A m \in Messages : availableAt[m] \in Nat /\ claimedAt[m] \in Int
      /\ \A m \in Messages : \A h \in journal[m] : h.at \in Nat
      /\ RetryDelay \in Nat \ {0}
  BY LeaseAssumption DEF TypeOK, Attempt, NoTime
<1>1. ASSUME NEW m \in Messages, Publish(m)
      PROVE  TokensOK'
  BY <1>1 DEF Publish, TypeOK, TokensOK
<1>2. ASSUME NEW w \in Workers, TryClaim(w)
      PROVE  TokensOK'
  <2>1. PICK c \in candidates[w] : TryClaim(w)!2!(c)
    BY <1>2 DEF TryClaim
  <2> DEFINE m == c.id
  <2>2. m \in Messages
    BY DEF TypeOK, Candidate
  <2>3. CASE ~Claimable(m, now[w])
    BY <1>2, <2>1, <2>3 DEF TryClaim, TokensOK
  <2>4. CASE Claimable(m, now[w])
    <3>1. /\ status' = [status EXCEPT ![m] = "PROCESSING"]
          /\ claimedAt' = [claimedAt EXCEPT ![m] = now[w]]
          /\ journal' = [journal EXCEPT ![m] = JournalClaim(m, now[w], ThreadName[w])]
          /\ availableAt' = availableAt
      BY <1>2, <2>1, <2>4 DEF TryClaim
    <3>2. \A h \in JournalClaim(m, now[w], ThreadName[w]) : h.at <= now[w]
      BY <1>0, <2>2, <2>4, ClaimLater, ClaimAddsInstant
    <3> QED
      BY <2>2, <3>1, <3>2 DEF TypeOK, TokensOK
  <2> QED
    BY <2>3, <2>4
<1>3. ASSUME NEW m \in Messages, NEW t, NEW o, status[m] = "PROCESSING",
             journal' = [journal EXCEPT ![m] = JournalFinish(m, t, o)],
             \/ /\ \E s \in {"DONE", "FAILED"} : status' = [status EXCEPT ![m] = s]
                /\ UNCHANGED <<availableAt, claimedAt>>
             \/ /\ status' = [status EXCEPT ![m] = "NEW"]
                /\ availableAt' = [availableAt EXCEPT ![m] = clock + RetryDelay]
                /\ claimedAt' = [claimedAt EXCEPT ![m] = NoTime]
      PROVE  TokensOK'
  <2>1. \A h \in JournalFinish(m, t, o) : h.at < clock + RetryDelay
    BY <1>0, <1>3, FinishKeepsInstants DEF TokensOK, PastOK
  <2>2. \A k \in Messages \ {m} : /\ journal'[k] = journal[k]
                                  /\ status'[k] = status[k]
                                  /\ availableAt'[k] = availableAt[k]
                                  /\ claimedAt'[k] = claimedAt[k]
    BY <1>3 DEF TypeOK
  <2>3. journal'[m] = JournalFinish(m, t, o)
    BY <1>3 DEF TypeOK
  <2>4. \/ status'[m] \in {"DONE", "FAILED"}
        \/ status'[m] = "NEW" /\ availableAt'[m] = clock + RetryDelay
    BY <1>3 DEF TypeOK
  <2> QED
    BY <2>1, <2>2, <2>3, <2>4 DEF TokensOK
<1>4. ASSUME NEW w \in Workers, Complete(w) \/ Reschedule(w) \/ FailForGood(w)
      PROVE  TokensOK'
  <2>1. held[w] \in Messages
    BY <1>4 DEF Complete, Reschedule, FailForGood, LeasesOK
  <2>2. CASE StillClaimedBy(w)
    BY <1>3, <1>4, <2>1, <2>2 DEF Complete, Reschedule, FailForGood, StillClaimedBy
  <2>3. CASE ~StillClaimedBy(w)
    BY <1>4, <2>3 DEF Complete, Reschedule, FailForGood, TokensOK, rows
  <2> QED
    BY <2>2, <2>3
<1>5. ASSUME NEW w \in Workers,
             Poll(w) \/ LookForStale(w) \/ ClaimNothing(w) \/ Abandon(w)
      PROVE  TokensOK'
  BY <1>5 DEF Poll, LookForStale, ClaimNothing, Abandon, TokensOK, rows
<1>6. CASE Tick \/ UNCHANGED vars
  BY <1>6 DEF Tick, vars, TokensOK, rows
<1> QED
  BY <1>1, <1>2, <1>4, <1>5, <1>6 DEF Next, Work, Fail

LEMMA TokensInvariance == Spec => []TokensOK
<1>1. Init => TokensOK
  BY DEF Init, TokensOK
<1> QED
  BY <1>1, TokensStep, Invariance, PTL DEF Spec

(* Claims of one message carry ever later instants: the unique index of    *)
(* processing_attempts (ProcessingAttempt.java) is never violated.         *)
THEOREM TokensAreFresh == Spec => FreshToken
<1> DEFINE Fresh == \A m \in Messages :
                      claimedAt'[m] \notin {claimedAt[m], NoTime}
                        => \A h \in journal[m] : h.at < claimedAt'[m]
<1>1. ASSUME Inv, TokensOK, [Next]_vars
      PROVE  [Fresh]_vars
  <2> SUFFICES ASSUME Next, NEW m \in Messages,
                      claimedAt'[m] \notin {claimedAt[m], NoTime}
               PROVE  \A h \in journal[m] : h.at < claimedAt'[m]
    BY <1>1
  <2>1. PICK w \in Workers : TryClaim(w)
    BY <1>1 DEF Next, Work, Fail, Publish, Poll, LookForStale, ClaimNothing, Complete,
                Reschedule, FailForGood, Abandon, Tick, rows, Inv, TypeOK
  <2>2. PICK c \in candidates[w] : TryClaim(w)!2!(c)
    BY <2>1 DEF TryClaim
  <2>3. c.id = m /\ Claimable(m, now[w]) /\ claimedAt'[m] = now[w]
    BY <1>1, <2>2 DEF Inv, TypeOK, Candidate
  <2> QED
    BY <1>1, <2>3, ClaimLater
<1> QED
  BY <1>1, Invariance, TokensInvariance, PTL DEF Spec, FreshToken

-----------------------------------------------------------------------------
(* Dead letters                                                            *)

(* publishDeadLetter runs once per message, in the transaction that makes  *)
(* it FAILED.                                                              *)
THEOREM DeadLettersExact == Spec => []DeadLetterIffFailed
<1>1. Init => DeadLetterIffFailed
  BY DEF Init, DeadLetterIffFailed
<1>2. ASSUME Inv, DeadLetterIffFailed, [Next]_vars
      PROVE  DeadLetterIffFailed'
  <2> USE <1>2 DEF Inv
  <2>1. ASSUME NEW m \in Messages, Publish(m)
        PROVE  DeadLetterIffFailed'
    BY <2>1 DEF Publish, TypeOK, DeadLetterIffFailed
  <2>2. ASSUME NEW w \in Workers, TryClaim(w)
        PROVE  DeadLetterIffFailed'
    BY <2>2 DEF TryClaim, Claimable, TypeOK, Candidate, DeadLetterIffFailed
  <2>3. ASSUME NEW w \in Workers, Complete(w) \/ Reschedule(w) \/ FailForGood(w)
        PROVE  DeadLetterIffFailed'
    <3>1. held[w] \in Messages
      BY <2>3 DEF Complete, Reschedule, FailForGood, LeasesOK
    <3> QED
      BY <2>3, <3>1 DEF Complete, Reschedule, FailForGood, StillClaimedBy, TypeOK, rows,
                        DeadLetterIffFailed
  <2>4. ASSUME NEW w \in Workers,
               Poll(w) \/ LookForStale(w) \/ ClaimNothing(w) \/ Abandon(w)
        PROVE  DeadLetterIffFailed'
    BY <2>4 DEF Poll, LookForStale, ClaimNothing, Abandon, DeadLetterIffFailed, rows
  <2>5. CASE Tick \/ UNCHANGED vars
    BY <2>5 DEF Tick, vars, DeadLetterIffFailed, rows
  <2> QED
    BY <2>1, <2>2, <2>3, <2>4, <2>5 DEF Next, Work, Fail
<1> QED
  BY <1>1, <1>2, Invariance, PTL DEF Spec

-----------------------------------------------------------------------------
(* The abstract work queue: polling, lost races, overruns and late           *)
(* dispositions are invisible, every other step is a step of WorkQueue.      *)

(* The copy a worker holds counts the attempts of the row it holds.        *)
SeenOK ==
  \A w \in Workers : \A m \in Messages : Holds(w, m) => seen[w] = attempts[m]

LEMMA InvHolder == Inv => OneHolder
<1> SUFFICES ASSUME Inv, NEW m \in Messages, NEW v \in Workers, NEW w \in Workers,
                    Holds(v, m), Holds(w, m), v # w
             PROVE  FALSE
  BY DEF OneHolder
<1>1. now[v] = now[w] /\ now[v] \in Nat /\ ClaimTimeout \in Nat \ {0}
  BY LeaseAssumption DEF Holds, StillClaimedBy, Inv, TypeOK
<1> QED
  BY <1>1 DEF Inv, LeasesDisjoint, Holds

HolderFacts ==
  \A m \in Messages :
    /\ \A w \in Workers : Holds(w, m) => HolderOf(m) = w
    /\ (\A w \in Workers : ~Holds(w, m)) => HolderOf(m) = Nobody

LEMMA HolderIs == OneHolder => HolderFacts
<1> SUFFICES ASSUME OneHolder, NEW m \in Messages
             PROVE  /\ \A w \in Workers : Holds(w, m) => HolderOf(m) = w
                    /\ (\A w \in Workers : ~Holds(w, m)) => HolderOf(m) = Nobody
  BY DEF HolderFacts
<1>1. ASSUME NEW w \in Workers, Holds(w, m)
      PROVE  HolderOf(m) = w
  <2>1. HolderOf(m) = CHOOSE v \in Workers : Holds(v, m)
    BY <1>1 DEF HolderOf
  <2>2. HolderOf(m) \in Workers /\ Holds(HolderOf(m), m)
    BY <1>1, <2>1
  <2> QED
    BY <1>1, <2>2 DEF OneHolder
<1> QED
  BY <1>1 DEF HolderOf

LEMMA HoldersKept ==
  ASSUME HolderFacts, HolderFacts', NEW k \in Messages,
         \A v \in Workers : Holds(v, k)' <=> Holds(v, k)
  PROVE  HolderOf(k)' = HolderOf(k)
<1>1. CASE \E v \in Workers : Holds(v, k)
  BY <1>1 DEF HolderFacts
<1>2. CASE \A v \in Workers : ~Holds(v, k)
  BY <1>2 DEF HolderFacts
<1> QED
  BY <1>1, <1>2

LEMMA SeenStep == Inv /\ OneHolder' /\ SeenOK /\ [Next]_vars => SeenOK'
<1> SUFFICES ASSUME Inv, OneHolder', SeenOK, [Next]_vars
             PROVE  SeenOK'
  OBVIOUS
<1> USE DEF Inv
<1>1. ASSUME NEW m \in Messages, Publish(m)
      PROVE  SeenOK'
  BY <1>1 DEF Publish, SeenOK, Holds, StillClaimedBy, TypeOK, rows, locals
<1>2. ASSUME NEW w \in Workers, Poll(w) \/ LookForStale(w)
      PROVE  SeenOK'
  BY <1>2 DEF Poll, LookForStale, SeenOK, Holds, StillClaimedBy, TypeOK, rows
<1>3. ASSUME NEW w \in Workers, TryClaim(w)
      PROVE  SeenOK'
  <2>1. PICK c \in candidates[w] : TryClaim(w)!2!(c)
    BY <1>3 DEF TryClaim
  <2>2. c.id \in Messages
    BY DEF TypeOK, Candidate
  <2>3. CASE ~Claimable(c.id, now[w])
    BY <1>3, <2>1, <2>3 DEF TryClaim, SeenOK, Holds, StillClaimedBy, TypeOK
  <2>4. CASE Claimable(c.id, now[w])
    <3>1. Holds(w, c.id)'
      BY <1>3, <2>1, <2>2, <2>4 DEF TryClaim, Holds, StillClaimedBy, TypeOK
    <3>2. seen'[w] = attempts'[c.id]
      BY <1>3, <2>1, <2>2, <2>4 DEF TryClaim, TypeOK
    <3>3. ASSUME NEW v \in Workers, NEW m \in Messages, Holds(v, m)', v # w
          PROVE  seen'[v] = attempts'[m]
      <4>1. m # c.id
        BY <2>2, <3>1, <3>3 DEF OneHolder
      <4>2. Holds(v, m)
        BY <1>3, <2>1, <2>2, <2>4, <3>3, <4>1 DEF TryClaim, Holds, StillClaimedBy, TypeOK
      <4> QED
        BY <1>3, <2>1, <2>2, <2>4, <3>3, <4>2 DEF TryClaim, SeenOK, TypeOK
    <3>4. \A m \in Messages : Holds(w, m)' => m = c.id
      BY <1>3, <2>1, <2>2, <2>4 DEF TryClaim, Holds, TypeOK
    <3> QED
      BY <3>2, <3>3, <3>4 DEF SeenOK
  <2> QED
    BY <2>3, <2>4
<1>4. ASSUME NEW w \in Workers,
             Complete(w) \/ Reschedule(w) \/ FailForGood(w) \/ ClaimNothing(w) \/ Abandon(w)
      PROVE  SeenOK'
  <2> SUFFICES ASSUME NEW v \in Workers, NEW m \in Messages, Holds(v, m)'
               PROVE  seen'[v] = attempts'[m]
    BY DEF SeenOK
  <2>1. Free(w)
    BY <1>4 DEF Complete, Reschedule, FailForGood, ClaimNothing, Abandon
  <2>2. v # w /\ pc[v] = "working" /\ held[v] = m /\ now'[v] = now[v] /\ seen'[v] = seen[v]
    BY <2>1 DEF Free, Holds, TypeOK
  <2>3. status'[m] = "PROCESSING"
    BY <2>2 DEF Holds, StillClaimedBy, Free
  <2>4. /\ status'[m] = status[m] /\ claimedAt'[m] = claimedAt[m]
        /\ workerName'[m] = workerName[m] /\ attempts'[m] = attempts[m]
    BY <1>4, <2>3 DEF Complete, Reschedule, FailForGood, ClaimNothing, Abandon, TypeOK, rows,
                      LeasesOK
  <2>5. Holds(v, m)
    BY <2>1, <2>2, <2>4 DEF Holds, StillClaimedBy, Free
  <2> QED
    BY <2>2, <2>4, <2>5 DEF SeenOK
<1>5. CASE Tick \/ UNCHANGED vars
  BY <1>5 DEF Tick, vars, rows, locals, SeenOK, Holds, StillClaimedBy
<1> QED
  BY <1>1, <1>2, <1>3, <1>4, <1>5 DEF Next, Work, Fail

-----------------------------------------------------------------------------
(* Step simulation                                                         *)

LEMMA SeenInvariance == Spec => []SeenOK
<1>1. Inv => OneHolder
  BY InvHolder
<1>2. Init => SeenOK
  BY DEF Init, SeenOK, Holds
<1> QED
  BY <1>1, <1>2, SeenStep, Invariance, PTL DEF Spec

SimInv == Inv /\ OneHolder /\ SeenOK /\ HolderFacts

(* What a step leaves as it is for message k, seen from the work queue.    *)
Unmoved(k) ==
  /\ status'[k] = status[k]
  /\ attempts'[k] = attempts[k]
  /\ \A v \in Workers : Holds(v, k)' <=> Holds(v, k)

LEMMA UnmovedAbstractly ==
  ASSUME HolderFacts, HolderFacts', NEW k \in Messages, Unmoved(k)
  PROVE  PhaseOf(k)' = PhaseOf(k) /\ HolderOf(k)' = HolderOf(k)
BY HoldersKept DEF Unmoved, PhaseOf

LEMMA Stutter ==
  ASSUME SimInv, SimInv', attempts' \in [Messages -> Nat],
         \A k \in Messages : Unmoved(k)
  PROVE  UNCHANGED WQ!absVars
<1>1. \A k \in Messages : PhaseOf(k)' = PhaseOf(k) /\ HolderOf(k)' = HolderOf(k)
  BY UnmovedAbstractly DEF SimInv
<1>2. attempts' = attempts
  BY DEF SimInv, Inv, TypeOK, Unmoved
<1> QED
  BY <1>1, <1>2 DEF WQ!absVars

LEMMA Moved ==
  ASSUME SimInv, SimInv', NEW m \in Messages,
         \A k \in Messages \ {m} : Unmoved(k)
  PROVE  /\ [k \in Messages |-> PhaseOf(k)]'
             = [[k \in Messages |-> PhaseOf(k)] EXCEPT ![m] = PhaseOf(m)']
         /\ [k \in Messages |-> HolderOf(k)]'
             = [[k \in Messages |-> HolderOf(k)] EXCEPT ![m] = HolderOf(m)']
         /\ attempts' = [attempts EXCEPT ![m] = attempts'[m]]
<1>1. \A k \in Messages \ {m} : PhaseOf(k)' = PhaseOf(k) /\ HolderOf(k)' = HolderOf(k)
  BY UnmovedAbstractly DEF SimInv
<1>2. attempts \in [Messages -> Nat] /\ attempts' \in [Messages -> Nat]
  BY DEF SimInv, Inv, TypeOK
<1>3. \A k \in Messages \ {m} : attempts'[k] = attempts[k]
  BY DEF Unmoved
<1> QED
  BY <1>1, <1>2, <1>3

(* A thread that gives up a claim it still holds leaves its message held   *)
(* by nobody, and every other message as it is.                            *)
LEMMA Release ==
  ASSUME SimInv, NEW w \in Workers, Free(w), pc[w] = "working", StillClaimedBy(w),
         NEW m \in Messages, m = held[w],
         \A k \in Messages \ {m} : /\ status'[k] = status[k] /\ attempts'[k] = attempts[k]
                                   /\ claimedAt'[k] = claimedAt[k]
                                   /\ workerName'[k] = workerName[k],
         \/ status'[m] # "PROCESSING"
         \/ claimedAt'[m] = claimedAt[m] /\ workerName'[m] = workerName[m]
  PROVE  /\ Holds(w, m)
         /\ \A v \in Workers : ~Holds(v, m)'
         /\ \A k \in Messages \ {m} : Unmoved(k)
<1> USE DEF SimInv, Inv
<1>1. Holds(w, m)
  BY DEF Holds
<1>2. ASSUME NEW v \in Workers
      PROVE  ~Holds(v, m)'
  <2>1. CASE v = w
    BY <2>1 DEF Free, Holds, TypeOK
  <2>2. CASE v # w
    <3>1. ~Holds(v, m)
      BY <1>1, <2>2 DEF OneHolder
    <3>2. pc'[v] = pc[v] /\ held'[v] = held[v] /\ now'[v] = now[v]
      BY <2>2 DEF Free, TypeOK
    <3>3. status[m] = "PROCESSING"
      BY DEF StillClaimedBy
    <3> QED
      BY <3>1, <3>2, <3>3 DEF Holds, StillClaimedBy
  <2> QED
    BY <2>1, <2>2
<1>3. ASSUME NEW k \in Messages \ {m}
      PROVE  Unmoved(k)
  <2>1. \A v \in Workers : Holds(v, k)' <=> Holds(v, k)
    BY <1>3 DEF Free, Holds, StillClaimedBy, TypeOK
  <2> QED
    BY <1>3, <2>1 DEF Unmoved
<1> QED
  BY <1>1, <1>2, <1>3

(* A thread that never held, or no longer holds, a message is not missed.  *)
LEMMA Vanish ==
  ASSUME SimInv, NEW w \in Workers, Free(w), UNCHANGED rows,
         pc[w] # "working" \/ ~StillClaimedBy(w)
  PROVE  \A k \in Messages : Unmoved(k)
BY DEF SimInv, Inv, Free, rows, Unmoved, Holds, StillClaimedBy, TypeOK

LEMMA Simulation == SimInv /\ SimInv' /\ [Next]_vars => [WQ!AbsNext]_(WQ!absVars)
<1> SUFFICES ASSUME SimInv, SimInv', [Next]_vars
             PROVE  WQ!AbsNext \/ UNCHANGED WQ!absVars
  OBVIOUS
<1> DEFINE phase == [k \in Messages |-> PhaseOf(k)]
           holder == [k \in Messages |-> HolderOf(k)]
<1>0. /\ attempts \in [Messages -> Nat] /\ attempts' \in [Messages -> Nat]
      /\ Nobody \notin Workers
      /\ TypeOK /\ HolderFacts /\ HolderFacts'
  BY WorkersAssumption DEF SimInv, Inv, TypeOK
<1>1. ASSUME NEW m \in Messages, Publish(m)
      PROVE  WQ!AbsNext
  <2>1. \A k \in Messages \ {m} : Unmoved(k)
    BY <1>0, <1>1 DEF Publish, Unmoved, Holds, StillClaimedBy, TypeOK, locals
  <2>2. PhaseOf(m) = "absent" /\ PhaseOf(m)' = "waiting" /\ attempts'[m] = attempts[m]
    BY <1>0, <1>1 DEF Publish, PhaseOf, TypeOK
  <2>3. \A v \in Workers : ~Holds(v, m) /\ ~Holds(v, m)'
    BY <1>0, <1>1 DEF Publish, Holds, StillClaimedBy, TypeOK, locals
  <2>4. HolderOf(m) = Nobody /\ HolderOf(m)' = Nobody
    BY <1>0, <2>3 DEF HolderFacts
  <2>5. WQ!Submit(m)
    <3>1. /\ phase' = [phase EXCEPT ![m] = PhaseOf(m)']
          /\ holder' = [holder EXCEPT ![m] = HolderOf(m)']
      BY <2>1, Moved
    <3>2. holder' = holder
      BY <2>4, <3>1
    <3>3. attempts' = attempts
      BY <1>1 DEF Publish, rows
    <3> QED
      BY <2>2, <3>1, <3>2, <3>3 DEF WQ!Submit
  <2> QED
    BY <2>5 DEF WQ!AbsNext
<1>2. ASSUME NEW w \in Workers, TryClaim(w)
      PROVE  WQ!AbsNext \/ UNCHANGED WQ!absVars
  <2>1. PICK c \in candidates[w] : TryClaim(w)!2!(c)
    BY <1>2 DEF TryClaim
  <2> DEFINE m == c.id
  <2>2. m \in Messages
    BY <1>0 DEF TypeOK, Candidate
  <2>3. CASE ~Claimable(m, now[w])
    <3>1. \A k \in Messages : Unmoved(k)
      BY <1>0, <1>2, <2>1, <2>3 DEF TryClaim, Unmoved, Holds, StillClaimedBy, TypeOK
    <3> QED
      BY <1>0, <3>1, Stutter
  <2>4. CASE Claimable(m, now[w])
    <3>1. /\ status' = [status EXCEPT ![m] = "PROCESSING"]
          /\ claimedAt' = [claimedAt EXCEPT ![m] = now[w]]
          /\ workerName' = [workerName EXCEPT ![m] = ThreadName[w]]
          /\ pc' = [pc EXCEPT ![w] = "working"]
          /\ held' = [held EXCEPT ![w] = m]
          /\ UNCHANGED <<now, attempts>>
          /\ pc[w] # "working"
      BY <1>2, <2>1, <2>4 DEF TryClaim
    <3>2. \A k \in Messages \ {m} : Unmoved(k)
      BY <1>0, <2>2, <3>1 DEF Unmoved, Holds, StillClaimedBy, TypeOK
    <3>3. PhaseOf(m) \in {"waiting", "held"} /\ PhaseOf(m)' = "held"
      BY <1>0, <2>2, <2>4, <3>1 DEF Claimable, PhaseOf, TypeOK
    <3>4. HolderOf(m) # w
      <4>1. ~Holds(w, m)
        BY <3>1 DEF Holds
      <4> QED
        BY <1>0, <2>2, <4>1 DEF HolderFacts
    <3>5. HolderOf(m)' = w
      <4>1. Holds(w, m)'
        BY <1>0, <2>2, <3>1 DEF Holds, StillClaimedBy, TypeOK
      <4> QED
        BY <1>0, <2>2, <4>1 DEF HolderFacts
    <3>6. WQ!Take(w, m)
      BY <2>2, <3>1, <3>2, <3>3, <3>4, <3>5, Moved DEF WQ!Take
    <3> QED
      BY <2>2, <3>6 DEF WQ!AbsNext
  <2> QED
    BY <2>3, <2>4
<1>3. ASSUME NEW w \in Workers, Complete(w) \/ Reschedule(w) \/ FailForGood(w)
      PROVE  WQ!AbsNext \/ UNCHANGED WQ!absVars
  <2>0. pc[w] = "working" /\ held[w] \in Messages /\ Free(w)
    BY <1>3 DEF Complete, Reschedule, FailForGood, SimInv, Inv, LeasesOK
  <2>1. PICK m \in Messages : m = held[w]
    BY <2>0
  <2>2. CASE ~StillClaimedBy(w)
    <3>1. UNCHANGED rows
      BY <1>3, <2>2 DEF Complete, Reschedule, FailForGood, rows
    <3> QED
      BY <1>0, <2>0, <2>1, <2>2, <3>1, Vanish, Stutter
  <2>3. CASE StillClaimedBy(w)
    <3>1. /\ Holds(w, m)
          /\ \A v \in Workers : ~Holds(v, m)'
          /\ \A k \in Messages \ {m} : Unmoved(k)
      <4>1. \A k \in Messages \ {m} : /\ status'[k] = status[k] /\ attempts'[k] = attempts[k]
                                       /\ claimedAt'[k] = claimedAt[k]
                                       /\ workerName'[k] = workerName[k]
        BY <1>0, <1>3, <2>1, <2>3 DEF Complete, Reschedule, FailForGood, TypeOK
      <4>2. status'[m] # "PROCESSING"
        BY <1>0, <1>3, <2>1, <2>3 DEF Complete, Reschedule, FailForGood, TypeOK
      <4> QED
        BY SimInv, <2>0, <2>1, <2>3, <4>1, <4>2, Release
    <3>2. HolderOf(m) = w /\ HolderOf(m)' = Nobody
      BY <1>0, <2>0, <2>1, <3>1 DEF HolderFacts
    <3>3. seen[w] = attempts[m]
      BY <2>1, <3>1 DEF SimInv, SeenOK
    <3>4. CASE Complete(w)
      <4>1. PhaseOf(m)' = "done" /\ attempts' = attempts
        BY <1>0, <2>0, <2>1, <2>3, <3>4 DEF Complete, PhaseOf, TypeOK
      <4>2. WQ!Finish(w, m)
        BY <2>0, <2>1, <3>1, <3>2, <4>1, Moved DEF WQ!Finish
      <4> QED
        BY <2>0, <2>1, <4>2 DEF WQ!AbsNext
    <3>5. CASE Reschedule(w)
      <4>1. /\ PhaseOf(m)' = "waiting" /\ attempts[m] + 1 < MaxAttempts
            /\ attempts' = [attempts EXCEPT ![m] = attempts[m] + 1]
        BY <1>0, <2>0, <2>1, <2>3, <3>3, <3>5 DEF Reschedule, PhaseOf, TypeOK
      <4>2. WQ!Retry(w, m)
        BY <2>0, <2>1, <3>1, <3>2, <4>1, Moved DEF WQ!Retry
      <4> QED
        BY <2>0, <2>1, <4>2 DEF WQ!AbsNext
    <3>6. CASE FailForGood(w)
      <4>1. /\ PhaseOf(m)' = "dead"
            /\ attempts' = [attempts EXCEPT ![m] = attempts[m] + 1]
        BY <1>0, <2>0, <2>1, <2>3, <3>3, <3>6 DEF FailForGood, PhaseOf, TypeOK
      <4>2. WQ!Bury(w, m)
        BY <2>0, <2>1, <3>1, <3>2, <4>1, Moved DEF WQ!Bury
      <4> QED
        BY <2>0, <2>1, <4>2 DEF WQ!AbsNext
    <3> QED
      BY <1>3, <3>4, <3>5, <3>6
  <2> QED
    BY <2>2, <2>3
<1>4. ASSUME NEW w \in Workers, Abandon(w)
      PROVE  WQ!AbsNext \/ UNCHANGED WQ!absVars
  <2>0. pc[w] = "working" /\ held[w] \in Messages /\ Free(w) /\ UNCHANGED rows
    BY <1>4 DEF Abandon, SimInv, Inv, LeasesOK
  <2>1. PICK m \in Messages : m = held[w]
    BY <2>0
  <2>2. CASE ~StillClaimedBy(w)
    BY <1>0, <2>0, <2>1, <2>2, Vanish, Stutter
  <2>3. CASE StillClaimedBy(w)
    <3>1. /\ Holds(w, m)
          /\ \A v \in Workers : ~Holds(v, m)'
          /\ \A k \in Messages \ {m} : Unmoved(k)
      BY <1>0, <2>0, <2>1, <2>3, Release DEF rows
    <3>2. HolderOf(m) = w /\ HolderOf(m)' = Nobody
      BY <1>0, <2>0, <2>1, <3>1 DEF HolderFacts
    <3>3. PhaseOf(m)' = PhaseOf(m) /\ attempts' = attempts
      BY <2>0 DEF rows, PhaseOf
    <3>4. WQ!Lose(m)
      <4>1. /\ phase' = [phase EXCEPT ![m] = PhaseOf(m)']
            /\ holder' = [holder EXCEPT ![m] = HolderOf(m)']
        BY <3>1, Moved
      <4>2. phase' = phase
        BY <3>3, <4>1
      <4> QED
        BY <1>0, <3>2, <3>3, <4>1, <4>2 DEF WQ!Lose
    <3> QED
      BY <2>0, <2>1, <3>4 DEF WQ!AbsNext
  <2> QED
    BY <2>2, <2>3
<1>5. ASSUME NEW w \in Workers, Poll(w) \/ LookForStale(w)
      PROVE  UNCHANGED WQ!absVars
  <2>1. \A k \in Messages : Unmoved(k)
    BY <1>0, <1>5 DEF Poll, LookForStale, Unmoved, Holds, StillClaimedBy, TypeOK, rows
  <2> QED
    BY <1>0, <2>1, Stutter
<1>6. ASSUME NEW w \in Workers, ClaimNothing(w)
      PROVE  UNCHANGED WQ!absVars
  BY <1>0, <1>6, Vanish, Stutter DEF ClaimNothing
<1>7. CASE Tick \/ UNCHANGED vars
  <2>1. \A k \in Messages : Unmoved(k)
    BY <1>7 DEF Tick, vars, rows, locals, Unmoved, Holds, StillClaimedBy
  <2> QED
    BY <1>0, <2>1, Stutter
<1> QED
  BY <1>1, <1>2, <1>3, <1>4, <1>5, <1>6, <1>7 DEF Next, Work, Fail

LEMMA InitialSimulation == Init => WQ!AbsInit
<1> SUFFICES ASSUME Init
             PROVE  WQ!AbsInit
  OBVIOUS
<1>1. \A m \in Messages : \A w \in Workers : ~Holds(w, m)
  BY DEF Init, Holds
<1>2. \A m \in Messages : HolderOf(m) = Nobody /\ PhaseOf(m) = "absent"
  BY <1>1 DEF HolderOf, PhaseOf, Init
<1> QED
  BY <1>2 DEF WQ!AbsInit, Init

(* The broker's rows, claims and threads are the abstract work queue.      *)
THEOREM BrokerImplementsWorkQueue == Spec => ImplementsWorkQueue
<1>1. Inv => OneHolder
  BY InvHolder
<1>2. Spec => []SimInv
  BY <1>1, SeenInvariance, HolderIs, Invariance, PTL DEF SimInv
<1> QED
  BY <1>2, InitialSimulation, Simulation, PTL DEF Spec, ImplementsWorkQueue, WQ!AbsSpec

-----------------------------------------------------------------------------
(* The journal                                                             *)

Ended(m) == JournalOf(m, "retried") \union JournalOf(m, "failed")

OneRowPerInstant(rowsOfOne) == \A g, h \in rowsOfOne : g.at = h.at => g = h

(* The journal agrees with the row, one row to an instant, finitely many.  *)
JournalInv ==
  /\ JournalAgrees
  /\ \A m \in Messages : IsFiniteSet(Ended(m)) /\ OneRowPerInstant(journal[m])

Last == {"completed", "retried", "failed"}

(* The row a claim adds is the only open one, and the closed stay closed.  *)
LEMMA ClaimsJournal ==
  ASSUME TypeOK, NEW m \in Messages, NEW t \in Nat, NEW w \in Workers,
         \A h \in journal[m] : h.at < t, OneRowPerInstant(journal[m]),
         NEW J, J = JournalClaim(m, t, ThreadName[w])
  PROVE  /\ {h \in J : h.outcome = "processing"}
              = {[at |-> t, number |-> attempts[m] + 1, worker |-> ThreadName[w], outcome |-> "processing"]}
         /\ \A o \in Last : {h \in J : h.outcome = o} = JournalOf(m, o)
         /\ OneRowPerInstant(J)
<1> DEFINE row == [at |-> t, number |-> attempts[m] + 1, worker |-> ThreadName[w], outcome |-> "processing"]
           Close(h) == IF h.outcome = "processing" THEN [h EXCEPT !.outcome = "abandoned"] ELSE h
<1>1. journal[m] \in SUBSET Attempt
  BY DEF TypeOK
<1>2. \A h \in journal[m] : /\ Close(h).at = h.at /\ Close(h).outcome # "processing"
                            /\ \A o \in Last : Close(h).outcome = o => Close(h) = h
                            /\ h.outcome \in Last => Close(h) = h
                            /\ h.at \in Nat /\ h.at < t
  BY <1>1 DEF Attempt, Last
<1>3. row.at = t /\ row.outcome = "processing" /\ row.outcome \notin Last
  BY DEF Last
<1>4. J = {Close(h) : h \in journal[m]} \union {row}
  BY DEF JournalClaim
<1> HIDE DEF Close, row
<1>5. {h \in J : h.outcome = "processing"} = {row}
  BY <1>2, <1>3, <1>4
<1>6. \A o \in Last : {h \in J : h.outcome = o} = JournalOf(m, o)
  BY <1>2, <1>3, <1>4 DEF JournalOf
<1>7. OneRowPerInstant(J)
  <2> SUFFICES ASSUME NEW g \in J, NEW h \in J, g.at = h.at
               PROVE  g = h
    BY DEF OneRowPerInstant
  <2>1. CASE g = row /\ h = row
    BY <2>1
  <2>2. CASE \E x \in journal[m] : g = Close(x)
    <3>1. PICK x \in journal[m] : g = Close(x)
      BY <2>2
    <3>2. h # row
      BY <1>2, <1>3, <3>1
    <3>3. PICK y \in journal[m] : h = Close(y)
      BY <1>4, <3>2
    <3>4. x = y
      BY <1>2, <3>1, <3>3 DEF OneRowPerInstant
    <3> QED BY <3>1, <3>3, <3>4
  <2>3. CASE g = row /\ h # row
    <3>1. PICK y \in journal[m] : h = Close(y)
      BY <1>4, <2>3
    <3> QED BY <1>2, <1>3, <2>3, <3>1
  <2> QED BY <1>4, <2>1, <2>2, <2>3
<1> QED BY <1>5, <1>6, <1>7 DEF row

(* The claim's row is closed with the outcome, and no other is touched.    *)
LEMMA FinishesJournal ==
  ASSUME TypeOK, NEW m \in Messages, NEW open, JournalOf(m, "processing") = {open},
         OneRowPerInstant(journal[m]), NEW o \in Last,
         NEW J, J = JournalFinish(m, open.at, o)
  PROVE  /\ {h \in J : h.outcome = "processing"} = {}
         /\ {h \in J : h.outcome = o} = JournalOf(m, o) \union {[open EXCEPT !.outcome = o]}
         /\ \A p \in Last \ {o} : {h \in J : h.outcome = p} = JournalOf(m, p)
         /\ \A p : [open EXCEPT !.outcome = o] \notin JournalOf(m, p)
         /\ OneRowPerInstant(J)
<1> DEFINE closed == [open EXCEPT !.outcome = o]
           Close(h) == IF h.at = open.at THEN [h EXCEPT !.outcome = o] ELSE h
<1>1. /\ journal[m] \in SUBSET Attempt
      /\ open \in journal[m] /\ open.outcome = "processing"
      /\ \A h \in journal[m] : h.outcome = "processing" => h = open
  BY DEF TypeOK, JournalOf
<1>2. closed.at = open.at /\ closed.outcome = o /\ o # "processing" /\ closed # open
  BY <1>1 DEF Attempt, Last
<1>3. \A h \in journal[m] : Close(h) = IF h = open THEN closed ELSE h
  BY <1>1 DEF OneRowPerInstant
<1>4. J = {Close(h) : h \in journal[m]}
  BY DEF JournalFinish
<1> HIDE DEF Close, closed
<1>5. J = (journal[m] \ {open}) \union {closed}
  BY <1>1, <1>3, <1>4
<1>6. closed \notin journal[m]
  BY <1>1, <1>2 DEF OneRowPerInstant
<1>7. {h \in J : h.outcome = "processing"} = {}
  BY <1>1, <1>2, <1>5
<1>8. {h \in J : h.outcome = o} = JournalOf(m, o) \union {closed}
  BY <1>1, <1>2, <1>5 DEF JournalOf
<1>9. \A p \in Last \ {o} : {h \in J : h.outcome = p} = JournalOf(m, p)
  BY <1>1, <1>2, <1>5 DEF JournalOf, Last
<1>10. \A p : closed \notin JournalOf(m, p)
  BY <1>6 DEF JournalOf
<1>11. OneRowPerInstant(J)
  BY <1>1, <1>2, <1>5 DEF OneRowPerInstant
<1> QED BY <1>7, <1>8, <1>9, <1>10, <1>11 DEF closed

(* What a step leaves alone, and what it writes of one message.            *)
LEMMA JournalOfOne ==
  ASSUME JournalInv, NEW m \in Messages,
         \A k \in Messages \ {m} : /\ journal'[k] = journal[k] /\ status'[k] = status[k]
                                   /\ claimedAt'[k] = claimedAt[k] /\ workerName'[k] = workerName[k]
                                   /\ attempts'[k] = attempts[k],
         JournalOf(m, "processing")' =
           IF status'[m] = "PROCESSING"
           THEN {[at |-> claimedAt'[m], number |-> attempts'[m] + 1, worker |-> workerName'[m],
                  outcome |-> "processing"]}
           ELSE {},
         IsFiniteSet(Ended(m)'), Cardinality(Ended(m)') = attempts'[m],
         (JournalOf(m, "completed")' # {}) = (status'[m] = "DONE"),
         (JournalOf(m, "failed")' # {}) = (status'[m] = "FAILED"),
         OneRowPerInstant(journal'[m])
  PROVE  JournalInv'
<1>1. ASSUME NEW k \in Messages, k # m
      PROVE  \A o : JournalOf(k, o)' = JournalOf(k, o)
  BY <1>1 DEF JournalOf
<1>2. \A k \in Messages \ {m} : Ended(k)' = Ended(k)
  BY <1>1 DEF Ended
<1> DEFINE Agrees(k) ==
      /\ JournalOf(k, "processing") =
           IF status[k] = "PROCESSING"
           THEN {[at |-> claimedAt[k], number |-> attempts[k] + 1, worker |-> workerName[k],
                  outcome |-> "processing"]}
           ELSE {}
      /\ Cardinality(Ended(k)) = attempts[k]
      /\ (JournalOf(k, "completed") # {}) = (status[k] = "DONE")
      /\ (JournalOf(k, "failed") # {}) = (status[k] = "FAILED")
<1>4. JournalAgrees <=> \A k \in Messages : Agrees(k)
  BY DEF JournalAgrees, Ended
<1>5. JournalAgrees' <=> \A k \in Messages : Agrees(k)'
  BY DEF JournalAgrees, Ended
<1>6. ASSUME NEW k \in Messages PROVE Agrees(k)'
  <2>1. CASE k = m
    BY <2>1
  <2>2. CASE k # m
    <3>1. Agrees(k)
      BY <1>4 DEF JournalInv
    <3> QED BY <1>1, <1>2, <2>2, <3>1
  <2> QED BY <2>1, <2>2
<1>7. JournalAgrees'
  BY <1>5, <1>6
<1> QED
  BY <1>2, <1>7 DEF JournalInv

LEMMA JournalStep == Inv /\ TokensOK /\ SeenOK /\ JournalInv /\ [Next]_vars => JournalInv'
<1> SUFFICES ASSUME Inv, TokensOK, SeenOK, JournalInv, [Next]_vars
             PROVE  JournalInv'
  OBVIOUS
<1> USE DEF Inv
<1>1. ASSUME NEW m \in Messages
      PROVE  /\ JournalOf(m, "processing") =
                  IF status[m] = "PROCESSING"
                  THEN {[at |-> claimedAt[m], number |-> attempts[m] + 1, worker |-> workerName[m],
                         outcome |-> "processing"]}
                  ELSE {}
             /\ IsFiniteSet(Ended(m)) /\ Cardinality(Ended(m)) = attempts[m]
             /\ (JournalOf(m, "completed") # {}) = (status[m] = "DONE")
             /\ (JournalOf(m, "failed") # {}) = (status[m] = "FAILED")
             /\ OneRowPerInstant(journal[m])
  BY DEF JournalInv, JournalAgrees, Ended
<1>2. ASSUME NEW m \in Messages, Publish(m)
      PROVE  JournalInv'
  <2>1. /\ status[m] = "NONE" /\ status' = [status EXCEPT ![m] = "NEW"]
        /\ UNCHANGED <<attempts, claimedAt, workerName, journal>>
    BY <1>2 DEF Publish
  <2>2. status'[m] = "NEW" /\ \A k \in Messages \ {m} : status'[k] = status[k]
    BY <2>1 DEF TypeOK
  <2>3. \A o : JournalOf(m, o)' = JournalOf(m, o)
    BY <2>1 DEF JournalOf
  <2>4. Ended(m)' = Ended(m)
    BY <2>3 DEF Ended
  <2> QED BY <1>1, <2>1, <2>2, <2>3, <2>4, JournalOfOne
<1>3. ASSUME NEW w \in Workers, TryClaim(w)
      PROVE  JournalInv'
  <2>1. PICK c \in candidates[w] : TryClaim(w)!2!(c)
    BY <1>3 DEF TryClaim
  <2> DEFINE m == c.id
  <2>2. m \in Messages /\ attempts' = attempts
    BY <1>3 DEF TryClaim, TypeOK, Candidate
  <2>3. CASE ~Claimable(m, now[w])
    BY <1>3, <2>1, <2>3 DEF TryClaim, JournalInv, JournalAgrees, Ended, JournalOf
  <2>4. CASE Claimable(m, now[w])
    <3>1. /\ status'[m] = "PROCESSING" /\ claimedAt'[m] = now[w] /\ workerName'[m] = ThreadName[w]
          /\ journal'[m] = JournalClaim(m, now[w], ThreadName[w])
          /\ \A k \in Messages \ {m} : /\ journal'[k] = journal[k] /\ status'[k] = status[k]
                                       /\ claimedAt'[k] = claimedAt[k] /\ workerName'[k] = workerName[k]
      BY <2>1, <2>2, <2>4 DEF TypeOK
    <3>2. \A h \in journal[m] : h.at < now[w]
      BY <2>2, <2>4, ClaimLater
    <3>3. now[w] \in Nat
      BY DEF TypeOK
    <3>4. /\ JournalOf(m, "processing")'
               = {[at |-> now[w], number |-> attempts[m] + 1, worker |-> ThreadName[w], outcome |-> "processing"]}
          /\ \A o \in Last : JournalOf(m, o)' = JournalOf(m, o)
          /\ OneRowPerInstant(journal'[m])
      <4> HIDE DEF m
      <4> QED BY <1>1, <2>2, <3>1, <3>2, <3>3, ClaimsJournal DEF JournalOf
    <3>5. Ended(m)' = Ended(m) /\ JournalOf(m, "completed")' = JournalOf(m, "completed")
          /\ JournalOf(m, "failed")' = JournalOf(m, "failed")
      BY <3>4 DEF Ended, Last
    <3>6. status[m] \in {"NEW", "PROCESSING"}
      BY <2>4 DEF Claimable
    <3> HIDE DEF m
    <3> QED BY <1>1, <2>2, <3>1, <3>4, <3>5, <3>6, JournalOfOne
  <2> QED
    BY <2>3, <2>4
<1>4. ASSUME NEW w \in Workers, NEW m \in Messages, held[w] = m, pc[w] = "working", StillClaimedBy(w)
      PROVE  /\ status[m] = "PROCESSING" /\ seen[w] = attempts[m] /\ attempts[m] \in Nat
             /\ \E open : /\ JournalOf(m, "processing") = {open} /\ open.at = now[w]
  <2>1. Holds(w, m)
    BY <1>4 DEF Holds
  <2>2. status[m] = "PROCESSING" /\ claimedAt[m] = now[w]
    BY <1>4 DEF StillClaimedBy
  <2> DEFINE open == [at |-> claimedAt[m], number |-> attempts[m] + 1, worker |-> workerName[m],
                      outcome |-> "processing"]
  <2>3. JournalOf(m, "processing") = {open}
    BY <1>1, <2>2
  <2>4. open.at = now[w]
    BY <2>2
  <2>5. \E x : JournalOf(m, "processing") = {x} /\ x.at = now[w]
    BY <2>3, <2>4
  <2> QED BY <2>1, <2>2, <2>5 DEF SeenOK, TypeOK
<1>5. ASSUME NEW w \in Workers, NEW m \in Messages, held[w] = m, pc[w] = "working", StillClaimedBy(w),
             NEW o \in Last, journal' = [journal EXCEPT ![m] = JournalFinish(m, now[w], o)],
             status' = [status EXCEPT ![m] = IF o = "completed" THEN "DONE" ELSE IF o = "retried" THEN "NEW" ELSE "FAILED"],
             attempts' = IF o = "completed" THEN attempts ELSE [attempts EXCEPT ![m] = seen[w] + 1],
             \A k \in Messages \ {m} : claimedAt'[k] = claimedAt[k] /\ workerName'[k] = workerName[k]
      PROVE  JournalInv'
  <2>1. PICK open : JournalOf(m, "processing") = {open} /\ open.at = now[w]
    BY <1>4, <1>5
  <2>2. status[m] = "PROCESSING" /\ seen[w] = attempts[m] /\ attempts[m] \in Nat
    BY <1>4, <1>5
  <2>3. /\ journal'[m] = JournalFinish(m, open.at, o)
        /\ status'[m] = IF o = "completed" THEN "DONE" ELSE IF o = "retried" THEN "NEW" ELSE "FAILED"
        /\ attempts'[m] = IF o = "completed" THEN attempts[m] ELSE attempts[m] + 1
        /\ \A k \in Messages \ {m} : /\ journal'[k] = journal[k] /\ status'[k] = status[k]
                                     /\ attempts'[k] = attempts[k]
    BY <1>5, <2>1, <2>2 DEF TypeOK
  <2> DEFINE closed == [open EXCEPT !.outcome = o]
  <2>4. /\ JournalOf(m, "processing")' = {}
        /\ JournalOf(m, o)' = JournalOf(m, o) \union {closed}
        /\ \A p \in Last \ {o} : JournalOf(m, p)' = JournalOf(m, p)
        /\ \A p : closed \notin JournalOf(m, p)
        /\ OneRowPerInstant(journal'[m])
    BY <1>1, <2>1, <2>3, FinishesJournal DEF JournalOf
  <2> HIDE DEF closed
  <2>5. /\ (JournalOf(m, "completed")' # {}) = (status'[m] = "DONE")
        /\ (JournalOf(m, "failed")' # {}) = (status'[m] = "FAILED")
    BY <1>1, <2>2, <2>3, <2>4 DEF Last
  <2>6. IsFiniteSet(Ended(m)') /\ Cardinality(Ended(m)') = attempts'[m]
    <3>1. CASE o = "completed"
      <4>1. Ended(m)' = Ended(m)
        BY <2>4, <3>1 DEF Ended, Last
      <4> QED BY <1>1, <2>3, <3>1, <4>1
    <3>2. CASE o # "completed"
      <4>1. Ended(m)' = Ended(m) \union {closed} /\ closed \notin Ended(m)
        BY <2>4, <3>2 DEF Ended, Last
      <4> QED BY <1>1, <2>3, <3>2, <4>1, FS_AddElement
    <3> QED BY <3>1, <3>2
  <2>7. status'[m] # "PROCESSING"
    BY <2>3
  <2> QED BY <1>5, <2>3, <2>4, <2>5, <2>6, <2>7, JournalOfOne
<1>6. ASSUME NEW w \in Workers, Complete(w) \/ Reschedule(w) \/ FailForGood(w)
      PROVE  JournalInv'
  <2>1. held[w] \in Messages /\ pc[w] = "working"
    BY <1>6 DEF Complete, Reschedule, FailForGood, LeasesOK
  <2>2. CASE ~StillClaimedBy(w)
    BY <1>6, <2>2 DEF Complete, Reschedule, FailForGood, rows, JournalInv, JournalAgrees, Ended, JournalOf
  <2>3. CASE StillClaimedBy(w)
    <3>1. CASE Complete(w)
      <4>1. "completed" \in Last
        BY DEF Last
      <4> QED BY <1>5, <2>1, <2>3, <3>1, <4>1 DEF Complete
    <3>2. CASE Reschedule(w)
      <4>1. "retried" \in Last
        BY DEF Last
      <4> QED BY <1>5, <2>1, <2>3, <3>2, <4>1 DEF Reschedule, TypeOK
    <3>3. CASE FailForGood(w)
      <4>1. "failed" \in Last
        BY DEF Last
      <4> QED BY <1>5, <2>1, <2>3, <3>3, <4>1 DEF FailForGood
    <3> QED BY <1>6, <3>1, <3>2, <3>3
  <2> QED BY <2>2, <2>3
<1>7. ASSUME NEW w \in Workers,
             Poll(w) \/ LookForStale(w) \/ ClaimNothing(w) \/ Abandon(w)
      PROVE  JournalInv'
  BY <1>7 DEF Poll, LookForStale, ClaimNothing, Abandon, rows, JournalInv, JournalAgrees, Ended, JournalOf
<1>8. CASE Tick \/ UNCHANGED vars
  BY <1>8 DEF Tick, vars, rows, JournalInv, JournalAgrees, Ended, JournalOf
<1> QED
  BY <1>2, <1>3, <1>6, <1>7, <1>8 DEF Next, Work, Fail

(* processing_attempts tells the history of the row: one open attempt while *)
(* it is claimed, one closed for every attempt it counts                    *)
(* (OperationalTelemetry.java claimed, finished).                           *)
THEOREM JournalIsTrue == Spec => []JournalAgrees
<1>1. Init => JournalInv
  <2>1. ASSUME Init, NEW m \in Messages PROVE Ended(m) = {}
    BY <2>1 DEF Init, Ended, JournalOf
  <2>2. IsFiniteSet({}) /\ Cardinality({}) = 0
    BY FS_EmptySet
  <2> QED BY <2>1, <2>2 DEF Init, JournalInv, JournalAgrees, Ended, JournalOf, OneRowPerInstant
<1>2. JournalInv => JournalAgrees
  BY DEF JournalInv
<1> QED
  BY <1>1, <1>2, JournalStep, TokensInvariance, SeenInvariance, Invariance, PTL DEF Spec
=============================================================================
