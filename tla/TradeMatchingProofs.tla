------------------------- MODULE TradeMatchingProofs -------------------------
(***************************************************************************)
(* The matching stage's safety for every number of workers, trades and     *)
(* faults.                                                                 *)
(***************************************************************************)
EXTENDS TradeMatching, FiniteSetTheorems, TLAPS

Copied(t) == [id |-> t, version |-> 0]

(* The consumer loop: a worker with a message has one of an ingested trade, *)
(* and a message is held by a worker that works on it.                     *)
JobOK == \A w \in Workers : pc[w] # "idle" => job[w] \in Trades /\ phase[job[w]] # "absent"
HolderOK == \A w \in Workers, t \in Trades : holder[t] = w => job[w] = t /\ pc[w] # "idle"
PhaseOK == \A t \in Trades : phase[t] = "absent" <=> trade[t].status = "NONE"

(* A trade is written once, when it is matched, and with another of its    *)
(* key: so every copy is of version 0, and one that is not stale is of a   *)
(* trade that is unmatched.                                                *)
VersionsOK ==
  \A t \in Trades : trade[t].version = IF trade[t].status = "MATCHED" THEN 1 ELSE 0
Copying(w) ==
  /\ pc[w] \in {"matching", "flush"} => incoming[w] = Copied(job[w])
  /\ pc[w] = "flush" =>
       \E c \in Trades \ {job[w]} :
         candidate[w] = Copied(c) /\ Key[c] = Key[job[w]] /\ trade[c].status # "NONE"
CopiesOK == \A w \in Workers : Copying(w)
Mated ==
  \A t \in Trades : trade[t].status = "MATCHED" =>
    \E c \in Trades \ {t} : Key[c] = Key[t] /\ trade[c].status = "MATCHED"

PairsOf(t) == {i \in 1 .. Len(matchedTrades) : InPair(t, i)}
PairedOnce ==
  \A t \in Trades : Role[t] # "OTHER" =>
    IF trade[t].status = "MATCHED" THEN \E i \in 1 .. Len(matchedTrades) : PairsOf(t) = {i} ELSE PairsOf(t) = {}

MatchInv ==
  TypeOK /\ JobOK /\ HolderOK /\ PhaseOK /\ VersionsOK /\ CopiesOK /\ Mated /\ PairedOnce

(* Without a database error.                                               *)
Market == {t \in Trades : trade[t].status # "NONE"}
Ambiguous(k) == Cardinality(Ingested(k)) > 2
Settled(k) == \E t \in Trades : Key[t] = k /\ trade[t].status = "MATCHED"

(* Nothing is left to do for t, or nothing will be.                        *)
GaveUp(t) == phase[t] = "done" \/ \E w \in Workers : job[w] = t /\ pc[w] = "succeeded"

SomebodyGoesOn ==
  \A t, c \in Trades :
    /\ t # c /\ Key[t] = Key[c]
    /\ trade[t].status = "VALIDATED" /\ trade[c].status = "VALIDATED"
    => ~ (GaveUp(t) /\ GaveUp(c))
RetriesAreEarned ==
  /\ \A w \in Workers : pc[w] = "retryable" => Settled(Key[job[w]])
  /\ \A t \in Trades : failures[t] > 0 => Settled(Key[t]) \/ Ambiguous(Key[t])
  /\ \A w \in Workers, t \in Trades :
       holder[t] = w /\ failures[t] > 0 /\ pc[w] \in {"matching", "flush", "retryable"}
       => Ambiguous(Key[t])
BurialsAreEarned ==
  /\ \A w \in Workers : pc[w] = "terminal" => Ambiguous(Key[job[w]])
  /\ \A t \in Trades : phase[t] = "dead" => Ambiguous(Key[t])

CalmInv ==
  /\ IsFiniteSet(Market)
  /\ errors = 0 => SomebodyGoesOn /\ RetriesAreEarned /\ BurialsAreEarned

-----------------------------------------------------------------------------
(* The consumer loop and the types.                                        *)

Points == {"matching", "flush"}
AllPoints == Points \union {"idle", "claimed"} \union HandlerOutcomes

RowsTypeOK ==
  /\ trade \in [Trades -> TradeRow]
  /\ matchedTrades \in Seq([trade1 : Trades, trade2 : Trades])
LocalsTypeOK ==
  /\ incoming \in [Workers -> Copy \union {NoCopy}]
  /\ candidate \in [Workers -> Copy \union {NoCopy}]

LoopOK == StageTypeOK(Points) /\ JobOK /\ HolderOK

LEMMA TypeParts == TypeOK <=> StageTypeOK(Points) /\ RowsTypeOK /\ LocalsTypeOK
BY DEF TypeOK, RowsTypeOK, LocalsTypeOK, Points

LEMMA StageGoto ==
  ASSUME LoopOK, NEW w \in Workers, NEW p \in AllPoints \ {"idle"},
         pc[w] # "idle", Goto(w, p), UNCHANGED faultVars \/ Errored
  PROVE  LoopOK'
BY DEF LoopOK, StageTypeOK, AbsTypeOK, faultVars, absVars, Goto, Errored, AllPoints, JobOK,
       HolderOK, Trades

LEMMA StageDispose ==
  ASSUME LoopOK, NEW w \in Workers, Dispose(w)
  PROVE  LoopOK'
<1> USE StageAssumption DEF LoopOK, Trades
<1>1. job[w] \in Messages
  BY DEF Dispose, HandlerOutcomes, JobOK
<1>2. AbsTypeOK'
  BY <1>1 DEF Dispose, StageTypeOK, AbsTypeOK, Phases, absVars, Finish, Retry, Bury
<1>3. StageTypeOK(Points)'
  BY <1>2 DEF Dispose, Release, StageTypeOK, faultVars
<1>4. /\ \A m \in Messages : phase[m] # "absent" => phase'[m] # "absent"
      /\ \A m \in Messages : holder'[m] = holder[m] \/ (m = job[w] /\ holder'[m] = Nobody)
      /\ holder'[job[w]] # w
  <2>1. CASE holder[job[w]] # w /\ UNCHANGED absVars
    BY <2>1 DEF absVars
  <2>2. CASE Finish(w, job[w]) \/ Retry(w, job[w]) \/ Bury(w, job[w])
    <3>1. holder' = [holder EXCEPT ![job[w]] = Nobody]
      BY <2>2 DEF Finish, Retry, Bury
    <3>2. phase' = [phase EXCEPT ![job[w]] = phase'[job[w]]] /\ phase'[job[w]] # "absent"
      BY <1>1, <2>2 DEF Finish, Retry, Bury, StageTypeOK, AbsTypeOK
    <3> QED
      BY <1>1, <3>1, <3>2 DEF StageTypeOK, AbsTypeOK
  <2> QED
    BY <2>1, <2>2 DEF Dispose
<1>5. JobOK'
  BY <1>4 DEF Dispose, Release, StageTypeOK, JobOK
<1>6. HolderOK'
  BY <1>4 DEF Dispose, Release, StageTypeOK, HolderOK
<1> QED
  BY <1>3, <1>5, <1>6

LEMMA StageTake ==
  ASSUME LoopOK, NEW w \in Workers, NEW m \in Messages,
         Claim(w, m) \/ TakeOver(w, m)
  PROVE  LoopOK'
<1> USE DEF LoopOK, Trades
<1>1. Begin(w, m) /\ takeovers' \in Nat
  BY DEF Claim, TakeOver, StageTypeOK
<1>2. StageTypeOK(Points)' /\ JobOK'
  BY <1>1 DEF Begin, Take, StageTypeOK, AbsTypeOK, Phases, JobOK
<1>3. HolderOK'
  BY <1>1 DEF Begin, Take, StageTypeOK, AbsTypeOK, HolderOK
<1> QED
  BY <1>2, <1>3

LEMMA StageCrash ==
  ASSUME LoopOK, NEW w \in Workers, Crash(w)
  PROVE  LoopOK'
<1> USE StageAssumption DEF LoopOK, Trades
<1>1. job[w] \in Messages
  BY DEF Crash, JobOK
<1>2. AbsTypeOK' /\ UNCHANGED phase
  BY <1>1 DEF Crash, StageTypeOK, AbsTypeOK, absVars, Lose
<1>3. StageTypeOK(Points)' /\ JobOK'
  BY <1>2 DEF Crash, Release, StageTypeOK, JobOK
<1>4. HolderOK'
  BY <1>1 DEF Crash, Release, Lose, absVars, StageTypeOK, AbsTypeOK, HolderOK
<1> QED
  BY <1>3, <1>4

(* A submitted message was nobody's.                                       *)
LEMMA StageIngest ==
  ASSUME LoopOK, NEW t \in Trades, Ingest(t)
  PROVE  LoopOK'
BY DEF LoopOK, Ingest, Submit, StageTypeOK, AbsTypeOK, Phases, faultVars, JobOK, HolderOK, Trades

LEMMA NextCases ==
  ASSUME [Next]_vars
  PROVE  \/ UNCHANGED vars
         \/ \E t \in Trades : Ingest(t)
         \/ \E w \in Workers : TryMatch(w) \/ Error(w)
         \/ \E w \in Workers : (Dispose(w) \/ Crash(w)) /\ Forget(w)
         \/ \E w \in Workers, m \in Messages :
              (Claim(w, m) \/ TakeOver(w, m)) /\ UNCHANGED <<trade, matchedTrades, locals>>
BY DEF Next, Consume, Trades

LEMMA HandlerGoes ==
  ASSUME NEW w \in Workers, TryMatch(w) \/ Error(w)
  PROVE  /\ pc[w] # "idle"
         /\ UNCHANGED faultVars \/ Errored
         /\ \E p \in AllPoints \ {"idle"} : Goto(w, p)
BY DEF TryMatch, FindTrade, FindCandidate, Flush, Error, CallThrows, CommitUnacknowledged,
       CompleteThrows, AllPoints, Points, HandlerOutcomes

LEMMA LoopStep ==
  ASSUME LoopOK, [Next]_vars
  PROVE  LoopOK'
<1>1. CASE UNCHANGED vars
  BY <1>1 DEF vars, stageVars, absVars, faultVars, LoopOK, StageTypeOK, AbsTypeOK, JobOK, HolderOK
<1> QED
  BY <1>1, NextCases, HandlerGoes, StageGoto, StageDispose, StageTake, StageCrash, StageIngest

-----------------------------------------------------------------------------
(* The trades and the pairs.                                               *)

Validated == [status |-> "VALIDATED", version |-> 0]
Matched == [status |-> "MATCHED", version |-> 1]

(* What a transaction may do to them.                                      *)
Ingests(t) ==
  /\ trade[t].status = "NONE"
  /\ trade' = [trade EXCEPT ![t] = Validated]
  /\ UNCHANGED matchedTrades
Matches(t, c) ==
  /\ t # c /\ Key[t] = Key[c]
  /\ trade[t].status = "VALIDATED" /\ trade[c].status = "VALIDATED"
  /\ trade' = [u \in Trades |-> IF u \in {t, c} THEN Matched ELSE trade[u]]
  /\ matchedTrades' = Append(matchedTrades, Pair(t, c))

LEMMA IngestWrites ==
  ASSUME RowsTypeOK, VersionsOK, NEW t \in Trades, Ingest(t)
  PROVE  Ingests(t)
<1>1. trade[t] \in TradeRow /\ trade[t].version = 0
  BY DEF RowsTypeOK, VersionsOK, Ingest
<1>2. [trade[t] EXCEPT !.status = "VALIDATED"] = Validated
  BY <1>1 DEF TradeRow, Validated
<1> QED
  BY <1>2 DEF Ingest, Ingests

LEMMA SaveWrites ==
  ASSUME RowsTypeOK, JobOK, PhaseOK, VersionsOK, CopiesOK,
         NEW w \in Workers, pc[w] = "flush", ~Stale(w), SaveMatch(w)
  PROVE  \E c \in Trades : Matches(job[w], c)
<1> DEFINE t == job[w]
<1>1. t \in Trades /\ trade[t].status # "NONE"
  BY DEF JobOK, PhaseOK
<1>2. PICK c \in Trades \ {t} :
        /\ incoming[w] = Copied(t) /\ candidate[w] = Copied(c)
        /\ Key[c] = Key[t] /\ trade[c].status # "NONE"
  BY DEF CopiesOK, Copying
<1>3. incoming[w].id = t /\ incoming[w].version = 0 /\ candidate[w].id = c /\ candidate[w].version = 0
  BY <1>2 DEF Copied
<1>4. trade[t].version = 0 /\ trade[c].version = 0
  BY <1>3 DEF Stale, Copies
<1>5. trade[t].status = "VALIDATED" /\ trade[c].status = "VALIDATED"
  BY <1>1, <1>2, <1>4 DEF VersionsOK, RowsTypeOK, TradeRow
<1>6. \A u \in Trades : (\E copy \in Copies(w) : copy.id = u) <=> u \in {t, c}
  BY <1>3 DEF Copies
<1>7. trade' = [u \in Trades |-> IF u \in {t, c}
                                 THEN [status |-> "MATCHED", version |-> trade[u].version + 1]
                                 ELSE trade[u]]
  BY <1>6 DEF SaveMatch
<1>8. trade' = [u \in Trades |-> IF u \in {t, c} THEN Matched ELSE trade[u]]
  BY <1>4, <1>7 DEF Matched
<1>9. matchedTrades' = Append(matchedTrades, Pair(t, c))
  BY <1>3 DEF SaveMatch
<1> QED
  BY <1>2, <1>5, <1>8, <1>9 DEF Matches

LEMMA RowsCases ==
  ASSUME MatchInv, [Next]_vars
  PROVE  \/ UNCHANGED <<trade, matchedTrades>>
         \/ \E t \in Trades : Ingests(t)
         \/ \E t, c \in Trades : Matches(t, c)
<1> USE TypeParts DEF MatchInv
<1>1. ASSUME NEW w \in Workers, TryMatch(w) \/ Error(w)
      PROVE  \/ UNCHANGED <<trade, matchedTrades>>
             \/ pc[w] = "flush" /\ ~Stale(w) /\ SaveMatch(w)
  BY <1>1 DEF TryMatch, FindTrade, FindCandidate, Flush, Error, CallThrows,
              CommitUnacknowledged, CompleteThrows
<1>2. ASSUME NEW w \in Workers, pc[w] = "flush", ~Stale(w), SaveMatch(w)
      PROVE  \E t, c \in Trades : Matches(t, c)
  <2>1. \E c \in Trades : Matches(job[w], c)
    BY <1>2, SaveWrites
  <2>2. job[w] \in Trades
    BY <1>2 DEF JobOK
  <2> QED
    BY <2>1, <2>2
<1>3. CASE UNCHANGED vars
  BY <1>3 DEF vars
<1>4. ASSUME NEW t \in Trades, Ingest(t)
      PROVE  Ingests(t)
  BY <1>4, IngestWrites
<1>5. ASSUME NEW w \in Workers, (Dispose(w) \/ Crash(w)) /\ Forget(w)
      PROVE  UNCHANGED <<trade, matchedTrades>>
  BY <1>5 DEF Forget
<1> QED
  BY <1>1, <1>2, <1>3, <1>4, <1>5, NextCases

(* What becomes of each trade.                                             *)
LEMMA IngestsTrade ==
  ASSUME RowsTypeOK, NEW t \in Trades, Ingests(t)
  PROVE  /\ trade'[t].status = "VALIDATED" /\ trade'[t].version = 0
         /\ \A u \in Trades \ {t} : trade'[u] = trade[u]
         /\ trade' \in [Trades -> TradeRow]
BY DEF RowsTypeOK, Ingests, Validated, TradeRow

LEMMA MatchesTrade ==
  ASSUME RowsTypeOK, NEW t \in Trades, NEW c \in Trades, Matches(t, c)
  PROVE  /\ \A u \in {t, c} : trade'[u].status = "MATCHED" /\ trade'[u].version = 1
         /\ \A u \in Trades \ {t, c} : trade'[u] = trade[u]
         /\ trade' \in [Trades -> TradeRow]
BY DEF RowsTypeOK, Matches, Matched, TradeRow

(* A trade's status only advances.                                         *)
LEMMA StatusAdvances ==
  ASSUME MatchInv, [Next]_vars
  PROVE  \A u \in Trades :
           /\ trade'[u] = trade[u] \/ trade[u].status # "MATCHED"
           /\ trade[u].status # "NONE" => trade'[u].status # "NONE"
BY RowsCases, IngestsTrade, MatchesTrade, TypeParts DEF MatchInv, Ingests, Matches

LEMMA PairAppended ==
  ASSUME RowsTypeOK, NEW t \in Trades, NEW c \in Trades,
         matchedTrades' = Append(matchedTrades, Pair(t, c))
  PROVE  /\ matchedTrades' \in Seq([trade1 : Trades, trade2 : Trades])
         /\ Len(matchedTrades) \in Nat
         /\ Len(matchedTrades') = Len(matchedTrades) + 1
         /\ matchedTrades'[Len(matchedTrades) + 1] = Pair(t, c)
         /\ \A i \in 1 .. Len(matchedTrades) : matchedTrades'[i] = matchedTrades[i]
<1>1. Pair(t, c) \in [trade1 : Trades, trade2 : Trades]
  BY DEF Pair
<1> QED
  BY <1>1 DEF RowsTypeOK

LEMMA PairMembers ==
  ASSUME NEW t \in Trades, NEW c \in Trades, NEW u \in Trades, t # c, Role[u] # "OTHER"
  PROVE  (Pair(t, c).trade1 = u \/ Pair(t, c).trade2 = u) <=> u \in {t, c}
BY RoleAssumption DEF Pair

LEMMA RowsStep ==
  ASSUME MatchInv, [Next]_vars
  PROVE  RowsTypeOK' /\ VersionsOK' /\ Mated' /\ PairedOnce'
<1> USE TypeParts DEF MatchInv
<1>1. CASE UNCHANGED <<trade, matchedTrades>>
  BY <1>1 DEF RowsTypeOK, VersionsOK, Mated, PairedOnce, PairsOf, InPair
<1>2. ASSUME NEW t \in Trades, Ingests(t)
      PROVE  RowsTypeOK' /\ VersionsOK' /\ Mated' /\ PairedOnce'
  <2>1. RowsTypeOK' /\ VersionsOK' /\ Mated'
    BY <1>2, IngestsTrade DEF Ingests, RowsTypeOK, VersionsOK, Mated
  <2>2. \A u \in Trades : PairsOf(u)' = PairsOf(u)
    BY <1>2 DEF Ingests, PairsOf, InPair
  <2>3. \A u \in Trades : trade'[u].status = "MATCHED" <=> trade[u].status = "MATCHED"
    BY <1>2, IngestsTrade DEF Ingests
  <2>4. PairedOnce'
    BY <1>2, <2>2, <2>3 DEF PairedOnce, Ingests
  <2> QED
    BY <2>1, <2>4
<1>3. ASSUME NEW t \in Trades, NEW c \in Trades, Matches(t, c)
      PROVE  RowsTypeOK' /\ VersionsOK' /\ Mated' /\ PairedOnce'
  <2>0. PICK n \in Nat : n = Len(matchedTrades) + 1
    BY <1>3, PairAppended DEF Matches
  <2>1. RowsTypeOK' /\ VersionsOK'
    BY <1>3, MatchesTrade, PairAppended DEF Matches, RowsTypeOK, VersionsOK
  <2>2. Mated'
    BY <1>3, MatchesTrade DEF Matches, Mated
  <2>3. ASSUME NEW u \in Trades, Role[u] # "OTHER"
        PROVE  PairsOf(u)' = IF u \in {t, c} THEN PairsOf(u) \union {n} ELSE PairsOf(u)
    <3>1. \A i \in 1 .. Len(matchedTrades) : InPair(u, i)' <=> InPair(u, i)
      BY <1>3, <2>0, PairAppended DEF Matches, InPair
    <3>2. InPair(u, n)' <=> u \in {t, c}
      BY <1>3, <2>0, <2>3, PairAppended, PairMembers DEF Matches, InPair
    <3>3. 1 .. Len(matchedTrades') = (1 .. Len(matchedTrades)) \union {n}
      BY <1>3, <2>0, PairAppended DEF Matches
    <3> QED
      BY <3>1, <3>2, <3>3 DEF PairsOf
  <2>4. n \in 1 .. Len(matchedTrades')
    BY <1>3, <2>0, PairAppended DEF Matches
  <2>5. \A i \in 1 .. Len(matchedTrades) : i \in 1 .. Len(matchedTrades')
    BY <1>3, <2>0, PairAppended DEF Matches
  <2>6. ASSUME NEW u \in Trades, Role[u] # "OTHER"
        PROVE  IF trade'[u].status = "MATCHED"
               THEN \E i \in 1 .. Len(matchedTrades') : PairsOf(u)' = {i} ELSE PairsOf(u)' = {}
    <3>1. CASE u \in {t, c}
      <4>1. PairsOf(u) = {} /\ trade'[u].status = "MATCHED"
        BY <1>3, <2>6, <3>1, MatchesTrade DEF Matches, PairedOnce
      <4>2. PairsOf(u)' = {n}
        BY <2>3, <2>6, <3>1, <4>1
      <4> QED
        BY <2>4, <4>1, <4>2
    <3>2. CASE u \notin {t, c}
      <4>1. trade'[u] = trade[u] /\ PairsOf(u)' = PairsOf(u)
        BY <1>3, <2>3, <2>6, <3>2, MatchesTrade
      <4> QED
        BY <2>5, <2>6, <4>1 DEF PairedOnce
    <3> QED
      BY <3>1, <3>2
  <2>7. PairedOnce'
    BY <2>6 DEF PairedOnce
  <2> QED
    BY <2>1, <2>2, <2>7
<1> QED
  BY <1>1, <1>2, <1>3, RowsCases

LEMMA PhaseStep ==
  ASSUME MatchInv, [Next]_vars
  PROVE  PhaseOK'
<1> USE TypeParts DEF MatchInv, Trades
<1>1. ASSUME NEW t \in Trades, Ingest(t)
      PROVE  PhaseOK'
  BY <1>1, IngestWrites, IngestsTrade
     DEF Ingest, Submit, PhaseOK, StageTypeOK, AbsTypeOK
<1>2. ASSUME \A u \in Trades : phase'[u] = phase[u] \/ phase'[u] # "absent",
             \A u \in Trades : phase[u] # "absent" \/ phase'[u] = phase[u],
             \A u \in Trades : trade'[u].status = "NONE" <=> trade[u].status = "NONE"
      PROVE  PhaseOK'
  BY <1>2 DEF PhaseOK
<1>3. ASSUME NEW w \in Workers, TryMatch(w) \/ Error(w)
      PROVE  PhaseOK'
  <2>1. UNCHANGED phase
    BY <1>3, HandlerGoes DEF Goto, absVars
  <2>2. \A u \in Trades : trade[u].status # "NONE" => trade'[u].status # "NONE"
    BY StatusAdvances
  <2>3. \A u \in Trades : trade[u].status = "NONE" => trade'[u] = trade[u]
    <3>1. CASE UNCHANGED trade
      BY <3>1
    <3>2. CASE pc[w] = "flush" /\ ~Stale(w) /\ SaveMatch(w)
      BY <3>2, SaveWrites, MatchesTrade DEF Matches, JobOK
    <3> QED
      BY <1>3, <3>1, <3>2 DEF TryMatch, FindTrade, FindCandidate, Flush, Error, CallThrows,
                              CommitUnacknowledged, CompleteThrows
  <2> QED
    BY <1>2, <2>1, <2>2, <2>3
<1>4. ASSUME NEW w \in Workers, (Dispose(w) \/ Crash(w)) /\ Forget(w)
      PROVE  PhaseOK'
  <2>1. job[w] \in Trades /\ phase[job[w]] # "absent"
    BY <1>4 DEF JobOK, Dispose, Crash, HandlerOutcomes
  <2>2. /\ \A u \in Trades : phase'[u] = phase[u] \/ (u = job[w] /\ phase'[u] # "absent")
        /\ UNCHANGED trade
    BY <1>4, <2>1 DEF Dispose, Crash, Forget, absVars, Finish, Retry, Bury, Lose,
                      StageTypeOK, AbsTypeOK
  <2> QED
    BY <1>2, <2>1, <2>2
<1>5. ASSUME NEW w \in Workers, NEW m \in Messages,
             (Claim(w, m) \/ TakeOver(w, m)) /\ UNCHANGED <<trade, matchedTrades, locals>>
      PROVE  PhaseOK'
  BY <1>5 DEF Claim, TakeOver, Begin, Take, PhaseOK, StageTypeOK, AbsTypeOK
<1>6. CASE UNCHANGED vars
  BY <1>6 DEF vars, stageVars, absVars, PhaseOK
<1> QED
  BY <1>1, <1>3, <1>4, <1>5, <1>6, NextCases

LEMMA CopiesStep ==
  ASSUME MatchInv, [Next]_vars
  PROVE  LocalsTypeOK' /\ CopiesOK'
<1> USE TypeParts DEF MatchInv, locals
<1>1. ASSUME NEW w \in Workers, UNCHANGED <<pc[w], job[w], incoming[w], candidate[w]>>
      PROVE  Copying(w)'
  BY <1>1, StatusAdvances DEF CopiesOK, Copying
<1>2. \A t \in Trades : trade[t].status = "VALIDATED" => CopyOf(t) = Copied(t)
  BY DEF VersionsOK, CopyOf, Copied
<1>3. \A t \in Trades : Copied(t) \in Copy
  BY DEF Copied, Copy
<1>4. ASSUME NEW w \in Workers, FindTrade(w)
      PROVE  LocalsTypeOK' /\ CopiesOK'
  <2>1. job[w] \in Trades
    BY <1>4 DEF FindTrade, JobOK
  <2>2. \A v \in Workers \ {w} : UNCHANGED <<pc[v], job[v], incoming[v], candidate[v]>>
    BY <1>4 DEF FindTrade, Goto, StageTypeOK, LocalsTypeOK
  <2>3. LocalsTypeOK'
    BY <1>2, <1>3, <1>4, <2>1 DEF FindTrade, LocalsTypeOK
  <2>4. Copying(w)'
    BY <1>2, <1>4, <2>1 DEF FindTrade, Goto, StageTypeOK, LocalsTypeOK, Copying
  <2> QED
    BY <1>1, <2>2, <2>3, <2>4 DEF CopiesOK, Copying
<1>5. ASSUME NEW w \in Workers, FindCandidate(w)
      PROVE  LocalsTypeOK' /\ CopiesOK'
  <2>1. job[w] \in Trades
    BY <1>5 DEF FindCandidate, JobOK
  <2>2. \A v \in Workers \ {w} : UNCHANGED <<pc[v], job[v], incoming[v], candidate[v]>>
    BY <1>5 DEF FindCandidate, Goto, StageTypeOK, LocalsTypeOK
  <2>3. CASE pc'[w] # "flush" /\ UNCHANGED candidate
    <3>1. LocalsTypeOK' /\ pc'[w] \notin {"matching", "flush"}
      BY <1>5, <2>3 DEF FindCandidate, Goto, StageTypeOK, LocalsTypeOK
    <3> QED
      BY <1>1, <2>2, <3>1 DEF CopiesOK, Copying
  <2>4. ASSUME NEW c \in Candidates(job[w]), candidate' = [candidate EXCEPT ![w] = CopyOf(c)],
               Goto(w, "flush")
        PROVE  LocalsTypeOK' /\ CopiesOK'
    <3>1. /\ c \in Trades \ {job[w]} /\ Key[c] = Key[job[w]]
          /\ trade[c].status = "VALIDATED" /\ CopyOf(c) = Copied(c)
      BY <1>2 DEF Candidates
    <3>2. LocalsTypeOK'
      BY <1>3, <1>5, <2>4, <3>1 DEF FindCandidate, LocalsTypeOK
    <3>3. /\ incoming'[w] = Copied(job'[w]) /\ candidate'[w] = Copied(c)
          /\ job'[w] = job[w] /\ trade'[c].status # "NONE"
      BY <1>5, <2>4, <3>1 DEF FindCandidate, Goto, CopiesOK, Copying, LocalsTypeOK
    <3> QED
      BY <1>1, <2>2, <3>1, <3>2, <3>3 DEF CopiesOK, Copying
  <2> QED
    BY <1>5, <2>3, <2>4 DEF FindCandidate, Goto, StageTypeOK
<1>6. ASSUME NEW w \in Workers, Flush(w) \/ Error(w)
      PROVE  LocalsTypeOK' /\ CopiesOK'
  <2>1. /\ UNCHANGED locals /\ pc'[w] \notin {"matching", "flush"}
        /\ \E p \in AllPoints : Goto(w, p)
    BY <1>6 DEF Flush, Error, CallThrows, CommitUnacknowledged, CompleteThrows, Goto,
                StageTypeOK, AllPoints, HandlerOutcomes
  <2>2. LocalsTypeOK' /\ \A v \in Workers \ {w} : UNCHANGED <<pc[v], job[v], incoming[v], candidate[v]>>
    BY <2>1 DEF Goto, StageTypeOK, LocalsTypeOK
  <2> QED
    BY <1>1, <2>1, <2>2 DEF CopiesOK, Copying
<1>7. ASSUME NEW w \in Workers, (Dispose(w) \/ Crash(w)) /\ Forget(w)
      PROVE  LocalsTypeOK' /\ CopiesOK'
  <2>1. Release(w) /\ Forget(w)
    BY <1>7 DEF Dispose, Crash
  <2>2. /\ LocalsTypeOK' /\ pc'[w] = "idle"
        /\ \A v \in Workers \ {w} : UNCHANGED <<pc[v], job[v], incoming[v], candidate[v]>>
    BY <2>1 DEF Release, Forget, StageTypeOK, LocalsTypeOK
  <2> QED
    BY <1>1, <2>2 DEF CopiesOK, Copying
<1>8. ASSUME NEW w \in Workers, NEW m \in Messages,
             (Claim(w, m) \/ TakeOver(w, m)) /\ UNCHANGED <<trade, matchedTrades, locals>>
      PROVE  LocalsTypeOK' /\ CopiesOK'
  <2>1. Begin(w, m) /\ UNCHANGED locals
    BY <1>8 DEF Claim, TakeOver
  <2>2. /\ LocalsTypeOK' /\ pc'[w] = "claimed"
        /\ \A v \in Workers \ {w} : UNCHANGED <<pc[v], job[v], incoming[v], candidate[v]>>
    BY <2>1 DEF Begin, StageTypeOK, LocalsTypeOK
  <2> QED
    BY <1>1, <2>2 DEF CopiesOK, Copying
<1>9. CASE UNCHANGED <<pc, job, locals>>
  BY <1>1, <1>9 DEF LocalsTypeOK, CopiesOK, Copying
<1> QED
  BY <1>4, <1>5, <1>6, <1>7, <1>8, <1>9, NextCases DEF TryMatch, Ingest, vars, stageVars

LEMMA InitMatchInv == Init => MatchInv
<1> SUFFICES ASSUME Init
             PROVE  MatchInv
  OBVIOUS
<1> USE StageAssumption DEF Init, StageInit, Trades
<1>1. StageTypeOK(Points)
  BY DEF StageTypeOK, AbsTypeOK, Phases, Points
<1>2. RowsTypeOK /\ LocalsTypeOK
  BY DEF RowsTypeOK, LocalsTypeOK, TradeRow
<1>3. JobOK /\ HolderOK /\ PhaseOK /\ VersionsOK /\ CopiesOK /\ Mated
  BY DEF JobOK, HolderOK, PhaseOK, VersionsOK, CopiesOK, Copying, Mated
<1>4. PairedOnce
  BY DEF PairedOnce, PairsOf
<1> QED
  BY <1>1, <1>2, <1>3, <1>4, TypeParts DEF MatchInv

LEMMA MatchInvHolds == Spec => []MatchInv
<1>1. MatchInv /\ [Next]_vars => MatchInv'
  <2> SUFFICES ASSUME MatchInv, [Next]_vars
               PROVE  MatchInv'
    OBVIOUS
  <2>1. LoopOK
    BY TypeParts DEF MatchInv, LoopOK
  <2>2. TypeOK' <=> StageTypeOK(Points)' /\ RowsTypeOK' /\ LocalsTypeOK'
    BY DEF TypeOK, RowsTypeOK, LocalsTypeOK, Points, StageTypeOK
  <2> QED
    BY <2>1, <2>2, LoopStep, RowsStep, PhaseStep, CopiesStep DEF MatchInv, LoopOK
<1> QED
  BY <1>1, InitMatchInv, PTL DEF Spec

(* ConcurrencyLoadTest.java: each trade with a side leaves the market      *)
(* exactly when it enters a pair, and enters one only, for any number of   *)
(* trades, workers, redeliveries, crashes and errors                       *)
(* (TradeMatchingEngine.tryMatch, Trade's version column).                 *)
THEOREM TradesMatchOnce == Spec => []MatchedIffPaired
<1>1. MatchInv => MatchedIffPaired
  <2> SUFFICES ASSUME MatchInv, NEW t \in Trades, Role[t] # "OTHER"
               PROVE  Cardinality(PairsOf(t)) = IF trade[t].status = "MATCHED" THEN 1 ELSE 0
    BY DEF MatchedIffPaired, PairsOf
  <2>1. \A i \in 1 .. Len(matchedTrades) : Cardinality({i}) = 1
    BY FS_Singleton
  <2> QED
    BY <2>1, FS_EmptySet DEF MatchInv, PairedOnce
<1> QED
  BY <1>1, MatchInvHolds, PTL

-----------------------------------------------------------------------------
(* Without database errors.                                                *)

Inv == MatchInv /\ CalmInv

LEMMA IngestedIn == \A k : Ingested(k) \subseteq Market
BY DEF Ingested, Market

LEMMA MarketStep ==
  ASSUME MatchInv, IsFiniteSet(Market), [Next]_vars
  PROVE  /\ IsFiniteSet(Market')
         /\ \A k : Ingested(k) \subseteq Ingested(k)'
         /\ \A k : Settled(k) => Settled(k)'
         /\ \A k : Ambiguous(k) => Ambiguous(k)'
<1> USE TypeParts DEF MatchInv
<1>1. ASSUME UNCHANGED <<trade, matchedTrades>>
      PROVE  Market' = Market
  BY <1>1 DEF Market
<1>2. ASSUME NEW t \in Trades, Ingests(t)
      PROVE  Market' = Market \union {t}
  BY <1>2, IngestsTrade DEF Market
<1>3. ASSUME NEW t \in Trades, NEW c \in Trades, Matches(t, c)
      PROVE  Market' = Market
  BY <1>3, MatchesTrade DEF Market, Matches
<1>4. IsFiniteSet(Market')
  BY <1>1, <1>2, <1>3, RowsCases, FS_AddElement
<1>5. \A k : Ingested(k) \subseteq Ingested(k)'
  BY StatusAdvances DEF Ingested
<1>6. \A k : Settled(k) => Settled(k)'
  BY StatusAdvances DEF Settled
<1>7. ASSUME NEW k, Ambiguous(k)
      PROVE  Ambiguous(k)'
  <2>1. IsFiniteSet(Ingested(k)')
    BY <1>4, FS_Subset DEF Ingested, Market
  <2>2. /\ Cardinality(Ingested(k)) <= Cardinality(Ingested(k)')
        /\ Cardinality(Ingested(k)) \in Nat /\ Cardinality(Ingested(k)') \in Nat
    BY <1>5, <2>1, FS_Subset, FS_CardinalityType
  <2> QED
    BY <1>7, <2>2 DEF Ambiguous
<1> QED
  BY <1>4, <1>5, <1>6, <1>7

(* Three of a key.                                                         *)
LEMMA ThreeAreAmbiguous ==
  ASSUME IsFiniteSet(Market), NEW a \in Market, NEW b \in Market, NEW c \in Market,
         a # b, b # c, a # c, Key[a] = Key[b], Key[b] = Key[c]
  PROVE  Ambiguous(Key[a])
<1>1. {a, b, c} \subseteq Ingested(Key[a])
  BY DEF Ingested, Market
<1>2. IsFiniteSet(Ingested(Key[a]))
  BY IngestedIn, FS_Subset
<1> DEFINE one == {a}
           two == one \union {b}
<1>3. IsFiniteSet(one) /\ Cardinality(one) = 1 /\ b \notin one
  BY FS_Singleton
<1>4. c \notin two
  OBVIOUS
<1>5. two \union {c} \subseteq Ingested(Key[a])
  BY <1>1
<1> HIDE DEF one
<1>6. IsFiniteSet(two) /\ Cardinality(two) = 2
  BY <1>3, FS_AddElement
<1> HIDE DEF two
<1>7. IsFiniteSet(two \union {c}) /\ Cardinality(two \union {c}) = 3
  BY <1>4, <1>6, FS_AddElement
<1>8. 3 <= Cardinality(Ingested(Key[a])) /\ Cardinality(Ingested(Key[a])) \in Nat
  BY <1>2, <1>5, <1>7, FS_Subset, FS_CardinalityType
<1> QED
  BY <1>8 DEF Ambiguous

Calm == SomebodyGoesOn /\ RetriesAreEarned /\ BurialsAreEarned

(* What lasts: the step of a worker that changes nothing else of the queue. *)
LEMMA OneGivesUp ==
  ASSUME Calm,
         \A t \in Trades : trade'[t].status = "VALIDATED" =>
           trade[t].status = "VALIDATED" /\ (GaveUp(t)' => GaveUp(t))
  PROVE  SomebodyGoesOn'
BY DEF Calm, SomebodyGoesOn

LEMMA CalmIngest ==
  ASSUME Inv, Calm, NEW t \in Trades, Ingest(t), [Next]_vars
  PROVE  Calm'
<1> USE TypeParts DEF Inv, MatchInv, CalmInv, Trades
<1>1. /\ \A k : Settled(k) => Settled(k)'
      /\ \A k : Ambiguous(k) => Ambiguous(k)'
  BY MarketStep
<1>2. /\ phase' = [phase EXCEPT ![t] = "waiting"] /\ phase[t] = "absent"
      /\ UNCHANGED <<holder, failures, pc, job>>
  BY DEF Ingest, Submit
<1>3. ~GaveUp(t)'
  BY <1>2 DEF GaveUp, JobOK, StageTypeOK, AbsTypeOK
<1>4. \A u \in Trades \ {t} : trade'[u] = trade[u] /\ (GaveUp(u)' => GaveUp(u))
  BY <1>2, IngestWrites, IngestsTrade DEF GaveUp, StageTypeOK, AbsTypeOK
<1>5. SomebodyGoesOn'
  BY <1>3, <1>4 DEF Calm, SomebodyGoesOn
<1>6. RetriesAreEarned'
  BY <1>1, <1>2 DEF Calm, RetriesAreEarned
<1>7. BurialsAreEarned'
  BY <1>1, <1>2 DEF Calm, BurialsAreEarned, StageTypeOK, AbsTypeOK
<1> QED
  BY <1>5, <1>6, <1>7 DEF Calm

LEMMA CalmFindTrade ==
  ASSUME Inv, Calm, NEW w \in Workers, FindTrade(w), [Next]_vars
  PROVE  Calm'
<1> USE TypeParts DEF Inv, MatchInv, CalmInv
<1> DEFINE t == job[w]
<1>1. /\ t \in Trades /\ pc[w] = "claimed" /\ UNCHANGED <<phase, holder, failures, job, trade>>
      /\ \/ trade[t].status = "VALIDATED" /\ pc' = [pc EXCEPT ![w] = "matching"]
         \/ trade[t].status # "VALIDATED" /\ pc' = [pc EXCEPT ![w] = "succeeded"]
  BY DEF FindTrade, JobOK, Goto, absVars
<1>2. SomebodyGoesOn'
  BY <1>1, OneGivesUp DEF GaveUp, StageTypeOK
<1>3. \A k : (Settled(k) => Settled(k)') /\ (Ambiguous(k) => Ambiguous(k)')
  BY MarketStep
<1>4. BurialsAreEarned'
  BY <1>1, <1>3 DEF Calm, BurialsAreEarned, StageTypeOK
<1>5. ASSUME failures[t] > 0, trade[t].status = "VALIDATED"
      PROVE  Ambiguous(Key[t])
  <2>1. CASE Settled(Key[t])
    <3>1. PICK a \in Trades : Key[a] = Key[t] /\ trade[a].status = "MATCHED"
      BY <2>1 DEF Settled
    <3>2. PICK b \in Trades \ {a} : Key[b] = Key[a] /\ trade[b].status = "MATCHED"
      BY <3>1 DEF Mated
    <3>3. a # t /\ b # t /\ a \in Market /\ b \in Market /\ t \in Market
      BY <1>1, <1>5, <3>1, <3>2 DEF Market
    <3> QED
      BY <3>1, <3>2, <3>3, ThreeAreAmbiguous
  <2> QED
    BY <1>1, <1>5, <2>1 DEF Calm, RetriesAreEarned
<1>6. RetriesAreEarned'
  <2>1. \A v \in Workers : pc'[v] = "retryable" => Settled(Key[job[v]])'
    BY <1>1, <1>3 DEF Calm, RetriesAreEarned, StageTypeOK
  <2>2. \A u \in Trades : failures'[u] > 0 => Settled(Key[u])' \/ Ambiguous(Key[u])'
    BY <1>1, <1>3 DEF Calm, RetriesAreEarned
  <2>3. ASSUME NEW v \in Workers, NEW u \in Trades, holder'[u] = v, failures'[u] > 0,
               pc'[v] \in {"matching", "flush", "retryable"}
        PROVE  Ambiguous(Key[u])'
    <3>1. CASE v = w
      <4>1. u = t /\ trade[t].status = "VALIDATED"
        BY <1>1, <2>3, <3>1 DEF HolderOK, StageTypeOK
      <4> QED
        BY <1>1, <1>3, <1>5, <2>3, <4>1
    <3>2. CASE v # w
      BY <1>1, <1>3, <2>3, <3>2 DEF Calm, RetriesAreEarned, StageTypeOK
    <3> QED
      BY <3>1, <3>2
  <2> QED
    BY <2>1, <2>2, <2>3 DEF RetriesAreEarned
<1> QED
  BY <1>2, <1>4, <1>6 DEF Calm

LEMMA CalmFindCandidate ==
  ASSUME Inv, Calm, NEW w \in Workers, FindCandidate(w), [Next]_vars
  PROVE  Calm'
<1> USE TypeParts DEF Inv, MatchInv, CalmInv
<1> DEFINE t == job[w]
<1>1. /\ t \in Trades /\ pc[w] = "matching" /\ UNCHANGED <<phase, holder, failures, job, trade>>
      /\ \/ Candidates(t) = {} /\ pc' = [pc EXCEPT ![w] = "succeeded"]
         \/ Cardinality(Candidates(t)) > 1 /\ pc' = [pc EXCEPT ![w] = "terminal"]
         \/ pc' = [pc EXCEPT ![w] = "flush"]
  BY DEF FindCandidate, JobOK, Goto, absVars
<1>2. t \in Market
  BY <1>1 DEF JobOK, PhaseOK, Market
<1>3. SomebodyGoesOn'
  <2>1. CASE Candidates(t) = {} /\ pc' = [pc EXCEPT ![w] = "succeeded"]
    <3>1. \A c \in Trades \ {t} : Key[c] = Key[t] => trade[c].status # "VALIDATED"
      BY <2>1 DEF Candidates
    <3>2. \A u \in Trades \ {t} : GaveUp(u)' => GaveUp(u)
      BY <1>1, <2>1 DEF GaveUp, StageTypeOK
    <3> QED
      BY <1>1, <3>1, <3>2 DEF Calm, SomebodyGoesOn
  <2>2. CASE pc' = [pc EXCEPT ![w] = "terminal"] \/ pc' = [pc EXCEPT ![w] = "flush"]
    BY <1>1, <2>2, OneGivesUp DEF GaveUp, StageTypeOK
  <2> QED
    BY <1>1, <2>1, <2>2
<1>4. \A k : (Settled(k) => Settled(k)') /\ (Ambiguous(k) => Ambiguous(k)')
  BY MarketStep
<1>5. ASSUME Cardinality(Candidates(t)) > 1
      PROVE  Ambiguous(Key[t])
  <2>1. /\ Candidates(t) \union {t} \subseteq Ingested(Key[t])
        /\ Candidates(t) \subseteq Market /\ t \notin Candidates(t)
    BY <1>1, <1>2 DEF Candidates, Ingested, Market
  <2>2. IsFiniteSet(Candidates(t)) /\ IsFiniteSet(Ingested(Key[t]))
    BY <2>1, IngestedIn, FS_Subset
  <2>3. Cardinality(Candidates(t) \union {t}) = Cardinality(Candidates(t)) + 1
    BY <2>1, <2>2, FS_AddElement
  <2>4. /\ Cardinality(Candidates(t) \union {t}) <= Cardinality(Ingested(Key[t]))
        /\ Cardinality(Candidates(t)) \in Nat /\ Cardinality(Ingested(Key[t])) \in Nat
    BY <2>1, <2>2, FS_Subset, FS_CardinalityType
  <2> QED
    BY <1>5, <2>3, <2>4 DEF Ambiguous
<1>6. BurialsAreEarned'
  <2>1. \A v \in Workers : pc'[v] = "terminal" => Ambiguous(Key[job[v]])'
    BY <1>1, <1>4, <1>5 DEF Calm, BurialsAreEarned, StageTypeOK
  <2> QED
    BY <1>1, <1>4, <2>1 DEF Calm, BurialsAreEarned
<1>7. RetriesAreEarned'
  BY <1>1, <1>4 DEF Calm, RetriesAreEarned, StageTypeOK
<1> QED
  BY <1>3, <1>6, <1>7 DEF Calm

LEMMA CalmFlush ==
  ASSUME Inv, Calm, NEW w \in Workers, Flush(w), [Next]_vars
  PROVE  Calm'
<1> USE TypeParts DEF Inv, MatchInv, CalmInv
<1> DEFINE t == job[w]
<1>1. /\ t \in Trades /\ pc[w] = "flush" /\ UNCHANGED <<phase, holder, failures, job>>
      /\ \/ Stale(w) /\ UNCHANGED trade /\ pc' = [pc EXCEPT ![w] = "retryable"]
         \/ ~Stale(w) /\ SaveMatch(w) /\ pc' = [pc EXCEPT ![w] = "succeeded"]
  BY DEF Flush, JobOK, Goto, absVars
<1>2. \A k : (Settled(k) => Settled(k)') /\ (Ambiguous(k) => Ambiguous(k)')
  BY MarketStep
<1>3. SomebodyGoesOn'
  <2>1. CASE Stale(w) /\ UNCHANGED trade /\ pc' = [pc EXCEPT ![w] = "retryable"]
    BY <1>1, <2>1, OneGivesUp DEF GaveUp, StageTypeOK
  <2>2. CASE ~Stale(w) /\ SaveMatch(w) /\ pc' = [pc EXCEPT ![w] = "succeeded"]
    <3>1. PICK c \in Trades : Matches(t, c)
      BY <1>1, <2>2, SaveWrites
    <3>2. \A u \in Trades : trade'[u].status = "VALIDATED" => u # t /\ trade'[u] = trade[u]
      BY <1>1, <3>1, MatchesTrade
    <3> QED
      BY <1>1, <2>2, <3>2, OneGivesUp DEF GaveUp, StageTypeOK
  <2> QED
    BY <1>1, <2>1, <2>2
<1>4. ASSUME Stale(w)
      PROVE  Settled(Key[t])
  <2>1. PICK c \in Trades \ {t} :
          incoming[w] = Copied(t) /\ candidate[w] = Copied(c) /\ Key[c] = Key[t]
    BY <1>1 DEF CopiesOK, Copying
  <2>2. trade[t].version # 0 \/ trade[c].version # 0
    BY <1>4, <2>1 DEF Stale, Copies, Copied
  <2> QED
    BY <1>1, <2>1, <2>2 DEF VersionsOK, Settled
<1>5. BurialsAreEarned'
  BY <1>1, <1>2 DEF Calm, BurialsAreEarned, StageTypeOK
<1>6. RetriesAreEarned'
  <2>1. \A v \in Workers : pc'[v] = "retryable" => Settled(Key[job[v]])'
    BY <1>1, <1>2, <1>4 DEF Calm, RetriesAreEarned, StageTypeOK
  <2>2. \A u \in Trades : failures'[u] > 0 => Settled(Key[u])' \/ Ambiguous(Key[u])'
    BY <1>1, <1>2 DEF Calm, RetriesAreEarned
  <2>3. \A v \in Workers, u \in Trades :
          holder'[u] = v /\ failures'[u] > 0 /\ pc'[v] \in {"matching", "flush", "retryable"}
          => Ambiguous(Key[u])'
    BY <1>1, <1>2 DEF Calm, RetriesAreEarned, StageTypeOK
  <2> QED
    BY <2>1, <2>2, <2>3 DEF RetriesAreEarned
<1> QED
  BY <1>3, <1>5, <1>6 DEF Calm

(* Neither a worker that begins nor one that dies gives anything up.       *)
LEMMA CalmTake ==
  ASSUME Inv, Calm, NEW w \in Workers, NEW m \in Messages, Begin(w, m),
         UNCHANGED trade, [Next]_vars
  PROVE  Calm'
<1> USE TypeParts DEF Inv, MatchInv, CalmInv, Trades
<1>1. /\ phase' = [phase EXCEPT ![m] = "held"] /\ holder' = [holder EXCEPT ![m] = w]
      /\ pc' = [pc EXCEPT ![w] = "claimed"] /\ job' = [job EXCEPT ![w] = m]
      /\ UNCHANGED failures
  BY DEF Begin, Take
<1>2. \A k : (Settled(k) => Settled(k)') /\ (Ambiguous(k) => Ambiguous(k)')
  BY MarketStep
<1>3. SomebodyGoesOn'
  BY <1>1, OneGivesUp DEF GaveUp, StageTypeOK, AbsTypeOK
<1>4. RetriesAreEarned'
  BY <1>1, <1>2 DEF Calm, RetriesAreEarned, StageTypeOK, AbsTypeOK
<1>5. BurialsAreEarned'
  BY <1>1, <1>2 DEF Calm, BurialsAreEarned, StageTypeOK, AbsTypeOK
<1> QED
  BY <1>3, <1>4, <1>5 DEF Calm

LEMMA CalmCrash ==
  ASSUME Inv, Calm, NEW w \in Workers, Crash(w), UNCHANGED trade, [Next]_vars
  PROVE  Calm'
<1> USE TypeParts, StageAssumption DEF Inv, MatchInv, CalmInv, Trades
<1>1. /\ job[w] \in Trades /\ UNCHANGED <<phase, failures>>
      /\ \A u \in Trades : holder'[u] = holder[u] \/ holder'[u] = Nobody
      /\ pc' = [pc EXCEPT ![w] = "idle"] /\ job' = [job EXCEPT ![w] = Nobody]
  BY DEF Crash, Lose, Release, absVars, JobOK, StageTypeOK, AbsTypeOK
<1>2. \A k : (Settled(k) => Settled(k)') /\ (Ambiguous(k) => Ambiguous(k)')
  BY MarketStep
<1>3. SomebodyGoesOn'
  BY <1>1, OneGivesUp DEF GaveUp, StageTypeOK
<1>4. RetriesAreEarned'
  BY <1>1, <1>2 DEF Calm, RetriesAreEarned, StageTypeOK
<1>5. BurialsAreEarned'
  BY <1>1, <1>2 DEF Calm, BurialsAreEarned, StageTypeOK
<1> QED
  BY <1>3, <1>4, <1>5 DEF Calm

(* A version conflict is retried once; only a third trade makes a second   *)
(* conflict possible, so two attempts are enough.                          *)
LEMMA CalmDispose ==
  ASSUME Inv, Calm, MaxAttempts > 1,
         NEW w \in Workers, Dispose(w), UNCHANGED trade, [Next]_vars
  PROVE  Calm'
<1> USE TypeParts, StageAssumption DEF Inv, MatchInv, CalmInv, Trades
<1> DEFINE m == job[w]
<1>1. /\ m \in Trades /\ pc[w] \in HandlerOutcomes
      /\ pc' = [pc EXCEPT ![w] = "idle"] /\ job' = [job EXCEPT ![w] = Nobody]
  BY DEF Dispose, Release, JobOK, HandlerOutcomes
<1>2. \A k : (Settled(k) => Settled(k)') /\ (Ambiguous(k) => Ambiguous(k)')
  BY MarketStep
<1>3. ASSUME \A u \in Trades : phase'[u] = "done" => phase[u] = "done" \/ (u = m /\ pc[w] = "succeeded")
      PROVE  SomebodyGoesOn'
  BY <1>1, <1>3, OneGivesUp DEF GaveUp, StageTypeOK
<1>4. ASSUME \A u \in Trades : \/ failures'[u] = failures[u]
                               \/ Settled(Key[u]) \/ Ambiguous(Key[u]),
             \A u \in Trades : \/ holder'[u] = Nobody
                               \/ holder'[u] = holder[u] /\ failures'[u] = failures[u]
      PROVE  RetriesAreEarned'
  <2>1. \A v \in Workers : pc'[v] = "retryable" => Settled(Key[job[v]])' /\ job'[v] = job[v]
    BY <1>1, <1>2 DEF Calm, RetriesAreEarned, StageTypeOK
  <2>2. \A u \in Trades : failures'[u] > 0 => Settled(Key[u])' \/ Ambiguous(Key[u])'
    BY <1>2, <1>4 DEF Calm, RetriesAreEarned
  <2>3. \A v \in Workers, u \in Trades :
          holder'[u] = v /\ failures'[u] > 0 /\ pc'[v] \in {"matching", "flush", "retryable"}
          => Ambiguous(Key[u])'
    BY <1>1, <1>2, <1>4 DEF Calm, RetriesAreEarned, StageTypeOK
  <2> QED
    BY <2>1, <2>2, <2>3 DEF RetriesAreEarned
<1>5. ASSUME \A u \in Trades : phase'[u] = "dead" => phase[u] = "dead" \/ Ambiguous(Key[u])
      PROVE  BurialsAreEarned'
  BY <1>1, <1>2, <1>5 DEF Calm, BurialsAreEarned, StageTypeOK
<1>6. CASE holder[m] # w /\ UNCHANGED absVars
  BY <1>3, <1>4, <1>5, <1>6 DEF absVars, Calm
<1>7. CASE pc[w] = "succeeded" /\ Finish(w, m)
  <2>1. /\ phase' = [phase EXCEPT ![m] = "done"] /\ holder' = [holder EXCEPT ![m] = Nobody]
        /\ UNCHANGED failures
    BY <1>7 DEF Finish
  <2> QED
    BY <1>1, <1>3, <1>4, <1>5, <1>7, <2>1 DEF Calm, StageTypeOK, AbsTypeOK
<1>8. CASE pc[w] = "retryable" /\ Retry(w, m)
  <2>1. /\ phase' = [phase EXCEPT ![m] = "waiting"] /\ holder' = [holder EXCEPT ![m] = Nobody]
        /\ failures' = [failures EXCEPT ![m] = failures[m] + 1]
    BY <1>8 DEF Retry
  <2>2. Settled(Key[m])
    BY <1>8 DEF Calm, RetriesAreEarned
  <2> QED
    BY <1>1, <1>3, <1>4, <1>5, <2>1, <2>2 DEF Calm, StageTypeOK, AbsTypeOK
<1>9. ASSUME Bury(w, m),
             pc[w] = "terminal" \/ (pc[w] = "retryable" /\ failures[m] + 1 >= MaxAttempts)
      PROVE  Calm'
  <2>1. /\ phase' = [phase EXCEPT ![m] = "dead"] /\ holder' = [holder EXCEPT ![m] = Nobody]
        /\ failures' = [failures EXCEPT ![m] = failures[m] + 1] /\ holder[m] = w
    BY <1>9 DEF Bury
  <2>2. ASSUME pc[w] = "terminal"
        PROVE  Ambiguous(Key[m])
    BY <2>2 DEF Calm, BurialsAreEarned
  <2>3. ASSUME pc[w] = "retryable", failures[m] + 1 >= MaxAttempts
        PROVE  Ambiguous(Key[m])
    <3>1. failures[m] > 0
      BY <1>1, <2>3 DEF StageTypeOK, AbsTypeOK
    <3> QED
      BY <1>1, <2>1, <2>3, <3>1 DEF Calm, RetriesAreEarned
  <2>4. Ambiguous(Key[m])
    BY <1>9, <2>2, <2>3
  <2> QED
    BY <1>1, <1>3, <1>4, <1>5, <2>1, <2>4 DEF Calm, StageTypeOK, AbsTypeOK
<1> QED
  BY <1>6, <1>7, <1>8, <1>9 DEF Dispose

LEMMA CalmStep ==
  ASSUME Inv, MaxAttempts > 1, [Next]_vars
  PROVE  CalmInv'
<1>1. IsFiniteSet(Market')
  BY MarketStep DEF Inv, CalmInv
<1>2. ASSUME errors' = 0
      PROVE  Calm'
  <2>1. CASE UNCHANGED vars
    <3>1. Calm
      BY <1>2, <2>1 DEF vars, stageVars, faultVars, Inv, CalmInv, Calm
    <3> QED
      BY <2>1, <3>1
         DEF vars, stageVars, absVars, Calm, SomebodyGoesOn, RetriesAreEarned, BurialsAreEarned,
             GaveUp, Settled, Ambiguous, Ingested
  <2>2. ASSUME NEW w \in Workers
        PROVE  ~Error(w)
    BY <1>2 DEF Error, CallThrows, CommitUnacknowledged, CompleteThrows, Errored, Inv,
                MatchInv, TypeOK, StageTypeOK
  <2>3. ASSUME UNCHANGED errors
        PROVE  Calm
    BY <1>2, <2>3 DEF Inv, CalmInv, Calm
  <2>4. ASSUME NEW t \in Trades, Ingest(t)
        PROVE  Calm'
    BY <2>3, <2>4, CalmIngest DEF Ingest, faultVars
  <2>5. ASSUME NEW w \in Workers, TryMatch(w)
        PROVE  Calm'
    BY <2>3, <2>5, CalmFindTrade, CalmFindCandidate, CalmFlush
       DEF TryMatch, FindTrade, FindCandidate, Flush, faultVars
  <2>6. ASSUME NEW w \in Workers, (Dispose(w) \/ Crash(w)) /\ Forget(w)
        PROVE  Calm'
    BY <2>3, <2>6, CalmDispose, CalmCrash DEF Dispose, Crash, Forget, faultVars
  <2>7. ASSUME NEW w \in Workers, NEW m \in Messages,
               (Claim(w, m) \/ TakeOver(w, m)) /\ UNCHANGED <<trade, matchedTrades, locals>>
        PROVE  Calm'
    BY <2>3, <2>7, CalmTake DEF Claim, TakeOver, Begin
  <2> QED
    BY <2>1, <2>2, <2>4, <2>5, <2>6, <2>7, NextCases
<1> QED
  BY <1>1, <1>2 DEF CalmInv, Calm

(* Without a database error, two trades that are alone with their key are  *)
(* never both given up (TradeMatchingEngine.tryMatch), and a message is    *)
(* dead-lettered only when three trades share its key: two attempts of a   *)
(* message are enough, however many workers overlap and die                *)
(* (application.yml allows three).                                         *)
THEOREM MatchesAreNotLost == MaxAttempts > 1 => (Spec => []NoMatchIsLost)
<1> SUFFICES ASSUME MaxAttempts > 1
             PROVE  Spec => []NoMatchIsLost
  OBVIOUS
<1>1. Init => CalmInv
  <2> SUFFICES ASSUME Init
               PROVE  CalmInv
    OBVIOUS
  <2>1. Market = {}
    BY DEF Init, Market
  <2>2. IsFiniteSet(Market)
    BY <2>1, FS_EmptySet
  <2>3. SomebodyGoesOn /\ RetriesAreEarned /\ BurialsAreEarned
    BY DEF Init, StageInit, SomebodyGoesOn, RetriesAreEarned, BurialsAreEarned, Trades
  <2> QED
    BY <2>2, <2>3 DEF CalmInv
<1>2. MatchInv /\ MatchInv' /\ CalmInv /\ [Next]_vars => CalmInv'
  BY CalmStep DEF Inv
<1>3. Inv => NoMatchIsLost
  <2> SUFFICES ASSUME Inv, errors = 0
               PROVE  NoLostMatch /\ \A t \in Trades : phase[t] = "dead" => Ambiguous(Key[t])
    BY DEF NoMatchIsLost, NoLostMatch, BuriedOnlyIfAmbiguous, Ambiguous
  <2>1. \A t \in Trades : phase[t] = "dead" => Ambiguous(Key[t])
    BY DEF Inv, CalmInv, BurialsAreEarned
  <2>2. ASSUME NEW t \in Trades, NEW c \in Trades, LonelyPair(t, c)
        PROVE  \E u \in {t, c} : phase[u] \in {"waiting", "held"}
    <3>1. t # c /\ Ingested(Key[t]) = {t} \union {c} /\ Key[c] = Key[t]
      BY <2>2 DEF LonelyPair, Ingested
    <3>2. ~Ambiguous(Key[t])
      <4> DEFINE one == {t}
      <4>1. IsFiniteSet(one) /\ Cardinality(one) = 1 /\ c \notin one
        BY <3>1, FS_Singleton
      <4> HIDE DEF one
      <4>2. Cardinality(one \union {c}) = 2
        BY <4>1, FS_AddElement
      <4> USE DEF one
      <4> QED
        BY <3>1, <4>2 DEF Ambiguous
    <3>3. \A u \in {t, c} : phase[u] \in Phases /\ phase[u] # "absent" /\ phase[u] # "dead"
      BY <2>1, <2>2, <3>1, <3>2
         DEF LonelyPair, Inv, MatchInv, PhaseOK, TypeOK, StageTypeOK, AbsTypeOK, Trades
    <3>4. ~(phase[t] = "done" /\ phase[c] = "done")
      BY <2>2, <3>1 DEF LonelyPair, Inv, CalmInv, SomebodyGoesOn, GaveUp
    <3> QED
      BY <3>3, <3>4 DEF Phases
  <2> QED
    BY <2>1, <2>2 DEF NoLostMatch
<1> QED
  BY <1>1, <1>2, <1>3, MatchInvHolds, PTL DEF Spec, Inv
=============================================================================
