---------------------------- MODULE TradeMatching ----------------------------
(***************************************************************************)
(* The matching stage of mocknet.  TradeIngestionService commits a         *)
(* VALIDATED trade together with its message on the MATCHING queue;        *)
(* TradeMatchingEngine's workers look for the one other VALIDATED trade    *)
(* with the same key, and pair the two.  tryMatch is one database          *)
(* transaction that takes no lock: its two reads and its flush are         *)
(* separate actions, and the version column of Trade is all that stands    *)
(* between two workers who read the same trades.  A message is identified  *)
(* with the trade it names.                                                *)
(***************************************************************************)
EXTENDS ConsumerStage, Sequences, FiniteSets

CONSTANTS
  Key,              \* Key[t]: the unordered counterparties, the currencies and
                    \* the value date of trade t
  Role              \* Role[t]: role1, the side its first party takes

Trades == Messages

ASSUME RoleAssumption == Role \in [Trades -> {"BUYER", "SELLER", "OTHER"}]

VARIABLES
  trade,            \* trade[t]: status and version columns of trades
  matchedTrades,    \* matched_trades; each row was saved with a NETTING message
  incoming,         \* incoming[w]: tryMatch's copy of the message's trade
  candidate         \* candidate[w]: the trade findMatchCandidate returned, a copy

locals == <<incoming, candidate>>
vars == <<stageVars, trade, matchedTrades, locals>>

TradeRow == [status : {"NONE", "VALIDATED", "MATCHED"}, version : Nat]
Copy == [id : Trades, version : Nat]
NoCopy == << >>

TypeOK ==
  /\ StageTypeOK({"matching", "flush"})
  /\ trade \in [Trades -> TradeRow]
  /\ matchedTrades \in Seq([trade1 : Trades, trade2 : Trades])
  /\ incoming \in [Workers -> Copy \union {NoCopy}]
  /\ candidate \in [Workers -> Copy \union {NoCopy}]

Init ==
  /\ phase = [t \in Trades |-> "absent"]
  /\ StageInit
  /\ trade = [t \in Trades |-> [status |-> "NONE", version |-> 0]]
  /\ matchedTrades = << >>
  /\ incoming = [w \in Workers |-> NoCopy]
  /\ candidate = [w \in Workers |-> NoCopy]

(* One transaction of TradeIngestionService: the row and its message.      *)
Ingest(t) ==
  /\ trade[t].status = "NONE"
  /\ trade' = [trade EXCEPT ![t].status = "VALIDATED"]
  /\ Submit(t)
  /\ UNCHANGED <<pc, job, faultVars, matchedTrades, locals>>

CopyOf(t) == [id |-> t, version |-> trade[t].version]

(* A trade that is no longer VALIDATED was matched already: nothing to do. *)
FindTrade(w) ==
  /\ pc[w] = "claimed"
  /\ LET t == job[w] IN
       IF trade[t].status = "VALIDATED"
       THEN /\ incoming' = [incoming EXCEPT ![w] = CopyOf(t)]
            /\ Goto(w, "matching")
       ELSE /\ Goto(w, "succeeded")
            /\ UNCHANGED incoming
  /\ UNCHANGED <<trade, matchedTrades, candidate, faultVars>>

(* Mutant: SELECT ... FOR UPDATE SKIP LOCKED.                              *)
CandidatesSkipLocked(t) ==
  {c \in Trades \ {t} : /\ Key[c] = Key[t]
                        /\ trade[c].status = "VALIDATED"
                        /\ holder[c] = Nobody}

(* findMatchCandidate: neither roles nor amounts are compared.             *)
Candidates(t) ==
  {c \in Trades \ {t} : Key[c] = Key[t] /\ trade[c].status = "VALIDATED"}

(* None: the message is done, the trade waits for its opposite.  Several:  *)
(* the query wants a unique result, and the exception is not retryable.    *)
FindCandidate(w) ==
  /\ pc[w] = "matching"
  /\ LET found == Candidates(job[w]) IN
       \/ /\ found = {}
          /\ Goto(w, "succeeded")
          /\ UNCHANGED candidate
       \/ /\ Cardinality(found) > 1
          /\ Goto(w, "terminal")
          /\ UNCHANGED candidate
       \/ \E c \in found :
            /\ found = {c}
            /\ candidate' = [candidate EXCEPT ![w] = CopyOf(c)]
            /\ Goto(w, "flush")
  /\ UNCHANGED <<trade, matchedTrades, incoming, faultVars>>

(* MatchedTradeFactory: trade1 is the incoming trade if it is a BUYER's,   *)
(* trade2 if it is a SELLER's, the other one is the candidate.             *)
Pair(t, c) ==
  [trade1 |-> IF Role[t] = "BUYER" THEN t ELSE c,
   trade2 |-> IF Role[t] = "SELLER" THEN t ELSE c]

Copies(w) == {incoming[w], candidate[w]}

(* Mutant: Trade has no version column.                                    *)
NeverStale(w) == FALSE

(* UPDATE ... WHERE version = the version read.                            *)
Stale(w) == \E copy \in Copies(w) : trade[copy.id].version # copy.version

(* Both trades MATCHED, the pair saved and its NETTING message published.  *)
SaveMatch(w) ==
  /\ matchedTrades' = Append(matchedTrades, Pair(incoming[w].id, candidate[w].id))
  /\ trade' = [t \in Trades |->
                 IF \E copy \in Copies(w) : copy.id = t
                 THEN [status |-> "MATCHED", version |-> trade[t].version + 1]
                 ELSE trade[t]]

(* Mutant: a version conflict is taken for a programming error.            *)
FlushConflictTerminal(w) ==
  /\ pc[w] = "flush"
  /\ IF Stale(w)
     THEN Goto(w, "terminal") /\ UNCHANGED <<trade, matchedTrades>>
     ELSE Goto(w, "succeeded") /\ SaveMatch(w)
  /\ UNCHANGED <<locals, faultVars>>

(* The transaction commits.  A version conflict rolls it back, and is      *)
(* classified CONCURRENCY_CONFLICT, a retryable failure.                   *)
Flush(w) ==
  /\ pc[w] = "flush"
  /\ IF Stale(w)
     THEN Goto(w, "retryable") /\ UNCHANGED <<trade, matchedTrades>>
     ELSE Goto(w, "succeeded") /\ SaveMatch(w)
  /\ UNCHANGED <<locals, faultVars>>

-----------------------------------------------------------------------------
(* Faults.                                                                 *)

(* A read or the commit fails: classified as transient or as final.        *)
CallThrows(w) ==
  /\ Errored
  /\ pc[w] \in {"claimed", "matching", "flush"}
  /\ \E outcome \in {"retryable", "terminal"} : Goto(w, outcome)
  /\ UNCHANGED <<trade, matchedTrades, locals>>

(* The transaction committed and its acknowledgement was lost.             *)
CommitUnacknowledged(w) ==
  /\ Errored
  /\ pc[w] = "flush"
  /\ ~Stale(w)
  /\ SaveMatch(w)
  /\ \E outcome \in {"retryable", "terminal"} : Goto(w, outcome)
  /\ UNCHANGED locals

Error(w) ==
  \/ CallThrows(w)
  \/ CommitUnacknowledged(w)
  \/ CompleteThrows(w) /\ UNCHANGED <<trade, matchedTrades, locals>>

-----------------------------------------------------------------------------

Forget(w) ==
  /\ incoming' = [incoming EXCEPT ![w] = NoCopy]
  /\ candidate' = [candidate EXCEPT ![w] = NoCopy]
  /\ UNCHANGED <<trade, matchedTrades>>

TryMatch(w) == FindTrade(w) \/ FindCandidate(w) \/ Flush(w)

Consume(w) ==
  \/ Dispose(w) /\ Forget(w)
  \/ \E t \in Trades : Claim(w, t) /\ UNCHANGED <<trade, matchedTrades, locals>>

Next ==
  \/ \E t \in Trades : Ingest(t)
  \/ \E w \in Workers :
       \/ TryMatch(w) \/ Consume(w) \/ Error(w)
       \/ Crash(w) /\ Forget(w)
       \/ \E t \in Trades : TakeOver(w, t) /\ UNCHANGED <<trade, matchedTrades, locals>>
  \/ QueueDrained /\ UNCHANGED vars

(* Each worker runs its loop for ever; trades need not keep coming.        *)
Fairness == \A w \in Workers : WF_vars(TryMatch(w) \/ Consume(w))

Spec == Init /\ [][Next]_vars

FairSpec == Spec /\ Fairness

-----------------------------------------------------------------------------
(* Properties.                                                             *)

Ingested(k) == {t \in Trades : Key[t] = k /\ trade[t].status # "NONE"}

InPair(t, i) == matchedTrades[i].trade1 = t \/ matchedTrades[i].trade2 = t

(* ConcurrencyLoadTest.java: "Each pair should match exactly once (no      *)
(* double-matching)": a trade with a side leaves the market exactly when   *)
(* it enters a pair, and is never in two, under overlapping leases and     *)
(* redelivery too.                                                         *)
MatchedIffPaired ==
  \A t \in Trades :
    Role[t] # "OTHER" =>
      Cardinality({i \in 1 .. Len(matchedTrades) : InPair(t, i)})
        = (IF trade[t].status = "MATCHED" THEN 1 ELSE 0)

(* t and c are compatible, both unmatched, and nothing else has their key. *)
LonelyPair(t, c) ==
  /\ t # c /\ Ingested(Key[t]) = {t, c}
  /\ trade[t].status = "VALIDATED" /\ trade[c].status = "VALIDATED"

(* Two compatible trades that arrive at the same time both query for the   *)
(* other; neither arrival is missed by both: while they are unmatched, a   *)
(* message of theirs is still to be processed.                             *)
NoLostMatch ==
  \A t, c \in Trades :
    errors = 0 /\ LonelyPair(t, c) => \E u \in {t, c} : phase[u] \in {"waiting", "held"}

(* Without a database error a matching message is dead-lettered only when  *)
(* three trades or more share its key; a pair of traders alone never is.   *)
BuriedOnlyIfAmbiguous ==
  errors = 0 => \A t \in Trades :
                  phase[t] = "dead" => Cardinality(Ingested(Key[t])) > 2

(* Neither a silent completion nor a dead letter loses a match: without a  *)
(* database error, two trades alone with their key have a message to come. *)
NoMatchIsLost == NoLostMatch /\ BuriedOnlyIfAmbiguous

(* Trades that are the only two with their key do not stay unmatched.      *)
EventuallyMatched ==
  []<>(errors > 0 \/ \A t, c \in Trades : ~LonelyPair(t, c))

(* README.md: the engine "finds the opposite-side trade": a pair has a     *)
(* BUYER's and a SELLER's trade.                                           *)
OppositeSides ==
  \A i \in 1 .. Len(matchedTrades) :
    /\ Role[matchedTrades[i].trade1] = "BUYER"
    /\ Role[matchedTrades[i].trade2] = "SELLER"
=============================================================================
