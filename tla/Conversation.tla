---------------------------- MODULE Conversation ----------------------------
(* The messages of a session and what is kept of them: the context the model  *)
(* gets (session/message-v2.ts filterCompacted), the outputs cleared to save  *)
(* tokens (session/compaction.ts prune), summaries, and forks                 *)
(* (session/index.ts). An output is its size; numbers stand for tokens.       *)
EXTENDS Naturals, Sequences, SequencesExt, FiniteSetsExt

CONSTANTS PRUNE_PROTECT, PRUNE_MINIMUM,  \* in the unit of Sizes
          Sizes,        \* sizes of tool outputs
          MaxMessages,  \* bound: messages of a session
          MaxIds        \* bound: message ids

ASSUME ConversationAssumption ==
  Sizes \subseteq Nat /\ PRUNE_PROTECT \in Nat /\ PRUNE_MINIMUM \in Nat /\ MaxMessages \in Nat
  /\ MaxIds \in Nat

VARIABLES messages,  \* the session's messages, oldest first
          forked,    \* the session forked from it, none at first
          nextId,    \* message ids ascend over both
          prunes,    \* the prunes at work on a session: what each has yet to clear
          unpruned   \* history: what a prune did not get to before the program
                     \* stopped, or before the session was forked

convVars == <<messages, forked, nextId, prunes, unpruned>>
pruneVars == <<prunes, unpruned>>

User(id, kind) == [id |-> id, role |-> "user", kind |-> kind, parent |-> 0, outputs |-> <<>>]
Answer(id, kind, parent, outputs) ==
    [id |-> id, role |-> "assistant", kind |-> kind, parent |-> parent, outputs |-> outputs]
Output(size, state) == [size |-> size, state |-> state]

MaxCalls == 3   \* bound: tool calls of an answer
Sessions == {"original", "fork"}
Of(s) == IF s = "original" THEN messages ELSE forked
Places(list) == {p \in (DOMAIN list) \X (1..MaxCalls) : p[2] \in DOMAIN list[p[1]].outputs}

Outcomes == [size : Sizes, state : {"completed", "running", "cleared"}]
Messages == [id : Nat, role : {"user", "assistant"}, kind : {"plain", "compaction", "summary", "failed"},
             parent : Nat, outputs : Seq(Outcomes)]

ConversationTypeOK ==
    /\ messages \in Seq(Messages) /\ forked \in Seq(Messages) /\ nextId \in 1..(MaxIds + 1)
    /\ prunes \in [Sessions -> SUBSET SUBSET (Nat \X (1..MaxCalls))]
    /\ unpruned \in [Sessions -> SUBSET (Nat \X (1..MaxCalls))]
    /\ \A s \in Sessions :
         /\ (UNION prunes[s]) \cup unpruned[s] \subseteq Places(Of(s))
         /\ \A i \in DOMAIN Of(s) : /\ Of(s)[i].id \in 1..(nextId - 1) /\ Of(s)[i].parent < nextId
                                    /\ Len(Of(s)[i].outputs) <= MaxCalls

ConversationInit ==
    /\ messages = <<>> /\ forked = <<>> /\ nextId = 1
    /\ prunes = [s \in Sessions |-> {}] /\ unpruned = [s \in Sessions |-> {}]

Becomes(s, list) ==
    IF s = "original" THEN messages' = list /\ UNCHANGED forked
                      ELSE forked' = list /\ UNCHANGED messages

(* A turn: a request and an answer with its tool calls.  The last stays       *)
(* running when the program stopped in it; prune passes over it, as it does   *)
(* over the output of a protected tool.                                       *)
ConvTurn(s) ==
    /\ Len(Of(s)) + 2 <= MaxMessages /\ (s = "fork" => forked # <<>>)
    /\ nextId + 2 <= MaxIds + 1
    /\ \E sizes \in [1..MaxCalls -> Sizes], last \in {"completed", "running"} :
         Becomes(s, Of(s) \o <<User(nextId, "plain"),
                               Answer(nextId + 1, "plain", nextId,
                                      [j \in 1..MaxCalls |->
                                         Output(sizes[j], IF j = MaxCalls THEN last ELSE "completed")])>>)
    /\ nextId' = nextId + 2
    /\ UNCHANGED pruneVars

(* compaction.create and process: the request, then a finished summary of it  *)
(* or one that failed.                                                        *)
Compact(s) ==
    /\ Of(s) # <<>> /\ Len(Of(s)) + 2 <= MaxMessages /\ nextId + 2 <= MaxIds + 1
    /\ \E outcome \in {"summary", "failed"} :
         Becomes(s, Of(s) \o <<User(nextId, "compaction"),
                               Answer(nextId + 1, outcome, nextId, <<>>)>>)
    /\ nextId' = nextId + 2
    /\ UNCHANGED pruneVars

(* filterCompacted: back to the newest compaction request whose summary       *)
(* finished.                                                                  *)
Summarized(list) ==
    {i \in DOMAIN list :
        /\ list[i].kind = "compaction"
        /\ \E j \in DOMAIN list : j > i /\ list[j].kind = "summary" /\ list[j].parent = list[i].id}

filterCompacted(list) ==
    IF Summarized(list) = {} THEN list
    ELSE SubSeq(list, Max(Summarized(list)), Len(list))

(* prune: goes backwards from the second newest turn, and stops at the first  *)
(* summary, finished or not, and at the first output cleared before.          *)
Turns(list, i) == Cardinality({j \in i..Len(list) : list[j].role = "user"})
Old(list) == {i \in DOMAIN list : Turns(list, i) >= 2}
IsSummary(m) == m.kind \in {"summary", "failed"}
Newer(p, q) == p[1] > q[1] \/ (p[1] = q[1] /\ p[2] >= q[2])
At(list, p) == list[p[1]].outputs[p[2]]

Visited(list) ==
    {p \in Places(list) :
        /\ p[1] \in Old(list)
        /\ \A i \in Old(list) : i >= p[1] => ~IsSummary(list[i])
        /\ \A q \in Places(list) : q[1] \in Old(list) /\ Newer(q, p) => At(list, q).state # "cleared"
        /\ At(list, p).state = "completed"}

\* The place that is n steps back, and the total of the first n steps.
Back(list, n) == <<Len(list) - ((n - 1) \div MaxCalls), MaxCalls - ((n - 1) % MaxCalls)>>
StepsBack(list, p) == MaxCalls * (Len(list) - p[1]) + MaxCalls + 1 - p[2]
Estimate(list, n) == IF Back(list, n) \in Visited(list) THEN At(list, Back(list, n)).size ELSE 0
Totals(list) ==
    LET total[n \in 0..(MaxCalls * Len(list))] == IF n = 0 THEN 0 ELSE total[n - 1] + Estimate(list, n)
    IN  total

(* Mutant: the newest outputs are cleared instead of the oldest.              *)
toPruneNewest(list) ==
    {p \in Visited(list) : Totals(list)[StepsBack(list, p)] < PRUNE_PROTECT}

toPrune(list) ==
    {p \in Visited(list) : Totals(list)[StepsBack(list, p)] > PRUNE_PROTECT}

SizeOf(list, ps) == FoldSet(LAMBDA p, n : n + At(list, p).size, 0, ps)

Prune(s) ==
    /\ SizeOf(Of(s), toPrune(Of(s))) > PRUNE_MINIMUM
    /\ prunes' = [prunes EXCEPT ![s] = @ \cup {toPrune(Of(s))}]
    /\ UNCHANGED <<messages, forked, nextId, unpruned>>

(* The outputs found are written one by one, the newest first, while others   *)
(* read and write the session: nobody waits for a prune.                      *)
Clear(s) ==
    /\ \E left \in prunes[s], p \in Places(Of(s)) :
         /\ p \in left /\ \A q \in left : Newer(p, q)
         /\ Becomes(s, [Of(s) EXCEPT ![p[1]].outputs[p[2]].state = "cleared"])
         /\ prunes' = [prunes EXCEPT ![s] = (@ \ {left}) \cup ({left \ {p}} \ {{}})]
    /\ UNCHANGED <<nextId, unpruned>>

(* The program stops: what its prunes had left is not cleared.                *)
Stopped ==
    /\ \E s \in Sessions : prunes[s] # {}
    /\ unpruned' = [s \in Sessions |-> unpruned[s] \cup UNION prunes[s]]
    /\ prunes' = [s \in Sessions |-> {}]
    /\ UNCHANGED <<messages, forked, nextId>>

(* fork: the messages before one of them, under new ids; the parent of an     *)
(* answer stays the old one.                                                  *)
Fork ==
    /\ forked = <<>> /\ messages # <<>>
    /\ \E n \in 1..Len(messages) :
         /\ nextId + n <= MaxIds + 1
         /\ forked' = [i \in 1..n |-> [messages[i] EXCEPT !.id = nextId + i - 1]]
         /\ unpruned' = [unpruned EXCEPT !["fork"] =
                {p \in unpruned["original"] \cup UNION prunes["original"] : p[1] <= n}]
         /\ nextId' = nextId + n
    /\ UNCHANGED <<messages, prunes>>

ConversationNext ==
    Fork \/ Stopped \/ \E s \in Sessions : ConvTurn(s) \/ Compact(s) \/ Prune(s) \/ Clear(s)

IsSpent(s, p) == At(Of(s), p).state = "cleared"
IsKept(s, p) == At(Of(s), p).state = "completed" /\ p \notin (UNION prunes[s]) \cup unpruned[s]

(* Of the outputs between two summaries the cleared ones are the oldest:      *)
(* prune never clears a newer output while it keeps an older one              *)
(* (compaction.ts:59-89), however many prunes overlap, except for what a      *)
(* prune is about to clear, or was when the program stopped or the session    *)
(* was forked.                                                                *)
ClearedIsOldest ==
  /\ ConversationTypeOK
  /\ \A s \in Sessions : \A p, q \in Places(Of(s)) :
        IsKept(s, p) /\ IsSpent(s, q) /\ Newer(q, p) => \E m \in p[1]..q[1] : IsSummary(Of(s)[m])
=============================================================================
