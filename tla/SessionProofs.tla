---------------------------- MODULE SessionProofs ----------------------------
(* Proofs about the prompt loop of a session and the harness turns that call *)
(* it (session/prompt.ts, harness/), for any number of callers, messages and *)
(* cancellations, about the instances they run in (project/), and about what *)
(* of a conversation is sent to a model (session/message-v2.ts,              *)
(* provider/transform.ts, session/llm.ts), for any conversation and model.   *)
EXTENDS HarnessTurns, Instances, ModelRequests,
        SequenceLemmas, FiniteSetTheorems, SequenceTheorems, WellFoundedInduction, TLAPS

-----------------------------------------------------------------------------
(* The newest and the oldest of a set of identifiers. *)

LEMMA NewestIsGreatest ==
  ASSUME NEW n \in Nat, NEW S \in SUBSET (1..n), S # {}
  PROVE  Newest(S) \in S /\ \A i \in S : i <= Newest(S)
<1> DEFINE T == {n - i : i \in S}
<1>1. \A i \in S : i \in Nat /\ i <= n
  OBVIOUS
<1>2. T \in SUBSET Nat
  BY <1>1
<1>3. T # {}
  OBVIOUS
<1>4. PICK k \in T : \A m \in T : k <= m
  <2> HIDE DEF T
  <2> QED BY <1>2, <1>3, LeastOf
<1>5. PICK j \in S : k = n - j
  BY <1>4
<1>6. \A i \in S : i <= j
  <2> TAKE i \in S
  <2>1. n - i \in T
    OBVIOUS
  <2>2. k <= n - i
    BY <1>4, <2>1
  <2> QED BY <1>1, <1>5, <2>2
<1>7. \E x \in S : \A y \in S : x >= y
  BY <1>1, <1>6
<1>8. Newest(S) \in S /\ \A y \in S : Newest(S) >= y
  BY <1>7 DEF Newest, Max
<1> QED BY <1>1, <1>8

LEMMA NewestIsBounded ==
  ASSUME NEW n \in Nat, NEW S \in SUBSET (1..n)
  PROVE  Newest(S) \in 0..n
<1>1. CASE S = {}
  BY <1>1 DEF Newest
<1>2. CASE S # {}
  <2>1. Newest(S) \in 1..n
    BY <1>2, NewestIsGreatest
  <2> QED BY <2>1
<1> QED BY <1>1, <1>2

LEMMA MinIsIn ==
  ASSUME NEW S \in SUBSET Nat, S # {}
  PROVE  Min(S) \in S
<1>1. \E k \in S : \A m \in S : k <= m
  BY LeastOf
<1> QED BY <1>1 DEF Min

-----------------------------------------------------------------------------
(* Types *)

Messages ==
  [role : {"user", "assistant"}, content : Contents, parent : Nat, finish : Finishes, stored : BOOLEAN]

LEMMA MessageType ==
  ASSUME NEW role \in {"user", "assistant"}, NEW content \in Contents, NEW parent \in Nat
  PROVE  Message(role, content, parent) \in Messages
BY DEF Message, Messages, Finishes

LEMMA NewestsAreIds ==
  ASSUME SessionTypeOK
  PROVE  /\ Len(msgs) \in Nat /\ Ids = 1..Len(msgs) /\ DOMAIN msgs = Ids
         /\ LastUser \in 0..Len(msgs) /\ LastAssistant \in 0..Len(msgs)
         /\ \A i \in Users : i <= LastUser
         /\ \A i \in Assistants : i <= LastAssistant
<1>1. Len(msgs) \in Nat /\ Ids = 1..Len(msgs) /\ DOMAIN msgs = Ids
  BY DEF SessionTypeOK, Ids
<1>2. Users \in SUBSET (1..Len(msgs)) /\ Assistants \in SUBSET (1..Len(msgs))
  BY <1>1 DEF Users, Assistants
<1> QED BY <1>1, <1>2, NewestIsGreatest, NewestIsBounded DEF LastUser, LastAssistant

LEMMA DecisionsAre ==
  ASSUME SessionTypeOK
  PROVE  Decisions \subseteq {"exit", "answer", "compaction", "subtask", "overflow"}
<1>1. Tasks # {} => msgs[Min(Tasks)].content \in {"compaction", "subtask"}
  <2>1. Tasks \in SUBSET Nat
    BY NewestsAreIds DEF Tasks, Users
  <2> QED BY <2>1, MinIsIn DEF Tasks
<1> QED BY <1>1 DEF Decisions

-----------------------------------------------------------------------------
(* Messages: they are only added, and keep their roles. *)

\* t has the messages of s, as they were stored, and perhaps more.
Extends(s, t) ==
  /\ t \in Seq(Messages) /\ Len(s) <= Len(t)
  /\ \A i \in 1..Len(s) : t[i].role = s[i].role /\ (s[i].stored => t[i].stored)

LEMMA AppendExtends ==
  ASSUME NEW s \in Seq(Messages), NEW m \in Messages
  PROVE  Extends(s, Append(s, m)) /\ Len(Append(s, m)) = Len(s) + 1 /\ Append(s, m)[Len(s) + 1] = m
BY AppendProperties DEF Extends

LEMMA RecordExcept ==
  ASSUME NEW m \in Messages
  PROVE  /\ \A f \in Finishes : /\ [m EXCEPT !.finish = f] \in Messages
                               /\ [m EXCEPT !.finish = f].role = m.role
                               /\ [m EXCEPT !.finish = f].stored = m.stored
         /\ \A b \in BOOLEAN : /\ [m EXCEPT !.stored = b] \in Messages
                              /\ [m EXCEPT !.stored = b].role = m.role
                              /\ [m EXCEPT !.stored = b].stored = b
<1>1. ASSUME NEW f \in Finishes PROVE [m EXCEPT !.finish = f] \in Messages
  BY Zenon DEF Messages
<1>2. ASSUME NEW b \in BOOLEAN PROVE [m EXCEPT !.stored = b] \in Messages
  BY Zenon DEF Messages
<1>3. /\ \A f : /\ [m EXCEPT !.finish = f].role = m.role
              /\ [m EXCEPT !.finish = f].stored = m.stored
      /\ \A b : [m EXCEPT !.stored = b].role = m.role
  BY DEF Messages
<1>4. \A b \in BOOLEAN : [m EXCEPT !.stored = b].stored = b
  BY DEF Messages
<1> QED BY <1>1, <1>2, <1>3, <1>4, Zenon

LEMMA FinishExtends ==
  ASSUME NEW s \in Seq(Messages), NEW k \in 1..Len(s), NEW f \in Finishes
  PROVE  Extends(s, [s EXCEPT ![k].finish = f]) /\ Len([s EXCEPT ![k].finish = f]) = Len(s)
<1> DEFINE m == [s[k] EXCEPT !.finish = f]
<1>1. m \in Messages /\ m.role = s[k].role /\ m.stored = s[k].stored
  BY RecordExcept
<1>2. [s EXCEPT ![k].finish = f] = [s EXCEPT ![k] = m]
  OBVIOUS
<1> HIDE DEF m
<1>3. [s EXCEPT ![k] = m] \in Seq(Messages) /\ Len([s EXCEPT ![k] = m]) = Len(s)
  BY <1>1, ExceptSeq
<1>4. \A i \in 1..Len(s) : [s EXCEPT ![k] = m][i] = IF i = k THEN m ELSE s[i]
  OBVIOUS
<1> QED BY <1>1, <1>2, <1>3, <1>4 DEF Extends

LEMMA StoredExtends ==
  ASSUME NEW s \in Seq(Messages), NEW k \in 1..Len(s)
  PROVE  /\ Extends(s, [s EXCEPT ![k].stored = TRUE]) /\ Len([s EXCEPT ![k].stored = TRUE]) = Len(s)
         /\ [s EXCEPT ![k].stored = TRUE][k].stored
<1> DEFINE m == [s[k] EXCEPT !.stored = TRUE]
<1>1. m \in Messages /\ m.role = s[k].role /\ m.stored
  <2>1. TRUE \in BOOLEAN /\ s[k] \in Messages
    OBVIOUS
  <2> QED BY <2>1, RecordExcept, Zenon
<1>2. [s EXCEPT ![k].stored = TRUE] = [s EXCEPT ![k] = m]
  OBVIOUS
<1> HIDE DEF m
<1>3. [s EXCEPT ![k] = m] \in Seq(Messages) /\ Len([s EXCEPT ![k] = m]) = Len(s)
  BY <1>1, ExceptSeq
<1>4. \A i \in 1..Len(s) : [s EXCEPT ![k] = m][i] = IF i = k THEN m ELSE s[i]
  OBVIOUS
<1>5. k \in 1..Len(s) /\ [s EXCEPT ![k] = m][k] = m
  BY <1>4
<1>6. Extends(s, [s EXCEPT ![k] = m])
  <2>1. \A i \in 1..Len(s) : [s EXCEPT ![k] = m][i].role = s[i].role
    BY <1>1, <1>4
  <2>2. \A i \in 1..Len(s) : s[i].stored => [s EXCEPT ![k] = m][i].stored
    BY <1>1, <1>4, Zenon
  <2> QED BY <1>3, <2>1, <2>2 DEF Extends
<1> QED BY <1>1, <1>2, <1>3, <1>5, <1>6, Zenon

LEMMA ExtendsTwice ==
  ASSUME NEW s \in Seq(Messages), NEW t, NEW u, Extends(s, t), Extends(t, u)
  PROVE  Extends(s, u)
BY DEF Extends

-----------------------------------------------------------------------------
(* The invariant. *)

Asking == {"stored", "waiting", "top", "planned", "working", "exit"}

\* What a call knows is still so: its message is stored, and what its loop
\* wrote, or leaves with, is newer.
Knows(c) ==
  /\ pc[c] = "creating" => mine[c] \in Ids /\ msgs[mine[c]].role = "user"
  /\ pc[c] \in Asking => mine[c] \in Users
  /\ pc[c] = "working" => plan[c].user \in Assistants /\ plan[c].user > mine[c]
  /\ pc[c] = "exit" /\ c \notin aborted => \E i \in Assistants : i > mine[c]
  /\ pc[c] = "leaving" /\ c \notin aborted /\ outcome[c].how = "answered" => outcome[c].answer > mine[c]

\* The registry is empty or has a loop at work, and who was told to stop works
\* or has ended.
Registered ==
  /\ entry.owner = Nobody => entry = NoEntry
  /\ OneLiveLoop /\ WaitersAreHeld
  /\ \A c \in aborted : pc[c] \in LoopPhases \cup ShellPhases \cup {"done"}
  /\ \A c \in Callers : pc[c] = "leaving" => outcome[c].how # "pending"

SessionInv == SessionTypeOK /\ Registered /\ \A c \in Callers : Knows(c)

SessionStep(c) == Create(c) \/ ShellStart(c) \/ LoopStep(c)

LEMMA SessionInvInit == SessionInit => SessionInv
<1> SUFFICES ASSUME SessionInit PROVE SessionInv
  OBVIOUS
<1> USE DEF SessionInit, NoEntry, NoPlan, Pending
<1>1. SessionTypeOK
  <2>1. msgs \in Seq(Messages)
    OBVIOUS
  <2> QED BY <2>1, KindsAssumption, BoundsAssumption DEF SessionTypeOK, Messages, Phases
<1>2. Registered
  BY DEF Registered, OneLiveLoop, WaitersAreHeld, Running, LoopPhases, ShellPhases
<1>3. \A c \in Callers : Knows(c)
  BY DEF Knows, Asking
<1> QED BY <1>1, <1>2, <1>3 DEF SessionInv

LEMMA StepExtends ==
  ASSUME SessionInv, NEW c \in Callers, SessionStep(c)
  PROVE  Extends(msgs, msgs')
<1> USE DEF Message, Goto
<1>1. /\ msgs \in Seq(Messages) /\ Len(msgs) \in Nat /\ Ids = 1..Len(msgs)
      /\ plan[c] \in [do : {"none", "answer", "compaction", "subtask", "overflow"}, user : Nat]
      /\ kind[c] \in CallKinds
  BY NewestsAreIds DEF SessionInv, SessionTypeOK, Messages
<1>2. Knows(c)
  BY DEF SessionInv
<1>3. CASE UNCHANGED msgs
  BY <1>1, <1>3 DEF Extends
<1>4. CASE Create(c)
  <2>1. UserContent(kind[c]) \in Contents
    BY DEF UserContent, Contents
  <2> HIDE DEF Message
  <2>2. Message("user", UserContent(kind[c]), 0) \in Messages
    BY <2>1, MessageType
  <2>3. FALSE \in BOOLEAN
    OBVIOUS
  <2>4. [Message("user", UserContent(kind[c]), 0) EXCEPT !.stored = FALSE] \in Messages
    BY <2>2, <2>3, RecordExcept, Zenon
  <2> QED BY <1>1, <1>4, <2>4, AppendExtends DEF Create
<1>5. CASE Store(c)
  <2>1. mine[c] \in 1..Len(msgs)
    BY <1>1, <1>2, <1>5 DEF Store, Knows
  <2> QED BY <1>1, <1>5, <2>1, StoredExtends DEF Store
<1>6. /\ Message("user", "compaction", 0) \in Messages
      /\ Message("user", "synthetic", 0) \in Messages
      /\ \A n \in Nat : Message("assistant", "bash", n) \in Messages
  BY MessageType DEF Contents
<1>7. CASE RequestCompaction(c)
  BY <1>1, <1>6, <1>7, AppendExtends DEF RequestCompaction
<1>8. CASE Begin(c)
  <2>1. Reply[plan[c].do] \in Contents
    BY <1>8 DEF Begin, Reply, Contents
  <2>2. Message("assistant", Reply[plan[c].do], plan[c].user) \in Messages
    BY <1>1, <2>1, MessageType
  <2> QED BY <1>1, <1>8, <2>2, AppendExtends DEF Begin
<1>9. ASSUME pc[c] = "working", NEW f \in Finishes, NEW m \in Messages
      PROVE  /\ Extends(msgs, [msgs EXCEPT ![plan[c].user].finish = f])
             /\ Extends(msgs, Append([msgs EXCEPT ![plan[c].user].finish = f], m))
  <2>1. plan[c].user \in 1..Len(msgs)
    BY <1>1, <1>2, <1>9 DEF Knows, Assistants
  <2>2. Extends(msgs, [msgs EXCEPT ![plan[c].user].finish = f])
    BY <1>1, <2>1, FinishExtends
  <2>3. [msgs EXCEPT ![plan[c].user].finish = f] \in Seq(Messages)
    BY <2>2 DEF Extends
  <2>4. Extends([msgs EXCEPT ![plan[c].user].finish = f], Append([msgs EXCEPT ![plan[c].user].finish = f], m))
    BY <2>3, AppendExtends
  <2> QED BY <1>1, <2>2, <2>4, ExtendsTwice
<1>10. CASE Answer(c) \/ Summarise(c) \/ EndTask(c)
  <2> HIDE DEF Message
  <2>1. {"stop", "tool-calls"} \subseteq Finishes
    BY DEF Finishes
  <2>2. CASE Answer(c)
    <3>1. PICK f \in {"stop", "tool-calls"}, full \in BOOLEAN :
            msgs' = IF full THEN Append([msgs EXCEPT ![plan[c].user].finish = f], Message("user", "compaction", 0))
                    ELSE [msgs EXCEPT ![plan[c].user].finish = f]
      BY <2>2 DEF Answer
    <3> QED BY <1>6, <1>9, <2>1, <2>2, <3>1 DEF Answer
  <2>3. CASE Summarise(c)
    <3>1. PICK auto \in BOOLEAN :
            msgs' = IF auto THEN Append([msgs EXCEPT ![plan[c].user].finish = "stop"], Message("user", "synthetic", 0))
                    ELSE [msgs EXCEPT ![plan[c].user].finish = "stop"]
      BY <2>3 DEF Summarise
    <3> QED BY <1>6, <1>9, <2>1, <2>3, <3>1 DEF Summarise
  <2>4. CASE EndTask(c)
    BY <1>6, <1>9, <2>1, <2>4 DEF EndTask
  <2> QED BY <1>10, <2>2, <2>3, <2>4
<1>11. CASE ShellSpawn(c)
  <2> HIDE DEF Message
  <2> DEFINE a == Message("user", "synthetic", 0)
             b == Message("assistant", "bash", Len(msgs) + 1)
  <2>1. a \in Messages /\ b \in Messages
    BY <1>1, <1>6
  <2>2. msgs' = msgs \o <<a, b>>
    BY <1>11 DEF ShellSpawn
  <2>3. <<a, b>> \in Seq(Messages) /\ Len(<<a, b>>) = 2
    BY <2>1
  <2> HIDE DEF a, b
  <2>4. /\ msgs \o <<a, b>> \in Seq(Messages) /\ Len(msgs \o <<a, b>>) = Len(msgs) + 2
        /\ \A i \in 1..Len(msgs) : (msgs \o <<a, b>>)[i] = msgs[i]
    BY <1>1, <2>3, ConcatProperties
  <2> QED BY <1>1, <2>2, <2>4 DEF Extends
<1> QED BY <1>3, <1>4, <1>5, <1>7, <1>8, <1>10, <1>11
      DEF SessionStep, LoopStep, StartLoop, Queue, Top, Fail, Throw, Resolve, DeferredCancel, ShellExit, ShellStart

-----------------------------------------------------------------------------
(* What one call's step leaves true of the others. *)

Plans == [do : {"none", "answer", "compaction", "subtask", "overflow"}, user : Nat]
Outcomes == [how : {"pending", "stored", "answered", "refused", "failed", "busy"}, answer : Nat]
Entries == [owner : Callers \cup {Nobody}, queued : SUBSET Callers]

LEMMA TypesApart ==
  SessionTypeOK <=> /\ kind \in [Callers -> CallKinds] /\ msgs \in Seq(Messages) /\ entry \in Entries
                    /\ aborted \in SUBSET Callers /\ pc \in [Callers -> Phases] /\ mine \in [Callers -> Nat]
                    /\ plan \in [Callers -> Plans] /\ outcome \in [Callers -> Outcomes]
                    /\ status \in {"idle", "busy"} /\ cancels \in Nat
BY DEF SessionTypeOK, Messages, Plans, Outcomes, Entries

LEMMA StepType ==
  ASSUME SessionInv, NEW c \in Callers, SessionStep(c)
  PROVE  SessionTypeOK'
<1> USE DEF SessionStep, LoopStep
<1>1. /\ kind \in [Callers -> CallKinds] /\ msgs \in Seq(Messages) /\ entry \in Entries
      /\ aborted \in SUBSET Callers /\ pc \in [Callers -> Phases] /\ mine \in [Callers -> Nat]
      /\ plan \in [Callers -> Plans] /\ outcome \in [Callers -> Outcomes]
      /\ status \in {"idle", "busy"} /\ cancels \in Nat
      /\ entry = NoEntry \/ entry.owner \in Callers
  BY TypesApart DEF SessionInv, Registered, Entries
<1>2. msgs' \in Seq(Messages) /\ Len(msgs) \in Nat /\ LastUser \in Nat /\ LastAssistant \in Nat
  BY StepExtends, NewestsAreIds DEF SessionInv, Extends
<1>3. kind' = kind /\ cancels' = cancels
  BY DEF Create, Store, StartLoop, Queue, Top, RequestCompaction, Begin, Answer,
         Summarise, EndTask, Fail, Throw, Resolve, DeferredCancel, ShellStart, ShellSpawn, ShellExit
<1>4. pc' \in [Callers -> Phases]
  <2>1. \A p \in Phases : [pc EXCEPT ![c] = p] \in [Callers -> Phases]
    BY <1>1
  <2>2. {"idle", "creating", "stored", "waiting", "done", "top", "planned", "working", "exit", "leaving",
         "shell", "command"} \subseteq Phases
    BY DEF Phases, LoopPhases, ShellPhases
  <2>3. CASE Resolve(c) \/ DeferredCancel(c)
    <3> HIDE DEF SessionStep
    <3> QED BY <1>1, <2>2, <2>3 DEF Resolve, DeferredCancel, Unregister
  <2>4. CASE ShellStart(c)
    BY <2>1, <2>2, <2>4 DEF ShellStart, Register
  <2>5. CASE Create(c) \/ Store(c) \/ StartLoop(c) \/ Queue(c) \/ Fail(c) \/ Throw(c)
    BY <2>1, <2>2, <2>5, Zenon DEF Create, Store, StartLoop, Queue, Fail, Throw, Goto, Register
  <2>6. CASE RequestCompaction(c) \/ Begin(c) \/ Answer(c) \/ Summarise(c) \/ EndTask(c) \/ Top(c)
    BY <2>1, <2>2, <2>6, Zenon DEF RequestCompaction, Begin, Answer, Summarise, EndTask, Top, Goto
  <2>7. CASE ShellSpawn(c) \/ ShellExit(c)
    BY <2>1, <2>2, <2>7, Zenon DEF ShellSpawn, ShellExit
  <2> QED BY <2>3, <2>4, <2>5, <2>6, <2>7
<1>5. mine' \in [Callers -> Nat]
  <2>1. mine' = mine \/ mine' = [mine EXCEPT ![c] = Len(msgs) + 1]
    BY DEF Create, Store, StartLoop, Queue, Top, RequestCompaction, Begin, Answer,
           Summarise, EndTask, Fail, Throw, Resolve, DeferredCancel, ShellStart, ShellSpawn, ShellExit
  <2>2. Len(msgs) + 1 \in Nat
    BY <1>2
  <2> QED BY <1>1, <2>1, <2>2
<1>6. plan' \in [Callers -> Plans]
  <2>1. \A p \in Plans : [plan EXCEPT ![c] = p] \in [Callers -> Plans]
    BY <1>1
  <2>2. NoPlan \in Plans
    BY DEF Plans, NoPlan
  <2>3. CASE Top(c)
    <3>1. \A do \in Decisions \ {"exit"} : [do |-> do, user |-> LastUser] \in Plans
      BY <1>2, DecisionsAre DEF SessionInv, Plans
    <3>2. PICK do \in IF c \in aborted THEN {"exit"} ELSE Decisions :
            IF do = "exit" THEN plan' = plan
            ELSE plan' = [plan EXCEPT ![c] = [do |-> do, user |-> LastUser]]
      BY <2>3, Zenon DEF Top
    <3>3. CASE do = "exit"
      BY <1>1, <3>2, <3>3
    <3>4. CASE do # "exit"
      BY <2>1, <3>1, <3>2, <3>4
    <3> QED BY <3>3, <3>4
  <2>4. CASE Begin(c)
    <3>1. plan[c] \in Plans /\ Len(msgs) + 1 \in Nat
      BY <1>1, <1>2
    <3>2. [plan[c] EXCEPT !.user = Len(msgs) + 1] \in Plans
      BY <3>1 DEF Plans
    <3>3. plan' = [plan EXCEPT ![c] = [plan[c] EXCEPT !.user = Len(msgs) + 1]]
      BY <2>4 DEF Begin
    <3> QED BY <2>1, <3>2, <3>3
  <2>5. CASE UNCHANGED plan
    BY <1>1, <2>5
  <2> QED BY <2>1, <2>2, <2>3, <2>4, <2>5
          DEF Create, Store, StartLoop, Queue, RequestCompaction, Answer,
              Summarise, EndTask, Fail, Throw, Resolve, DeferredCancel, ShellStart, ShellSpawn, ShellExit, Goto
<1>7. outcome' \in [Callers -> Outcomes]
  <2>1. \A how \in {"pending", "stored", "answered", "refused", "failed", "busy"}, n \in Nat :
          [how |-> how, answer |-> n] \in Outcomes
    BY DEF Outcomes
  <2>2. ASSUME NEW S, NEW how \in {"answered", "refused", "failed", "busy"}, NEW n \in Nat, Settle(S, how, n)
        PROVE  outcome' \in [Callers -> Outcomes]
    BY <1>1, <2>1, <2>2 DEF Settle
  <2>3. CASE Resolve(c) \/ DeferredCancel(c)
    BY <1>2, <2>2, <2>3 DEF Resolve, DeferredCancel, Unregister
  <2>4. CASE ShellStart(c) \/ ShellExit(c)
    <3>1. mine[c] + 1 \in Nat
      BY <1>1
    <3> QED BY <1>1, <2>2, <2>4, <3>1 DEF ShellStart, ShellExit
  <2>5. CASE Store(c) \/ Throw(c)
    <3>1. \A o \in Outcomes : [outcome EXCEPT ![c] = o] \in [Callers -> Outcomes]
      BY <1>1
    <3>2. /\ [how |-> "stored", answer |-> 0] \in Outcomes
          /\ [how |-> "failed", answer |-> 0] \in Outcomes
      BY <2>1
    <3>3. outcome' \in {outcome, [outcome EXCEPT ![c] = [how |-> "stored", answer |-> 0]],
                                 [outcome EXCEPT ![c] = [how |-> "failed", answer |-> 0]]}
      BY <2>5, Zenon DEF Store, Throw
    <3> QED BY <1>1, <3>1, <3>2, <3>3
  <2>6. CASE UNCHANGED outcome
    BY <1>1, <2>6
  <2> QED BY <2>3, <2>4, <2>5, <2>6
          DEF Create, StartLoop, Queue, Top, RequestCompaction, Begin, Answer, Summarise, EndTask, Fail, ShellSpawn
<1>8. entry' \in Entries
  <2>1. NoEntry \in Entries /\ [owner |-> c, queued |-> {}] \in Entries
    BY DEF NoEntry, Entries
  <2>2. [entry EXCEPT !.queued = @ \cup {c}] \in Entries
    BY <1>1 DEF Entries
  <2>3. entry' \in {entry, NoEntry, [owner |-> c, queued |-> {}], [entry EXCEPT !.queued = @ \cup {c}]}
    BY DEF Create, Store, StartLoop, Queue, Top, RequestCompaction, Begin, Answer, Register, Unregister,
           Summarise, EndTask, Fail, Throw, Resolve, DeferredCancel, ShellStart, ShellSpawn, ShellExit
  <2> QED BY <1>1, <2>1, <2>2, <2>3
<1>9. aborted' \in SUBSET Callers
  <2>1. aborted' = aborted \/ (entry # NoEntry /\ aborted' = aborted \cup {entry.owner})
    BY DEF Create, Store, StartLoop, Queue, Top, RequestCompaction, Begin, Answer, Unregister,
           Summarise, EndTask, Fail, Throw, Resolve, DeferredCancel, ShellStart, ShellSpawn, ShellExit
  <2> QED BY <1>1, <2>1
<1>10. status' \in {"idle", "busy"}
  BY <1>1 DEF Create, Store, StartLoop, Queue, Top, RequestCompaction, Begin, Answer, Unregister,
         Summarise, EndTask, Fail, Throw, Resolve, DeferredCancel, ShellStart, ShellSpawn, ShellExit
<1>11. /\ kind' \in [Callers -> CallKinds] /\ msgs' \in Seq(Messages) /\ entry' \in Entries
       /\ aborted' \in SUBSET Callers /\ pc' \in [Callers -> Phases] /\ mine' \in [Callers -> Nat]
       /\ plan' \in [Callers -> Plans] /\ outcome' \in [Callers -> Outcomes]
       /\ status' \in {"idle", "busy"} /\ cancels' \in Nat
  BY <1>1, <1>2, <1>3, <1>4, <1>5, <1>6, <1>7, <1>8, <1>9, <1>10
<1> QED BY <1>11 DEF SessionTypeOK, Messages, Plans, Outcomes, Entries

LEMMA IdsGrow ==
  ASSUME SessionTypeOK, SessionTypeOK', Extends(msgs, msgs')
  PROVE  /\ Len(msgs) \in Nat /\ Len(msgs') \in Nat /\ Ids = 1..Len(msgs) /\ Ids' = 1..Len(msgs')
         /\ Ids \subseteq Ids' /\ \A i \in Ids : msgs'[i].role = msgs[i].role
         /\ Users \subseteq Users' /\ Assistants \subseteq Assistants'
         /\ Users \in SUBSET Nat /\ Assistants \in SUBSET Nat
<1>1. /\ Ids = 1..Len(msgs) /\ Ids' = 1..Len(msgs') /\ Len(msgs) \in Nat /\ Len(msgs') \in Nat
      /\ Len(msgs) <= Len(msgs')
      /\ \A i \in Ids : msgs'[i].role = msgs[i].role /\ (msgs[i].stored => msgs'[i].stored)
  BY DEF Extends, Ids, SessionTypeOK
<1>2. Ids \subseteq Ids'
  BY <1>1
<1>3. Users \subseteq Users' /\ Assistants \subseteq Assistants'
  BY <1>1, <1>2, Zenon DEF Users, Assistants
<1>4. Users \in SUBSET Nat /\ Assistants \in SUBSET Nat
  BY <1>1 DEF Users, Assistants
<1> QED BY <1>1, <1>2, <1>3, <1>4

LEMMA OthersKnow ==
  ASSUME SessionTypeOK, SessionTypeOK', Extends(msgs, msgs'), aborted \subseteq aborted',
         NEW d \in Callers, Knows(d),
         pc'[d] = pc[d], mine'[d] = mine[d], plan'[d] = plan[d], outcome'[d] = outcome[d]
  PROVE  Knows(d)'
BY IdsGrow DEF Knows

LEMMA StepKnows ==
  ASSUME SessionInv, NEW c \in Callers, SessionStep(c), NEW d \in Callers
  PROVE  Knows(d)'
<1> USE DEF SessionStep, LoopStep
<1>1. /\ SessionTypeOK /\ SessionTypeOK' /\ Extends(msgs, msgs') /\ Knows(c) /\ Knows(d)
  BY StepType, StepExtends DEF SessionInv
<1>2. aborted \subseteq aborted'
  BY DEF Create, Store, StartLoop, Queue, Top, RequestCompaction, Begin, Answer, Unregister,
         Summarise, EndTask, Fail, Throw, Resolve, DeferredCancel, ShellStart, ShellSpawn, ShellExit
<1>3. /\ pc \in [Callers -> Phases] /\ mine \in [Callers -> Nat]
      /\ plan \in [Callers -> Plans] /\ outcome \in [Callers -> Outcomes]
  BY <1>1, TypesApart
<1>4. CASE d # c
  <2>1. mine'[d] = mine[d] /\ plan'[d] = plan[d]
    BY <1>3, <1>4 DEF Create, Store, StartLoop, Queue, Top, RequestCompaction, Begin, Answer, Unregister, Goto,
           Summarise, EndTask, Fail, Throw, Resolve, DeferredCancel, ShellStart, ShellSpawn, ShellExit
  <2>2. \/ pc'[d] = pc[d] /\ outcome'[d] = outcome[d]
        \/ pc'[d] = "done"
    <3>1. CASE Resolve(c) \/ DeferredCancel(c)
      BY <1>3, <1>4, <3>1 DEF Resolve, DeferredCancel, Unregister, Settle
    <3>2. CASE ShellStart(c) \/ ShellExit(c)
      BY <1>3, <1>4, <3>2 DEF ShellStart, ShellExit, Register, Settle
    <3> QED BY <1>3, <1>4, <3>1, <3>2
            DEF Create, Store, StartLoop, Queue, Top, RequestCompaction, Begin, Answer, Goto, Register,
                Summarise, EndTask, Fail, Throw, ShellSpawn
  <2>3. CASE pc'[d] = "done"
    BY <2>3 DEF Knows, Asking
  <2> QED BY <1>1, <1>2, <2>1, <2>2, <2>3, OthersKnow
<1>5. /\ Len(msgs) \in Nat /\ Len(msgs') \in Nat /\ Ids = 1..Len(msgs) /\ Ids' = 1..Len(msgs')
      /\ Users \subseteq Users' /\ Assistants \subseteq Assistants'
      /\ Users \in SUBSET Nat /\ Assistants \in SUBSET Nat
  BY <1>1, IdsGrow
<1>6. /\ LastUser \in Nat /\ LastAssistant \in Nat
      /\ \A i \in Users : i <= LastUser
      /\ \A i \in Assistants : i <= LastAssistant
      /\ LastAssistant # 0 => LastAssistant \in Assistants
  <2>1. Assistants \in SUBSET (1..Len(msgs))
    BY <1>5 DEF Assistants
  <2>2. LastAssistant # 0 => LastAssistant \in Assistants
    BY <1>5, <2>1, NewestIsGreatest DEF LastAssistant, Newest
  <2> QED BY <1>1, <2>2, NewestsAreIds
<1>7. mine[c] \in Nat
  BY <1>3
<1> SUFFICES Knows(c)'
  BY <1>4
<1> USE DEF Asking
<1>11. CASE Create(c)
  <2>1. mine'[c] = Len(msgs) + 1 /\ pc'[c] = "creating"
    BY <1>3, <1>11 DEF Create
  <2> DEFINE m == [Message("user", UserContent(kind[c]), 0) EXCEPT !.stored = FALSE]
  <2>2. m.role = "user"
    BY DEF Message
  <2>3. msgs' = Append(msgs, m)
    BY <1>11 DEF Create
  <2> HIDE DEF m
  <2>4. msgs'[Len(msgs) + 1] = m /\ Len(msgs') = Len(msgs) + 1
    BY <1>1, <2>3, <1>5 DEF SessionTypeOK
  <2> QED BY <1>5, <2>1, <2>2, <2>4 DEF Knows
<1>12. CASE Store(c)
  <2>1. mine[c] \in 1..Len(msgs) /\ msgs[mine[c]].role = "user"
    BY <1>1, <1>5, <1>12 DEF Store, Knows
  <2>2. msgs' = [msgs EXCEPT ![mine[c]].stored = TRUE] /\ mine'[c] = mine[c] /\ pc'[c] \in {"done", "stored"}
    BY <1>3, <1>12 DEF Store
  <2>3. msgs'[mine[c]].stored
    BY <1>1, <2>1, <2>2, StoredExtends, TypesApart
  <2>4. msgs'[mine[c]].role = "user" /\ mine[c] \in Ids'
    BY <1>1, <1>5, <2>1, IdsGrow
  <2>5. mine[c] \in Users'
    BY <2>3, <2>4 DEF Users
  <2> QED BY <2>2, <2>5 DEF Knows
<1>13. CASE StartLoop(c) \/ Queue(c)
  <2>1. pc[c] = "stored" /\ mine'[c] = mine[c] /\ pc'[c] \in {"waiting", "top"}
    BY <1>3, <1>13 DEF StartLoop, Queue, Register
  <2> QED BY <1>1, <1>5, <2>1 DEF Knows
<1>14. CASE Top(c)
  <2>1. pc[c] = "top" /\ mine'[c] = mine[c] /\ aborted' = aborted /\ mine[c] \in Users
    BY <1>1, <1>3, <1>14 DEF Top, Knows
  <2>2. PICK do \in IF c \in aborted THEN {"exit"} ELSE Decisions :
          IF do = "exit" THEN pc' = [pc EXCEPT ![c] = "exit"] ELSE pc' = [pc EXCEPT ![c] = "planned"]
    BY <1>14, Zenon DEF Top
  <2>3. CASE do # "exit"
    BY <1>3, <1>5, <2>1, <2>2, <2>3 DEF Knows
  <2>4. CASE do = "exit" /\ c \in aborted
    BY <1>3, <1>5, <2>1, <2>2, <2>4 DEF Knows
  <2>5. CASE do = "exit" /\ c \notin aborted
    <3>1. "exit" \in Decisions
      BY <2>2, <2>5
    <3>2. Tasks # {} => msgs[Min(Tasks)].content \in {"compaction", "subtask"}
      <4>1. Tasks \in SUBSET Nat
        BY <1>5 DEF Tasks
      <4> QED BY <4>1, MinIsIn DEF Tasks
    <3>3. Answered
      BY <3>1, <3>2 DEF Decisions
    <3>4. LastAssistant \in Assistants /\ mine[c] < LastAssistant
      BY <1>5, <1>6, <1>7, <2>1, <3>3 DEF Answered
    <3> QED BY <1>3, <1>5, <2>1, <2>2, <2>5, <3>4 DEF Knows
  <2> QED BY <2>3, <2>4, <2>5
<1>15. CASE RequestCompaction(c) \/ Answer(c) \/ Summarise(c) \/ EndTask(c)
  <2>1. pc[c] \in {"planned", "working"} /\ mine'[c] = mine[c] /\ pc'[c] = "top"
    BY <1>3, <1>15 DEF RequestCompaction, Answer, Summarise, EndTask, Goto
  <2> QED BY <1>1, <1>5, <2>1 DEF Knows
<1>16. CASE Begin(c)
  <2>1. pc[c] = "planned" /\ mine'[c] = mine[c] /\ pc'[c] = "working" /\ plan'[c].user = Len(msgs) + 1
    BY <1>3, <1>16 DEF Begin, Plans
  <2> DEFINE m == Message("assistant", Reply[plan[c].do], plan[c].user)
  <2>2. m.role = "assistant" /\ m.stored
    BY DEF Message
  <2>3. msgs' = Append(msgs, m)
    BY <1>16 DEF Begin
  <2> HIDE DEF m
  <2>4. msgs'[Len(msgs) + 1] = m /\ Len(msgs') = Len(msgs) + 1
    BY <1>1, <2>3, <1>5 DEF SessionTypeOK
  <2>5. Len(msgs) + 1 \in Assistants'
    BY <1>5, <2>2, <2>4 DEF Assistants
  <2>6. mine[c] \in Users /\ mine[c] <= Len(msgs)
    BY <1>1, <1>5, <2>1 DEF Knows, Users
  <2>7. Len(msgs) + 1 > mine[c]
    BY <1>5, <1>7, <2>6
  <2> QED BY <1>5, <2>1, <2>5, <2>6, <2>7 DEF Knows
<1>17. CASE Fail(c)
  <2>1. pc[c] = "working" /\ mine'[c] = mine[c] /\ pc'[c] = "exit"
    BY <1>3, <1>17 DEF Fail, Goto
  <2> QED BY <1>1, <1>5, <2>1 DEF Knows
<1>18. CASE Throw(c)
  <2>1. pc'[c] = "leaving" /\ outcome'[c].how = "failed"
    BY <1>3, <1>18 DEF Throw, Goto
  <2> QED BY <2>1 DEF Knows
<1>19. CASE Resolve(c)
  <2>1. pc[c] = "exit" /\ pc'[c] = "leaving" /\ mine'[c] = mine[c] /\ aborted' = aborted
    BY <1>3, <1>19 DEF Resolve
  <2>2. CASE Assistants = {}
    BY <1>19, <2>1, <2>2 DEF Resolve, Settle, Knows
  <2>3. CASE Assistants # {}
    <3>1. outcome'[c].answer = LastAssistant
      BY <1>19, <2>3 DEF Resolve, Settle
    <3>2. c \notin aborted => LastAssistant > mine[c]
      BY <1>1, <1>5, <1>6, <1>7, <2>1 DEF Knows
    <3> QED BY <2>1, <3>1, <3>2 DEF Knows
  <2> QED BY <2>2, <2>3
<1>20. CASE DeferredCancel(c)
  <2>1. pc'[c] = "done"
    BY <1>3, <1>20 DEF DeferredCancel, Unregister
  <2> QED BY <2>1 DEF Knows
<1>21. CASE ShellStart(c) \/ ShellSpawn(c)
  <2>1. pc'[c] \in {"shell", "command", "done"}
    BY <1>3, <1>21 DEF ShellStart, ShellSpawn, Register
  <2> QED BY <2>1 DEF Knows
<1>22. CASE ShellExit(c)
  <2>1. pc'[c] = "leaving" /\ outcome'[c].answer = mine[c] + 1 /\ mine'[c] = mine[c]
    BY <1>3, <1>22 DEF ShellExit, Settle
  <2> QED BY <1>7, <2>1 DEF Knows
<1> QED BY <1>11, <1>12, <1>13, <1>14, <1>15, <1>16, <1>17, <1>18, <1>19, <1>20, <1>21, <1>22

-----------------------------------------------------------------------------
(* The registry through each kind of step. *)

\* A loop or command goes from one of its phases to the next.
LEMMA MoveKeepsRegistry ==
  ASSUME SessionTypeOK, Registered, NEW c \in Callers, NEW p \in LoopPhases \cup ShellPhases,
         pc[c] \in LoopPhases \cup ShellPhases, pc[c] # "leaving",
         pc' = [pc EXCEPT ![c] = p], entry' = entry, aborted' = aborted,
         \A d \in Callers \ {c} : outcome'[d] = outcome[d],
         IF p = "leaving" THEN outcome'[c].how # "pending" ELSE outcome'[c] = outcome[c]
  PROVE  Registered'
<1> USE DEF Registered, NoEntry
<1>1. pc \in [Callers -> Phases] /\ pc'[c] = p /\ \A d \in Callers \ {c} : pc'[d] = pc[d]
  BY TypesApart
<1>2. "done" \notin LoopPhases \cup ShellPhases /\ "waiting" \notin LoopPhases \cup ShellPhases
  BY DEF LoopPhases, ShellPhases
<1>3. Running' = Running
  BY <1>1 DEF Running
<1>4. OneLiveLoop'
  BY <1>3 DEF OneLiveLoop
<1>5. WaitersAreHeld'
  BY <1>1, <1>2 DEF WaitersAreHeld
<1> QED BY <1>1, <1>2, <1>4, <1>5

\* cancel, by whoever calls it.
LEMMA UnregisterKeepsRegistry ==
  ASSUME SessionTypeOK, Registered, NEW S \in SUBSET Callers, \A c \in S : pc[c] = "leaving",
         Unregister(S)
  PROVE  Registered'
<1> USE DEF NoEntry
<1>1. /\ pc \in [Callers -> Phases] /\ outcome \in [Callers -> Outcomes]
      /\ entry' = NoEntry /\ entry \in Entries
  BY TypesApart DEF Unregister
<1>2. \A d \in Callers : pc'[d] = IF d \in WaitingNow \cup S THEN "done" ELSE pc[d]
  BY DEF Unregister
<1>3. \A d \in Callers : outcome'[d] = IF d \in WaitingNow THEN [how |-> "refused", answer |-> 0] ELSE outcome[d]
  BY DEF Unregister, Settle
<1>4. \A d \in WaitingNow : pc[d] = "waiting"
  BY DEF WaitingNow
<1>5. "done" \notin LoopPhases \cup ShellPhases /\ "waiting" \notin LoopPhases \cup ShellPhases
  BY DEF LoopPhases, ShellPhases
<1>6. Running' \subseteq Running
  BY <1>2, <1>5 DEF Running
<1>7. Running \ aborted' = {}
  BY DEF Registered, OneLiveLoop, Unregister
<1>8. OneLiveLoop'
  BY <1>1, <1>6, <1>7 DEF OneLiveLoop
<1>9. \A d \in Callers : pc'[d] # "waiting"
  <2> TAKE d \in Callers
  <2>1. pc[d] = "waiting" => d \in WaitingNow
    BY DEF Registered, WaitersAreHeld, WaitingNow
  <2> QED BY <1>2, <2>1
<1>10. \A d \in Callers : pc'[d] = "leaving" => outcome'[d].how # "pending"
  BY <1>2, <1>3 DEF Registered
<1>11. \A d \in Callers : pc'[d] = "done" <=> outcome'[d].how # "pending" /\ pc'[d] # "leaving"
  BY <1>2, <1>3, <1>4 DEF Registered, WaitersAreHeld
<1>12. WaitersAreHeld'
  BY <1>9, <1>11 DEF WaitersAreHeld
<1>13. \A d \in aborted' : pc'[d] \in LoopPhases \cup ShellPhases \cup {"done"}
  <2>1. \A d \in aborted' : d \in Callers /\ pc[d] \in LoopPhases \cup ShellPhases \cup {"done"}
    <3>1. CASE aborted' = aborted
      BY <3>1 DEF Registered, SessionTypeOK
    <3>2. CASE entry # NoEntry /\ aborted' = aborted \cup {entry.owner}
      <4>1. entry.owner \in Running
        BY <3>2 DEF Registered, OneLiveLoop
      <4> QED BY <3>2, <4>1 DEF Registered, SessionTypeOK, Running
    <3> QED BY <3>1, <3>2 DEF Unregister
  <2> QED BY <1>2, <2>1
<1> QED BY <1>1, <1>8, <1>10, <1>12, <1>13 DEF Registered

\* A call becomes the registered loop or command.
LEMMA RegisterKeepsRegistry ==
  ASSUME SessionTypeOK, Registered, NEW c \in Callers, pc[c] \in {"idle", "stored"},
         NEW p \in {"top", "shell"}, Register(c, p), outcome' = outcome, aborted' = aborted
  PROVE  Registered'
<1> USE DEF Registered, NoEntry, Register
<1>1. pc \in [Callers -> Phases] /\ pc'[c] = p /\ \A d \in Callers \ {c} : pc'[d] = pc[d]
  BY TypesApart
<1>2. p \in LoopPhases \cup ShellPhases /\ pc[c] \notin LoopPhases \cup ShellPhases \cup {"done", "waiting"}
  BY DEF LoopPhases, ShellPhases
<1>3. Running' = Running \cup {c} /\ c \notin aborted
  BY <1>1, <1>2 DEF Running
<1>4. entry'.owner = c /\ c # Nobody
  BY CallersAssumption
<1>5. OneLiveLoop'
  BY <1>3, <1>4 DEF OneLiveLoop
<1>6. \A d \in Callers : pc[d] # "waiting"
  BY DEF WaitersAreHeld
<1>7. WaitersAreHeld'
  BY <1>1, <1>2, <1>6 DEF WaitersAreHeld
<1> QED BY <1>1, <1>2, <1>4, <1>5, <1>7

\* A call that does not touch the registry comes nearer to it, or turns away.
LEMMA ApproachKeepsRegistry ==
  ASSUME SessionTypeOK, Registered, NEW c \in Callers, pc[c] \in {"idle", "creating"},
         NEW p \in {"creating", "stored", "done"},
         pc' = [pc EXCEPT ![c] = p], entry' = entry, aborted' = aborted,
         \A d \in Callers \ {c} : outcome'[d] = outcome[d],
         IF p = "done" THEN outcome'[c].how # "pending" ELSE outcome'[c] = outcome[c]
  PROVE  Registered'
<1> USE DEF Registered, NoEntry
<1>1. pc \in [Callers -> Phases] /\ pc'[c] = p /\ \A d \in Callers \ {c} : pc'[d] = pc[d]
  BY TypesApart
<1>2. p \notin LoopPhases \cup ShellPhases /\ pc[c] \notin LoopPhases \cup ShellPhases \cup {"done"}
  BY DEF LoopPhases, ShellPhases
<1>3. Running' = Running
  BY <1>1, <1>2 DEF Running
<1>4. OneLiveLoop'
  BY <1>3 DEF OneLiveLoop
<1>5. WaitersAreHeld'
  BY <1>1, <1>2 DEF WaitersAreHeld
<1> QED BY <1>1, <1>2, <1>4, <1>5

LEMMA StepRegistered ==
  ASSUME SessionInv, NEW c \in Callers, SessionStep(c)
  PROVE  Registered'
<1> USE DEF SessionStep, LoopStep
<1>1. SessionTypeOK /\ Registered
  BY DEF SessionInv
<1>2. /\ pc \in [Callers -> Phases] /\ outcome \in [Callers -> Outcomes] /\ entry \in Entries
      /\ "done" \notin LoopPhases \cup ShellPhases
      /\ {"top", "planned", "working", "exit", "leaving", "shell", "command"} \subseteq LoopPhases \cup ShellPhases
  BY <1>1, TypesApart DEF LoopPhases, ShellPhases
<1>3. CASE Create(c) \/ Store(c)
  BY <1>1, <1>2, <1>3, ApproachKeepsRegistry DEF Create, Store
<1>4. CASE StartLoop(c)
  BY <1>1, <1>4, RegisterKeepsRegistry DEF StartLoop
<1>5. CASE Queue(c)
  <2>1. entry' = [owner |-> entry.owner, queued |-> entry.queued \cup {c}] /\ entry # NoEntry
    BY <1>2, <1>5 DEF Queue, Entries
  <2>2. aborted' = aborted /\ outcome' = outcome /\ pc[c] = "stored" /\ pc' = [pc EXCEPT ![c] = "waiting"]
    BY <1>5 DEF Queue
  <2>3. pc'[c] = "waiting" /\ \A d \in Callers \ {c} : pc'[d] = pc[d]
    BY <1>2, <2>2
  <2>4. Running' = Running
    BY <2>2, <2>3 DEF Running, LoopPhases, ShellPhases
  <2>5. entry'.owner # Nobody /\ entry'.owner = entry.owner /\ entry' # NoEntry
    BY <1>1, <2>1 DEF Registered, NoEntry
  <2>6. OneLiveLoop'
    BY <1>1, <2>1, <2>2, <2>4, <2>5 DEF OneLiveLoop, Registered
  <2>7. WaitersAreHeld'
    BY <1>1, <2>1, <2>2, <2>3 DEF WaitersAreHeld, Registered
  <2>8. c \notin aborted
    BY <1>1, <2>2 DEF Registered, LoopPhases, ShellPhases
  <2> QED BY <1>1, <2>2, <2>3, <2>5, <2>6, <2>7, <2>8 DEF Registered, SessionTypeOK
<1>6. CASE Top(c)
  <2>1. pc' = [pc EXCEPT ![c] = "exit"] \/ pc' = [pc EXCEPT ![c] = "planned"]
    BY <1>6, Zenon DEF Top
  <2>2. pc[c] = "top" /\ entry' = entry /\ aborted' = aborted /\ outcome' = outcome
    BY <1>6 DEF Top
  <2> QED BY <1>1, <1>2, <2>1, <2>2, MoveKeepsRegistry
<1>7. CASE RequestCompaction(c) \/ Begin(c) \/ Answer(c) \/ Summarise(c) \/ EndTask(c) \/ Fail(c) \/ ShellSpawn(c)
  <2>1. \E p \in {"top", "working", "exit", "command"} : pc' = [pc EXCEPT ![c] = p]
    BY <1>7 DEF RequestCompaction, Begin, Answer, Summarise, EndTask, Fail, ShellSpawn, Goto
  <2>2. /\ pc[c] \in {"planned", "working", "shell"} /\ entry' = entry /\ aborted' = aborted
        /\ outcome' = outcome
    BY <1>7 DEF RequestCompaction, Begin, Answer, Summarise, EndTask, Fail, ShellSpawn, Goto
  <2> QED BY <1>1, <1>2, <2>1, <2>2, MoveKeepsRegistry
<1>8. CASE Throw(c) \/ ShellExit(c)
  <2>1. /\ pc[c] \in {"planned", "command"} /\ pc' = [pc EXCEPT ![c] = "leaving"]
        /\ entry' = entry /\ aborted' = aborted
    BY <1>8 DEF Throw, ShellExit, Goto
  <2>2. outcome'[c].how # "pending" /\ \A d \in Callers \ {c} : outcome'[d] = outcome[d]
    BY <1>2, <1>8 DEF Throw, ShellExit, Settle
  <2> QED BY <1>1, <1>2, <2>1, <2>2, MoveKeepsRegistry
<1>9. CASE Resolve(c)
  <2>1. pc[c] = "exit" /\ entry' = entry /\ aborted' = aborted
    BY <1>9 DEF Resolve
  <2>2. CASE Assistants = {}
    BY <1>1, <1>2, <1>9, <2>1, <2>2, MoveKeepsRegistry DEF Resolve, Settle
  <2>3. CASE Assistants # {}
    <3>1. \A d \in Callers : pc'[d] = IF d = c THEN "leaving" ELSE IF d \in WaitingNow THEN "done" ELSE pc[d]
      BY <1>9, <2>3 DEF Resolve
    <3>2. \A d \in Callers : IF d \in {c} \cup WaitingNow THEN outcome'[d].how = "answered" ELSE outcome'[d] = outcome[d]
      BY <1>9, <2>3 DEF Resolve, Settle
    <3>3. \A d \in WaitingNow : d \in entry.queued /\ pc[d] = "waiting" /\ d # c
      BY <2>1 DEF WaitingNow
    <3>4. Running' = Running
      BY <2>1, <3>1, <3>3 DEF Running, LoopPhases, ShellPhases
    <3>5. OneLiveLoop'
      BY <1>1, <2>1, <3>4 DEF OneLiveLoop, Registered, NoEntry
    <3>6. WaitersAreHeld'
      BY <1>1, <2>1, <3>1, <3>2, <3>3 DEF WaitersAreHeld, Registered
    <3>7. \A d \in aborted : pc'[d] \in LoopPhases \cup ShellPhases \cup {"done"}
      BY <1>1, <1>2, <3>1 DEF Registered, SessionTypeOK
    <3>8. \A d \in Callers : pc'[d] = "leaving" => outcome'[d].how # "pending"
      BY <1>1, <3>1, <3>2 DEF Registered
    <3> QED BY <1>1, <2>1, <3>5, <3>6, <3>7, <3>8 DEF Registered, NoEntry
  <2> QED BY <2>2, <2>3
<1>10. CASE DeferredCancel(c)
  BY <1>1, <1>10, UnregisterKeepsRegistry DEF DeferredCancel
<1>11. CASE ShellStart(c)
  <2>1. pc[c] = "idle" /\ aborted' = aborted
    BY <1>11 DEF ShellStart
  <2>2. CASE entry = NoEntry
    BY <1>1, <1>11, <2>1, <2>2, RegisterKeepsRegistry DEF ShellStart
  <2>3. CASE entry # NoEntry
    <3>1. pc' = [pc EXCEPT ![c] = "done"] /\ entry' = entry
      BY <1>11, <2>3 DEF ShellStart
    <3>2. outcome'[c].how # "pending" /\ \A d \in Callers \ {c} : outcome'[d] = outcome[d]
      <4>1. Settle({c}, "busy", 0)
        BY <1>11, <2>3 DEF ShellStart
      <4> QED BY <4>1 DEF Settle
    <3> QED BY <1>1, <2>1, <3>1, <3>2, ApproachKeepsRegistry
  <2> QED BY <2>2, <2>3
<1> QED BY <1>3, <1>4, <1>5, <1>6, <1>7, <1>8, <1>9, <1>10, <1>11

-----------------------------------------------------------------------------
(* The session through every step of the harness. *)

\* A client's cancel, or the instance's disposal.
LEMMA CancelKeepsSession ==
  ASSUME SessionInv, Cancel \/ Dispose
  PROVE  SessionInv'
<1>1. /\ entry # NoEntry /\ Unregister({}) /\ cancels' = cancels + 1
      /\ kind' = kind /\ msgs' = msgs /\ mine' = mine /\ plan' = plan
  BY DEF Cancel, Dispose
<1>2. /\ SessionTypeOK /\ Registered
      /\ pc \in [Callers -> Phases] /\ outcome \in [Callers -> Outcomes] /\ entry \in Entries
      /\ aborted \in SUBSET Callers /\ cancels \in Nat
  BY TypesApart DEF SessionInv
<1>3. Registered'
  BY <1>1, <1>2, UnregisterKeepsRegistry
<1>4. entry.owner \in Callers
  BY <1>1, <1>2 DEF Registered, Entries
<1>5. /\ pc' \in [Callers -> Phases] /\ outcome' \in [Callers -> Outcomes] /\ entry' \in Entries
      /\ aborted' \in SUBSET Callers /\ status' = "idle"
      /\ aborted \subseteq aborted'
  <2>1. pc' \in [Callers -> Phases]
    BY <1>1, <1>2 DEF Unregister, Phases
  <2>2. outcome' \in [Callers -> Outcomes]
    <3>1. [how |-> "refused", answer |-> 0] \in Outcomes
      BY DEF Outcomes
    <3> QED BY <1>1, <1>2, <3>1 DEF Unregister, Settle
  <2>3. entry' \in Entries
    BY <1>1 DEF Unregister, Entries, NoEntry
  <2> QED BY <1>1, <1>2, <1>4, <2>1, <2>2, <2>3 DEF Unregister
<1>6. SessionTypeOK'
  <2>1. /\ kind' \in [Callers -> CallKinds] /\ msgs' \in Seq(Messages) /\ mine' \in [Callers -> Nat]
        /\ plan' \in [Callers -> Plans] /\ status' \in {"idle", "busy"} /\ cancels' \in Nat
    BY <1>1, <1>2, <1>5, TypesApart
  <2> QED BY <1>5, <2>1 DEF SessionTypeOK, Messages, Plans, Outcomes, Entries
<1>7. ASSUME NEW d \in Callers PROVE Knows(d)'
  <2>1. pc'[d] = "done" \/ (pc'[d] = pc[d] /\ outcome'[d] = outcome[d])
    BY <1>1, <1>2 DEF Unregister, Settle
  <2>2. Extends(msgs, msgs')
    BY <1>1, <1>2, TypesApart DEF Extends
  <2>3. CASE pc'[d] = "done"
    BY <2>3 DEF Knows, Asking
  <2> QED BY <1>1, <1>2, <1>5, <1>6, <2>1, <2>2, <2>3, OthersKnow DEF SessionInv
<1> QED BY <1>3, <1>6, <1>7 DEF SessionInv

\* Steps of the harness alone.
LEMMA AsideKeepsSession ==
  ASSUME SessionInv, cancels' \in Nat,
         UNCHANGED <<kind, msgs, entry, aborted, pc, mine, plan, outcome, status>>
  PROVE  SessionInv'
<1>1. SessionTypeOK' /\ Registered'
  BY DEF SessionInv, SessionTypeOK, Registered, OneLiveLoop, WaitersAreHeld, Running
<1>2. \A c \in Callers : Knows(c)'
  BY DEF SessionInv, Knows, Users, Assistants, Ids
<1> QED BY <1>1, <1>2 DEF SessionInv

LEMMA NextKeepsSession ==
  ASSUME SessionInv, [Next]_vars
  PROVE  SessionInv'
<1>1. cancels \in Nat
  BY DEF SessionInv, SessionTypeOK
<1>2. ASSUME NEW c \in Callers, SessionStep(c) PROVE SessionInv'
  <2>1. SessionTypeOK'
    BY <1>2, StepType
  <2>2. Registered'
    BY <1>2, StepRegistered
  <2>3. \A d \in Callers : Knows(d)'
    BY <1>2, StepKnows
  <2> QED BY <2>1, <2>2, <2>3 DEF SessionInv
<1>3. CASE \E t \in Turns : TurnPrompt(t)
  BY <1>2, <1>3 DEF Turns, TurnPrompt, SessionStep
<1>4. CASE \E c \in Callers : Work(c)
  BY <1>2, <1>4 DEF Work, SessionStep
<1>5. CASE Direct
  BY <1>2, <1>5, CancelKeepsSession DEF Direct, SessionStep
<1>6. CASE TurnCancel
  <2>1. CASE Cancel
    BY <2>1, CancelKeepsSession
  <2>2. CASE ~Cancel
    BY <1>1, <1>6, <2>2, AsideKeepsSession DEF TurnCancel
  <2> QED BY <2>1, <2>2
<1>7. CASE CreateThread \/ (\E t \in Turns : TurnStart(t) \/ TurnLoad(t) \/ TurnLoaded(t) \/ TurnEnd(t))
  BY <1>1, <1>7, AsideKeepsSession DEF CreateThread, TurnStart, TurnLoad, TurnLoaded, TurnEnd, sessionVars
<1>8. CASE UNCHANGED vars
  BY <1>1, <1>8, AsideKeepsSession DEF vars, sessionVars
<1> QED BY <1>3, <1>4, <1>5, <1>6, <1>7, <1>8 DEF Next, TurnStep

LEMMA SessionInvHolds == Spec => []SessionInv
<1>1. Init => SessionInv
  BY SessionInvInit DEF Init
<1>2. SessionInv /\ [Next]_vars => SessionInv'
  BY NextKeepsSession
<1> QED BY <1>1, <1>2, PTL DEF Spec

\* The registry names the one loop that works on the session untold, and holds
\* everybody who waits for it (session/prompt.ts:232-264): for any number of
\* callers, prompts and cancellations.
THEOREM RegistryTellsTheTruth == Spec => []RegistryIsTrue
<1>1. SessionInv => RegistryIsTrue
  BY DEF SessionInv, Registered, RegistryIsTrue
<1> QED BY <1>1, SessionInvHolds, PTL

\* A loop nobody aborted answers its own caller with a message written after
\* the caller's (session/prompt.ts:293-302, 596-604).
THEOREM AnswersAreNewer == Spec => []OwnAnswerIsNewer
<1>1. SessionInv => OwnAnswerIsNewer
  BY DEF SessionInv, Knows, OwnAnswerIsNewer
<1> QED BY <1>1, SessionInvHolds, PTL

-----------------------------------------------------------------------------
(* The turns of a thread. *)

\* While a turn is under way the thread's record names it, unless a handler
\* that had to load the thread has replaced the record since.
TurnInv ==
  /\ kind \in [Callers -> CallKinds]
  /\ thread \in [known : BOOLEAN, stored : BOOLEAN, active : Callers \cup {Nobody}]
  /\ turn \in [Callers -> TurnStates] /\ replaced \in SUBSET Callers
  /\ thread.known => thread.stored
  /\ \A t \in Turns : turn[t] \in Active => thread.stored /\ (t \notin replaced => thread.active = t)

Threads == [known : BOOLEAN, stored : BOOLEAN, active : Callers \cup {Nobody}]

LEMMA ThreadRecord ==
  ASSUME NEW r \in Threads, NEW a \in Callers \cup {Nobody}
  PROVE  /\ [r EXCEPT !.active = a] \in Threads
         /\ [r EXCEPT !.active = a].active = a
         /\ [r EXCEPT !.active = a].stored = r.stored
         /\ [r EXCEPT !.active = a].known = r.known
<1>1. [r EXCEPT !.active = a] \in Threads
  BY Zenon DEF Threads
<1> QED BY <1>1 DEF Threads

LEMMA TurnsStay ==
  ASSUME [Next]_vars
  PROVE  kind' = kind
BY DEF Next, vars, sessionVars, CreateThread, TurnStep, TurnStart, TurnLoad, TurnLoaded, TurnPrompt, TurnEnd,
       TurnCancel, Direct, Work, Cancel, Dispose, LoopStep,
       Create, Store, StartLoop, Queue, Top, RequestCompaction, Begin, Answer,
       Summarise, EndTask, Fail, Throw, Resolve, DeferredCancel, ShellStart, ShellSpawn, ShellExit

\* The busy test against a record that is right about the turns under way.
LEMMA BusyOrStartKeeps ==
  ASSUME TurnInv, NEW t \in Turns, turn[t] \notin Active, NEW r \in Threads, r.stored, BusyOrStart(t, r),
         kind' = kind, replaced \subseteq replaced', replaced' \in SUBSET Callers,
         \A u \in Turns : turn[u] \in Active => thread.stored /\ (u \notin replaced' => r.active = u)
  PROVE  TurnInv'
<1>1. /\ t \in Callers /\ Turns' = Turns /\ turn \in [Callers -> TurnStates] /\ kind \in [Callers -> CallKinds]
  BY DEF Turns, TurnInv
<1>2. CASE r.active # Nobody
  <2>1. thread' = r /\ turn' = [turn EXCEPT ![t] = "busy"]
    BY <1>2 DEF BusyOrStart
  <2>2. turn' \in [Callers -> TurnStates]
    BY <1>1, <2>1 DEF TurnStates
  <2>3. \A u \in Turns : turn'[u] \in Active => thread'.stored /\ (u \notin replaced' => thread'.active = u)
    BY <1>1, <2>1 DEF Active
  <2> QED BY <1>1, <2>1, <2>2, <2>3 DEF TurnInv, Threads
<1>3. CASE r.active = Nobody
  <2>1. thread' = [r EXCEPT !.active = t] /\ turn' = [turn EXCEPT ![t] = "started"]
    BY <1>3 DEF BusyOrStart
  <2>2. thread' \in Threads /\ thread'.active = t /\ thread'.stored
    BY <1>1, <2>1, ThreadRecord
  <2>3. turn' \in [Callers -> TurnStates]
    BY <1>1, <2>1 DEF TurnStates
  <2>4. \A u \in Turns : turn'[u] \in Active => (u \notin replaced' => thread'.active = u)
    BY <1>1, <1>3, <2>1, <2>2, CallersAssumption DEF Turns
  <2> QED BY <1>1, <2>2, <2>3, <2>4 DEF TurnInv, Threads
<1> QED BY <1>2, <1>3

LEMMA NextKeepsTurns ==
  ASSUME TurnInv, [Next]_vars
  PROVE  TurnInv'
<1>1. kind' = kind /\ Turns' = Turns /\ \A t \in Turns : t \in Callers
  BY TurnsStay DEF Turns
<1>2. thread \in Threads /\ turn \in [Callers -> TurnStates] /\ replaced \in SUBSET Callers
  BY DEF TurnInv, Threads
<1>3. CASE CreateThread
  <2>1. /\ thread' = [known |-> TRUE, stored |-> TRUE, active |-> Nobody]
        /\ turn' = turn /\ replaced' = replaced /\ ~thread.stored
    BY <1>3 DEF CreateThread
  <2>2. \A t \in Turns : turn[t] \notin Active
    BY <2>1 DEF TurnInv
  <2> QED BY <1>1, <2>1, <2>2 DEF TurnInv
<1>4. ASSUME NEW t \in Turns, TurnStart(t) PROVE TurnInv'
  <2>1. turn[t] = "none" /\ thread.known /\ BusyOrStart(t, thread) /\ replaced' = replaced
    BY <1>4 DEF TurnStart
  <2>2. turn[t] \notin Active /\ thread.stored
    BY <2>1 DEF Active, TurnInv
  <2>3. \A u \in Turns : turn[u] \in Active => thread.stored /\ (u \notin replaced' => thread.active = u)
    BY <2>1 DEF TurnInv
  <2> QED BY <1>1, <1>2, <2>1, <2>2, <2>3, BusyOrStartKeeps
<1>5. ASSUME NEW t \in Turns, TurnLoad(t) PROVE TurnInv'
  BY <1>1, <1>2, <1>5 DEF TurnLoad, TurnInv, TurnStates, Active
<1>6. ASSUME NEW t \in Turns, TurnLoaded(t) PROVE TurnInv'
  <2>1. turn[t] = "loading"
    BY <1>6 DEF TurnLoaded
  <2>2. CASE thread.stored
    <3> DEFINE r == [known |-> TRUE, stored |-> TRUE, active |-> Nobody]
    <3>1. BusyOrStart(t, r) /\ replaced' = replaced \cup {u \in Turns : turn[u] \in Active}
      BY <1>6, <2>2 DEF TurnLoaded
    <3>2. r \in Threads /\ r.stored
      BY DEF Threads
    <3>3. turn[t] \notin Active
      BY <2>1 DEF Active
    <3>4. replaced' \in SUBSET Callers
      BY <1>1, <1>2, <3>1
    <3>5. \A u \in Turns : turn[u] \in Active => thread.stored /\ (u \notin replaced' => r.active = u)
      BY <2>2, <3>1
    <3> HIDE DEF r
    <3> QED BY <1>1, <3>1, <3>2, <3>3, <3>4, <3>5, BusyOrStartKeeps
  <2>3. CASE ~thread.stored
    <3>1. turn' = [turn EXCEPT ![t] = "notFound"] /\ thread' = thread /\ replaced' = replaced
      BY <1>6, <2>3 DEF TurnLoaded
    <3> QED BY <1>1, <1>2, <3>1 DEF TurnInv, TurnStates, Active
  <2> QED BY <2>2, <2>3
<1>7. ASSUME NEW t \in Turns, TurnPrompt(t) PROVE TurnInv'
  <2>1. turn[t] = "started" /\ turn' = [turn EXCEPT ![t] = "running"] /\ thread' = thread /\ replaced' = replaced
    BY <1>7 DEF TurnPrompt
  <2> QED BY <1>1, <1>2, <2>1 DEF TurnInv, TurnStates, Active
<1>8. ASSUME NEW t \in Turns, TurnEnd(t) PROVE TurnInv'
  <2>1. PICK s \in {"completed", "cancelled", "error"} : turn' = [turn EXCEPT ![t] = s]
    BY <1>8 DEF TurnEnd
  <2>2. replaced' = replaced /\ thread' = IF thread.active = t THEN [thread EXCEPT !.active = Nobody] ELSE thread
    BY <1>8 DEF TurnEnd
  <2>3. thread' \in Threads /\ thread'.stored = thread.stored /\ thread'.known = thread.known
    BY <1>2, <2>2, ThreadRecord
  <2>4. \A u \in Turns : turn'[u] \in Active => thread.stored /\ (u \notin replaced => thread'.active = u)
    <3> TAKE u \in Turns
    <3>1. CASE u = t
      BY <1>1, <1>2, <2>1, <3>1 DEF Active
    <3>2. CASE u # t
      BY <1>1, <1>2, <2>1, <2>2, <3>2 DEF TurnInv
    <3> QED BY <3>1, <3>2
  <2>5. turn' \in [Callers -> TurnStates]
    BY <1>2, <2>1 DEF TurnStates
  <2> QED BY <1>1, <1>2, <2>2, <2>3, <2>4, <2>5 DEF TurnInv, Threads
<1>9. CASE UNCHANGED <<thread, turn, replaced>>
  BY <1>1, <1>9 DEF TurnInv
<1> QED BY <1>3, <1>4, <1>5, <1>6, <1>7, <1>8, <1>9
      DEF Next, TurnStep, TurnCancel, Direct, Work, vars, harnessVars

\* Two turns of a thread are under way together only when a handler that had to
\* load the thread replaced its record meanwhile (harness/server.ts:166-179,
\* harness/thread-manager.ts:59-103).
THEOREM TurnsTakeTurns == Spec => []OneTurnUnlessReloaded
<1>1. Init => TurnInv
  <2>1. ASSUME Init PROVE kind \in [Callers -> CallKinds]
    BY <2>1, KindsAssumption DEF Init, SessionInit
  <2>2. ASSUME Init
        PROVE  /\ thread \in Threads /\ ~thread.known
               /\ turn \in [Callers -> TurnStates] /\ replaced = {}
               /\ \A t \in Callers : turn[t] \notin Active
    <3>1. PICK s \in BOOLEAN : thread = [known |-> FALSE, stored |-> s, active |-> Nobody]
      BY <2>2 DEF Init
    <3>2. thread \in Threads /\ ~thread.known
      BY <3>1 DEF Threads
    <3>3. turn = [c \in Callers |-> "none"] /\ replaced = {}
      BY <2>2 DEF Init
    <3> QED BY <3>2, <3>3 DEF TurnStates, Active
  <2> QED BY <2>1, <2>2 DEF TurnInv, Threads, Turns
<1>2. TurnInv /\ [Next]_vars => TurnInv'
  BY NextKeepsTurns
<1>3. SessionInv /\ TurnInv => OneTurnUnlessReloaded
  <2> SUFFICES ASSUME SessionInv, TurnInv PROVE OneTurnUnlessReloaded
    OBVIOUS
  <2>1. TypeOK
    BY DEF SessionInv, TurnInv, TypeOK
  <2>2. \A t, u \in Turns : t # u /\ {turn[t], turn[u]} \subseteq Active => {t, u} \cap replaced # {}
    BY DEF TurnInv
  <2> QED BY <2>1, <2>2 DEF OneTurnUnlessReloaded
<1> QED BY <1>1, <1>2, <1>3, SessionInvHolds, PTL DEF Spec

-----------------------------------------------------------------------------
(* The instances of a worktree. *)

InstanceRecord ==
  [dir: Dirs, does: {"looking", "moving", "moved", "setting up", "ready", "failed", "killed"},
   left: UNION {[S -> {"read", "write", "remove"}] : S \in SUBSET Stray}]
StateRecord == [subs: Nat, disposals: Nat]
UserRecord == [does: {"idle", "awaiting", "inside", "disposing", "over"}, in: Nat]

InstanceTypes ==
  /\ cache \in [Dirs -> Nat] /\ instances \in Seq(InstanceRecord)
  /\ states \in [Dirs -> Nat] /\ made \in Seq(StateRecord)
  /\ user \in [InstanceUsers -> UserRecord]
  /\ recorded \in BOOLEAN /\ records \in [Stray -> SUBSET {"global", "project"}]
  /\ \A d \in Dirs : cache[d] # None => cache[d] \in All /\ instances[cache[d]].dir = d

\* A directory's state is its own and not disposed of.
StatesApart ==
  /\ \A d \in Dirs : states[d] # None => states[d] \in Made /\ made[states[d]].disposals = 0
  /\ \A d, e \in Dirs : states[d] = states[e] /\ states[d] # None => d = e
  /\ \A i \in Made : made[i].disposals <= 1

\* But for the mishaps, the instance that is being made is the cached one, and
\* a state with a subscription belongs to a cached instance that is ready.
IsMade(n) == instances[n].does \in {"ready", "failed", "killed"}
Subscriptions ==
  mishaps \cap {"overlap", "failed"} = {} =>
    /\ \A n \in All, d \in Dirs : ~IsMade(n) /\ instances[n].dir = d => cache[d] = n /\ ~Disposing(d)
    /\ \A d \in Dirs : states[d] # None =>
         /\ made[states[d]].subs <= 1
         /\ made[states[d]].subs # 0 =>
              cache[d] # None /\ instances[cache[d]].does = "ready" /\ ~Disposing(d)

\* A session leaves where it was only when it is in the project, and whoever
\* looked for sessions to move has those that are still there on its list.
Moving ==
  /\ \A s \in Stray : records[s] # {} /\ ("project" \in records[s] => Moves(s))
  /\ \A n \in All : \A s \in DOMAIN Left(n) :
       /\ Left(n)[s] \in {"write", "remove"} => Moves(s)
       /\ Left(n)[s] = "remove" => "project" \in records[s]
  /\ \A n \in All : instances[n].does = "moved" => "unmoved" \in mishaps
  /\ "unmoved" \notin mishaps =>
       /\ \A n \in All : instances[n].does \notin {"looking", "killed"} =>
            \A s \in Stray : Moves(s) /\ "global" \in records[s] => s \in DOMAIN Left(n)
       /\ recorded => \A s \in Stray : Moves(s) => "global" \notin records[s]

InstInv == InstanceTypes /\ StatesApart /\ Subscriptions /\ Moving

\* project/instance.ts, state.ts: at first there are no instances and no states.
LEMMA InstInitial == InstancesInit => InstInv
<1> SUFFICES ASSUME InstancesInit PROVE InstInv
  OBVIOUS
<1>1. InstanceTypes
  <2>1. user \in [InstanceUsers -> UserRecord]
    BY DEF InstancesInit, UserRecord, None
  <2>2. records \in [Stray -> SUBSET {"global", "project"}]
    BY DEF InstancesInit
  <2>3. instances \in Seq(InstanceRecord) /\ made \in Seq(StateRecord)
    BY DEF InstancesInit
  <2>4. cache \in [Dirs -> Nat] /\ states \in [Dirs -> Nat] /\ \A d \in Dirs : cache[d] = None
    BY DEF InstancesInit, None
  <2>5. recorded \in BOOLEAN
    BY DEF InstancesInit
  <2> QED BY <2>1, <2>2, <2>3, <2>4, <2>5 DEF InstanceTypes
<1>2. All = {} /\ Made = {}
  BY DEF InstancesInit, All, Made
<1>3. \A d \in Dirs : states[d] = None
  BY DEF InstancesInit
<1>4. \A s \in Stray : records[s] = {"global"}
  BY DEF InstancesInit
<1>5. recorded = FALSE
  BY DEF InstancesInit
<1> QED BY <1>1, <1>2, <1>3, <1>4, <1>5 DEF InstInv, StatesApart, Subscriptions, Moving

\* What InstInv is for: the property follows from it.
LEMMA InstInvSuffices == InstInv => InstancesHold
<1> SUFFICES ASSUME InstInv PROVE InstancesHold
  OBVIOUS
<1>1. StatesAreLive
  BY DEF StatesAreLive, InstInv, StatesApart
<1>2. SubscribedOnce
  BY DEF SubscribedOnce, InstInv, Subscriptions
<1>3. SessionsSurvive
  <2>1. ASSUME NEW s \in Stray, recorded, "unmoved" \notin mishaps
        PROVE  Cardinality(records[s]) = 1
    <3>1. records[s] = {"global"} \/ records[s] = {"project"}
      BY <2>1 DEF InstInv, InstanceTypes, Moving, Moves
    <3> QED BY <3>1, FS_Singleton
  <2> QED BY <2>1 DEF SessionsSurvive, InstInv, Moving, Moves
<1> QED BY <1>1, <1>2, <1>3 DEF InstancesHold

\* instances' and its fields when one instance's phase or list changes.
LEMMA InstanceChanges ==
  ASSUME InstanceTypes, NEW n \in All, NEW r \in InstanceRecord, r.dir = instances[n].dir,
         instances' = [instances EXCEPT ![n] = r]
  PROVE  /\ instances' \in Seq(InstanceRecord) /\ All' = All
         /\ \A m \in All : instances'[m].dir = instances[m].dir
         /\ \A m \in All : m # n => instances'[m] = instances[m]
         /\ instances'[n] = r
BY DEF InstanceTypes, All

\* Records of instances stay records when a field changes.
LEMMA InstanceFields ==
  ASSUME NEW r \in InstanceRecord
  PROVE  /\ \A does \in {"looking", "moving", "moved", "setting up", "ready", "failed", "killed"} :
              [r EXCEPT !.does = does] \in InstanceRecord
         /\ \A S \in SUBSET Stray : \A left \in [S -> {"read", "write", "remove"}] :
              [r EXCEPT !.left = left] \in InstanceRecord
<1>1. ASSUME NEW S \in SUBSET Stray, NEW left \in [S -> {"read", "write", "remove"}]
      PROVE  [r EXCEPT !.left = left] \in InstanceRecord
  <2>1. left \in UNION {[T -> {"read", "write", "remove"}] : T \in SUBSET Stray}
    BY <1>1
  <2> QED BY <2>1 DEF InstanceRecord
<1>2. ASSUME NEW does \in {"looking", "moving", "moved", "setting up", "ready", "failed", "killed"}
      PROVE  [r EXCEPT !.does = does] \in InstanceRecord
  BY DEF InstanceRecord
<1> QED BY <1>1, <1>2

\* Using gives the directory a state of its own if it has none.
LEMMA UsingState ==
  ASSUME InstanceTypes, StatesApart, NEW d \in Dirs, NEW k \in Nat, Using(d, k)
  PROVE  /\ states' \in [Dirs -> Nat] /\ made' \in Seq(StateRecord) /\ StatesApart'
         /\ states'[d] # None
         /\ \A e \in Dirs : e # d =>
              states'[e] = states[e] /\ (states[e] # None => made'[states[e]] = made[states[e]])
         /\ made'[states'[d]].subs = IF states[d] # None THEN made[states[d]].subs + k ELSE k
<1>1. CASE states[d] # None
  <2>1. states' = states /\ made' = [made EXCEPT ![states[d]].subs = @ + k]
    BY <1>1 DEF Using, InstanceTypes
  <2>2. states[d] \in Made /\ made[states[d]] \in StateRecord
    BY <1>1 DEF StatesApart, Made, InstanceTypes
  <2>3. [made[states[d]] EXCEPT !.subs = @ + k] \in StateRecord
    BY <2>2 DEF StateRecord
  <2>4. made' \in Seq(StateRecord) /\ Len(made') = Len(made)
    BY <2>1, <2>2, <2>3 DEF InstanceTypes, Made
  <2>5. \A i \in Made : i # states[d] => made'[i] = made[i]
    BY <2>1 DEF Made, InstanceTypes
  <2>6. made'[states[d]].subs = made[states[d]].subs + k /\ made'[states[d]].disposals = made[states[d]].disposals
    BY <2>1, <2>2 DEF InstanceTypes, Made, StateRecord
  <2>7. StatesApart'
    BY <2>1, <2>2, <2>4, <2>5, <2>6 DEF StatesApart, Made
  <2> QED BY <1>1, <2>1, <2>2, <2>4, <2>5, <2>6, <2>7 DEF InstanceTypes, StatesApart
<1>2. CASE states[d] = None
  <2> DEFINE i == Len(made) + 1
             all == Append(made, [subs |-> 0, disposals |-> 0])
  <2>1. states' = [states EXCEPT ![d] = i] /\ made' = [all EXCEPT ![i].subs = @ + k]
    BY <1>2 DEF Using, InstanceTypes
  <2>2. i \in Nat /\ i # None /\ all \in Seq(StateRecord) /\ Len(all) = i /\ all[i] = [subs |-> 0, disposals |-> 0]
        /\ \A j \in Made : all[j] = made[j]
    BY DEF InstanceTypes, StateRecord, None, Made
  <2>3. made' \in Seq(StateRecord) /\ Len(made') = i /\ made'[i] = [subs |-> k, disposals |-> 0]
        /\ \A j \in Made : made'[j] = made[j]
    <3>1. [all[i] EXCEPT !.subs = @ + k] = [subs |-> k, disposals |-> 0]
      BY <2>2
    <3> HIDE DEF all
    <3>2. made' = [all EXCEPT ![i] = [subs |-> k, disposals |-> 0]]
      BY <2>1, <3>1
    <3>3. [subs |-> k, disposals |-> 0] \in StateRecord
      BY DEF StateRecord
    <3> QED BY <2>2, <3>2, <3>3 DEF Made, InstanceTypes
  <2>4. StatesApart'
    <3>1. \A e \in Dirs : states'[e] = IF e = d THEN i ELSE states[e]
      BY <2>1, <2>2 DEF InstanceTypes
    <3>2. Made' = Made \cup {i} /\ i \notin Made
      BY <2>2, <2>3 DEF Made, InstanceTypes
    <3> HIDE DEF i, all
    <3>3. \A e \in Dirs : states[e] # None => states[e] # i
      BY <3>2 DEF StatesApart
    <3>4. ASSUME NEW e \in Dirs, states'[e] # None
          PROVE  states'[e] \in Made' /\ made'[states'[e]].disposals = 0
      <4>1. CASE e = d
        BY <2>3, <3>1, <3>2, <4>1
      <4>2. CASE e # d
        BY <2>3, <3>1, <3>2, <3>4, <4>2 DEF StatesApart, InstanceTypes, StateRecord
      <4> QED BY <4>1, <4>2
    <3>5. ASSUME NEW e \in Dirs, NEW f \in Dirs, states'[e] = states'[f], states'[e] # None
          PROVE  e = f
      BY <3>1, <3>3, <3>5, <1>2 DEF StatesApart
    <3>6. ASSUME NEW j \in Made' PROVE made'[j].disposals <= 1
      BY <2>3, <3>2 DEF StatesApart
    <3> QED BY <3>4, <3>5, <3>6 DEF StatesApart
  <2> QED BY <1>2, <2>1, <2>2, <2>3, <2>4 DEF InstanceTypes, StatesApart
<1> QED BY <1>1, <1>2

\* The user's next place keeps the type of users.
LEMMA UserMoves ==
  ASSUME InstanceTypes, NEW u \in InstanceUsers, NEW what \in {"inside", "disposing", "over"},
         user' = Does(u, what)
  PROVE  /\ user' \in [InstanceUsers -> UserRecord] /\ user'[u].does = what
         /\ \A v \in InstanceUsers : v # u => user'[v] = user[v]
<1>1. user[u] \in UserRecord
  BY DEF InstanceTypes
<1>2. [user[u] EXCEPT !.does = what] \in UserRecord /\ [user[u] EXCEPT !.does = what].does = what
  BY <1>1 DEF UserRecord
<1>3. user' = [user EXCEPT ![u] = [user[u] EXCEPT !.does = what]]
  BY DEF Does, InstanceTypes
<1> QED BY <1>2, <1>3 DEF InstanceTypes

\* provide: an instance of the cache, or a new one.
LEMMA ProvideKeeps == ASSUME InstInv, NEW u \in InstanceUsers, Provide(u) PROVE InstInv'
<1> USE DEF InstInv
<1>0. DirOf[u] \in Dirs /\ user[u] \in UserRecord
  BY InstancesAssumption DEF InstanceTypes
<1>1. CASE cache[DirOf[u]] # None
  <2>1. user' = [user EXCEPT ![u] = [does |-> "awaiting", in |-> cache[DirOf[u]]]]
        /\ UNCHANGED <<cache, instances, mishaps, states, made, recordVars>>
    BY <1>1 DEF Provide
  <2>2. user' \in [InstanceUsers -> UserRecord]
    BY <1>0, <2>1 DEF InstanceTypes, UserRecord
  <2>3. \A d \in Dirs : Disposing(d)' => Disposing(d)
    BY <2>1 DEF Disposing, InstanceTypes
  <2>4. InstanceTypes'
    BY <2>1, <2>2 DEF recordVars, InstanceTypes, All
  <2>5. StatesApart'
    BY <2>1 DEF StatesApart, Made
  <2>6. Subscriptions'
    BY <2>1, <2>3 DEF Subscriptions, All, IsMade
  <2>7. Moving'
    BY <2>1 DEF Moving, recordVars, All, Left
  <2> QED BY <2>4, <2>5, <2>6, <2>7
<1>2. CASE cache[DirOf[u]] = None
  <2>0. PICK n, r : n = Len(instances) + 1 /\ r = [dir |-> DirOf[u], does |-> "looking", left |-> [s \in {} |-> "read"]]
    OBVIOUS
  <2>1. /\ instances' = Append(instances, r) /\ cache' = [cache EXCEPT ![DirOf[u]] = n]
        /\ user' = [user EXCEPT ![u] = [does |-> "awaiting", in |-> n]]
        /\ mishaps' = IF Disposing(DirOf[u]) THEN mishaps \cup {"overlap"} ELSE mishaps
        /\ UNCHANGED <<states, made, recordVars>>
    BY <1>2, <2>0 DEF Provide
  <2>2. r \in InstanceRecord
    <3>1. [s \in {} |-> "read"] \in [{} -> {"read", "write", "remove"}]
      OBVIOUS
    <3>2. [s \in {} |-> "read"] \in UNION {[S -> {"read", "write", "remove"}] : S \in SUBSET Stray}
      BY <3>1
    <3> QED BY <1>0, <2>0, <3>2 DEF InstanceRecord
  <2>3. n \in Nat /\ n # None /\ n \notin All
    BY <2>0 DEF InstanceTypes, All, None
  <2>4. instances' \in Seq(InstanceRecord) /\ All' = All \cup {n} /\ instances'[n] = r
        /\ \A m \in All : instances'[m] = instances[m]
    BY <2>0, <2>1, <2>2 DEF InstanceTypes, All
  <2>5. user' \in [InstanceUsers -> UserRecord] /\ \A d \in Dirs : Disposing(d)' => Disposing(d)
    BY <1>0, <2>1, <2>3 DEF InstanceTypes, UserRecord, Disposing
  <2>6. \A d \in Dirs : cache'[d] = IF d = DirOf[u] THEN n ELSE cache[d]
    BY <2>1 DEF InstanceTypes
  <2>7. InstanceTypes'
    <3>1. cache' \in [Dirs -> Nat]
      BY <2>1, <2>3 DEF InstanceTypes
    <3>2. ASSUME NEW d \in Dirs, cache'[d] # None PROVE cache'[d] \in All' /\ instances'[cache'[d]].dir = d
      <4>1. CASE d = DirOf[u]
        BY <2>0, <2>4, <2>6, <4>1
      <4>2. CASE d # DirOf[u]
        BY <2>4, <2>6, <3>2, <4>2 DEF InstanceTypes
      <4> QED BY <4>1, <4>2
    <3>3. /\ states' \in [Dirs -> Nat] /\ made' \in Seq(StateRecord)
          /\ recorded' \in BOOLEAN /\ records' \in [Stray -> SUBSET {"global", "project"}]
      BY <2>1 DEF InstanceTypes, recordVars
    <3> QED BY <2>4, <2>5, <3>1, <3>2, <3>3 DEF InstanceTypes
  <2>8. StatesApart'
    BY <2>1 DEF StatesApart, Made
  <2>9. Subscriptions'
    <3> SUFFICES ASSUME mishaps' \cap {"overlap", "failed"} = {}
                 PROVE  /\ \A m \in All', d \in Dirs : ~IsMade(m)' /\ instances'[m].dir = d => cache'[d] = m /\ ~Disposing(d)'
                        /\ \A d \in Dirs : states'[d] # None =>
                             /\ made'[states'[d]].subs <= 1
                             /\ made'[states'[d]].subs # 0 =>
                                  cache'[d] # None /\ instances'[cache'[d]].does = "ready" /\ ~Disposing(d)'
      BY DEF Subscriptions
    <3>1. mishaps \cap {"overlap", "failed"} = {} /\ ~Disposing(DirOf[u])
      BY <2>1
    <3>2. ASSUME NEW m \in All', NEW d \in Dirs, ~IsMade(m)', instances'[m].dir = d
          PROVE  cache'[d] = m /\ ~Disposing(d)'
      <4>1. CASE m = n
        BY <2>0, <2>4, <2>5, <2>6, <3>1, <3>2, <4>1
      <4>2. CASE m \in All
        <5>1. ~IsMade(m) /\ instances[m].dir = d
          BY <2>4, <3>2, <4>2 DEF IsMade
        <5>2. cache[d] = m /\ ~Disposing(d)
          BY <3>1, <4>2, <5>1 DEF Subscriptions
        <5>3. m # None
          BY <4>2 DEF All, None
        <5> QED BY <1>2, <2>5, <2>6, <5>2, <5>3
      <4> QED BY <2>4, <4>1, <4>2
    <3>3. ASSUME NEW d \in Dirs, states'[d] # None
          PROVE  /\ made'[states'[d]].subs <= 1
                 /\ made'[states'[d]].subs # 0 =>
                      cache'[d] # None /\ instances'[cache'[d]].does = "ready" /\ ~Disposing(d)'
      <4>1. states' = states /\ made' = made
        BY <2>1
      <4>2. cache[d] # None => cache[d] \in All
        BY DEF InstanceTypes
      <4> QED BY <1>2, <2>4, <2>5, <2>6, <3>1, <3>3, <4>1, <4>2 DEF Subscriptions
    <3> QED BY <3>2, <3>3
  <2>10. Moving'
    <3>1. records' = records /\ recorded' = recorded /\ ("unmoved" \in mishaps' <=> "unmoved" \in mishaps)
      BY <2>1 DEF recordVars
    <3>2. DOMAIN Left(n)' = {} /\ instances'[n].does = "looking"
      BY <2>0, <2>4 DEF Left
    <3>3. \A m \in All : Left(m)' = Left(m) /\ instances'[m].does = instances[m].does
      BY <2>4 DEF Left
    <3> QED BY <2>4, <3>1, <3>2, <3>3 DEF Moving
  <2> QED BY <2>7, <2>8, <2>9, <2>10
<1> QED BY <1>1, <1>2

\* Steps of one instance on its way: nothing but its record, and the records of
\* project and sessions, changes; it does not begin again or stop being ready.
LEMMA OneInstanceKeeps ==
  ASSUME InstInv, NEW n \in All, NEW r \in InstanceRecord, r.dir = instances[n].dir,
         instances' = [instances EXCEPT ![n] = r],
         r.does \notin {"ready", "failed", "killed"} => ~IsMade(n),
         instances[n].does = "ready" => r.does = "ready",
         UNCHANGED <<cache, states, made, user>>, mishaps' \in {mishaps, mishaps \cup {"unmoved"}},
         recorded' \in BOOLEAN, records' \in [Stray -> SUBSET {"global", "project"}]
  PROVE  InstanceTypes' /\ StatesApart' /\ Subscriptions'
<1> USE DEF InstInv
<1>1. /\ instances' \in Seq(InstanceRecord) /\ All' = All
      /\ \A m \in All : instances'[m].dir = instances[m].dir
      /\ \A m \in All : m # n => instances'[m] = instances[m]
      /\ instances'[n] = r
  BY InstanceChanges
<1>2. InstanceTypes'
  BY <1>1 DEF InstanceTypes
<1>3. StatesApart'
  BY DEF StatesApart, Made
<1>4. \A d \in Dirs : Disposing(d)' <=> Disposing(d)
  BY DEF Disposing
<1>5. Subscriptions'
  <2>1. \A m \in All : ~IsMade(m)' => ~IsMade(m)
    BY <1>1 DEF IsMade
  <2>2. \A m \in All : instances[m].does = "ready" => instances'[m].does = "ready"
    BY <1>1
  <2>3. \A d \in Dirs : cache[d] # None => cache[d] \in All
    BY DEF InstanceTypes
  <2>4. mishaps' \cap {"overlap", "failed"} = {} => mishaps \cap {"overlap", "failed"} = {}
    OBVIOUS
  <2> QED BY <1>1, <1>4, <2>1, <2>2, <2>3, <2>4 DEF Subscriptions
<1> QED BY <1>2, <1>3, <1>5

\* What Moving asks of an instance's next record and the next records of the
\* sessions.
ListFits(r) ==
  /\ \A x \in Stray : records'[x] # {} /\ ("project" \in records'[x] => Moves(x))
  /\ \A x \in Stray : "global" \in records'[x] => "global" \in records[x]
  /\ \A x \in Stray : "project" \in records[x] => "project" \in records'[x]
  /\ \A x \in DOMAIN r.left :
       /\ r.left[x] \in {"write", "remove"} => Moves(x)
       /\ r.left[x] = "remove" => "project" \in records'[x]
  /\ r.does = "moved" => "unmoved" \in mishaps'
  /\ "unmoved" \notin mishaps' /\ r.does \notin {"looking", "killed"} =>
       \A x \in Stray : Moves(x) /\ "global" \in records'[x] => x \in DOMAIN r.left
  /\ "unmoved" \notin mishaps' /\ recorded' => \A x \in Stray : Moves(x) => "global" \notin records'[x]

\* Moving is about the list of one instance and the records.
LEMMA OneListKeeps ==
  ASSUME InstInv, NEW n \in All, NEW r \in InstanceRecord, r.dir = instances[n].dir,
         instances' = [instances EXCEPT ![n] = r],
         mishaps' \in {mishaps, mishaps \cup {"unmoved"}},
         ListFits(r)
  PROVE  Moving'
<1> USE DEF ListFits
<1>1. /\ instances' \in Seq(InstanceRecord) /\ All' = All
      /\ \A m \in All : m # n => instances'[m] = instances[m]
      /\ instances'[n] = r
  BY InstanceChanges DEF InstInv
<1>2. \A m \in All : Left(m)' = IF m = n THEN r.left ELSE Left(m)
  BY <1>1 DEF Left
<1>3. \A m \in All : \A s \in DOMAIN Left(m) : s \in Stray
  <2>1. \A r1 \in InstanceRecord : DOMAIN r1.left \subseteq Stray
    BY DEF InstanceRecord
  <2>2. \A m \in All : instances[m] \in InstanceRecord
    BY DEF InstInv, InstanceTypes, All
  <2> QED BY <2>1, <2>2 DEF Left
<1>4. \A s \in DOMAIN r.left : s \in Stray
  BY DEF InstanceRecord
<1>5. \A m \in All' : \A s \in DOMAIN Left(m)' :
        /\ Left(m)'[s] \in {"write", "remove"} => Moves(s)
        /\ Left(m)'[s] = "remove" => "project" \in records'[s]
  BY <1>1, <1>2, <1>3, <1>4 DEF InstInv, Moving
<1>6. \A m \in All' : instances'[m].does = "moved" => "unmoved" \in mishaps'
  BY <1>1 DEF InstInv, Moving
<1>7. ASSUME "unmoved" \notin mishaps', NEW m \in All', instances'[m].does \notin {"looking", "killed"},
             NEW s \in Stray, Moves(s), "global" \in records'[s]
      PROVE  s \in DOMAIN Left(m)'
  BY <1>1, <1>2, <1>7 DEF InstInv, Moving
<1> QED BY <1>5, <1>6, <1>7 DEF Moving, Moves

\* The list of an instance is of sessions still to be read, written, removed.
LEMMA ListsOfRecords ==
  ASSUME NEW r \in InstanceRecord
  PROVE  DOMAIN r.left \subseteq Stray /\ r.left \in [DOMAIN r.left -> {"read", "write", "remove"}]
<1>1. PICK S \in SUBSET Stray : r.left \in [S -> {"read", "write", "remove"}]
  BY DEF InstanceRecord
<1> QED BY <1>1

\* What an instance does on its way to being ready, but for the set-up.
Preparing(n) ==
  \/ Look(n) \/ RecordProject(n)
  \/ \E s \in Stray : ReadSession(n, s) \/ WriteSession(n, s) \/ WriteFails(n, s) \/ RemoveSession(n, s)

\* project.ts fromDirectory and its migration of sessions.
LEMMA PreparingKeeps == ASSUME InstInv, NEW n \in All, Preparing(n) PROVE InstInv'
<1>0. instances[n] \in InstanceRecord /\ Left(n) = instances[n].left
  BY DEF InstInv, InstanceTypes, All, Left
<1>1. DOMAIN Left(n) \subseteq Stray /\ \A s \in DOMAIN Left(n) : Left(n)[s] \in {"read", "write", "remove"}
  BY <1>0, ListsOfRecords
<1>2. \A s \in Stray : records[s] # {} /\ ("project" \in records[s] => Moves(s))
  BY DEF InstInv, Moving
<1>3. \A s \in DOMAIN Left(n) :
        /\ Left(n)[s] \in {"write", "remove"} => Moves(s)
        /\ Left(n)[s] = "remove" => "project" \in records[s]
  BY DEF InstInv, Moving
<1>4. "unmoved" \notin mishaps =>
        /\ instances[n].does \notin {"looking", "killed"} =>
             \A s \in Stray : Moves(s) /\ "global" \in records[s] => s \in DOMAIN Left(n)
        /\ recorded => \A s \in Stray : Moves(s) => "global" \notin records[s]
  BY DEF InstInv, Moving
<1>5. recorded \in BOOLEAN /\ records \in [Stray -> SUBSET {"global", "project"}]
  BY DEF InstInv, InstanceTypes
<1>6. instances[n].does = "moved" => "unmoved" \in mishaps
  BY DEF InstInv, Moving
<1>7. CASE Look(n)
  <2>1. PICK left : left = [s \in {t \in Stray : ~recorded /\ "global" \in records[t]} |-> "read"]
    OBVIOUS
  <2>2. PICK r : r = [[instances[n] EXCEPT !.does = "moving"] EXCEPT !.left = left]
    OBVIOUS
  <2>3. instances' = [instances EXCEPT ![n] = r] /\ instances[n].does = "looking"
    BY <1>7, <2>1, <2>2, <1>0 DEF Look, Doing
  <2>4. left \in [{t \in Stray : ~recorded /\ "global" \in records[t]} -> {"read", "write", "remove"}]
    BY <2>1
  <2>5. r \in InstanceRecord
    BY <1>0, <2>2, <2>4, InstanceFields
  <2>6. r.dir = instances[n].dir /\ r.does = "moving" /\ r.left = left
    BY <1>0, <2>2 DEF InstanceRecord
  <2>7. UNCHANGED <<cache, states, made, user, mishaps, recorded, records>>
    BY <1>7 DEF Look, recordVars
  <2>8. \A s \in DOMAIN r.left : r.left[s] = "read"
    BY <2>1, <2>6
  <2>9. \A s \in Stray : s \in DOMAIN r.left <=> ~recorded /\ "global" \in records[s]
    BY <2>1, <2>6
  <2>10. Moving'
    BY <1>2, <1>4, <1>5, <2>3, <2>5, <2>6, <2>7, <2>8, <2>9, OneListKeeps DEF ListFits
  <2>11. InstanceTypes' /\ StatesApart' /\ Subscriptions'
    BY <1>5, <2>3, <2>5, <2>6, <2>7, OneInstanceKeeps DEF IsMade
  <2> QED BY <2>10, <2>11 DEF InstInv
<1>8. CASE RecordProject(n)
  <2>1. PICK r : r = [instances[n] EXCEPT !.does = "setting up"]
    OBVIOUS
  <2>2. instances' = [instances EXCEPT ![n] = r] /\ recorded' = TRUE
        /\ UNCHANGED <<cache, states, made, user, mishaps, records>>
    BY <1>0, <1>8, <2>1 DEF RecordProject, Now
  <2>3. r \in InstanceRecord /\ r.dir = instances[n].dir /\ r.does = "setting up" /\ r.left = Left(n)
    <3>1. r \in InstanceRecord
      BY <1>0, <2>1, InstanceFields
    <3>2. r.dir = instances[n].dir /\ r.does = "setting up" /\ r.left = instances[n].left
      BY <1>0, <2>1 DEF InstanceRecord
    <3> QED BY <1>0, <3>1, <3>2
  <2>4. instances[n].does = "moved" \/ (instances[n].does = "moving" /\ DOMAIN Left(n) = {})
    BY <1>8 DEF RecordProject, Doing
  <2>5. "unmoved" \notin mishaps => \A s \in Stray : Moves(s) => "global" \notin records[s]
    BY <1>4, <1>6, <2>4
  <2>6. Moving'
    BY <1>2, <1>3, <1>4, <1>5, <2>2, <2>3, <2>5, OneListKeeps DEF ListFits
  <2>7. InstanceTypes' /\ StatesApart' /\ Subscriptions'
    BY <1>5, <2>2, <2>3, <2>4, OneInstanceKeeps DEF IsMade
  <2> QED BY <2>6, <2>7 DEF InstInv
<1>9. ASSUME NEW s \in Stray, ReadSession(n, s) PROVE InstInv'
  <2>1. instances[n].does # "killed" /\ s \in DOMAIN Left(n) /\ Left(n)[s] = "read"
        /\ UNCHANGED <<cache, states, made, user, mishaps, recorded, records>>
    BY <1>9 DEF ReadSession, AtTask, recordVars
  <2>2. PICK left : /\ left = IF "global" \in records[s] /\ Moves(s) THEN [Left(n) EXCEPT ![s] = "write"]
                             ELSE Without(Left(n), s)
                    /\ Sets(n, left)
    BY <1>9 DEF ReadSession
  <2>3. PICK r : r = [instances[n] EXCEPT !.left = left]
    OBVIOUS
  <2>4. instances' = [instances EXCEPT ![n] = r]
    BY <1>0, <2>2, <2>3 DEF Sets
  <2>5. DOMAIN left \subseteq Stray /\ left \in [DOMAIN left -> {"read", "write", "remove"}]
        /\ (\A t \in DOMAIN left : left[t] = Left(n)[t] \/ (left[t] = "write" /\ Moves(t)))
        /\ (\A t \in DOMAIN Left(n) : t \in DOMAIN left \/ ~("global" \in records[t] /\ Moves(t)))
        /\ DOMAIN left \subseteq DOMAIN Left(n)
    BY <1>0, <1>1, <2>2 DEF Without, InstanceRecord
  <2>6. r \in InstanceRecord
    BY <1>0, <2>3, <2>5, InstanceFields
  <2>7. r.dir = instances[n].dir /\ r.does = instances[n].does /\ r.left = left
    BY <1>0, <2>3 DEF InstanceRecord
  <2>8. Moving'
    BY <1>2, <1>3, <1>4, <1>5, <1>6, <2>1, <2>4, <2>5, <2>6, <2>7, OneListKeeps DEF ListFits
  <2>9. InstanceTypes' /\ StatesApart' /\ Subscriptions'
    BY <1>5, <2>1, <2>4, <2>6, <2>7, OneInstanceKeeps DEF IsMade
  <2> QED BY <2>8, <2>9 DEF InstInv
<1>10. ASSUME NEW s \in Stray, WriteSession(n, s) PROVE InstInv'
  <2>1. instances[n].does # "killed" /\ s \in DOMAIN Left(n) /\ Left(n)[s] = "write"
        /\ UNCHANGED <<cache, states, made, user, mishaps, recorded>>
    BY <1>10 DEF WriteSession, AtTask
  <2>2. PICK left : left = [Left(n) EXCEPT ![s] = "remove"] /\ Sets(n, left)
    BY <1>10 DEF WriteSession
  <2>3. PICK r : r = [instances[n] EXCEPT !.left = left]
    OBVIOUS
  <2>4. instances' = [instances EXCEPT ![n] = r]
    BY <1>0, <2>2, <2>3 DEF Sets
  <2>5. DOMAIN left = DOMAIN Left(n) /\ left \in [DOMAIN left -> {"read", "write", "remove"}]
        /\ left[s] = "remove" /\ \A t \in DOMAIN left : t # s => left[t] = Left(n)[t]
    BY <1>0, <1>1, <2>2, <2>1 DEF InstanceRecord
  <2>6. r \in InstanceRecord
    BY <1>0, <1>1, <2>3, <2>5, InstanceFields
  <2>7. r.dir = instances[n].dir /\ r.does = instances[n].does /\ r.left = left
    BY <1>0, <2>3 DEF InstanceRecord
  <2>8. records' \in [Stray -> SUBSET {"global", "project"}]
        /\ \A t \in Stray : records'[t] = IF t = s THEN records[t] \cup {"project"} ELSE records[t]
    BY <1>5, <1>10 DEF WriteSession
  <2>9. Moves(s)
    BY <1>3, <2>1
  <2>10. Moving'
    <3>1. \A t \in Stray : records'[t] # {} /\ ("project" \in records'[t] => Moves(t))
      BY <1>2, <2>8, <2>9
    <3>2. \A t \in Stray : ("global" \in records'[t] => "global" \in records[t])
                          /\ ("project" \in records[t] => "project" \in records'[t])
      BY <2>8
    <3>3. \A t \in DOMAIN r.left :
            /\ r.left[t] \in {"write", "remove"} => Moves(t)
            /\ r.left[t] = "remove" => "project" \in records'[t]
      BY <1>1, <1>3, <2>5, <2>7, <2>8, <2>9
    <3>4. "unmoved" \notin mishaps' /\ r.does \notin {"looking", "killed"} =>
            \A t \in Stray : Moves(t) /\ "global" \in records'[t] => t \in DOMAIN r.left
      BY <1>4, <2>1, <2>5, <2>7, <2>8
    <3>5. "unmoved" \notin mishaps' /\ recorded' => \A t \in Stray : Moves(t) => "global" \notin records'[t]
      BY <1>4, <2>1, <3>2
    <3>6. r.does = "moved" => "unmoved" \in mishaps'
      BY <1>6, <2>1, <2>7
    <3>7. mishaps' \in {mishaps, mishaps \cup {"unmoved"}}
      BY <2>1
    <3>8. ListFits(r)
      BY <3>1, <3>2, <3>3, <3>4, <3>5, <3>6 DEF ListFits
    <3> QED BY <2>4, <2>6, <2>7, <3>7, <3>8, OneListKeeps
  <2>11. InstanceTypes' /\ StatesApart' /\ Subscriptions'
    BY <1>5, <2>1, <2>4, <2>6, <2>7, <2>8, OneInstanceKeeps DEF IsMade
  <2> QED BY <2>10, <2>11 DEF InstInv
<1>11. ASSUME NEW s \in Stray, RemoveSession(n, s) PROVE InstInv'
  <2>1. instances[n].does # "killed" /\ s \in DOMAIN Left(n) /\ Left(n)[s] = "remove"
        /\ UNCHANGED <<cache, states, made, user, mishaps, recorded>>
    BY <1>11 DEF RemoveSession, AtTask
  <2>2. PICK left : left = Without(Left(n), s) /\ Sets(n, left)
    BY <1>11 DEF RemoveSession
  <2>3. PICK r : r = [instances[n] EXCEPT !.left = left]
    OBVIOUS
  <2>4. instances' = [instances EXCEPT ![n] = r]
    BY <1>0, <2>2, <2>3 DEF Sets
  <2>5. DOMAIN left = DOMAIN Left(n) \ {s} /\ left \in [DOMAIN left -> {"read", "write", "remove"}]
        /\ \A t \in DOMAIN left : left[t] = Left(n)[t]
    BY <1>1, <2>2 DEF Without
  <2>6. r \in InstanceRecord
    BY <1>0, <1>1, <2>3, <2>5, InstanceFields
  <2>7. r.dir = instances[n].dir /\ r.does = instances[n].does /\ r.left = left
    BY <1>0, <2>3 DEF InstanceRecord
  <2>8. records' \in [Stray -> SUBSET {"global", "project"}]
        /\ \A t \in Stray : records'[t] = IF t = s THEN records[t] \ {"global"} ELSE records[t]
    BY <1>5, <1>11 DEF RemoveSession
  <2>9. "project" \in records[s]
    BY <1>3, <2>1
  <2>10. Moving'
    <3>1. \A t \in Stray : records'[t] # {} /\ ("project" \in records'[t] => Moves(t))
      BY <1>2, <2>8, <2>9
    <3>2. \A t \in Stray : ("global" \in records'[t] => "global" \in records[t])
                          /\ ("project" \in records[t] => "project" \in records'[t])
      BY <2>8
    <3>3. \A t \in DOMAIN r.left :
            /\ r.left[t] \in {"write", "remove"} => Moves(t)
            /\ r.left[t] = "remove" => "project" \in records'[t]
      BY <1>1, <1>3, <2>5, <2>7, <2>8, <2>9
    <3>4. "unmoved" \notin mishaps' /\ r.does \notin {"looking", "killed"} =>
            \A t \in Stray : Moves(t) /\ "global" \in records'[t] => t \in DOMAIN r.left
      BY <1>4, <2>1, <2>5, <2>7, <2>8
    <3>5. "unmoved" \notin mishaps' /\ recorded' => \A t \in Stray : Moves(t) => "global" \notin records'[t]
      BY <1>4, <2>1, <3>2
    <3>6. r.does = "moved" => "unmoved" \in mishaps'
      BY <1>6, <2>1, <2>7
    <3>7. mishaps' \in {mishaps, mishaps \cup {"unmoved"}}
      BY <2>1
    <3>8. ListFits(r)
      BY <3>1, <3>2, <3>3, <3>4, <3>5, <3>6 DEF ListFits
    <3> QED BY <2>4, <2>6, <2>7, <3>7, <3>8, OneListKeeps
  <2>11. InstanceTypes' /\ StatesApart' /\ Subscriptions'
    BY <1>5, <2>1, <2>4, <2>6, <2>7, <2>8, OneInstanceKeeps DEF IsMade
  <2> QED BY <2>10, <2>11 DEF InstInv
<1>12. ASSUME NEW s \in Stray, WriteFails(n, s) PROVE InstInv'
  <2>1. /\ instances[n].does # "killed" /\ s \in DOMAIN Left(n) /\ mishaps' = mishaps \cup {"unmoved"}
        /\ UNCHANGED <<cache, states, made, user, recorded, records>>
    BY <1>12 DEF WriteFails, AtTask, recordVars
  <2>2. PICK left, does : left = Without(Left(n), s)
                          /\ does = IF instances[n].does = "moving" THEN "moved" ELSE instances[n].does
    OBVIOUS
  <2>3. PICK r : r = [[instances[n] EXCEPT !.left = left] EXCEPT !.does = does]
    OBVIOUS
  <2>4. instances' = [instances EXCEPT ![n] = r]
    BY <1>0, <1>12, <2>2, <2>3 DEF WriteFails
  <2>5. DOMAIN left = DOMAIN Left(n) \ {s} /\ left \in [DOMAIN left -> {"read", "write", "remove"}]
        /\ \A t \in DOMAIN left : left[t] = Left(n)[t]
    BY <1>1, <2>2 DEF Without
  <2>6. does \in {"looking", "moving", "moved", "setting up", "ready", "failed", "killed"}
        /\ [instances[n] EXCEPT !.left = left] \in InstanceRecord
    <3>1. does \in {"looking", "moving", "moved", "setting up", "ready", "failed", "killed"}
      BY <1>0, <2>2 DEF InstanceRecord
    <3>2. [instances[n] EXCEPT !.left = left] \in InstanceRecord
      BY <1>0, <1>1, <2>5, InstanceFields
    <3> QED BY <3>1, <3>2
  <2>7. r \in InstanceRecord
    BY <2>3, <2>6, InstanceFields
  <2>8. r.dir = instances[n].dir /\ r.does = does /\ r.left = left
    BY <1>0, <2>3 DEF InstanceRecord
  <2>9. Moving'
    BY <1>2, <1>3, <1>5, <2>1, <2>4, <2>5, <2>7, <2>8, OneListKeeps DEF ListFits
  <2>10. InstanceTypes' /\ StatesApart' /\ Subscriptions'
    BY <1>5, <2>1, <2>2, <2>4, <2>7, <2>8, OneInstanceKeeps DEF IsMade
  <2> QED BY <2>9, <2>10 DEF InstInv
<1> QED BY <1>7, <1>8, <1>9, <1>10, <1>11, <1>12 DEF Preparing

\* provide's init: it subscribes, or fails before or after it did.
LEMMA SetUpKeeps == ASSUME InstInv, NEW n \in All, SetUp(n) \/ SetUpFails(n) PROVE InstInv'
<1> USE DEF InstInv
<1>0. instances[n] \in InstanceRecord /\ instances[n].dir \in Dirs /\ instances[n].does = "setting up"
  <2>1. instances[n] \in InstanceRecord
    BY DEF InstanceTypes, All
  <2>2. instances[n].does = "setting up"
    BY DEF SetUp, SetUpFails, Doing
  <2> QED BY <2>1, <2>2 DEF InstanceRecord
<1>1. PICK d, r : d = instances[n].dir /\ r = [instances[n] EXCEPT !.does = IF SetUp(n) THEN "ready" ELSE "failed"]
  OBVIOUS
<1>2. r \in InstanceRecord
  BY <1>0, <1>1, InstanceFields
<1>3. r.dir = d /\ r.does = (IF SetUp(n) THEN "ready" ELSE "failed") /\ r.left = Left(n)
  BY <1>0, <1>1 DEF InstanceRecord, Left
<1>4. /\ instances' = [instances EXCEPT ![n] = r]
      /\ Using(d, 1) \/ (~SetUp(n) /\ UNCHANGED <<states, made>>)
      /\ mishaps' = IF SetUp(n) THEN mishaps ELSE mishaps \cup {"failed"}
      /\ UNCHANGED <<cache, user, recorded, records>>
  <2>1. CASE SetUp(n)
    BY <1>1, <2>1 DEF SetUp, Now, recordVars
  <2>2. CASE ~SetUp(n)
    BY <1>1, <2>2 DEF SetUpFails, Now, recordVars
  <2> QED BY <2>1, <2>2
<1>5. /\ instances' \in Seq(InstanceRecord) /\ All' = All
      /\ \A m \in All : instances'[m].dir = instances[m].dir
      /\ \A m \in All : m # n => instances'[m] = instances[m]
      /\ instances'[n] = r
  BY <1>1, <1>2, <1>3, <1>4, InstanceChanges
<1>6. /\ states' \in [Dirs -> Nat] /\ made' \in Seq(StateRecord) /\ StatesApart'
  <2>1. CASE Using(d, 1)
    BY <1>0, <1>1, <2>1, UsingState
  <2>2. CASE UNCHANGED <<states, made>>
    BY <2>2 DEF InstanceTypes, StatesApart, Made
  <2> QED BY <1>4, <2>1, <2>2
<1>7. InstanceTypes'
  BY <1>4, <1>5, <1>6 DEF InstanceTypes
<1>8. Subscriptions'
  <2> SUFFICES ASSUME mishaps' \cap {"overlap", "failed"} = {}
               PROVE  /\ \A m \in All', e \in Dirs : ~IsMade(m)' /\ instances'[m].dir = e => cache'[e] = m /\ ~Disposing(e)'
                      /\ \A e \in Dirs : states'[e] # None =>
                           /\ made'[states'[e]].subs <= 1
                           /\ made'[states'[e]].subs # 0 =>
                                cache'[e] # None /\ instances'[cache'[e]].does = "ready" /\ ~Disposing(e)'
    BY DEF Subscriptions
  <2>1. SetUp(n) /\ mishaps \cap {"overlap", "failed"} = {}
    BY <1>4
  <2>2. cache[d] = n /\ ~Disposing(d)
    BY <1>0, <1>1, <2>1 DEF Subscriptions, IsMade
  <2>3. states[d] # None => made[states[d]].subs = 0
    BY <1>0, <1>1, <2>1, <2>2 DEF Subscriptions
  <2>4. /\ states'[d] # None /\ made'[states'[d]].subs = 1
        /\ \A e \in Dirs : e # d => states'[e] = states[e] /\ (states[e] # None => made'[states[e]] = made[states[e]])
    <3>1. Using(d, 1) /\ d \in Dirs
      BY <1>0, <1>1, <1>4, <2>1
    <3>2. states'[d] # None /\ made'[states'[d]].subs = IF states[d] # None THEN made[states[d]].subs + 1 ELSE 1
      BY <3>1, UsingState
    <3>3. \A e \in Dirs : e # d => states'[e] = states[e] /\ (states[e] # None => made'[states[e]] = made[states[e]])
      BY <3>1, UsingState
    <3> QED BY <2>3, <3>2, <3>3
  <2>5. \A e \in Dirs : Disposing(e)' <=> Disposing(e)
    BY <1>4 DEF Disposing
  <2>6. ASSUME NEW m \in All', NEW e \in Dirs, ~IsMade(m)', instances'[m].dir = e
        PROVE  cache'[e] = m /\ ~Disposing(e)'
    <3>1. m # n /\ ~IsMade(m) /\ instances[m].dir = e
      BY <1>3, <1>5, <2>1, <2>6 DEF IsMade
    <3> QED BY <1>4, <1>5, <2>1, <2>5, <3>1 DEF Subscriptions
  <2>7. ASSUME NEW e \in Dirs, states'[e] # None
        PROVE  /\ made'[states'[e]].subs <= 1
               /\ made'[states'[e]].subs # 0 =>
                    cache'[e] # None /\ instances'[cache'[e]].does = "ready" /\ ~Disposing(e)'
    <3>1. CASE e = d
      <4>1. n # None
        BY DEF All, None
      <4> QED BY <1>3, <1>4, <1>5, <2>1, <2>2, <2>4, <2>5, <3>1, <4>1
    <3>2. CASE e # d
      <4>1. cache[e] # None => cache[e] \in All /\ cache[e] # n
        BY <1>0, <1>1, <3>2 DEF InstanceTypes
      <4> QED BY <1>4, <1>5, <2>1, <2>4, <2>5, <2>7, <3>2, <4>1 DEF Subscriptions
    <3> QED BY <3>1, <3>2
  <2> QED BY <2>6, <2>7
<1>9. Moving'
  <2>1. \A m \in All : Left(m)' = Left(m)
    BY <1>3, <1>5 DEF Left
  <2>2. "unmoved" \in mishaps' <=> "unmoved" \in mishaps
    BY <1>4
  <2>3. \A m \in All : /\ instances'[m].does \notin {"looking", "killed"} => instances[m].does \notin {"looking", "killed"}
                       /\ instances'[m].does = "moved" => instances[m].does = "moved"
    BY <1>0, <1>3, <1>5
  <2> QED BY <1>4, <1>5, <2>1, <2>2, <2>3 DEF Moving, Moves
<1> QED BY <1>6, <1>7, <1>8, <1>9

\* instance.ts, state.ts: what the callers inside do.
LEMMA UserKeeps ==
  ASSUME InstInv, NEW u \in InstanceUsers, Enter(u) \/ Use(u) \/ DisposeInstance(u) \/ DisposedOf(u)
  PROVE  InstInv'
<1> USE DEF InstInv
<1>1. DirOf[u] \in Dirs
  BY InstancesAssumption
<1>2. UNCHANGED <<instances, recorded, records>>
  BY DEF Enter, Use, DisposeInstance, DisposedOf, recordVars
<1>3. "unmoved" \in mishaps' <=> "unmoved" \in mishaps
  BY DEF Enter, Use, DisposeInstance, DisposedOf
<1>4. Moving' /\ All' = All
  BY <1>2, <1>3 DEF Moving, All, Left
<1>5. CASE Enter(u)
  <2>1. user' = Does(u, "inside") \/ user' = Does(u, "over")
    BY <1>5 DEF Enter
  <2>2. user' \in [InstanceUsers -> UserRecord] /\ user'[u].does # "disposing"
        /\ \A v \in InstanceUsers : v # u => user'[v] = user[v]
    BY <2>1, UserMoves
  <2>3. UNCHANGED <<cache, states, made, mishaps>>
    BY <1>5 DEF Enter
  <2>4. \A d \in Dirs : Disposing(d)' => Disposing(d)
    BY <2>2 DEF Disposing
  <2>5. InstanceTypes'
    BY <1>2, <1>4, <2>2, <2>3 DEF InstanceTypes
  <2>6. StatesApart' /\ Subscriptions'
    BY <1>2, <1>4, <2>3, <2>4 DEF StatesApart, Subscriptions, Made, IsMade
  <2> QED BY <1>4, <2>5, <2>6
<1>6. CASE Use(u)
  <2>1. Using(DirOf[u], 0) /\ UNCHANGED <<cache, user, mishaps>>
    BY <1>6 DEF Use
  <2>2. /\ states' \in [Dirs -> Nat] /\ made' \in Seq(StateRecord) /\ StatesApart'
        /\ \A e \in Dirs : e # DirOf[u] =>
             states'[e] = states[e] /\ (states[e] # None => made'[states[e]] = made[states[e]])
        /\ made'[states'[DirOf[u]]].subs = IF states[DirOf[u]] # None THEN made[states[DirOf[u]]].subs + 0 ELSE 0
    BY <1>1, <2>1, UsingState
  <2>3. InstanceTypes'
    BY <1>2, <1>4, <2>1, <2>2 DEF InstanceTypes
  <2>4. \A e \in Dirs : states'[e] # None =>
          \/ made'[states'[e]].subs = 0
          \/ states[e] # None /\ made'[states'[e]].subs = made[states[e]].subs
    <3>1. \A i \in Made : made[i].subs \in Nat
      <4>1. \A i \in Made : made[i] \in StateRecord
        BY DEF Made, InstanceTypes
      <4> QED BY <4>1 DEF StateRecord
    <3>2. states[DirOf[u]] # None => made[states[DirOf[u]]].subs \in Nat
      BY <1>1, <3>1 DEF StatesApart
    <3> QED BY <1>1, <2>2, <3>2
  <2>5. \A e \in Dirs : Disposing(e)' <=> Disposing(e)
    BY <2>1 DEF Disposing
  <2>6. Subscriptions'
    BY <1>2, <1>4, <2>1, <2>4, <2>5 DEF Subscriptions, IsMade
  <2> QED BY <1>4, <2>2, <2>3, <2>6
<1>7. CASE DisposeInstance(u)
  <2>1. PICK d : d = DirOf[u]
    OBVIOUS
  <2>2. /\ user' = Does(u, "disposing") /\ states' = Forgotten(d) /\ UNCHANGED cache
        /\ mishaps' = IF Making(d) \/ Disposing(d) THEN mishaps \cup {"overlap"} ELSE mishaps
        /\ made' = IF states[d] = None THEN made ELSE [made EXCEPT ![states[d]].disposals = @ + 1]
    BY <1>7, <2>1 DEF DisposeInstance
  <2>3. user' \in [InstanceUsers -> UserRecord] /\ \A v \in InstanceUsers : v # u => user'[v] = user[v]
    BY <2>2, UserMoves
  <2>4. \A e \in Dirs : states'[e] = IF e = d THEN None ELSE states[e]
    BY <2>2 DEF Forgotten, InstanceTypes
  <2>5. states' \in [Dirs -> Nat]
    BY <2>2 DEF Forgotten, InstanceTypes, None
  <2>6. /\ made' \in Seq(StateRecord) /\ Made' = Made
        /\ \A i \in Made : i # states[d] => made'[i] = made[i]
        /\ states[d] # None => made'[states[d]].disposals = 1
    <3>1. CASE states[d] = None
      BY <2>2, <3>1 DEF InstanceTypes, Made
    <3>2. CASE states[d] # None
      <4>1. states[d] \in Made /\ made[states[d]] \in StateRecord /\ made[states[d]].disposals = 0
        BY <1>1, <2>1, <3>2 DEF StatesApart, Made, InstanceTypes
      <4>2. PICK r : r = [made[states[d]] EXCEPT !.disposals = @ + 1]
        OBVIOUS
      <4>3. r \in StateRecord /\ r.disposals = 1
        BY <4>1, <4>2 DEF StateRecord
      <4>4. made' = [made EXCEPT ![states[d]] = r]
        BY <2>2, <3>2, <4>2
      <4> QED BY <4>1, <4>3, <4>4 DEF InstanceTypes, Made
    <3> QED BY <3>1, <3>2
  <2>7. StatesApart'
    <3>1. ASSUME NEW e \in Dirs, states'[e] # None
          PROVE  states'[e] \in Made' /\ made'[states'[e]].disposals = 0
      BY <1>1, <2>1, <2>4, <2>6, <3>1 DEF StatesApart
    <3>2. \A i \in Made' : made'[i].disposals <= 1
      <4>1. \A i \in Made : i # None
        BY DEF Made, None
      <4> QED BY <2>6, <4>1 DEF StatesApart
    <3> QED BY <2>4, <3>1, <3>2 DEF StatesApart
  <2>8. InstanceTypes'
    BY <1>2, <1>4, <2>2, <2>3, <2>5, <2>6 DEF InstanceTypes
  <2>9. Subscriptions'
    <3> SUFFICES ASSUME mishaps' \cap {"overlap", "failed"} = {} PROVE Subscriptions'
      BY DEF Subscriptions
    <3>1. mishaps \cap {"overlap", "failed"} = {} /\ ~Making(d)
      BY <2>2
    <3>2. \A e \in Dirs : e # d => (Disposing(e)' <=> Disposing(e))
      BY <2>1, <2>3 DEF Disposing
    <3>3. \A m \in All : ~IsMade(m) => instances[m].dir # d
      BY <3>1 DEF Making, IsMade
    <3>4. \A m \in All : IsMade(m)' <=> IsMade(m)
      BY <1>2 DEF IsMade
    <3>5. ASSUME NEW e \in Dirs, states'[e] # None PROVE e # d /\ states[e] \in Made /\ made'[states'[e]] = made[states[e]] /\ states[e] # None
      BY <1>1, <2>1, <2>4, <2>6, <3>5 DEF StatesApart
    <3> QED BY <1>2, <1>4, <2>2, <3>1, <3>2, <3>3, <3>4, <3>5 DEF Subscriptions
  <2> QED BY <1>4, <2>7, <2>8, <2>9
<1>8. CASE DisposedOf(u)
  <2>1. user[u].does = "disposing" /\ user' = Does(u, "over") /\ cache' = [cache EXCEPT ![DirOf[u]] = None]
        /\ UNCHANGED <<states, made, mishaps>>
    BY <1>8 DEF DisposedOf
  <2>2. user' \in [InstanceUsers -> UserRecord] /\ user'[u].does = "over"
        /\ \A v \in InstanceUsers : v # u => user'[v] = user[v]
    BY <2>1, UserMoves
  <2>3. \A e \in Dirs : cache'[e] = IF e = DirOf[u] THEN None ELSE cache[e]
    BY <2>1 DEF InstanceTypes
  <2>4. InstanceTypes'
    <3>1. cache' \in [Dirs -> Nat]
      BY <2>1 DEF InstanceTypes, None
    <3> QED BY <1>2, <1>4, <2>1, <2>2, <2>3, <3>1 DEF InstanceTypes
  <2>5. StatesApart'
    BY <2>1 DEF StatesApart, Made
  <2>6. Disposing(DirOf[u]) /\ \A e \in Dirs : Disposing(e)' => Disposing(e)
    BY <2>1, <2>2 DEF Disposing
  <2>7. Subscriptions'
    <3>1. \A m \in All : IsMade(m)' <=> IsMade(m)
      BY <1>2 DEF IsMade
    <3> QED BY <1>1, <1>2, <1>4, <2>1, <2>3, <2>6, <3>1 DEF Subscriptions
  <2> QED BY <1>4, <2>4, <2>5, <2>7
<1> QED BY <1>5, <1>6, <1>7, <1>8

\* instance.ts disposeAll: an instance that failed is forgotten.
LEMMA SkipFailedKeeps == ASSUME InstInv, NEW d \in Dirs, SkipFailed(d) PROVE InstInv'
<1> USE DEF InstInv
<1>1. /\ cache[d] # None /\ instances[cache[d]].does = "failed" /\ cache' = [cache EXCEPT ![d] = None]
      /\ UNCHANGED <<instances, states, made, user, mishaps, recorded, records>>
  BY DEF SkipFailed, Doing, recordVars
<1>2. \A e \in Dirs : cache'[e] = IF e = d THEN None ELSE cache[e]
  BY <1>1 DEF InstanceTypes
<1>3. InstanceTypes'
  <2>1. cache' \in [Dirs -> Nat]
    BY <1>1 DEF InstanceTypes, None
  <2> QED BY <1>1, <1>2, <2>1 DEF InstanceTypes, All
<1>4. StatesApart' /\ Moving'
  BY <1>1 DEF StatesApart, Moving, Made, All, Left
<1>5. Subscriptions'
  <2>1. \A m \in All : (IsMade(m)' <=> IsMade(m)) /\ (m = cache[d] => IsMade(m))
    BY <1>1 DEF IsMade
  <2>2. \A e \in Dirs : Disposing(e)' <=> Disposing(e)
    BY <1>1 DEF Disposing
  <2> QED BY <1>1, <1>2, <2>1, <2>2 DEF Subscriptions, All
<1> QED BY <1>3, <1>4, <1>5

\* A process that is killed leaves the records as they are.
LEMMA KilledKeeps == ASSUME InstInv, Killed PROVE InstInv'
<1> USE DEF InstInv
<1>1. /\ cache' = [d \in Dirs |-> None] /\ states' = [d \in Dirs |-> None]
      /\ instances' = [n \in All |-> [instances[n] EXCEPT !.does = "killed"]]
      /\ mishaps' = mishaps \cup {"killed"} /\ UNCHANGED <<made, recorded, records>>
  BY DEF Killed, recordVars
<1>2. /\ instances' \in Seq(InstanceRecord) /\ All' = All
      /\ \A n \in All : instances'[n].does = "killed" /\ Left(n)' = Left(n)
  <2>1. \A n \in All : instances[n] \in InstanceRecord
    BY DEF InstanceTypes, All
  <2>2. \A r \in InstanceRecord : [r EXCEPT !.does = "killed"] \in InstanceRecord
          /\ [r EXCEPT !.does = "killed"].does = "killed" /\ [r EXCEPT !.does = "killed"].left = r.left
    BY DEF InstanceRecord
  <2>3. Len(instances) \in Nat /\ instances' = [n \in 1..Len(instances) |-> [instances[n] EXCEPT !.does = "killed"]]
    BY <1>1 DEF InstanceTypes, All
  <2>4. instances' \in [1..Len(instances) -> InstanceRecord]
    BY <2>1, <2>2, <2>3 DEF All
  <2>5. instances' \in Seq(InstanceRecord) /\ Len(instances') = Len(instances)
    BY <2>3, <2>4
  <2> QED BY <2>1, <2>2, <2>3, <2>5 DEF All, Left
<1>3. user' \in [InstanceUsers -> UserRecord]
  BY DEF Killed, InstanceTypes, UserRecord, None
<1>4. InstanceTypes'
  BY <1>1, <1>2, <1>3 DEF InstanceTypes, None
<1>5. StatesApart'
  BY <1>1 DEF StatesApart, Made
<1>6. Subscriptions'
  BY <1>1, <1>2 DEF Subscriptions, IsMade
<1>7. Moving'
  <2>1. "unmoved" \in mishaps' <=> "unmoved" \in mishaps
    BY <1>1
  <2> QED BY <1>1, <1>2, <2>1 DEF Moving
<1> QED BY <1>4, <1>5, <1>6, <1>7

\* project/instance.ts, state.ts, project.ts: every step keeps the invariant.
LEMMA InstStep == InstInv /\ [InstancesNext]_instanceVars => InstInv'
<1> SUFFICES ASSUME InstInv, [InstancesNext]_instanceVars PROVE InstInv'
  OBVIOUS
<1>1. ASSUME NEW u \in InstanceUsers, Provide(u) \/ Enter(u) \/ Use(u) \/ DisposeInstance(u) \/ DisposedOf(u)
      PROVE  InstInv'
  BY <1>1, ProvideKeeps, UserKeeps
<1>2. ASSUME NEW n \in All, Look(n) \/ RecordProject(n) \/ SetUp(n) \/ SetUpFails(n)
      PROVE  InstInv'
  BY <1>2, PreparingKeeps, SetUpKeeps DEF Preparing
<1>3. ASSUME NEW n \in All, NEW s \in Stray,
             ReadSession(n, s) \/ WriteSession(n, s) \/ WriteFails(n, s) \/ RemoveSession(n, s)
      PROVE  InstInv'
  BY <1>3, PreparingKeeps DEF Preparing
<1>4. CASE Killed
  BY <1>4, KilledKeeps
<1>5. ASSUME NEW d \in Dirs, SkipFailed(d) PROVE InstInv'
  BY <1>5, SkipFailedKeeps
<1>6. CASE UNCHANGED instanceVars
  BY <1>6 DEF instanceVars, placeVars, recordVars, InstInv, InstanceTypes, StatesApart, Subscriptions, Moving,
              All, Made, Left, IsMade, Disposing
<1> QED BY <1>1, <1>2, <1>3, <1>4, <1>5, <1>6 DEF InstancesNext

(* The instances of a worktree keep their states apart and its sessions      *)
(* whole, for any number of calls, directories and sessions: no state is     *)
(* disposed twice, nothing is subscribed twice but after one of the mishaps, *)
(* and no session is lost on its way into the project (project/instance.ts,  *)
(* state.ts, project.ts fromDirectory).                                      *)
THEOREM InstancesKeepApart == InstancesInit /\ [][InstancesNext]_instanceVars => []InstancesHold
<1>1. InstancesInit => InstInv
  BY InstInitial
<1>2. InstInv /\ [InstancesNext]_instanceVars => InstInv'
  BY InstStep
<1>3. InstInv => InstancesHold
  BY InstInvSuffices
<1> QED BY <1>1, <1>2, <1>3, PTL

-----------------------------------------------------------------------------
(* Requests to models: what is put together of messages and their parts *)

\* The halves of pairs.
Firsts(z) == [i \in DOMAIN z |-> z[i][1]]
Seconds(z) == [i \in DOMAIN z |-> z[i][2]]

\* Pairs of sequences that belong together, and stay so when they are put
\* one behind the other.
Joined2(R, A, B) ==
  /\ R \in SUBSET (Seq(A) \X Seq(B))
  /\ <<<<>>, <<>>>> \in R
  /\ \A p \in R, q \in R : <<p[1] \o q[1], p[2] \o q[2]>> \in R

(* A function over a sequence (session/message-v2.ts:421-542).               *)
LEMMA MapIs ==
  ASSUME NEW U, NEW A, NEW f, \A x \in U : f[x] \in A, NEW u, u \in Seq(U), NEW a, a = [i \in DOMAIN u |-> f[u[i]]]
  PROVE  a \in Seq(A) /\ Len(a) = Len(u) /\ \A i \in 1..Len(u) : a[i] = f[u[i]]
OBVIOUS

\* Pairs of members of two sets.
PairsOf(R, A, B) == \A y \in R : y[1] \in A /\ y[2] \in B

(* A sequence of pairs with one more (session/message-v2.ts:421-542).        *)
LEMMA PairsGrow ==
  ASSUME NEW A, NEW B, NEW R, PairsOf(R, A, B), NEW z, z \in Seq(R), NEW x, x \in R
  PROVE  /\ Firsts(z) \in Seq(A) /\ Seconds(z) \in Seq(B) /\ x[1] \in A /\ x[2] \in B
         /\ Firsts(Append(z, x)) = Append(Firsts(z), x[1])
         /\ Seconds(Append(z, x)) = Append(Seconds(z), x[2])
<1>0. z \in Seq(R) /\ x \in R
  OBVIOUS
<1>1. x[1] \in A /\ x[2] \in B /\ \A i \in DOMAIN z : z[i][1] \in A /\ z[i][2] \in B
  <2>1. \A i \in DOMAIN z : z[i] \in R
    OBVIOUS
  <2> QED BY <2>1 DEF PairsOf
<1>2. PICK r : r = Append(z, x)
  OBVIOUS
<1>3. /\ r \in Seq(R) /\ Len(r) = Len(z) + 1 /\ r[Len(z) + 1] = x
      /\ \A i \in 1..Len(z) : r[i] = z[i]
  BY <1>2
<1>4. DOMAIN z = 1..Len(z) /\ DOMAIN r = 1..Len(r) /\ Len(z) \in Nat
  BY <1>3
<1>5. PICK f : f = Firsts(z)
  OBVIOUS
<1>6. PICK g : g = Seconds(z)
  OBVIOUS
<1>7. f \in Seq(A) /\ Len(f) = Len(z) /\ \A i \in 1..Len(z) : f[i] = z[i][1]
  BY <1>1, <1>4, <1>5 DEF Firsts
<1>8. g \in Seq(B) /\ Len(g) = Len(z) /\ \A i \in 1..Len(z) : g[i] = z[i][2]
  BY <1>1, <1>4, <1>6 DEF Seconds
<1>9. Firsts(r) = Append(f, x[1])
  BY <1>1, <1>3, <1>4, <1>7 DEF Firsts
<1>10. Seconds(r) = Append(g, x[2])
  BY <1>1, <1>3, <1>4, <1>8 DEF Seconds
<1> QED BY <1>1, <1>2, <1>5, <1>6, <1>7, <1>8, <1>9, <1>10

(* Pairs that belong together still do when all first halves and all second  *)
(* halves are put together (session/message-v2.ts:421-542).                  *)
LEMMA FlattenPairs ==
  ASSUME NEW A, NEW B, NEW R, Joined2(R, A, B)
  PROVE  \A z \in Seq(R) : <<FlattenSeq(Firsts(z)), FlattenSeq(Seconds(z))>> \in R
<1>1. R \in SUBSET (Seq(A) \X Seq(B)) /\ <<<<>>, <<>>>> \in R
  BY DEF Joined2
<1>2. \A a, b, c, d : <<a, b>> \in R /\ <<c, d>> \in R => <<a \o c, b \o d>> \in R
  <2>1. \A p \in R, q \in R : <<p[1] \o q[1], p[2] \o q[2]>> \in R
    BY Zenon DEF Joined2
  <2> TAKE a, b, c, d
  <2>2. HAVE <<a, b>> \in R /\ <<c, d>> \in R
  <2>3. <<<<a, b>>[1] \o <<c, d>>[1], <<a, b>>[2] \o <<c, d>>[2]>> \in R
    BY <2>1, <2>2, Zenon
  <2> QED BY <2>3
<1> DEFINE G == {z \in Seq(R) : <<FlattenSeq(Firsts(z)), FlattenSeq(Seconds(z))>> \in R}
<1>3. <<>> \in G
  <2>1. Firsts(<<>>) = <<>> /\ Seconds(<<>>) = <<>>
    BY DEF Firsts, Seconds
  <2>2. <<>> \in Seq(R)
    OBVIOUS
  <2>3. <<FlattenSeq(Firsts(<<>>)), FlattenSeq(Seconds(<<>>))>> \in R
    BY <1>1, <2>1, FlattenEmpty
  <2> QED BY <2>2, <2>3, Zenon
<1>4. ASSUME NEW z \in Seq(R), NEW x \in R, z \in G PROVE Append(z, x) \in G
  <2>1. /\ Firsts(z) \in Seq(Seq(A)) /\ Seconds(z) \in Seq(Seq(B)) /\ x[1] \in Seq(A) /\ x[2] \in Seq(B)
        /\ Firsts(Append(z, x)) = Append(Firsts(z), x[1])
        /\ Seconds(Append(z, x)) = Append(Seconds(z), x[2])
    <3>1. PICK C, D : C = Seq(A) /\ D = Seq(B)
      OBVIOUS
    <3>2. PairsOf(R, C, D)
      BY <1>1, <3>1 DEF PairsOf
    <3>4. z \in Seq(R) /\ x \in R
      OBVIOUS
    <3>3. /\ Firsts(z) \in Seq(C) /\ Seconds(z) \in Seq(D) /\ x[1] \in C /\ x[2] \in D
          /\ Firsts(Append(z, x)) = Append(Firsts(z), x[1])
          /\ Seconds(Append(z, x)) = Append(Seconds(z), x[2])
      BY <3>2, <3>4, PairsGrow
    <3> QED BY <3>1, <3>3
  <2>2. /\ FlattenSeq(Firsts(Append(z, x))) = FlattenSeq(Firsts(z)) \o x[1]
        /\ FlattenSeq(Seconds(Append(z, x))) = FlattenSeq(Seconds(z)) \o x[2]
    BY <2>1, FlattenAppend
  <2>3. x = <<x[1], x[2]>>
    BY <1>1
  <2>4. <<FlattenSeq(Firsts(z)), FlattenSeq(Seconds(z))>> \in R
    BY <1>4
  <2>5. <<FlattenSeq(Firsts(z)) \o x[1], FlattenSeq(Seconds(z)) \o x[2]>> \in R
    BY <1>2, <2>3, <2>4, Zenon
  <2>6. Append(z, x) \in Seq(R)
    OBVIOUS
  <2> QED BY <2>2, <2>5, <2>6
<1>5. \A z \in Seq(R) : z \in G
  <2> HIDE DEF G
  <2> QED BY <1>3, <1>4, ByAppending
<1> QED BY <1>5

(* The same for two lists of equal length whose members belong together one  *)
(* by one (session/message-v2.ts:421-542).                                   *)
LEMMA FlattenBoth ==
  ASSUME NEW A, NEW B, NEW R, Joined2(R, A, B), NEW n \in Nat,
         NEW s, NEW t, DOMAIN s = 1..n, DOMAIN t = 1..n, s = [i \in 1..n |-> s[i]], t = [i \in 1..n |-> t[i]],
         \A i \in 1..n : <<s[i], t[i]>> \in R
  PROVE  <<FlattenSeq(s), FlattenSeq(t)>> \in R
<1>1. PICK z : z = [i \in 1..n |-> <<s[i], t[i]>>]
  OBVIOUS
<1>2. z \in Seq(R) /\ DOMAIN z = 1..n
  BY <1>1
<1>3. Firsts(z) = [i \in 1..n |-> s[i]] /\ Seconds(z) = [i \in 1..n |-> t[i]]
  BY <1>1, <1>2 DEF Firsts, Seconds
<1>4. <<FlattenSeq(Firsts(z)), FlattenSeq(Seconds(z))>> \in R
  BY <1>2, FlattenPairs
<1> QED BY <1>3, <1>4

\* A function over a sequence.
Mapped(f, u) == [i \in DOMAIN u |-> f[u[i]]]

(* A function over a sequence has its length and the type of the results     *)
(* (session/message-v2.ts:421-542).                                          *)
LEMMA MappedType ==
  ASSUME NEW U, NEW A, NEW f \in [U -> A], NEW u \in Seq(U)
  PROVE  Mapped(f, u) \in Seq(A) /\ Len(Mapped(f, u)) = Len(u) /\ \A i \in 1..Len(u) : Mapped(f, u)[i] = f[u[i]]
BY DEF Mapped

(* A function over two sequences, one behind the other                       *)
(* (session/message-v2.ts:421-542).                                          *)
LEMMA MappedConcat ==
  ASSUME NEW U, NEW f, NEW u \in Seq(U), NEW v \in Seq(U)
  PROVE  Mapped(f, u \o v) = Mapped(f, u) \o Mapped(f, v)
<1>0. PICK A : A = {f[x] : x \in U}
  OBVIOUS
<1>1. PICK w : w = u \o v
  OBVIOUS
<1>2. /\ w \in Seq(U) /\ Len(w) = Len(u) + Len(v)
      /\ \A i \in 1..Len(w) : w[i] = IF i <= Len(u) THEN u[i] ELSE v[i - Len(u)]
  BY <1>1
<1>3. PICK a, b, c : a = Mapped(f, u) /\ b = Mapped(f, v) /\ c = Mapped(f, w)
  OBVIOUS
<1>4. /\ a \in Seq(A) /\ Len(a) = Len(u) /\ \A i \in 1..Len(u) : a[i] = f[u[i]]
      /\ b \in Seq(A) /\ Len(b) = Len(v) /\ \A i \in 1..Len(v) : b[i] = f[v[i]]
      /\ c \in Seq(A) /\ Len(c) = Len(w) /\ \A i \in 1..Len(w) : c[i] = f[w[i]]
  <2>0. \A x \in U : f[x] \in A
    BY <1>0
  <2>1. a \in Seq(A) /\ Len(a) = Len(u) /\ \A i \in 1..Len(u) : a[i] = f[u[i]]
    BY <1>3, <2>0, MapIs DEF Mapped
  <2>2. b \in Seq(A) /\ Len(b) = Len(v) /\ \A i \in 1..Len(v) : b[i] = f[v[i]]
    BY <1>3, <2>0, MapIs DEF Mapped
  <2>3. c \in Seq(A) /\ Len(c) = Len(w) /\ \A i \in 1..Len(w) : c[i] = f[w[i]]
    BY <1>2, <1>3, <2>0, MapIs DEF Mapped
  <2> QED BY <2>1, <2>2, <2>3
<1>5. PICK d : d = a \o b
  OBVIOUS
<1>6. /\ d \in Seq(A) /\ Len(d) = Len(a) + Len(b)
      /\ \A i \in 1..Len(d) : d[i] = IF i <= Len(a) THEN a[i] ELSE b[i - Len(a)]
  <2>1. a \in Seq(A) /\ b \in Seq(A)
    BY <1>4
  <2> QED BY <1>5, <2>1
<1>7. Len(d) = Len(c) /\ Len(u) \in Nat /\ Len(v) \in Nat
  BY <1>2, <1>4, <1>6
<1>8. \A i \in 1..Len(c) : c[i] = d[i]
  <2> TAKE i \in 1..Len(c)
  <2>1. CASE i <= Len(u)
    <3>1. i \in 1..Len(u) /\ i \in 1..Len(w) /\ i \in 1..Len(d)
      BY <1>2, <1>4, <1>7, <2>1
    <3> QED BY <1>2, <1>4, <1>6, <2>1, <3>1
  <2>2. CASE ~(i <= Len(u))
    <3>1. i - Len(u) \in 1..Len(v) /\ i \in 1..Len(w) /\ i \in 1..Len(d)
      BY <1>2, <1>4, <1>7, <2>2
    <3>2. w[i] = v[i - Len(u)]
      BY <1>2, <2>2, <3>1
    <3>3. d[i] = b[i - Len(u)]
      BY <1>4, <1>6, <2>2, <3>1
    <3>4. c[i] = f[w[i]] /\ b[i - Len(u)] = f[v[i - Len(u)]]
      BY <1>4, <3>1
    <3> QED BY <3>2, <3>3, <3>4
  <2> QED BY <2>1, <2>2
<1>9. c = d
  BY <1>4, <1>6, <1>7, <1>8, SeqEqual
<1> QED BY <1>1, <1>3, <1>5, <1>9

\* Pairs that belong together once the first is mapped and put together.
Under(R, f, U, B) == {p \in Seq(U) \X Seq(B) : <<FlattenSeq(Mapped(f, p[1])), p[2]>> \in R}

(* What it is to belong together once mapped                                 *)
(* (session/message-v2.ts:421-542).                                          *)
LEMMA UnderIs ==
  ASSUME NEW R, NEW f, NEW U, NEW B, NEW a, NEW b
  PROVE  <<a, b>> \in Under(R, f, U, B) <=> a \in Seq(U) /\ b \in Seq(B) /\ <<FlattenSeq(Mapped(f, a)), b>> \in R
<1>1. <<a, b>> \in Under(R, f, U, B) <=>
        /\ <<a, b>> \in Seq(U) \X Seq(B)
        /\ <<FlattenSeq(Mapped(f, <<a, b>>[1])), <<a, b>>[2]>> \in R
  BY Zenon DEF Under
<1>2. <<a, b>>[1] = a /\ <<a, b>>[2] = b
  OBVIOUS
<1>3. <<a, b>> \in Seq(U) \X Seq(B) <=> a \in Seq(U) /\ b \in Seq(B)
  OBVIOUS
<1> QED BY <1>1, <1>2, <1>3, Zenon

(* What belongs together once mapped stays so when put one behind the other  *)
(* (session/message-v2.ts:421-542).                                          *)
LEMMA JoinedUnder ==
  ASSUME NEW A, NEW B, NEW R, Joined2(R, A, B), NEW U, NEW f \in [U -> Seq(A)]
  PROVE  Joined2(Under(R, f, U, B), U, B)
<1>1. R \in SUBSET (Seq(A) \X Seq(B)) /\ <<<<>>, <<>>>> \in R
  BY DEF Joined2
<1>2. \A a, b, c, d : <<a, b>> \in R /\ <<c, d>> \in R => <<a \o c, b \o d>> \in R
  <2>1. \A p \in R, q \in R : <<p[1] \o q[1], p[2] \o q[2]>> \in R
    BY Zenon DEF Joined2
  <2> TAKE a, b, c, d
  <2>2. HAVE <<a, b>> \in R /\ <<c, d>> \in R
  <2>3. <<<<a, b>>[1] \o <<c, d>>[1], <<a, b>>[2] \o <<c, d>>[2]>> \in R
    BY <2>1, <2>2, Zenon
  <2> QED BY <2>3
<1>3. <<<<>>, <<>>>> \in Under(R, f, U, B)
  <2>1. Mapped(f, <<>>) = <<>>
    BY DEF Mapped
  <2>2. <<FlattenSeq(Mapped(f, <<>>)), <<>>>> \in R
    BY <1>1, <2>1, FlattenEmpty
  <2>3. <<>> \in Seq(U) /\ <<>> \in Seq(B)
    OBVIOUS
  <2> QED BY <2>2, <2>3, UnderIs
<1>4. ASSUME NEW p \in Under(R, f, U, B), NEW q \in Under(R, f, U, B)
      PROVE  <<p[1] \o q[1], p[2] \o q[2]>> \in Under(R, f, U, B)
  <2>1. PICK a, b, c, d : a = p[1] /\ b = p[2] /\ c = q[1] /\ d = q[2]
    OBVIOUS
  <2>2. /\ a \in Seq(U) /\ b \in Seq(B) /\ c \in Seq(U) /\ d \in Seq(B)
        /\ <<FlattenSeq(Mapped(f, a)), b>> \in R /\ <<FlattenSeq(Mapped(f, c)), d>> \in R
    BY <2>1 DEF Under
  <2>3. Mapped(f, a) \in Seq(Seq(A)) /\ Mapped(f, c) \in Seq(Seq(A))
    <3>1. PICK D : D = Seq(A)
      OBVIOUS
    <3>2. f \in [U -> D]
      BY <3>1
    <3>3. Mapped(f, a) \in Seq(D) /\ Mapped(f, c) \in Seq(D)
      BY <2>2, <3>2, MappedType
    <3> QED BY <3>1, <3>3
  <2>4. Mapped(f, a \o c) = Mapped(f, a) \o Mapped(f, c)
    BY <2>2, MappedConcat
  <2>5. FlattenSeq(Mapped(f, a \o c)) = FlattenSeq(Mapped(f, a)) \o FlattenSeq(Mapped(f, c))
    BY <2>3, <2>4, FlattenConcat
  <2>6. <<FlattenSeq(Mapped(f, a \o c)), b \o d>> \in R
    BY <1>2, <2>2, <2>5, Zenon
  <2>7. a \o c \in Seq(U) /\ b \o d \in Seq(B)
    BY <2>2
  <2>8. <<a \o c, b \o d>> \in Under(R, f, U, B)
    BY <2>6, <2>7, UnderIs
  <2> QED BY <2>1, <2>8
<1>5. Under(R, f, U, B) \in SUBSET (Seq(U) \X Seq(B))
  BY DEF Under
<1> QED BY <1>3, <1>4, <1>5, Zenon DEF Joined2

-----------------------------------------------------------------------------
(* The messages that are sent *)

\* The types of parts and messages.
ToolPart == [type : {"tool"}, status : {"pending", "running", "completed", "error"}, id : STRING, attached : BOOLEAN]
QuestionContent == [type : {"file", "text"}, of : {"error", "attachment", "image"} \cup STRING]
PlainContent == [type : {"step-start", "reasoning", "text"}]
CallContent == [id : STRING, type : {"tool-call"}] \cup PlainContent
ResultContent == [id : STRING, type : {"tool-result"}]
UIType == [role : {"user"}, parts : Seq(QuestionContent)] \cup [role : {"assistant"}, parts : Seq(AnswerPart)]
MsgType ==
  [role : {"system", "user"}, content : Seq(QuestionContent)]
    \cup [role : {"assistant"}, content : Seq(CallContent)]
    \cup [role : {"tool"}, content : Seq(ResultContent)]

\* What is sent of a part and of a message, Mistral's separation left out.
SentPart(p) ==
  IF p.type = "file" /\ p.of \notin model.input THEN [type |-> "text", of |-> "error"]
  ELSE IF p.type \in {"tool-call", "tool-result"} THEN [id |-> SentId(p.id), type |-> p.type]
  ELSE p
SentContent(m) == [j \in DOMAIN m.content |-> SentPart(m.content[j])]
SentMessage(m) ==
  [role |-> m.role,
   content |-> IF model.family = "interleaved" /\ m.role = "assistant"
               THEN FlattenSeq([j \in DOMAIN SentContent(m) |-> When(SentContent(m)[j].type # "reasoning",
                 SentContent(m)[j])])
               ELSE SentContent(m)]
Sent(list) == [i \in DOMAIN list |-> SentMessage(list[i])]

(* A message with another content (provider/transform.ts:19-117).            *)
LEMMA ContentIs ==
  ASSUME NEW r, NEW c, NEW m, m = [role |-> r, content |-> c], NEW x
  PROVE  [m EXCEPT !.content = x] = [role |-> r, content |-> x]
OBVIOUS

(* Unsupported files replaced, ids changed or reasoning removed: the         *)
(* messages are changed each by itself, and then for Mistral separated       *)
(* (provider/transform.ts:19-117, 161-212).                                  *)
LEMMA NormalIs ==
  ASSUME RequestsAssumption, NEW list \in Seq(MsgType)
  PROVE  normalizeMessages(unsupportedParts(list)) =
           IF model.family = "mistral" THEN Separated(Sent(list)) ELSE Sent(list)
<1> DEFINE u == unsupportedParts(list)
           Read(p) == IF p.type = "file" /\ p.of \notin model.input THEN [type |-> "text", of |-> "error"] ELSE p
<1>0. list \in Seq(MsgType) /\ DOMAIN list = 1..Len(list)
  OBVIOUS
<1>1. ASSUME NEW i \in DOMAIN list
      PROVE  /\ list[i] = [role |-> list[i].role, content |-> list[i].content]
             /\ list[i].content \in Seq(QuestionContent \cup CallContent \cup ResultContent)
  <2>1. list[i] \in MsgType
    BY <1>0
  <2> QED BY <2>1 DEF MsgType
<1>2. u = [i \in DOMAIN list |-> [role |-> list[i].role,
        content |-> [j \in DOMAIN list[i].content |-> Read(list[i].content[j])]]]
  <2>1. u = [i \in DOMAIN list |-> [list[i] EXCEPT !.content = [j \in DOMAIN list[i].content |-> Read(list[i].content[j])]]]
    BY Zenon DEF unsupportedParts, EachPart
  <2>2. \A i \in DOMAIN list :
          [list[i] EXCEPT !.content = [j \in DOMAIN list[i].content |-> Read(list[i].content[j])]]
            = [role |-> list[i].role, content |-> [j \in DOMAIN list[i].content |-> Read(list[i].content[j])]]
    <3> TAKE i \in DOMAIN list
    <3> HIDE DEF Read
    <3> QED BY <1>1, ContentIs
  <2> QED BY <2>1, <2>2
<1> HIDE DEF u, Read
<1>3. \A i \in DOMAIN list : u[i].role = list[i].role /\ DOMAIN u[i].content = DOMAIN list[i].content
      /\ \A j \in DOMAIN list[i].content : u[i].content[j] = Read(list[i].content[j])
  BY <1>2
<1>4. ASSUME NEW i \in DOMAIN list, NEW j \in DOMAIN list[i].content
      PROVE  /\ Read(list[i].content[j]) \in QuestionContent \cup CallContent \cup ResultContent
             /\ SentPart(list[i].content[j]) =
                  IF Read(list[i].content[j]).type \in {"tool-call", "tool-result"}
                  THEN [Read(list[i].content[j]) EXCEPT !.id = SentId(@)] ELSE Read(list[i].content[j])
  <2>1. PICK p : p = list[i].content[j]
    OBVIOUS
  <2>2. p \in QuestionContent \cup CallContent \cup ResultContent
    BY <1>1, <2>1
  <2>3. CASE p.type = "file" /\ p.of \notin model.input
    <3>1. Read(p) = [type |-> "text", of |-> "error"] /\ SentPart(p) = [type |-> "text", of |-> "error"]
      BY <2>3 DEF Read, SentPart
    <3>0. [type |-> "text", of |-> "error"] \in QuestionContent
      BY DEF QuestionContent
    <3>2. Read(p) \in QuestionContent /\ Read(p).type = "text"
      BY <3>0, <3>1
    <3> QED BY <2>1, <3>1, <3>2
  <2>4. CASE ~(p.type = "file" /\ p.of \notin model.input)
    <3>1. Read(p) = p
      BY <2>4 DEF Read
    <3>2. p.type \in {"tool-call", "tool-result"} => p = [id |-> p.id, type |-> p.type]
      BY <2>2 DEF QuestionContent, CallContent, ResultContent, PlainContent
    <3>3. p.type \in {"tool-call", "tool-result"} => [p EXCEPT !.id = SentId(@)] = [id |-> SentId(p.id),
            type |-> p.type]
      BY <3>2
    <3> QED BY <2>1, <2>2, <2>4, <3>1, <3>3 DEF SentPart
  <2> QED BY <2>3, <2>4
<1>5. ASSUME model.family \notin {"claude", "mistral"}
      PROVE  \A i \in DOMAIN list : \A j \in DOMAIN list[i].content : SentPart(list[i].content[j]) = Read(list[i].content[j])
  <2>1. \A id : SentId(id) = id
    BY <1>5 DEF SentId, RequestsAssumption
  <2> TAKE i \in DOMAIN list
  <2> TAKE j \in DOMAIN list[i].content
  <2>2. PICK p : p = Read(list[i].content[j])
    OBVIOUS
  <2>3. p \in QuestionContent \cup CallContent \cup ResultContent
    BY <1>4, <2>2
  <2>4. p.type \in {"tool-call", "tool-result"} => p = [id |-> p.id, type |-> p.type]
    BY <2>3 DEF QuestionContent, CallContent, ResultContent, PlainContent
  <2>5. p.type \in {"tool-call", "tool-result"} => [p EXCEPT !.id = SentId(@)] = p
    BY <2>1, <2>4
  <2> QED BY <1>4, <2>2, <2>5
<1>6. \A i \in DOMAIN list : u[i] = [role |-> u[i].role, content |-> u[i].content]
  BY <1>2
<1>7. DOMAIN u = DOMAIN list
  BY <1>2
<1>8. ASSUME model.family \in {"claude", "mistral"} PROVE Renamed(u) = Sent(list)
  <2> DEFINE Change(p) == IF p.type \in {"tool-call", "tool-result"} THEN [p EXCEPT !.id = SentId(@)] ELSE p
  <2>1. Renamed(u) = [i \in DOMAIN u |-> [u[i] EXCEPT !.content = [j \in DOMAIN u[i].content |-> Change(u[i].content[j])]]]
    BY Zenon DEF Renamed, EachPart
  <2>2. ASSUME NEW i \in DOMAIN list
        PROVE  [u[i] EXCEPT !.content = [j \in DOMAIN u[i].content |-> Change(u[i].content[j])]] = SentMessage(list[i])
    <3>1. \A j \in DOMAIN list[i].content : Change(u[i].content[j]) = SentPart(list[i].content[j])
      BY <1>3, <1>4
    <3>2. [j \in DOMAIN u[i].content |-> Change(u[i].content[j])] = SentContent(list[i])
      <4> HIDE DEF Change
      <4> QED BY <1>3, <3>1 DEF SentContent
    <3>3. [u[i] EXCEPT !.content = SentContent(list[i])] = [role |-> u[i].role, content |-> SentContent(list[i])]
      <4>1. u[i] = [role |-> u[i].role, content |-> u[i].content]
        BY <1>6
      <4> QED BY <4>1, ContentIs
    <3>4. SentMessage(list[i]) = [role |-> list[i].role, content |-> SentContent(list[i])]
      BY <1>8 DEF SentMessage
    <3> HIDE DEF Change
    <3> QED BY <1>3, <3>2, <3>3, <3>4
  <2> HIDE DEF Change
  <2>3. Renamed(u) = [i \in DOMAIN list |-> SentMessage(list[i])]
    BY <1>7, <2>1, <2>2
  <2> QED BY <2>3 DEF Sent
<1>9. ASSUME model.family \notin {"claude", "mistral"}
      PROVE  \A i \in DOMAIN list : u[i].content = SentContent(list[i])
             /\ u[i] = [role |-> list[i].role, content |-> SentContent(list[i])]
  <2> TAKE i \in DOMAIN list
  <2>1. u[i] = [role |-> list[i].role, content |-> [j \in DOMAIN list[i].content |-> Read(list[i].content[j])]]
    BY <1>2
  <2>2. [j \in DOMAIN list[i].content |-> Read(list[i].content[j])] = SentContent(list[i])
    BY <1>5, <1>9 DEF SentContent
  <2> QED BY <2>1, <2>2
<1>10. ASSUME model.family = "interleaved" PROVE WithoutReasoning(u) = Sent(list)
  <2> DEFINE Kept(c) == FlattenSeq([j \in DOMAIN c |-> When(c[j].type # "reasoning", c[j])])
  <2>1. WithoutReasoning(u) =
          [i \in DOMAIN u |-> IF u[i].role # "assistant" THEN u[i] ELSE [u[i] EXCEPT !.content = Kept(u[i].content)]]
    BY Zenon DEF WithoutReasoning
  <2>2. ASSUME NEW i \in DOMAIN list
        PROVE  (IF u[i].role # "assistant" THEN u[i]
                 ELSE [u[i] EXCEPT !.content = Kept(u[i].content)]) = SentMessage(list[i])
    <3> HIDE DEF Kept
    <3>1. u[i].content = SentContent(list[i]) /\ u[i] = [role |-> list[i].role, content |-> SentContent(list[i])]
      BY <1>9, <1>10
    <3>2. [u[i] EXCEPT !.content = Kept(u[i].content)] = [role |-> list[i].role, content |-> Kept(SentContent(list[i]))]
      BY <3>1, ContentIs
    <3>3. SentMessage(list[i]) = [role |-> list[i].role,
            content |-> IF list[i].role = "assistant" THEN Kept(SentContent(list[i])) ELSE SentContent(list[i])]
      BY <1>10 DEF SentMessage, Kept
    <3>4. u[i].role = list[i].role
      BY <1>3
    <3>5. CASE list[i].role = "assistant"
      BY <3>2, <3>3, <3>4, <3>5
    <3>6. CASE list[i].role # "assistant"
      BY <3>1, <3>3, <3>4, <3>6
    <3> QED BY <3>5, <3>6
  <2> HIDE DEF Kept
  <2>3. WithoutReasoning(u) = [i \in DOMAIN list |-> SentMessage(list[i])]
    BY <1>7, <2>1, <2>2
  <2> QED BY <2>3 DEF Sent
<1>11. ASSUME model.family \notin {"claude", "mistral", "interleaved"} PROVE u = Sent(list)
  <2>1. \A i \in DOMAIN list : u[i] = SentMessage(list[i])
    <3> TAKE i \in DOMAIN list
    <3>1. u[i] = [role |-> list[i].role, content |-> SentContent(list[i])]
      BY <1>9, <1>11
    <3>2. SentMessage(list[i]) = [role |-> list[i].role, content |-> SentContent(list[i])]
      BY <1>11 DEF SentMessage
    <3> QED BY <3>1, <3>2
  <2>2. u = [i \in DOMAIN list |-> u[i]]
    BY <1>2
  <2> QED BY <2>1, <2>2 DEF Sent
<1>12. normalizeMessages(u) = IF model.family = "mistral" THEN Separated(Sent(list)) ELSE Sent(list)
  BY <1>8, <1>10, <1>11 DEF normalizeMessages
<1> QED BY <1>12 DEF u

-----------------------------------------------------------------------------
(* Calls and their answers *)

\* The ids of calls, and the results in messages.
IdsOf(c) == [j \in DOMAIN c |-> SentId(c[j].id)]
CallsOf(m) == [j \in DOMAIN Calls(m) |-> Calls(m)[j].id]
Results(s) == FlattenSeq([i \in DOMAIN s |-> IF s[i].role = "tool" THEN ResultIds(s[i]) ELSE <<>>])
\* Calls are answered by the next message, results are those of the one before.
AnsweredNext(s, i) ==
  /\ s[i].role = "assistant" /\ Calls(s[i]) # <<>> =>
       i < Len(s) /\ s[i + 1].role = "tool" /\ ResultIds(s[i + 1]) = CallsOf(s[i])
  /\ s[i].role = "tool" => i > 1 /\ s[i - 1].role = "assistant" /\ Len(Calls(s[i - 1])) = Len(s[i].content)
Readable(m) == \A j \in DOMAIN m.content : m.content[j].type = "file" => m.content[j].of \in model.input
\* Messages that answer the calls c, all of them and no other.
Good(s, c) ==
  /\ \A i \in DOMAIN s : AnsweredNext(s, i) /\ Readable(s[i])
  /\ Results(s) = IdsOf(c)
SentIdSet == {SentId(x) : x \in STRING}

(* A part that is sent is of a kind the model can read, and a call or a      *)
(* result only if it was one (provider/transform.ts:20-35, 161-197).         *)
LEMMA SentPartIs ==
  ASSUME NEW p \in QuestionContent \cup CallContent \cup ResultContent
  PROVE  /\ SentPart(p) \in QuestionContent \cup CallContent \cup [id : SentIdSet, type : {"tool-call", "tool-result"}]
         /\ SentPart(p).type = "file" => SentPart(p).of \in model.input
         /\ p.type \in {"tool-call", "tool-result"} <=> SentPart(p).type \in {"tool-call", "tool-result"}
         /\ p.type \in {"tool-call", "tool-result"} =>
              SentPart(p) = [id |-> SentId(p.id), type |-> p.type] /\ p.id \in STRING /\ SentId(p.id) \in SentIdSet
<1>1. CASE p \in QuestionContent
  <2>1. CASE p.type = "file" /\ p.of \notin model.input
    <3>1. SentPart(p) = [type |-> "text", of |-> "error"]
      BY <2>1 DEF SentPart
    <3>2. SentPart(p) \in QuestionContent
      BY <3>1 DEF QuestionContent
    <3> QED BY <1>1, <3>1, <3>2 DEF QuestionContent
  <2>2. CASE ~(p.type = "file" /\ p.of \notin model.input)
    <3>1. SentPart(p) = p
      BY <1>1, <2>2 DEF SentPart, QuestionContent
    <3> QED BY <1>1, <2>2, <3>1 DEF QuestionContent
  <2> QED BY <2>1, <2>2
<1>2. CASE p \in CallContent \cup ResultContent
  <2>1. p.type # "file"
    BY <1>2 DEF CallContent, ResultContent, PlainContent
  <2>2. CASE p.type \in {"tool-call", "tool-result"}
    <3>1. p.id \in STRING /\ SentPart(p) = [id |-> SentId(p.id), type |-> p.type]
      BY <1>2, <2>1, <2>2 DEF SentPart, CallContent, ResultContent, PlainContent
    <3>2. SentId(p.id) \in SentIdSet
      BY <3>1 DEF SentIdSet
    <3>3. SentPart(p) \in [id : SentIdSet, type : {"tool-call", "tool-result"}]
      BY <2>2, <3>1, <3>2
    <3>4. SentPart(p).type = p.type
      BY <3>1
    <3> QED BY <2>1, <2>2, <3>1, <3>2, <3>3, <3>4
  <2>3. CASE p.type \notin {"tool-call", "tool-result"}
    <3>1. SentPart(p) = p /\ p \in CallContent
      BY <1>2, <2>1, <2>3 DEF SentPart, CallContent, ResultContent, PlainContent
    <3> QED BY <2>1, <2>3, <3>1
  <2> QED BY <2>2, <2>3
<1> QED BY <1>1, <1>2

(* The results of a message are sent with their ids changed as those of the  *)
(* calls (provider/transform.ts:20-49).                                      *)
LEMMA ToolIdsAre ==
  ASSUME NEW m \in MsgType, m.role = "tool"
  PROVE  ResultIds(SentMessage(m)) = [j \in DOMAIN m.content |-> SentId(m.content[j].id)]
         /\ ResultIds(SentMessage(m)) \in Seq(SentIdSet) /\ m.content \in Seq(ResultContent)
<1>1. m.content \in Seq(ResultContent)
  BY DEF MsgType
<1>2. SentMessage(m).content = SentContent(m)
  BY DEF SentMessage
<1>3. DOMAIN SentContent(m) = DOMAIN m.content /\ \A j \in DOMAIN m.content : SentContent(m)[j] = SentPart(m.content[j])
  BY DEF SentContent
<1>4. \A j \in DOMAIN m.content : m.content[j] \in ResultContent /\ SentPart(m.content[j]).id = SentId(m.content[j].id)
        /\ SentId(m.content[j].id) \in SentIdSet
  <2> TAKE j \in DOMAIN m.content
  <2>1. PICK p : p = m.content[j]
    OBVIOUS
  <2>2. p \in ResultContent
    BY <1>1, <2>1
  <2>3. p.type \in {"tool-call", "tool-result"}
    BY <2>2 DEF ResultContent
  <2>4. SentPart(p) = [id |-> SentId(p.id), type |-> p.type] /\ SentId(p.id) \in SentIdSet
    BY <2>2, <2>3, SentPartIs
  <2> QED BY <2>1, <2>2, <2>4
<1>5. ResultIds(SentMessage(m)) = [j \in DOMAIN m.content |-> SentId(m.content[j].id)]
  BY <1>2, <1>3, <1>4 DEF ResultIds
<1>6. ResultIds(SentMessage(m)) \in Seq(SentIdSet)
  BY <1>1, <1>4, <1>5
<1> QED BY <1>1, <1>5, <1>6

\* The results of a message, as a function.
IdsFn == [m \in MsgType |-> IF m.role = "tool" THEN ResultIds(SentMessage(m)) ELSE <<>>]

(* The messages that are sent are those of the conversation, one by one,     *)
(* with the same roles (provider/transform.ts:19-117).                       *)
LEMMA SentIs ==
  ASSUME NEW a \in Seq(MsgType)
  PROVE  /\ Len(Sent(a)) = Len(a) /\ Len(a) \in Nat /\ DOMAIN Sent(a) = 1..Len(a)
         /\ \A i \in 1..Len(a) : Sent(a)[i] = SentMessage(a[i]) /\ a[i] \in MsgType /\ Sent(a)[i].role = a[i].role
         /\ Results(Sent(a)) = FlattenSeq(Mapped(IdsFn, a))
         /\ Mapped(IdsFn, a) \in Seq(Seq(SentIdSet))
<1>1. DOMAIN a = 1..Len(a) /\ Len(a) \in Nat /\ \A i \in 1..Len(a) : a[i] \in MsgType
  OBVIOUS
<1>2. Sent(a) = [i \in 1..Len(a) |-> SentMessage(a[i])]
  BY <1>1 DEF Sent
<1>3. Len(Sent(a)) = Len(a) /\ DOMAIN Sent(a) = 1..Len(a)
  BY <1>1, <1>2
<1>4. \A i \in 1..Len(a) : Sent(a)[i] = SentMessage(a[i]) /\ Sent(a)[i].role = a[i].role
  BY <1>2 DEF SentMessage
<1>5. \A i \in 1..Len(a) : IdsFn[a[i]] = (IF Sent(a)[i].role = "tool" THEN ResultIds(Sent(a)[i]) ELSE <<>>)
        /\ IdsFn[a[i]] \in Seq(SentIdSet)
  <2> TAKE i \in 1..Len(a)
  <2>1. PICK m : m = a[i] /\ m \in MsgType
    BY <1>1
  <2>2. IdsFn[m] = IF m.role = "tool" THEN ResultIds(SentMessage(m)) ELSE <<>>
    BY <2>1 DEF IdsFn
  <2>3. m.role = "tool" => ResultIds(SentMessage(m)) \in Seq(SentIdSet)
    BY <2>1, ToolIdsAre
  <2>4. <<>> \in Seq(SentIdSet)
    OBVIOUS
  <2> QED BY <1>4, <2>1, <2>2, <2>3, <2>4
<1>6. Results(Sent(a)) = FlattenSeq([i \in 1..Len(a) |-> IF Sent(a)[i].role = "tool" THEN ResultIds(Sent(a)[i])
        ELSE <<>>])
  BY <1>3 DEF Results
<1>7. [i \in 1..Len(a) |-> IF Sent(a)[i].role = "tool" THEN ResultIds(Sent(a)[i]) ELSE <<>>] = Mapped(IdsFn, a)
  BY <1>1, <1>5 DEF Mapped
<1>8. Mapped(IdsFn, a) \in Seq(Seq(SentIdSet))
  <2>1. PICK D : D = Seq(SentIdSet)
    OBVIOUS
  <2>2. Mapped(IdsFn, a) = [i \in 1..Len(a) |-> IdsFn[a[i]]]
    BY <1>1 DEF Mapped
  <2>3. Mapped(IdsFn, a) \in Seq(D)
    BY <1>1, <1>5, <2>1, <2>2
  <2> QED BY <2>1, <2>3
<1> QED BY <1>1, <1>3, <1>4, <1>6, <1>7, <1>8

(* What is sent of two conversations, one behind the other                   *)
(* (provider/transform.ts:19-117).                                           *)
LEMMA SentConcat ==
  ASSUME NEW a \in Seq(MsgType), NEW b \in Seq(MsgType)
  PROVE  /\ a \o b \in Seq(MsgType) /\ Len(a \o b) = Len(a) + Len(b)
         /\ \A i \in 1..Len(a) : Sent(a \o b)[i] = Sent(a)[i]
         /\ \A i \in 1..Len(b) : Sent(a \o b)[Len(a) + i] = Sent(b)[i]
         /\ Results(Sent(a \o b)) = Results(Sent(a)) \o Results(Sent(b))
<1>1. PICK c : c = a \o b
  OBVIOUS
<1>2. /\ c \in Seq(MsgType) /\ Len(c) = Len(a) + Len(b) /\ Len(a) \in Nat /\ Len(b) \in Nat
      /\ \A i \in 1..Len(a) : c[i] = a[i]
      /\ \A i \in 1..Len(b) : c[Len(a) + i] = b[i]
  BY <1>1
<1>3. \A i \in 1..Len(a) : Sent(c)[i] = Sent(a)[i]
  <2> TAKE i \in 1..Len(a)
  <2>1. i \in 1..Len(c)
    BY <1>2
  <2>2. Sent(c)[i] = SentMessage(c[i]) /\ Sent(a)[i] = SentMessage(a[i])
    BY <1>2, <2>1, SentIs
  <2> QED BY <1>2, <2>2
<1>4. \A i \in 1..Len(b) : Sent(c)[Len(a) + i] = Sent(b)[i]
  <2> TAKE i \in 1..Len(b)
  <2>1. Len(a) + i \in 1..Len(c)
    BY <1>2
  <2>2. Sent(c)[Len(a) + i] = SentMessage(c[Len(a) + i]) /\ Sent(b)[i] = SentMessage(b[i])
    BY <1>2, <2>1, SentIs
  <2> QED BY <1>2, <2>2
<1>5. Results(Sent(c)) = Results(Sent(a)) \o Results(Sent(b))
  <2>1. Mapped(IdsFn, c) = Mapped(IdsFn, a) \o Mapped(IdsFn, b)
    BY <1>1, MappedConcat
  <2>2. Mapped(IdsFn, a) \in Seq(Seq(SentIdSet)) /\ Mapped(IdsFn, b) \in Seq(Seq(SentIdSet))
    BY SentIs
  <2>3. FlattenSeq(Mapped(IdsFn, c)) = FlattenSeq(Mapped(IdsFn, a)) \o FlattenSeq(Mapped(IdsFn, b))
    BY <2>1, <2>2, FlattenConcat
  <2> QED BY <1>2, <2>3, SentIs
<1> QED BY <1>1, <1>2, <1>3, <1>4, <1>5

\* Messages with the calls they answer.
GoodPairs == {p \in Seq(MsgType) \X Seq(ToolPart) : Good(Sent(p[1]), p[2])}

(* What it is for messages to fit the calls they answer                      *)
(* (session/message-v2.ts:421-542).                                          *)
LEMMA GoodPairsAre ==
  ASSUME NEW a, NEW c
  PROVE  <<a, c>> \in GoodPairs <=> a \in Seq(MsgType) /\ c \in Seq(ToolPart) /\ Good(Sent(a), c)
<1>1. <<a, c>> \in GoodPairs <=> <<a, c>> \in Seq(MsgType) \X Seq(ToolPart) /\ Good(Sent(<<a, c>>[1]), <<a, c>>[2])
  BY Zenon DEF GoodPairs
<1>2. <<a, c>>[1] = a /\ <<a, c>>[2] = c
  OBVIOUS
<1>3. <<a, c>> \in Seq(MsgType) \X Seq(ToolPart) <=> a \in Seq(MsgType) /\ c \in Seq(ToolPart)
  OBVIOUS
<1> QED BY <1>1, <1>2, <1>3, Zenon

(* Messages whose calls are all answered still are, and in the order of the  *)
(* calls, when put one behind the other (session/message-v2.ts:421-542).     *)
LEMMA GoodConcat ==
  ASSUME NEW a \in Seq(MsgType), NEW b \in Seq(MsgType), NEW c \in Seq(ToolPart), NEW d \in Seq(ToolPart),
         Good(Sent(a), c), Good(Sent(b), d)
  PROVE  Good(Sent(a \o b), c \o d)
<1>1. PICK r : r = Sent(a \o b)
  OBVIOUS
<1>2. PICK s, t : s = Sent(a) /\ t = Sent(b)
  OBVIOUS
<1>3. PICK n \in Nat, k \in Nat : n = Len(a) /\ k = Len(b)
  OBVIOUS
<1>4. /\ DOMAIN s = 1..n /\ DOMAIN t = 1..k /\ DOMAIN r = 1..(n + k) /\ Len(s) = n /\ Len(t) = k /\ Len(r) = n + k
      /\ \A i \in 1..n : r[i] = s[i]
      /\ \A i \in 1..k : r[n + i] = t[i]
  <2>1. DOMAIN s = 1..n /\ Len(s) = n
    BY <1>2, <1>3, SentIs
  <2>2. DOMAIN t = 1..k /\ Len(t) = k
    BY <1>2, <1>3, SentIs
  <2>3. /\ a \o b \in Seq(MsgType) /\ Len(a \o b) = n + k
        /\ \A i \in 1..n : r[i] = s[i]
        /\ \A i \in 1..k : r[n + i] = t[i]
    BY <1>1, <1>2, <1>3, SentConcat
  <2>4. DOMAIN r = 1..(n + k) /\ Len(r) = n + k
    BY <1>1, <2>3, SentIs
  <2> QED BY <2>1, <2>2, <2>3, <2>4
<1>5. /\ \A i \in 1..n : AnsweredNext(s, i) /\ Readable(s[i])
      /\ \A i \in 1..k : AnsweredNext(t, i) /\ Readable(t[i])
      /\ Results(s) = IdsOf(c) /\ Results(t) = IdsOf(d)
  BY <1>2, <1>4 DEF Good
<1>6. ASSUME NEW i \in 1..n PROVE AnsweredNext(r, i)
  <2>1. r[i] = s[i] /\ (i + 1 <= n => r[i + 1] = s[i + 1]) /\ (i > 1 => r[i - 1] = s[i - 1])
    BY <1>4
  <2>2. AnsweredNext(s, i)
    BY <1>5
  <2>3. i < Len(s) => i + 1 <= n /\ i < Len(r)
    BY <1>4
  <2> QED BY <2>1, <2>2, <2>3 DEF AnsweredNext
<1>7. ASSUME NEW i \in 1..k PROVE AnsweredNext(r, n + i)
  <2>1. r[n + i] = t[i] /\ (i + 1 <= k => r[(n + i) + 1] = t[i + 1]) /\ (i > 1 => r[(n + i) - 1] = t[i - 1])
    <3>1. i + 1 <= k => i + 1 \in 1..k /\ n + (i + 1) = (n + i) + 1
      OBVIOUS
    <3>2. i > 1 => i - 1 \in 1..k /\ n + (i - 1) = (n + i) - 1
      OBVIOUS
    <3> QED BY <1>4, <3>1, <3>2
  <2>2. AnsweredNext(t, i)
    BY <1>5
  <2>3. (i < Len(t) => i + 1 <= k /\ n + i < Len(r)) /\ (i > 1 => n + i > 1)
    BY <1>4
  <2> QED BY <2>1, <2>2, <2>3 DEF AnsweredNext
<1>8. \A i \in 1..(n + k) : AnsweredNext(r, i) /\ Readable(r[i])
  <2> TAKE i \in 1..(n + k)
  <2>1. CASE i <= n
    <3>1. i \in 1..n
      BY <2>1
    <3> QED BY <1>4, <1>5, <1>6, <3>1
  <2>2. CASE i > n
    <3>1. i - n \in 1..k /\ n + (i - n) = i
      BY <2>2
    <3> QED BY <1>4, <1>5, <1>7, <3>1
  <2> QED BY <2>1, <2>2
<1>9. IdsOf(c \o d) = IdsOf(c) \o IdsOf(d)
  <2> DEFINE f == [x \in ToolPart |-> SentId(x.id)]
  <2>1. \A e \in Seq(ToolPart) : Mapped(f, e) = IdsOf(e)
    BY DEF Mapped, IdsOf
  <2>2. c \o d \in Seq(ToolPart)
    OBVIOUS
  <2> HIDE DEF f
  <2>3. Mapped(f, c \o d) = Mapped(f, c) \o Mapped(f, d)
    BY MappedConcat
  <2> QED BY <2>1, <2>2, <2>3
<1>10. Results(r) = Results(s) \o Results(t)
  BY <1>1, <1>2, SentConcat
<1>11. Results(r) = IdsOf(c \o d)
  BY <1>5, <1>9, <1>10
<1> QED BY <1>1, <1>4, <1>8, <1>11 DEF Good

(* So messages and the calls they answer stay together when put one behind   *)
(* the other (session/message-v2.ts:421-542).                                *)
LEMMA GoodJoined == Joined2(GoodPairs, MsgType, ToolPart)
<1>1. GoodPairs \in SUBSET (Seq(MsgType) \X Seq(ToolPart))
  BY DEF GoodPairs
<1>2. <<<<>>, <<>>>> \in GoodPairs
  <2>1. Sent(<<>>) = <<>> /\ IdsOf(<<>>) = <<>> /\ Results(<<>>) = FlattenSeq(<<>>)
    BY DEF Sent, IdsOf, Results
  <2>2. Good(Sent(<<>>), <<>>)
    BY <2>1, FlattenEmpty DEF Good
  <2>3. <<>> \in Seq(MsgType) /\ <<>> \in Seq(ToolPart)
    OBVIOUS
  <2> QED BY <2>2, <2>3, GoodPairsAre
<1>3. ASSUME NEW p \in GoodPairs, NEW q \in GoodPairs PROVE <<p[1] \o q[1], p[2] \o q[2]>> \in GoodPairs
  <2>1. PICK a, b, c, d : a = p[1] /\ b = q[1] /\ c = p[2] /\ d = q[2]
    OBVIOUS
  <2>2. /\ a \in Seq(MsgType) /\ b \in Seq(MsgType) /\ c \in Seq(ToolPart) /\ d \in Seq(ToolPart)
        /\ Good(Sent(a), c) /\ Good(Sent(b), d)
    BY <2>1 DEF GoodPairs
  <2>3. Good(Sent(a \o b), c \o d) /\ a \o b \in Seq(MsgType) /\ c \o d \in Seq(ToolPart)
    BY <2>2, GoodConcat
  <2>4. <<a \o b, c \o d>> \in GoodPairs
    BY <2>3, GoodPairsAre
  <2> QED BY <2>1, <2>4
<1> QED BY <1>1, <1>2, <1>3 DEF Joined2

(* One element or none (session/message-v2.ts:421-542).                      *)
LEMMA WhenIs ==
  ASSUME NEW A, NEW x, NEW c \in BOOLEAN, c => x \in A
  PROVE  When(c, x) \in Seq(A) /\ (c => When(c, x) = <<x>>) /\ (~c => When(c, x) = <<>>)
BY DEF When

(* The tools among the parts of an answer (session/message-v2.ts:541,        *)
(* convertToModelMessages).                                                  *)
LEMMA ToolsAre ==
  ASSUME NEW parts \in Seq(AnswerPart)
  PROVE  /\ ToolsOf(parts) \in Seq(ToolPart)
         /\ [i \in 1..Len(parts) |-> When(parts[i].type = "tool", parts[i])] \in Seq(Seq(ToolPart))
         /\ ToolsOf(parts) = FlattenSeq([i \in 1..Len(parts) |-> When(parts[i].type = "tool", parts[i])])
<1>1. DOMAIN parts = 1..Len(parts) /\ Len(parts) \in Nat
  OBVIOUS
<1>2. PICK D : D = Seq(ToolPart)
  OBVIOUS
<1>3. \A i \in 1..Len(parts) : When(parts[i].type = "tool", parts[i]) \in D
  <2> TAKE i \in 1..Len(parts)
  <2>1. parts[i] \in AnswerPart
    OBVIOUS
  <2>2. parts[i].type = "tool" => parts[i] \in ToolPart
    BY <2>1 DEF AnswerPart, ToolPart
  <2> QED BY <1>2, <2>2, WhenIs
<1>4. [i \in 1..Len(parts) |-> When(parts[i].type = "tool", parts[i])] \in Seq(D)
  BY <1>1, <1>3
<1>5. ToolsOf(parts) = FlattenSeq([i \in 1..Len(parts) |-> When(parts[i].type = "tool", parts[i])])
  BY <1>1 DEF ToolsOf
<1> QED BY <1>2, <1>4, <1>5, FlattenType

\* What is sent of a tool, and calls that are sent with their tools.
SentCall(p) == [id |-> SentId(p.id), type |-> "tool-call"]
SentCallType == [id : SentIdSet, type : {"tool-call"}]
CallPairs == {p \in Seq(SentCallType) \X Seq(ToolPart) : Len(p[1]) = Len(p[2]) /\ \A i \in 1..Len(p[2]) : p[1][i] = SentCall(p[2][i])}

(* What it is for calls that are sent to be those of tools                   *)
(* (session/message-v2.ts:541, convertToModelMessages).                      *)
LEMMA CallPairsAre ==
  ASSUME NEW a, NEW c
  PROVE  <<a, c>> \in CallPairs <=>
           /\ a \in Seq(SentCallType) /\ c \in Seq(ToolPart)
           /\ Len(a) = Len(c) /\ \A i \in 1..Len(c) : a[i] = SentCall(c[i])
BY DEF CallPairs

(* Calls and tools stay together when put one behind the other               *)
(* (session/message-v2.ts:541, convertToModelMessages).                      *)
LEMMA CallsJoined == Joined2(CallPairs, SentCallType, ToolPart)
<1>1. CallPairs \in SUBSET (Seq(SentCallType) \X Seq(ToolPart))
  BY DEF CallPairs
<1>2. <<<<>>, <<>>>> \in CallPairs
  <2>1. PICK e : e = <<>>
    OBVIOUS
  <2>2. e \in Seq(SentCallType) /\ e \in Seq(ToolPart) /\ Len(e) = 0
    BY <2>1
  <2>3. \A i \in 1..Len(e) : e[i] = SentCall(e[i])
    BY <2>2
  <2>4. <<e, e>> \in CallPairs
    BY <2>2, <2>3, CallPairsAre
  <2> QED BY <2>1, <2>4
<1>3. ASSUME NEW p \in CallPairs, NEW q \in CallPairs PROVE <<p[1] \o q[1], p[2] \o q[2]>> \in CallPairs
  <2>1. PICK a, b, c, d : a = p[1] /\ b = q[1] /\ c = p[2] /\ d = q[2]
    OBVIOUS
  <2>2. /\ a \in Seq(SentCallType) /\ b \in Seq(SentCallType) /\ c \in Seq(ToolPart) /\ d \in Seq(ToolPart)
        /\ Len(a) = Len(c) /\ \A i \in 1..Len(c) : a[i] = SentCall(c[i])
        /\ Len(b) = Len(d) /\ \A i \in 1..Len(d) : b[i] = SentCall(d[i])
    BY <2>1 DEF CallPairs
  <2>3. PICK e, f : e = a \o b /\ f = c \o d
    OBVIOUS
  <2>4. /\ e \in Seq(SentCallType) /\ f \in Seq(ToolPart)
        /\ Len(e) = Len(a) + Len(b) /\ Len(f) = Len(c) + Len(d)
        /\ \A i \in 1..(Len(a) + Len(b)) : e[i] = IF i <= Len(a) THEN a[i] ELSE b[i - Len(a)]
        /\ \A i \in 1..(Len(c) + Len(d)) : f[i] = IF i <= Len(c) THEN c[i] ELSE d[i - Len(c)]
    BY <2>2, <2>3, ConcatProperties
  <2>5. \A i \in 1..Len(f) : e[i] = SentCall(f[i])
    <3> TAKE i \in 1..Len(f)
    <3>0. Len(c) \in Nat /\ Len(d) \in Nat
      BY <2>2
    <3>1. CASE i <= Len(c)
      <4>1. i \in 1..Len(c) /\ i \in 1..(Len(c) + Len(d)) /\ i \in 1..(Len(a) + Len(b))
        BY <2>2, <2>4, <3>0, <3>1
      <4>2. e[i] = a[i] /\ f[i] = c[i]
        BY <2>2, <2>4, <3>1, <4>1
      <4> QED BY <2>2, <4>1, <4>2
    <3>2. CASE ~(i <= Len(c))
      <4>1. i - Len(c) \in 1..Len(d)
        BY <2>4, <3>0, <3>2
      <4> QED BY <2>2, <2>4, <3>0, <3>2, <4>1
    <3> QED BY <3>1, <3>2
  <2>6. <<e, f>> \in CallPairs
    BY <2>2, <2>4, <2>5, CallPairsAre
  <2> QED BY <2>1, <2>3, <2>6
<1> QED BY <1>1, <1>2, <1>3 DEF Joined2

\* The first message of a step.
AsksFor(step) == [role |-> "assistant", content |-> [i \in DOMAIN step |-> Call(step[i])]]

(* A part of an answer is a call when it is a tool                           *)
(* (session/message-v2.ts:541, convertToModelMessages).                      *)
LEMMA CallIs ==
  ASSUME NEW p \in AnswerPart
  PROVE  /\ Call(p) \in CallContent
         /\ p.type = "tool" => p \in ToolPart /\ SentPart(Call(p)) = SentCall(p) /\ SentCall(p) \in SentCallType
         /\ p.type # "tool" => SentPart(Call(p)) = Call(p) /\ SentPart(Call(p)).type \notin {"tool-call", "file"}
         /\ p.type = "tool" => SentPart(Call(p)).type = "tool-call"
         /\ SentPart(Call(p)) \in PlainContent \cup SentCallType
<1>1. CASE p.type = "tool"
  <2>1. p \in ToolPart
    BY <1>1 DEF AnswerPart, ToolPart
  <2>2. Call(p) = [id |-> p.id, type |-> "tool-call"] /\ p.id \in STRING
    BY <1>1, <2>1 DEF Call, ToolPart
  <2>3. SentPart(Call(p)) = SentCall(p)
    BY <2>2 DEF SentPart, SentCall
  <2>4. SentId(p.id) \in SentIdSet
    BY <2>2 DEF SentIdSet
  <2>5. SentCall(p) \in SentCallType /\ SentCall(p).type = "tool-call"
    BY <2>4 DEF SentCall, SentCallType
  <2>6. Call(p) \in CallContent
    BY <2>2 DEF CallContent
  <2> QED BY <1>1, <2>1, <2>3, <2>5, <2>6
<1>2. CASE p.type # "tool"
  <2>1. p.type \in {"step-start", "reasoning", "text"}
    BY <1>2 DEF AnswerPart
  <2>2. Call(p) = [type |-> p.type]
    BY <1>2 DEF Call
  <2>3. Call(p) \in PlainContent /\ Call(p).type = p.type
    BY <2>1, <2>2 DEF PlainContent
  <2>4. SentPart(Call(p)) = Call(p)
    BY <2>1, <2>3 DEF SentPart
  <2>5. Call(p) \in CallContent
    BY <2>3 DEF CallContent
  <2> QED BY <1>2, <2>1, <2>3, <2>4, <2>5
<1> QED BY <1>1, <1>2

\* The call in a content, as a function.
CallFn == [x \in PlainContent \cup SentCallType |-> When(x.type = "tool-call", x)]

(* The calls that are sent of a step are its tools, in their order, under    *)
(* the ids that are sent (session/message-v2.ts:541, convertToModelMessages; *)
(* provider/transform.ts:19-117).                                            *)
LEMMA CallsSent ==
  ASSUME NEW step \in Seq(AnswerPart)
  PROVE  <<Calls(SentMessage(AsksFor(step))), ToolsOf(step)>> \in CallPairs /\ Readable(SentMessage(AsksFor(step)))
<1>1. PICK n \in Nat : n = Len(step) /\ DOMAIN step = 1..n
  OBVIOUS
<1>2. PICK e : e = SentContent(AsksFor(step))
  OBVIOUS
<1>3. e = [i \in 1..n |-> SentPart(Call(step[i]))]
  <2>1. AsksFor(step).content = [i \in 1..n |-> Call(step[i])]
    BY <1>1 DEF AsksFor
  <2> QED BY <1>2, <2>1 DEF SentContent
<1>4. \A i \in 1..n : step[i] \in AnswerPart
  BY <1>1
<1>5. \A i \in 1..n : e[i] \in PlainContent \cup SentCallType /\ e[i].type # "file"
  <2> TAKE i \in 1..n
  <2>1. e[i] = SentPart(Call(step[i])) /\ step[i] \in AnswerPart
    BY <1>3, <1>4
  <2> QED BY <2>1, CallIs
<1>6. PICK t : t = [i \in 1..n |-> When(step[i].type = "tool", step[i])]
  OBVIOUS
<1>7. ToolsOf(step) = FlattenSeq(t)
  BY <1>1, <1>6, ToolsAre
<1>8. ASSUME NEW i \in 1..n
      PROVE  \/ step[i].type = "tool" /\ e[i] = SentCall(step[i]) /\ e[i].type = "tool-call" /\ e[i] \in SentCallType
                /\ step[i] \in ToolPart /\ t[i] = <<step[i]>>
             \/ e[i].type # "tool-call" /\ t[i] = <<>>
  <2>1. step[i] \in AnswerPart /\ e[i] = SentPart(Call(step[i])) /\ t[i] = When(step[i].type = "tool", step[i])
    BY <1>3, <1>4, <1>6
  <2>2. CASE step[i].type = "tool"
    BY <2>1, <2>2, CallIs DEF When
  <2>3. CASE step[i].type # "tool"
    BY <2>1, <2>3, CallIs DEF When
  <2> QED BY <2>2, <2>3
<1>9. <<<<>>, <<>>>> \in CallPairs
  BY CallsJoined DEF Joined2
<1>10. ASSUME NEW p \in ToolPart, SentCall(p) \in SentCallType PROVE <<<<SentCall(p)>>, <<p>>>> \in CallPairs
  <2>1. PICK a, c : a = <<SentCall(p)>> /\ c = <<p>>
    OBVIOUS
  <2>2. a \in Seq(SentCallType) /\ c \in Seq(ToolPart) /\ Len(a) = 1 /\ Len(c) = 1 /\ a[1] = SentCall(p) /\ c[1] = p
    BY <1>10, <2>1
  <2>3. <<a, c>> \in CallPairs
    BY <2>2, CallPairsAre
  <2> QED BY <2>1, <2>3
<1>11. CASE model.family # "interleaved"
  <2>1. SentMessage(AsksFor(step)).content = e
    BY <1>2, <1>11 DEF SentMessage
  <2>2. PICK s : s = [i \in 1..n |-> When(e[i].type = "tool-call", e[i])]
    OBVIOUS
  <2>3. Calls(SentMessage(AsksFor(step))) = FlattenSeq(s)
    <3>1. DOMAIN e = 1..n
      BY <1>3
    <3> QED BY <2>1, <2>2, <3>1 DEF Calls
  <2>4. \A i \in 1..n : <<s[i], t[i]>> \in CallPairs
    <3> TAKE i \in 1..n
    <3>1. CASE step[i].type = "tool" /\ e[i] = SentCall(step[i]) /\ e[i].type = "tool-call" /\ e[i] \in SentCallType
                /\ step[i] \in ToolPart /\ t[i] = <<step[i]>>
      <4>1. s[i] = <<SentCall(step[i])>>
        BY <2>2, <3>1 DEF When
      <4> QED BY <1>10, <3>1, <4>1
    <3>2. CASE e[i].type # "tool-call" /\ t[i] = <<>>
      <4>1. s[i] = <<>>
        BY <2>2, <3>2 DEF When
      <4> QED BY <1>9, <3>2, <4>1
    <3> QED BY <1>8, <3>1, <3>2
  <2>5. DOMAIN s = 1..n /\ DOMAIN t = 1..n /\ s = [i \in 1..n |-> s[i]] /\ t = [i \in 1..n |-> t[i]]
    BY <1>6, <2>2
  <2>6. <<FlattenSeq(s), FlattenSeq(t)>> \in CallPairs
    BY <2>4, <2>5, CallsJoined, FlattenBoth
  <2>7. Readable(SentMessage(AsksFor(step)))
    <3>1. DOMAIN e = 1..n
      BY <1>3
    <3> QED BY <1>5, <2>1, <3>1 DEF Readable
  <2> QED BY <1>7, <2>3, <2>6, <2>7
<1>12. CASE model.family = "interleaved"
  <2>1. PICK r : r = [i \in 1..n |-> When(e[i].type # "reasoning", e[i])]
    OBVIOUS
  <2>2. SentMessage(AsksFor(step)).content = FlattenSeq(r)
    <3>1. DOMAIN e = 1..n
      BY <1>3
    <3>2. AsksFor(step).role = "assistant"
      BY DEF AsksFor
    <3>3. SentMessage(AsksFor(step)).content = FlattenSeq([j \in DOMAIN e |-> When(e[j].type # "reasoning", e[j])])
      BY <1>2, <1>12, <3>2 DEF SentMessage
    <3> QED BY <2>1, <3>1, <3>3
  <2>3. PICK A : A = {x \in PlainContent \cup SentCallType : x.type # "file"}
    OBVIOUS
  <2>4. r \in Seq(Seq(A))
    <3>1. PICK D : D = Seq(A)
      OBVIOUS
    <3>2. \A i \in 1..n : When(e[i].type # "reasoning", e[i]) \in D
      <4> TAKE i \in 1..n
      <4>1. e[i] \in A
        BY <1>5, <2>3
      <4> QED BY <3>1, <4>1, WhenIs
    <3>3. r \in Seq(D)
      BY <2>1, <3>2
    <3> QED BY <3>1, <3>3
  <2>5. PICK c : c = FlattenSeq(r)
    OBVIOUS
  <2>6. c \in Seq(A)
    BY <2>4, <2>5, FlattenType
  <2>7. \A j \in DOMAIN c : c[j] \in PlainContent \cup SentCallType /\ c[j].type # "file"
    BY <2>3, <2>6
  <2>8. Readable(SentMessage(AsksFor(step)))
    BY <2>2, <2>5, <2>7 DEF Readable
  <2>9. Calls(SentMessage(AsksFor(step))) = FlattenSeq(Mapped(CallFn, c))
    <3>1. \A j \in DOMAIN c : CallFn[c[j]] = When(c[j].type = "tool-call", c[j])
      BY <2>7 DEF CallFn
    <3>2. Mapped(CallFn, c) = [j \in DOMAIN c |-> When(c[j].type = "tool-call", c[j])]
      BY <3>1 DEF Mapped
    <3> QED BY <2>2, <2>5, <3>2 DEF Calls
  <2>10. CallFn \in [PlainContent \cup SentCallType -> Seq(SentCallType)]
    <3>1. \A x \in PlainContent \cup SentCallType : When(x.type = "tool-call", x) \in Seq(SentCallType)
      <4> TAKE x \in PlainContent \cup SentCallType
      <4>1. x.type = "tool-call" => x \in SentCallType
        BY DEF PlainContent
      <4> QED BY <4>1, WhenIs
    <3> QED BY <3>1 DEF CallFn
  <2>11. Joined2(Under(CallPairs, CallFn, PlainContent \cup SentCallType, ToolPart), PlainContent \cup SentCallType,
           ToolPart)
    BY <2>10, CallsJoined, JoinedUnder
  <2>12. \A i \in 1..n : <<r[i], t[i]>> \in Under(CallPairs, CallFn, PlainContent \cup SentCallType, ToolPart)
    <3> TAKE i \in 1..n
    <3>1. r[i] = When(e[i].type # "reasoning", e[i]) /\ e[i] \in PlainContent \cup SentCallType
      BY <1>5, <2>1
    <3>2. Mapped(CallFn, <<>>) = <<>>
      BY DEF Mapped
    <3>3. Mapped(CallFn, <<e[i]>>) = <<When(e[i].type = "tool-call", e[i])>>
      <4>1. CallFn[e[i]] = When(e[i].type = "tool-call", e[i])
        BY <3>1 DEF CallFn
      <4> QED BY <4>1 DEF Mapped
    <3>4. r[i] \in Seq(PlainContent \cup SentCallType)
      BY <3>1, WhenIs
    <3>5. CASE step[i].type = "tool" /\ e[i] = SentCall(step[i]) /\ e[i].type = "tool-call" /\ e[i] \in SentCallType
                /\ step[i] \in ToolPart /\ t[i] = <<step[i]>>
      <4>1. r[i] = <<e[i]>> /\ Mapped(CallFn, r[i]) = <<<<e[i]>>>>
        BY <3>1, <3>3, <3>5 DEF When
      <4>2. <<e[i]>> \in Seq(SentCallType) /\ t[i] \in Seq(ToolPart)
        BY <3>5
      <4>3. FlattenSeq(Mapped(CallFn, r[i])) = <<e[i]>>
        BY <4>1, <4>2, FlattenOne
      <4>4. <<FlattenSeq(Mapped(CallFn, r[i])), t[i]>> \in CallPairs
        BY <1>10, <3>5, <4>3
      <4> QED BY <3>4, <4>2, <4>4, UnderIs
    <3>6. CASE e[i].type # "tool-call" /\ t[i] = <<>>
      <4>1. FlattenSeq(Mapped(CallFn, r[i])) = <<>>
        <5>1. CASE e[i].type = "reasoning"
          BY <3>1, <3>2, <5>1, FlattenEmpty DEF When
        <5>2. CASE e[i].type # "reasoning"
          <6>1. r[i] = <<e[i]>> /\ Mapped(CallFn, r[i]) = <<<<>>>>
            BY <3>1, <3>3, <3>6, <5>2 DEF When
          <6>2. <<>> \in Seq(SentCallType)
            OBVIOUS
          <6> QED BY <6>1, <6>2, FlattenOne
        <5> QED BY <5>1, <5>2
      <4>2. <<FlattenSeq(Mapped(CallFn, r[i])), t[i]>> \in CallPairs /\ t[i] \in Seq(ToolPart)
        BY <1>9, <3>6, <4>1
      <4> QED BY <3>4, <4>2, UnderIs
    <3> QED BY <1>8, <3>5, <3>6
  <2>13. DOMAIN r = 1..n /\ DOMAIN t = 1..n /\ r = [i \in 1..n |-> r[i]] /\ t = [i \in 1..n |-> t[i]]
    BY <1>6, <2>1
  <2>14. <<FlattenSeq(r), FlattenSeq(t)>> \in Under(CallPairs, CallFn, PlainContent \cup SentCallType, ToolPart)
    BY <2>11, <2>12, <2>13, FlattenBoth
  <2>15. <<Calls(SentMessage(AsksFor(step))), ToolsOf(step)>> \in CallPairs
    BY <1>7, <2>5, <2>9, <2>14, UnderIs
  <2> QED BY <2>8, <2>15
<1> QED BY <1>11, <1>12

(* A message without calls or results answers nothing and asks nothing       *)
(* (session/message-v2.ts:421-542).                                          *)
LEMMA OneIsGood ==
  ASSUME NEW m \in MsgType, m.role # "tool", m.role = "assistant" => Calls(SentMessage(m)) = <<>>,
           Readable(SentMessage(m))
  PROVE  <<<<m>>, <<>>>> \in GoodPairs
<1>1. PICK u : u = <<m>>
  OBVIOUS
<1>2. u \in Seq(MsgType) /\ Len(u) = 1 /\ u[1] = m
  BY <1>1
<1>3. PICK s : s = Sent(u)
  OBVIOUS
<1>4. DOMAIN s = 1..1 /\ Len(s) = 1 /\ s[1] = SentMessage(m) /\ s[1].role = m.role /\ Results(s) = FlattenSeq(Mapped(IdsFn, u))
  BY <1>2, <1>3, SentIs
<1>5. Mapped(IdsFn, u) = <<<<>>>>
  <2>1. IdsFn[m] = <<>>
    BY DEF IdsFn
  <2> QED BY <1>1, <2>1 DEF Mapped
<1>6. Results(s) = <<>>
  <2>1. <<>> \in Seq(SentIdSet)
    OBVIOUS
  <2> QED BY <1>4, <1>5, <2>1, FlattenOne
<1>7. \A i \in DOMAIN s : AnsweredNext(s, i) /\ Readable(s[i])
  BY <1>4 DEF AnsweredNext
<1>8. IdsOf(<<>>) = <<>>
  BY DEF IdsOf
<1>9. Good(s, <<>>)
  BY <1>6, <1>7, <1>8 DEF Good
<1>10. <<>> \in Seq(ToolPart)
  OBVIOUS
<1> QED BY <1>1, <1>2, <1>3, <1>9, <1>10, GoodPairsAre

(* Neither does a question or a system prompt                                *)
(* (session/message-v2.ts:434-461, session/llm.ts:57-83).                    *)
LEMMA UserIsGood ==
  ASSUME NEW role \in {"system", "user"}, NEW content \in Seq(QuestionContent)
  PROVE  <<<<[role |-> role, content |-> content]>>, <<>>>> \in GoodPairs
<1>1. PICK m : m = [role |-> role, content |-> content]
  OBVIOUS
<1>2. m \in MsgType /\ m.role \in {"system", "user"} /\ m.content = content
  BY <1>1 DEF MsgType
<1>3. SentMessage(m).content = SentContent(m)
  BY <1>2 DEF SentMessage
<1>4. Readable(SentMessage(m))
  <2>1. \A j \in DOMAIN content : SentPart(content[j]).type = "file" => SentPart(content[j]).of \in model.input
    BY SentPartIs
  <2> QED BY <1>2, <1>3, <2>1 DEF Readable, SentContent
<1>5. m.role # "tool" /\ m.role # "assistant"
  BY <1>2
<1> QED BY <1>1, <1>2, <1>4, <1>5, OneIsGood

(* Two messages (session/message-v2.ts:541, convertToModelMessages).         *)
LEMMA TwoAre ==
  ASSUME NEW A, NEW x, NEW y, x \in A, y \in A
  PROVE  <<x>> \o <<y>> = <<x, y>>
<1>1. PICK a, b : a = <<x>> \o <<y>> /\ b = <<x, y>>
  OBVIOUS
<1>2. <<x>> \in Seq(A) /\ <<y>> \in Seq(A) /\ Len(<<x>>) = 1 /\ Len(<<y>>) = 1
  OBVIOUS
<1>3. a \in Seq(A) /\ Len(a) = 2 /\ a[1] = x /\ a[2] = y
  BY <1>1, <1>2
<1>4. b \in Seq(A) /\ Len(b) = 2 /\ b[1] = x /\ b[2] = y
  BY <1>1
<1>5. \A i \in 1..2 : a[i] = b[i]
  BY <1>3, <1>4
<1> QED BY <1>1, <1>3, <1>4, <1>5, SeqEqual

(* One message behind another (session/message-v2.ts:541,                    *)
(* convertToModelMessages).                                                  *)
LEMMA AppendedOne ==
  ASSUME NEW A, NEW x, NEW y, x \in A, y \in A
  PROVE  <<x, y>> = Append(<<x>>, y)
<1>1. PICK a, b : a = Append(<<x>>, y) /\ b = <<x, y>>
  OBVIOUS
<1>2. <<x>> \in Seq(A) /\ Len(<<x>>) = 1
  OBVIOUS
<1>3. a \in Seq(A) /\ Len(a) = 2 /\ a[1] = x /\ a[2] = y
  BY <1>1, <1>2
<1>4. b \in Seq(A) /\ Len(b) = 2 /\ b[1] = x /\ b[2] = y
  BY <1>1
<1>5. \A i \in 1..2 : a[i] = b[i]
  BY <1>3, <1>4
<1> QED BY <1>1, <1>3, <1>4, <1>5, SeqEqual

(* The calls of a step, all of them, are answered one by one in the message  *)
(* right behind them (session/message-v2.ts:541, convertToModelMessages).    *)
LEMMA StepIsGood ==
  ASSUME NEW step \in Seq(AnswerPart)
  PROVE  <<StepMessages(step), ToolsOf(step)>> \in GoodPairs
<1>1. PICK c : c = ToolsOf(step)
  OBVIOUS
<1>2. c \in Seq(ToolPart) /\ DOMAIN c = 1..Len(c) /\ Len(c) \in Nat
  <2>1. c \in Seq(ToolPart)
    BY <1>1, ToolsAre
  <2> QED BY <2>1
<1>3. PICK a : a = AsksFor(step)
  OBVIOUS
<1>4. a \in MsgType /\ a.role = "assistant"
  <2>1. \A i \in 1..Len(step) : Call(step[i]) \in CallContent
    BY CallIs
  <2>2. DOMAIN step = 1..Len(step) /\ Len(step) \in Nat
    OBVIOUS
  <2>3. [i \in DOMAIN step |-> Call(step[i])] \in Seq(CallContent)
    BY <2>1, <2>2
  <2> QED BY <1>3, <2>3 DEF AsksFor, MsgType
<1>5. PICK t : t = [role |-> "tool", content |-> [i \in DOMAIN c |-> [id |-> c[i].id, type |-> "tool-result"]]]
  OBVIOUS
<1>6. t \in MsgType /\ t.role = "tool" /\ t.content = [i \in 1..Len(c) |-> [id |-> c[i].id, type |-> "tool-result"]]
  <2>1. \A i \in 1..Len(c) : [id |-> c[i].id, type |-> "tool-result"] \in ResultContent
    <3> TAKE i \in 1..Len(c)
    <3>1. c[i] \in ToolPart
      BY <1>2
    <3>2. c[i].id \in STRING
      BY <3>1 DEF ToolPart
    <3> QED BY <3>2 DEF ResultContent
  <2>2. [i \in DOMAIN c |-> [id |-> c[i].id, type |-> "tool-result"]] \in Seq(ResultContent)
    BY <1>2, <2>1
  <2> QED BY <1>2, <1>5, <2>2 DEF MsgType
<1>7. StepMessages(step) = When(step # <<>>, a) \o When(c # <<>>, t)
  BY <1>1, <1>3, <1>5 DEF StepMessages, AsksFor
<1>8. PICK calls : calls = Calls(SentMessage(a))
  OBVIOUS
<1>9. /\ calls \in Seq(SentCallType) /\ Len(calls) = Len(c) /\ \A i \in 1..Len(c) : calls[i] = SentCall(c[i])
      /\ Readable(SentMessage(a))
  BY <1>1, <1>3, <1>8, CallsSent, CallPairsAre
<1>10. CASE step = <<>>
  <2>1. c = <<>>
    <3>1. Len(step) = 0 /\ DOMAIN step = {}
      BY <1>10
    <3>2. ToolsOf(step) = FlattenSeq(<<>>)
      BY <1>10, <3>1 DEF ToolsOf
    <3> QED BY <1>1, <3>2, FlattenEmpty
  <2>2. StepMessages(step) = <<>>
    BY <1>7, <1>10, <2>1 DEF When
  <2> QED BY <1>1, <2>1, <2>2, GoodJoined DEF Joined2
<1>11. CASE step # <<>> /\ c = <<>>
  <2>1. StepMessages(step) = <<a>>
    BY <1>7, <1>11 DEF When
  <2>2. calls = <<>>
    BY <1>9, <1>11, EmptySeq
  <2> QED BY <1>1, <1>4, <1>8, <1>9, <1>11, <2>1, <2>2, OneIsGood
<1>12. CASE step # <<>> /\ c # <<>>
  <2>1. PICK u : u = <<a, t>>
    OBVIOUS
  <2>2. StepMessages(step) = u
    <3>1. When(step # <<>>, a) = <<a>> /\ When(c # <<>>, t) = <<t>>
      BY <1>12 DEF When
    <3>2. <<a>> \o <<t>> = <<a, t>>
      BY <1>4, <1>6, TwoAre
    <3> QED BY <1>7, <2>1, <3>1, <3>2
  <2>3. u \in Seq(MsgType) /\ Len(u) = 2 /\ u[1] = a /\ u[2] = t
    BY <1>4, <1>6, <2>1
  <2>4. PICK s : s = Sent(u)
    OBVIOUS
  <2>5. /\ DOMAIN s = 1..2 /\ Len(s) = 2 /\ s[1] = SentMessage(a) /\ s[2] = SentMessage(t)
        /\ s[1].role = "assistant" /\ s[2].role = "tool" /\ Results(s) = FlattenSeq(Mapped(IdsFn, u))
    <3>1. /\ DOMAIN s = 1..2 /\ Len(s) = 2 /\ Results(s) = FlattenSeq(Mapped(IdsFn, u))
          /\ \A i \in 1..2 : s[i] = SentMessage(u[i]) /\ s[i].role = u[i].role
      BY <2>3, <2>4, SentIs
    <3>2. s[1] = SentMessage(a) /\ s[1].role = a.role /\ s[2] = SentMessage(t) /\ s[2].role = t.role
      BY <2>3, <3>1
    <3> QED BY <1>4, <1>6, <3>1, <3>2
  <2>6. ResultIds(s[2]) = IdsOf(c) /\ ResultIds(s[2]) \in Seq(SentIdSet)
    <3>1. ResultIds(SentMessage(t)) = [j \in DOMAIN t.content |-> SentId(t.content[j].id)] /\ ResultIds(SentMessage(t)) \in Seq(SentIdSet)
      BY <1>6, ToolIdsAre
    <3>2. DOMAIN t.content = DOMAIN c /\ \A j \in DOMAIN c : t.content[j].id = c[j].id
      BY <1>2, <1>6
    <3> QED BY <2>5, <3>1, <3>2 DEF IdsOf
  <2>7. CallsOf(s[1]) = IdsOf(c)
    <3>1. DOMAIN calls = DOMAIN c /\ \A i \in DOMAIN c : calls[i].id = SentId(c[i].id)
      <4>1. DOMAIN calls = 1..Len(c)
        BY <1>9
      <4>2. \A i \in 1..Len(c) : calls[i].id = SentId(c[i].id)
        <5> TAKE i \in 1..Len(c)
        <5>1. calls[i] = SentCall(c[i])
          BY <1>9
        <5> QED BY <5>1 DEF SentCall
      <4> QED BY <1>2, <4>1, <4>2
    <3> QED BY <1>8, <2>5, <3>1 DEF CallsOf, IdsOf
  <2>8. Len(s[2].content) = Len(c)
    <3>1. s[2].content = SentContent(t)
      BY <1>6, <2>5 DEF SentMessage
    <3>2. SentContent(t) = [j \in 1..Len(c) |-> SentPart(t.content[j])]
      BY <1>2, <1>6 DEF SentContent
    <3> QED BY <1>2, <3>1, <3>2
  <2>9. Readable(s[2])
    <3>1. s[2].content = SentContent(t)
      BY <1>6, <2>5 DEF SentMessage
    <3>2. \A j \in DOMAIN t.content : SentPart(t.content[j]).type = "file" => SentPart(t.content[j]).of \in model.input
      <4>1. t.content \in Seq(ResultContent)
        BY <1>6, ToolIdsAre
      <4> QED BY <4>1, SentPartIs
    <3> QED BY <3>1, <3>2 DEF Readable, SentContent
  <2>10. AnsweredNext(s, 1) /\ AnsweredNext(s, 2)
    <3>1. Calls(s[1]) = calls /\ Len(calls) = Len(s[2].content)
      BY <1>8, <1>9, <2>5, <2>8
    <3> QED BY <2>5, <2>6, <2>7, <3>1 DEF AnsweredNext
  <2>11. Results(s) = IdsOf(c)
    <3>1. Mapped(IdsFn, u) = Append(<<<<>>>>, ResultIds(s[2]))
      <4>1. IdsFn[a] = <<>> /\ IdsFn[t] = ResultIds(s[2])
        BY <1>4, <1>6, <2>5 DEF IdsFn
      <4>2. Mapped(IdsFn, u) = <<IdsFn[a], IdsFn[t]>>
        BY <2>1, <2>3 DEF Mapped
      <4> QED BY <4>1, <4>2
    <3>2. <<<<>>>> \in Seq(Seq(SentIdSet)) /\ <<>> \in Seq(SentIdSet)
      OBVIOUS
    <3>3. FlattenSeq(<<<<>>>>) = <<>>
      BY <3>2, FlattenOne
    <3>4. FlattenSeq(Append(<<<<>>>>, ResultIds(s[2]))) = <<>> \o ResultIds(s[2])
      BY <2>6, <3>2, <3>3, FlattenAppend
    <3>5. <<>> \o ResultIds(s[2]) = ResultIds(s[2])
      BY <2>6
    <3> QED BY <2>5, <2>6, <3>1, <3>4, <3>5
  <2>12. \A i \in DOMAIN s : AnsweredNext(s, i) /\ Readable(s[i])
    <3>1. \A i \in DOMAIN s : i = 1 \/ i = 2
      BY <2>5
    <3> QED BY <1>9, <2>5, <2>9, <2>10, <3>1
  <2>13. Good(s, c)
    BY <2>11, <2>12 DEF Good
  <2> QED BY <1>1, <1>2, <2>2, <2>3, <2>4, <2>13, GoodPairsAre
<1> QED BY <1>10, <1>11, <1>12

(* A function over a sequence with one element more                          *)
(* (session/message-v2.ts:421-542).                                          *)
LEMMA MappedAppend ==
  ASSUME NEW U, NEW f, NEW u \in Seq(U), NEW x \in U
  PROVE  Mapped(f, Append(u, x)) = Append(Mapped(f, u), f[x])
<1>1. PICK A : A = {f[y] : y \in U}
  OBVIOUS
<1>2. \A y \in U : f[y] \in A
  BY <1>1
<1>3. PICK v : v = Append(u, x)
  OBVIOUS
<1>4. v \in Seq(U) /\ Len(v) = Len(u) + 1 /\ v[Len(u) + 1] = x /\ (\A i \in 1..Len(u) : v[i] = u[i]) /\ Len(u) \in Nat
  BY <1>3
<1>5. PICK a, b : a = Mapped(f, u) /\ b = Mapped(f, v)
  OBVIOUS
<1>6. a \in Seq(A) /\ Len(a) = Len(u) /\ \A i \in 1..Len(u) : a[i] = f[u[i]]
  BY <1>2, <1>5, MapIs DEF Mapped
<1>7. b \in Seq(A) /\ Len(b) = Len(v) /\ \A i \in 1..Len(v) : b[i] = f[v[i]]
  BY <1>2, <1>4, <1>5, MapIs DEF Mapped
<1>8. PICK c : c = Append(a, f[x])
  OBVIOUS
<1>9. c \in Seq(A) /\ Len(c) = Len(u) + 1 /\ c[Len(u) + 1] = f[x] /\ \A i \in 1..Len(u) : c[i] = a[i]
  BY <1>2, <1>6, <1>8
<1>10. \A i \in 1..Len(b) : b[i] = c[i]
  <2> TAKE i \in 1..Len(b)
  <2>1. CASE i = Len(u) + 1
    BY <1>4, <1>7, <1>9, <2>1
  <2>2. CASE i # Len(u) + 1
    <3>1. i \in 1..Len(u) /\ i \in 1..Len(v)
      BY <1>4, <1>7, <2>2
    <3> QED BY <1>4, <1>6, <1>7, <1>9, <3>1
  <2> QED BY <2>1, <2>2
<1>11. b = c
  BY <1>4, <1>7, <1>9, <1>10, SeqEqual
<1> QED BY <1>3, <1>5, <1>8, <1>11

\* The tool in a part, as a function.
ToolFn == [x \in AnswerPart |-> When(x.type = "tool", x)]

(* The tools of an answer, as a function over its parts                      *)
(* (session/message-v2.ts:541, convertToModelMessages).                      *)
LEMMA ToolFnIs ==
  /\ ToolFn \in [AnswerPart -> Seq(ToolPart)]
  /\ \A parts \in Seq(AnswerPart) :
       ToolsOf(parts) = FlattenSeq(Mapped(ToolFn, parts)) /\ Mapped(ToolFn, parts) \in Seq(Seq(ToolPart))
<1>1. ToolFn \in [AnswerPart -> Seq(ToolPart)]
  <2>1. \A x \in AnswerPart : When(x.type = "tool", x) \in Seq(ToolPart)
    <3> TAKE x \in AnswerPart
    <3>1. x.type = "tool" => x \in ToolPart
      BY DEF AnswerPart, ToolPart
    <3> QED BY <3>1, WhenIs
  <2> QED BY <2>1 DEF ToolFn
<1>2. ASSUME NEW parts \in Seq(AnswerPart)
      PROVE  Mapped(ToolFn, parts) = [i \in 1..Len(parts) |-> When(parts[i].type = "tool", parts[i])]
  <2>1. DOMAIN parts = 1..Len(parts) /\ \A i \in 1..Len(parts) : parts[i] \in AnswerPart
    OBVIOUS
  <2>2. \A i \in 1..Len(parts) : ToolFn[parts[i]] = When(parts[i].type = "tool", parts[i])
    BY <2>1 DEF ToolFn
  <2> QED BY <2>1, <2>2 DEF Mapped
<1> QED BY <1>1, <1>2, ToolsAre

(* The tools of an answer with one part more (session/message-v2.ts:541,     *)
(* convertToModelMessages).                                                  *)
LEMMA ToolsAppend ==
  ASSUME NEW parts \in Seq(AnswerPart), NEW p \in AnswerPart
  PROVE  ToolsOf(Append(parts, p)) = ToolsOf(parts) \o When(p.type = "tool", p) /\ When(p.type = "tool",
           p) \in Seq(ToolPart)
<1>1. Append(parts, p) \in Seq(AnswerPart)
  OBVIOUS
<1>2. Mapped(ToolFn, Append(parts, p)) = Append(Mapped(ToolFn, parts), ToolFn[p])
  BY MappedAppend
<1>3. ToolFn[p] = When(p.type = "tool", p) /\ ToolFn[p] \in Seq(ToolPart)
  BY ToolFnIs DEF ToolFn
<1>4. Mapped(ToolFn, parts) \in Seq(Seq(ToolPart))
  BY ToolFnIs
<1>5. FlattenSeq(Append(Mapped(ToolFn, parts), ToolFn[p])) = FlattenSeq(Mapped(ToolFn, parts)) \o ToolFn[p]
  BY <1>3, <1>4, FlattenAppend
<1> QED BY <1>1, <1>2, <1>3, <1>5, ToolFnIs

\* How one part is cut, and then the first parts.
CutOnce(acc, p) ==
  IF p.type = "step-start" THEN Append(acc, <<>>) ELSE ReplaceAt(acc, Len(acc), Append(Last(acc), p))
CutRule(parts, n, f) ==
  f = [k \in 0..n |-> IF k = 0 THEN <<<<>>>> ELSE CutOnce(f[k - 1], parts[k])]

(* There is a function that tells how the first parts of an answer are cut   *)
(* into steps (session/message-v2.ts:541, convertToModelMessages).           *)
LEMMA CutExists ==
  ASSUME NEW parts, NEW n \in Nat
  PROVE  \E f : CutRule(parts, n, f)
<1> DEFINE S == {k \in Nat : \E f : CutRule(parts, k, f)}
<1>1. 0 \in S
  <2> DEFINE f == [i \in 0..0 |-> <<<<>>>>]
  <2>1. f = [i \in 0..0 |-> IF i = 0 THEN <<<<>>>> ELSE CutOnce(f[i - 1], parts[i])]
    OBVIOUS
  <2>2. CutRule(parts, 0, f)
    BY <2>1 DEF CutRule
  <2> HIDE DEF f
  <2> QED BY <2>2
<1>2. ASSUME NEW k \in 1..n, k - 1 \in S PROVE k \in S
  <2>1. PICK f : CutRule(parts, k - 1, f)
    BY <1>2
  <2> DEFINE g == [i \in 0..k |-> IF i = k THEN CutOnce(f[k - 1], parts[k]) ELSE f[i]]
  <2>2. \A i \in 0..(k - 1) : f[i] = IF i = 0 THEN <<<<>>>> ELSE CutOnce(f[i - 1], parts[i])
    BY <2>1 DEF CutRule
  <2>3. \A i \in 0..k : g[i] = IF i = 0 THEN <<<<>>>> ELSE CutOnce(g[i - 1], parts[i])
    <3> TAKE i \in 0..k
    <3>1. CASE i = k
      BY <3>1
    <3>2. CASE i # k
      BY <3>2, <2>2
    <3> QED BY <3>1, <3>2
  <2>4. g = [i \in 0..k |-> IF i = 0 THEN <<<<>>>> ELSE CutOnce(g[i - 1], parts[i])]
    BY <2>3
  <2>5. CutRule(parts, k, g)
    BY <2>4 DEF CutRule
  <2> HIDE DEF g
  <2> QED BY <2>5
<1>3. n \in S
  <2> HIDE DEF S
  <2> QED BY <1>1, <1>2, UpwardsTo
<1> QED BY <1>3

(* The steps of an answer are its last value (session/message-v2.ts:541,     *)
(* convertToModelMessages).                                                  *)
LEMMA StepsAre ==
  ASSUME NEW parts \in Seq(AnswerPart)
  PROVE  \E f : CutRule(parts, Len(parts), f) /\ Steps(parts) = f[Len(parts)]
<1> DEFINE f == CHOOSE g : g = [k \in 0..Len(parts) |->
                                 IF k = 0 THEN <<<<>>>>
                                 ELSE IF parts[k].type = "step-start" THEN Append(g[k - 1], <<>>)
                                 ELSE ReplaceAt(g[k - 1], Len(g[k - 1]), Append(Last(g[k - 1]), parts[k]))]
<1>1. Len(parts) \in Nat
  OBVIOUS
<1>2. \E g : CutRule(parts, Len(parts), g)
  BY <1>1, CutExists
<1>3. CutRule(parts, Len(parts), f)
  BY <1>2, Zenon DEF CutRule, CutOnce
<1>4. Steps(parts) = f[Len(parts)]
  BY Zenon DEF Steps
<1> HIDE DEF f
<1> QED BY <1>3, <1>4

\* Steps that hold the tools of the parts so far.
StepFn == [x \in Seq(AnswerPart) |-> ToolsOf(x)]
Kept(acc, parts) ==
  acc \in Seq(Seq(AnswerPart)) /\ acc # <<>> /\ FlattenSeq(Mapped(StepFn, acc)) = ToolsOf(parts)

(* The tools of the steps with one step more (session/message-v2.ts:541,     *)
(* convertToModelMessages).                                                  *)
LEMMA StepFnIs ==
  ASSUME NEW acc \in Seq(Seq(AnswerPart)), NEW x \in Seq(AnswerPart)
  PROVE  /\ Mapped(StepFn, acc) \in Seq(Seq(ToolPart))
         /\ Mapped(StepFn, Append(acc, x)) = Append(Mapped(StepFn, acc), ToolsOf(x))
         /\ FlattenSeq(Mapped(StepFn, Append(acc, x))) = FlattenSeq(Mapped(StepFn, acc)) \o ToolsOf(x)
<1>1. PICK U : U = Seq(AnswerPart)
  OBVIOUS
<1>2. PICK A : A = Seq(ToolPart)
  OBVIOUS
<1>3. \A y \in U : StepFn[y] = ToolsOf(y) /\ StepFn[y] \in A
  BY <1>1, <1>2, ToolsAre DEF StepFn
<1>4. acc \in Seq(U) /\ x \in U
  BY <1>1
<1>5. Mapped(StepFn, acc) \in Seq(A)
  <2>1. PICK b : b = Mapped(StepFn, acc)
    OBVIOUS
  <2>2. DOMAIN acc = 1..Len(acc) /\ Len(acc) \in Nat /\ \A i \in 1..Len(acc) : acc[i] \in U
    BY <1>4
  <2>3. \A i \in 1..Len(acc) : StepFn[acc[i]] \in A
    BY <1>3, <2>2
  <2>4. b = [i \in 1..Len(acc) |-> StepFn[acc[i]]]
    BY <2>1, <2>2 DEF Mapped
  <2>5. b \in Seq(A)
    BY <2>2, <2>3, <2>4
  <2> QED BY <2>1, <2>5
<1>6. Mapped(StepFn, Append(acc, x)) = Append(Mapped(StepFn, acc), ToolsOf(x))
  BY <1>3, <1>4, MappedAppend
<1>7. ToolsOf(x) \in Seq(ToolPart)
  BY ToolsAre
<1>8. Mapped(StepFn, acc) \in Seq(Seq(ToolPart))
  BY <1>2, <1>5
<1> QED BY <1>6, <1>7, <1>8, FlattenAppend

(* A part that is a start opens a step, another goes into the last one: no   *)
(* tool is lost and none moves (session/message-v2.ts:541,                   *)
(* convertToModelMessages).                                                  *)
LEMMA CutKeeps ==
  ASSUME NEW acc, NEW parts \in Seq(AnswerPart), Kept(acc, parts), NEW p \in AnswerPart
  PROVE  Kept(CutOnce(acc, p), Append(parts, p))
<1>1. acc \in Seq(Seq(AnswerPart)) /\ acc # <<>> /\ FlattenSeq(Mapped(StepFn, acc)) = ToolsOf(parts)
  BY DEF Kept
<1>2. ToolsOf(Append(parts, p)) = ToolsOf(parts) \o When(p.type = "tool", p) /\ ToolsOf(parts) \in Seq(ToolPart)
  BY ToolsAppend, ToolsAre
<1>3. PICK U : U = Seq(AnswerPart)
  OBVIOUS
<1>4. acc \in Seq(U)
  BY <1>1, <1>3
<1>5. CASE p.type = "step-start"
  <2>1. CutOnce(acc, p) = Append(acc, <<>>)
    BY <1>5 DEF CutOnce
  <2>2. <<>> \in Seq(AnswerPart)
    OBVIOUS
  <2>3. ToolsOf(<<>>) = <<>> /\ When(p.type = "tool", p) = <<>>
    BY <1>5, FlattenEmpty DEF ToolsOf, When
  <2>4. FlattenSeq(Mapped(StepFn, Append(acc, <<>>))) = ToolsOf(parts) \o <<>>
    BY <1>1, <2>2, <2>3, StepFnIs
  <2>5. Append(acc, <<>>) \in Seq(Seq(AnswerPart)) /\ Append(acc, <<>>) # <<>>
    BY <1>3, <1>4, <2>2
  <2> QED BY <1>2, <2>1, <2>3, <2>4, <2>5 DEF Kept
<1>6. CASE p.type # "step-start"
  <2>1. PICK n \in Nat : n + 1 = Len(acc)
    <3>1. Len(acc) \in Nat /\ Len(acc) # 0
      BY <1>4, <1>1, EmptySeq
    <3>2. Len(acc) - 1 \in Nat /\ (Len(acc) - 1) + 1 = Len(acc)
      BY <3>1
    <3> QED BY <3>2
  <2>2. PICK front : front = SubSeq(acc, 1, n)
    OBVIOUS
  <2>3. front \in Seq(U) /\ Len(front) = n /\ \A i \in 1..n : front[i] = acc[i]
    BY <1>4, <2>1, <2>2
  <2>4. PICK x : x = acc[n + 1] /\ x \in U
    BY <1>4, <2>1
  <2>5. acc = Append(front, x)
    <3>1. PICK b : b = Append(front, x)
      OBVIOUS
    <3>2. b \in Seq(U) /\ Len(b) = n + 1 /\ b[n + 1] = x /\ \A i \in 1..n : b[i] = front[i]
      BY <2>3, <2>4, <3>1
    <3>3. \A i \in 1..(n + 1) : acc[i] = b[i]
      <4> TAKE i \in 1..(n + 1)
      <4>1. i = n + 1 \/ i \in 1..n
        OBVIOUS
      <4> QED BY <2>3, <2>4, <3>2, <4>1
    <3> QED BY <1>4, <2>1, <3>1, <3>2, <3>3, SeqEqual
  <2>6. CutOnce(acc, p) = Append(front, Append(x, p))
    <3>1. Last(acc) = x
      BY <2>1, <2>4 DEF Last
    <3>2. PICK y : y = Append(x, p) /\ y \in U
      <4>1. PICK y : y = Append(x, p)
        OBVIOUS
      <4>2. x \in Seq(AnswerPart)
        BY <1>3, <2>4
      <4>3. y \in Seq(AnswerPart)
        BY <4>1, <4>2, AppendedIs
      <4> QED BY <1>3, <4>1, <4>3
    <3>3. PICK a, b : a = [acc EXCEPT ![n + 1] = y] /\ b = Append(front, y)
      OBVIOUS
    <3>4. a \in Seq(U) /\ Len(a) = n + 1 /\ a[n + 1] = y /\ \A i \in 1..n : a[i] = acc[i]
      BY <1>4, <2>1, <3>2, <3>3
    <3>5. b \in Seq(U) /\ Len(b) = n + 1 /\ b[n + 1] = y /\ \A i \in 1..n : b[i] = front[i]
      BY <2>3, <3>2, <3>3
    <3>6. \A i \in 1..(n + 1) : a[i] = b[i]
      <4> TAKE i \in 1..(n + 1)
      <4>1. i = n + 1 \/ i \in 1..n
        OBVIOUS
      <4> QED BY <2>3, <3>4, <3>5, <4>1
    <3>7. a = b
      BY <3>4, <3>5, <3>6, SeqEqual
    <3>8. CutOnce(acc, p) = ReplaceAt(acc, n + 1, y)
      BY <1>6, <2>1, <3>1, <3>2 DEF CutOnce
    <3>9. ReplaceAt(acc, n + 1, y) = a
      BY <3>3 DEF ReplaceAt
    <3> QED BY <3>2, <3>3, <3>7, <3>8, <3>9
  <2>7. front \in Seq(Seq(AnswerPart)) /\ x \in Seq(AnswerPart) /\ Append(x, p) \in Seq(AnswerPart)
    BY <1>3, <2>3, <2>4
  <2>8. PICK head : head = FlattenSeq(Mapped(StepFn, front))
    OBVIOUS
  <2>9. head \in Seq(ToolPart) /\ ToolsOf(x) \in Seq(ToolPart)
    BY <2>7, <2>8, StepFnIs, FlattenType, ToolsAre
  <2>10. head \o ToolsOf(x) = ToolsOf(parts)
    BY <1>1, <2>5, <2>7, <2>8, StepFnIs
  <2>11. FlattenSeq(Mapped(StepFn, Append(front, Append(x, p)))) = head \o ToolsOf(Append(x, p))
    BY <2>7, <2>8, StepFnIs
  <2>12. PICK one, tx : one = When(p.type = "tool", p) /\ tx = ToolsOf(x)
    OBVIOUS
  <2>13. one \in Seq(ToolPart) /\ tx \in Seq(ToolPart) /\ ToolsOf(Append(x, p)) = tx \o one
    BY <2>7, <2>9, <2>12, ToolsAppend
  <2>14. (head \o tx) \o one = head \o (tx \o one)
    BY <2>9, <2>13, ConcatAssociative
  <2>15. Append(front, Append(x, p)) \in Seq(Seq(AnswerPart)) /\ Append(front, Append(x, p)) # <<>>
    <3>1. PICK y : y = Append(x, p)
      OBVIOUS
    <3>2. y \in U
      BY <1>3, <2>7, <3>1
    <3>3. PICK b : b = Append(front, y)
      OBVIOUS
    <3>4. b \in Seq(U) /\ b # <<>>
      BY <2>3, <3>2, <3>3, AppendedIs
    <3> QED BY <1>3, <3>1, <3>3, <3>4
  <2>16. FlattenSeq(Mapped(StepFn, CutOnce(acc, p))) = ToolsOf(Append(parts, p))
    BY <1>2, <2>6, <2>10, <2>11, <2>12, <2>13, <2>14
  <2> QED BY <2>6, <2>15, <2>16 DEF Kept
<1> QED BY <1>5, <1>6

(* The tools of the steps are those of the answer                            *)
(* (session/message-v2.ts:541, convertToModelMessages).                      *)
LEMMA StepsKeep ==
  ASSUME NEW parts \in Seq(AnswerPart)
  PROVE  Kept(Steps(parts), parts)
<1>1. PICK f : CutRule(parts, Len(parts), f) /\ Steps(parts) = f[Len(parts)]
  BY StepsAre
<1>2. PICK n \in Nat : n = Len(parts)
  OBVIOUS
<1>3. f[0] = <<<<>>>> /\ \A k \in 1..n : f[k] = CutOnce(f[k - 1], parts[k])
  <2>1. f = [k \in 0..n |-> IF k = 0 THEN <<<<>>>> ELSE CutOnce(f[k - 1], parts[k])]
    BY <1>1, <1>2 DEF CutRule
  <2>2. \A k \in 0..n : f[k] = IF k = 0 THEN <<<<>>>> ELSE CutOnce(f[k - 1], parts[k])
    BY <2>1, Zenon
  <2>3. 0 \in 0..n /\ \A k \in 1..n : k \in 0..n /\ k # 0
    OBVIOUS
  <2> QED BY <2>2, <2>3
<1> DEFINE K == {k \in 0..n : Kept(f[k], SubSeq(parts, 1, k))}
<1>4. 0 \in K
  <2>1. SubSeq(parts, 1, 0) = <<>> /\ 0 \in 0..n
    OBVIOUS
  <2>2. PICK e : e = <<>> /\ e \in Seq(AnswerPart)
    <3>1. <<>> \in Seq(AnswerPart)
      OBVIOUS
    <3> QED BY <3>1, Zenon
  <2>3. PICK acc : acc = <<e>>
    OBVIOUS
  <2>4. PICK U : U = Seq(AnswerPart)
    OBVIOUS
  <2>5. acc \in Seq(U) /\ acc # <<>>
    BY <2>2, <2>3, <2>4
  <2>6. Mapped(StepFn, acc) = <<ToolsOf(e)>>
    <3>1. StepFn[e] = ToolsOf(e)
      BY <2>2 DEF StepFn
    <3> QED BY <2>3, <3>1 DEF Mapped
  <2>7. ToolsOf(e) \in Seq(ToolPart)
    BY <2>2, ToolsAre
  <2>8. FlattenSeq(Mapped(StepFn, acc)) = ToolsOf(e)
    BY <2>6, <2>7, FlattenOne
  <2>9. Kept(acc, e)
    BY <2>4, <2>5, <2>8 DEF Kept
  <2>10. Kept(f[0], SubSeq(parts, 1, 0))
    BY <1>3, <2>1, <2>2, <2>3, <2>9
  <2> QED BY <2>1, <2>10
<1>5. ASSUME NEW k \in 1..n, k - 1 \in K PROVE k \in K
  <2>1. PICK q : q = SubSeq(parts, 1, k - 1)
    OBVIOUS
  <2>2. q \in Seq(AnswerPart) /\ parts[k] \in AnswerPart /\ Kept(f[k - 1], q)
    BY <1>2, <1>5, <2>1
  <2>3. SubSeq(parts, 1, k) = Append(q, parts[k])
    <3>1. k \in 1..Len(parts) /\ 1 \in 1..(k + 1)
      BY <1>2
    <3>2. SubSeq(parts, 1, k) \in Seq(AnswerPart) /\ Len(SubSeq(parts, 1, k)) = k /\ Len(q) = k - 1
      BY <1>2, <2>1
    <3>3. Append(q, parts[k]) \in Seq(AnswerPart) /\ Len(Append(q, parts[k])) = k
      BY <2>2, <3>2
    <3>4. \A i \in 1..k : SubSeq(parts, 1, k)[i] = Append(q, parts[k])[i]
      <4> TAKE i \in 1..k
      <4>1. SubSeq(parts, 1, k)[i] = parts[i]
        BY <1>2
      <4>2. Append(q, parts[k])[i] = IF i = k THEN parts[k] ELSE q[i]
        BY <2>2, <3>2
      <4>3. i # k => q[i] = parts[i]
        BY <1>2, <2>1
      <4> QED BY <4>1, <4>2, <4>3
    <3> QED BY <3>2, <3>3, <3>4, SeqEqual
  <2>4. Kept(CutOnce(f[k - 1], parts[k]), Append(q, parts[k]))
    BY <2>2, CutKeeps
  <2>5. Kept(f[k], SubSeq(parts, 1, k))
    BY <1>3, <2>3, <2>4
  <2>6. k \in 0..n
    OBVIOUS
  <2> QED BY <2>5, <2>6
<1>6. n \in K
  <2> HIDE DEF K
  <2>1. \A k \in 1..n : k - 1 \in K => k \in K
    BY <1>5
  <2>2. \A k \in 0..n : k \in K
    BY <1>4, <2>1, UpwardsTo, Zenon
  <2> QED BY <2>2
<1>7. SubSeq(parts, 1, n) = parts
  BY <1>2
<1> QED BY <1>1, <1>2, <1>6, <1>7

(* The messages of an answer hold all its calls, each answered               *)
(* (session/message-v2.ts:541, convertToModelMessages).                      *)
LEMMA ConvertIsGood ==
  ASSUME NEW parts \in Seq(AnswerPart)
  PROVE  <<FlattenSeq([i \in DOMAIN Steps(parts) |-> StepMessages(Steps(parts)[i])]), ToolsOf(parts)>> \in GoodPairs
<1>1. PICK st, U : st = Steps(parts) /\ U = Seq(AnswerPart)
  OBVIOUS
<1>2. st \in Seq(Seq(AnswerPart)) /\ FlattenSeq(Mapped(StepFn, st)) = ToolsOf(parts)
  BY <1>1, StepsKeep DEF Kept
<1>3. PICK n \in Nat : n = Len(st) /\ DOMAIN st = 1..n /\ \A i \in 1..n : st[i] \in U
  <2>1. st \in Seq(U)
    BY <1>1, <1>2
  <2> QED BY <2>1
<1>4. PICK s, t : s = [i \in 1..n |-> StepMessages(st[i])] /\ t = [i \in 1..n |-> ToolsOf(st[i])]
  OBVIOUS
<1>5. DOMAIN s = 1..n /\ DOMAIN t = 1..n /\ s = [i \in 1..n |-> s[i]] /\ t = [i \in 1..n |-> t[i]]
  BY <1>4
<1>6. \A i \in 1..n : <<s[i], t[i]>> \in GoodPairs
  <2> TAKE i \in 1..n
  <2>1. st[i] \in Seq(AnswerPart)
    BY <1>1, <1>3
  <2>2. s[i] = StepMessages(st[i]) /\ t[i] = ToolsOf(st[i])
    BY <1>4
  <2> QED BY <2>1, <2>2, StepIsGood
<1>7. <<FlattenSeq(s), FlattenSeq(t)>> \in GoodPairs
  BY <1>5, <1>6, GoodJoined, FlattenBoth
<1>8. Mapped(StepFn, st) = t
  <2>1. \A i \in 1..n : StepFn[st[i]] = ToolsOf(st[i])
    BY <1>1, <1>3 DEF StepFn
  <2> QED BY <1>3, <1>4, <2>1 DEF Mapped
<1>9. [i \in DOMAIN Steps(parts) |-> StepMessages(Steps(parts)[i])] = s
  BY <1>1, <1>3, <1>4
<1> QED BY <1>2, <1>7, <1>8, <1>9

(* Of empty sequences, nothing is put together                               *)
(* (session/message-v2.ts:421-542).                                          *)
LEMMA FlattenNothing ==
  ASSUME NEW n \in Nat, NEW t, DOMAIN t = 1..n, t = [i \in 1..n |-> t[i]], \A i \in 1..n : t[i] = <<>>
  PROVE  FlattenSeq(t) = <<>>
<1>1. PICK S : S = {<<>>}
  OBVIOUS
<1>2. S \in SUBSET Seq({}) /\ <<>> \in S /\ \A a \in S, b \in S : a \o b \in S
  <2>1. <<>> \in Seq({}) /\ <<>> \o <<>> = <<>>
    OBVIOUS
  <2> QED BY <1>1, <2>1, Zenon
<1>3. t \in Seq(S)
  BY <1>1
<1>4. FlattenSeq(t) \in S
  BY <1>2, <1>3, FlattenIn
<1> QED BY <1>1, <1>4

(* A message for the interface is turned into messages for the model that    *)
(* answer its calls (session/message-v2.ts:541-542).                         *)
LEMMA ConvertedIs ==
  ASSUME NEW m \in UIType
  PROVE  <<Converted(m), IF m.role = "user" THEN <<>> ELSE ToolsOf(m.parts)>> \in GoodPairs
<1>1. <<<<>>, <<>>>> \in GoodPairs
  BY GoodJoined DEF Joined2
<1>2. CASE m.role = "user"
  <2>1. m.parts \in Seq(QuestionContent)
    BY <1>2 DEF UIType
  <2>2. <<<<[role |-> "user", content |-> m.parts]>>, <<>>>> \in GoodPairs
    BY <2>1, UserIsGood
  <2> QED BY <1>1, <1>2, <2>2 DEF Converted, convertToModelMessages
<1>3. CASE m.role # "user"
  <2>1. PICK parts : parts = m.parts /\ parts \in Seq(AnswerPart)
    BY <1>3 DEF UIType
  <2>2. <<convertToModelMessages(m), ToolsOf(parts)>> \in GoodPairs
    BY <1>3, <2>1, ConvertIsGood DEF convertToModelMessages
  <2>3. CASE \E i \in DOMAIN m.parts : m.parts[i].type # "step-start"
    BY <1>3, <2>1, <2>2, <2>3 DEF Converted
  <2>4. CASE ~\E i \in DOMAIN m.parts : m.parts[i].type # "step-start"
    <3>1. PICK n \in Nat : n = Len(parts) /\ DOMAIN parts = 1..n
      BY <2>1
    <3>2. PICK t : t = [i \in 1..n |-> When(parts[i].type = "tool", parts[i])]
      OBVIOUS
    <3>3. \A i \in 1..n : t[i] = <<>>
      <4> TAKE i \in 1..n
      <4>1. parts[i].type = "step-start"
        BY <2>1, <2>4, <3>1
      <4> QED BY <3>2, <4>1 DEF When
    <3>4. FlattenSeq(t) = <<>>
      BY <3>2, <3>3, FlattenNothing
    <3>5. ToolsOf(parts) = <<>>
      BY <3>1, <3>2, <3>4 DEF ToolsOf
    <3>6. Converted(m) = <<>>
      BY <2>4 DEF Converted
    <3> QED BY <1>1, <1>3, <2>1, <3>5, <3>6
  <2> QED BY <2>3, <2>4
<1> QED BY <1>2, <1>3

\* A message for the interface with the calls its messages answer.
ConvFn == [m \in UIType |-> Converted(m)]
UIPairs == Under(GoodPairs, ConvFn, UIType, ToolPart)

(* That, as a function over the messages for the interface                   *)
(* (session/message-v2.ts:541-542).                                          *)
LEMMA ConvFnIs ==
  /\ ConvFn \in [UIType -> Seq(MsgType)]
  /\ Joined2(UIPairs, UIType, ToolPart)
  /\ \A x \in UIType : <<<<x>>, IF x.role = "user" THEN <<>> ELSE ToolsOf(x.parts)>> \in UIPairs
<1>1. ASSUME NEW x \in UIType PROVE Converted(x) \in Seq(MsgType)
  <2>1. PICK c : <<Converted(x), c>> \in GoodPairs
    BY ConvertedIs
  <2> QED BY <2>1, GoodPairsAre
<1>2. ConvFn \in [UIType -> Seq(MsgType)]
  BY <1>1 DEF ConvFn
<1>3. Joined2(UIPairs, UIType, ToolPart)
  BY <1>2, GoodJoined, JoinedUnder DEF UIPairs
<1>4. ASSUME NEW x \in UIType PROVE <<<<x>>, IF x.role = "user" THEN <<>> ELSE ToolsOf(x.parts)>> \in UIPairs
  <2>1. PICK c : c = IF x.role = "user" THEN <<>> ELSE ToolsOf(x.parts)
    OBVIOUS
  <2>2. <<Converted(x), c>> \in GoodPairs /\ c \in Seq(ToolPart)
    BY <2>1, ConvertedIs, GoodPairsAre
  <2>3. Mapped(ConvFn, <<x>>) = <<Converted(x)>>
    BY DEF Mapped, ConvFn
  <2>4. FlattenSeq(Mapped(ConvFn, <<x>>)) = Converted(x)
    BY <1>1, <2>3, FlattenOne
  <2>5. <<x>> \in Seq(UIType)
    OBVIOUS
  <2> QED BY <2>1, <2>2, <2>4, <2>5, UnderIs DEF UIPairs
<1> QED BY <1>2, <1>3, <1>4

\* The messages of a session.
SaidType ==
  [role : {"user"}, parts : Seq(STRING), error : {"none"}]
    \cup [role : {"assistant"}, parts : Seq(AnswerPart), error : {"none", "MessageAbortedError", "APIError"}]

\* Parts with their tools.
EqPairs == {p \in Seq(ToolPart) \X Seq(ToolPart) : p[1] = p[2]}
ToolPairs == Under(EqPairs, ToolFn, AnswerPart, ToolPart)

(* Equal sequences stay equal when put one behind the other                  *)
(* (session/message-v2.ts:421-542).                                          *)
LEMMA EqualJoined ==
  ASSUME NEW B
  PROVE  Joined2({p \in Seq(B) \X Seq(B) : p[1] = p[2]}, B, B)
<1> DEFINE E == {p \in Seq(B) \X Seq(B) : p[1] = p[2]}
<1>1. E \in SUBSET (Seq(B) \X Seq(B))
  OBVIOUS
<1>2. <<<<>>, <<>>>> \in E
  <2>1. <<>> \in Seq(B)
    OBVIOUS
  <2> QED BY <2>1
<1>3. ASSUME NEW p \in E, NEW q \in E PROVE <<p[1] \o q[1], p[2] \o q[2]>> \in E
  <2>1. p[1] \in Seq(B) /\ q[1] \in Seq(B) /\ p[2] = p[1] /\ q[2] = q[1]
    OBVIOUS
  <2>2. p[1] \o q[1] \in Seq(B)
    BY <2>1
  <2> QED BY <2>1, <2>2
<1> QED BY <1>1, <1>2, <1>3, Zenon DEF Joined2

(* What it is for parts to have tools (session/message-v2.ts:480-537).       *)
LEMMA ToolPairsAre ==
  /\ Joined2(ToolPairs, AnswerPart, ToolPart)
  /\ \A a, b : <<a, b>> \in ToolPairs <=> a \in Seq(AnswerPart) /\ b \in Seq(ToolPart) /\ ToolsOf(a) = b
<1>1. \A a, b : <<a, b>> \in EqPairs <=> a \in Seq(ToolPart) /\ b \in Seq(ToolPart) /\ a = b
  <2> TAKE a, b
  <2>1. <<a, b>> \in EqPairs <=> <<a, b>> \in Seq(ToolPart) \X Seq(ToolPart) /\ <<a, b>>[1] = <<a, b>>[2]
    BY Zenon DEF EqPairs
  <2>2. <<a, b>>[1] = a /\ <<a, b>>[2] = b
    OBVIOUS
  <2>3. <<a, b>> \in Seq(ToolPart) \X Seq(ToolPart) <=> a \in Seq(ToolPart) /\ b \in Seq(ToolPart)
    OBVIOUS
  <2> QED BY <2>1, <2>2, <2>3, Zenon
<1>2. Joined2(EqPairs, ToolPart, ToolPart)
  BY EqualJoined DEF EqPairs
<1>3. Joined2(ToolPairs, AnswerPart, ToolPart)
  BY <1>2, ToolFnIs, JoinedUnder DEF ToolPairs
<1>4. ASSUME NEW a, NEW b
      PROVE  <<a, b>> \in ToolPairs <=> a \in Seq(AnswerPart) /\ b \in Seq(ToolPart) /\ ToolsOf(a) = b
  <2>1. <<a, b>> \in ToolPairs <=> a \in Seq(AnswerPart) /\ b \in Seq(ToolPart) /\ <<FlattenSeq(Mapped(ToolFn, a)),
          b>> \in EqPairs
    BY UnderIs, Zenon DEF ToolPairs
  <2>2. a \in Seq(AnswerPart) => ToolsOf(a) = FlattenSeq(Mapped(ToolFn, a)) /\ ToolsOf(a) \in Seq(ToolPart)
    BY ToolFnIs, ToolsAre
  <2> QED BY <1>1, <2>1, <2>2
<1> QED BY <1>3, <1>4

(* Of an answer, the tools that are kept are those that finished or failed   *)
(* (session/message-v2.ts:480-537).                                          *)
LEMMA KeptTools ==
  ASSUME NEW parts \in Seq(AnswerPart)
  PROVE  /\ FlattenSeq([i \in DOMAIN parts |-> AssistantPart(parts[i])]) \in Seq(AnswerPart)
         /\ ToolsOf(FlattenSeq([i \in DOMAIN parts |-> AssistantPart(parts[i])]))
              = FlattenSeq([i \in DOMAIN parts |-> When(HasResult(parts[i]), parts[i])])
<1>1. PICK n \in Nat : n = Len(parts) /\ DOMAIN parts = 1..n /\ \A i \in 1..n : parts[i] \in AnswerPart
  OBVIOUS
<1>2. PICK s, t : s = [i \in 1..n |-> AssistantPart(parts[i])] /\ t = [i \in 1..n |-> When(HasResult(parts[i]),
        parts[i])]
  OBVIOUS
<1>3. ASSUME NEW i \in 1..n PROVE <<s[i], t[i]>> \in ToolPairs
  <2>1. PICK p : p = parts[i] /\ p \in AnswerPart
    BY <1>1
  <2>2. p.type = "tool" => p \in ToolPart
    BY <2>1 DEF AnswerPart, ToolPart
  <2>3. s[i] = When(p.type = "tool" => HasResult(p), p) /\ t[i] = When(HasResult(p), p)
    BY <1>2, <2>1 DEF AssistantPart
  <2>4. <<>> \in Seq(AnswerPart) /\ <<>> \in Seq(ToolPart) /\ <<p>> \in Seq(AnswerPart)
    BY <2>1
  <2>5. Mapped(ToolFn, <<p>>) = <<When(p.type = "tool", p)>> /\ When(p.type = "tool", p) \in Seq(ToolPart)
    <3>1. ToolFn[p] = When(p.type = "tool", p)
      BY <2>1 DEF ToolFn
    <3>2. Mapped(ToolFn, <<p>>) = <<When(p.type = "tool", p)>>
      BY <3>1 DEF Mapped
    <3> QED BY <2>2, <3>2, WhenIs
  <2>6. ToolsOf(<<p>>) = When(p.type = "tool", p)
    <3>1. ToolsOf(<<p>>) = FlattenSeq(Mapped(ToolFn, <<p>>))
      BY <2>4, ToolFnIs
    <3>2. FlattenSeq(<<When(p.type = "tool", p)>>) = When(p.type = "tool", p)
      BY <2>5, FlattenOne
    <3> QED BY <2>5, <3>1, <3>2
  <2>7. CASE p.type = "tool" /\ HasResult(p)
    <3>1. s[i] = <<p>> /\ t[i] = <<p>> /\ ToolsOf(<<p>>) = <<p>>
      BY <2>3, <2>6, <2>7 DEF When
    <3>2. <<p>> \in Seq(ToolPart)
      BY <2>2, <2>7
    <3> QED BY <2>4, <3>1, <3>2, ToolPairsAre
  <2>8. CASE p.type = "tool" /\ ~HasResult(p)
    <3>1. s[i] = <<>> /\ t[i] = <<>>
      BY <2>3, <2>8 DEF When
    <3>2. ToolsOf(<<>>) = <<>>
      BY FlattenEmpty DEF ToolsOf
    <3> QED BY <2>4, <3>1, <3>2, ToolPairsAre
  <2>9. CASE p.type # "tool"
    <3>1. ~HasResult(p)
      BY <2>9 DEF HasResult
    <3>2. s[i] = <<p>> /\ t[i] = <<>> /\ ToolsOf(<<p>>) = <<>>
      BY <2>3, <2>6, <2>9, <3>1 DEF When
    <3> QED BY <2>4, <3>2, ToolPairsAre
  <2> QED BY <2>7, <2>8, <2>9
<1>4. DOMAIN s = 1..n /\ DOMAIN t = 1..n /\ s = [i \in 1..n |-> s[i]] /\ t = [i \in 1..n |-> t[i]]
  BY <1>2
<1>5. <<FlattenSeq(s), FlattenSeq(t)>> \in ToolPairs
  BY <1>3, <1>4, ToolPairsAre, FlattenBoth
<1> QED BY <1>1, <1>2, <1>5, ToolPairsAre

(* What a message of the session is turned into holds its finished calls;    *)
(* the messages of attachments, which follow it, hold none                   *)
(* (session/message-v2.ts:424-539).                                          *)
LEMMA UIIsGood ==
  ASSUME NEW m \in SaidType
  PROVE  <<UIMessages(m), FinishedCalls(m)>> \in UIPairs
<1>0. /\ <<<<>>, <<>>>> \in UIPairs
      /\ \A p \in UIPairs, q \in UIPairs : <<p[1] \o q[1], p[2] \o q[2]>> \in UIPairs
  BY ConvFnIs DEF Joined2
<1>1. CASE m.parts = <<>>
  <2>1. [i \in DOMAIN m.parts |-> When(HasResult(m.parts[i]), m.parts[i])] = <<>>
    BY <1>1
  <2>2. FinishedCalls(m) = <<>>
    BY <2>1, FlattenEmpty DEF FinishedCalls
  <2> QED BY <1>0, <1>1, <2>2 DEF UIMessages
<1>2. CASE m.parts # <<>> /\ m.role = "user"
  <2>1. m.parts \in Seq(STRING)
    BY <1>2 DEF SaidType
  <2>2. PICK parts : parts = FlattenSeq([i \in DOMAIN m.parts |-> UserPart(m.parts[i])])
    OBVIOUS
  <2>3. parts \in Seq(QuestionContent)
    <3>1. PICK D : D = Seq(QuestionContent)
      OBVIOUS
    <3>2. \A i \in DOMAIN m.parts : UserPart(m.parts[i]) \in D
      <4> TAKE i \in DOMAIN m.parts
      <4>1. PICK ty : ty = m.parts[i] /\ ty \in STRING
        BY <2>1
      <4>2. PICK x : x = [type |-> IF ty \in {"image", "pdf"} THEN "file" ELSE "text", of |-> ty]
        OBVIOUS
      <4>3. x \in QuestionContent
        BY <4>1, <4>2 DEF QuestionContent
      <4>4. UserPart(ty) = When(ty \notin {"ignored", "plain"}, x)
        BY <4>2 DEF UserPart
      <4>5. When(ty \notin {"ignored", "plain"}, x) \in Seq(QuestionContent)
        BY <4>3, WhenIs
      <4> QED BY <3>1, <4>1, <4>4, <4>5
    <3>3. [i \in DOMAIN m.parts |-> UserPart(m.parts[i])] \in Seq(D)
      BY <2>1, <3>2
    <3> QED BY <2>2, <3>1, <3>3, FlattenType
  <2>4. PICK x : x = [role |-> "user", parts |-> parts]
    OBVIOUS
  <2>5. x \in UIType /\ x.role = "user"
    BY <2>3, <2>4 DEF UIType
  <2>6. UIMessages(m) = <<x>> /\ FinishedCalls(m) = <<>>
    BY <1>2, <2>2, <2>4 DEF UIMessages, FinishedCalls
  <2> QED BY <2>5, <2>6, ConvFnIs
<1>3. CASE m.parts # <<>> /\ m.role # "user" /\ LeftOut(m)
  <2>1. UIMessages(m) = <<>> /\ FinishedCalls(m) = <<>>
    BY <1>3 DEF UIMessages, FinishedCalls
  <2> QED BY <1>0, <2>1
<1>4. CASE m.parts # <<>> /\ m.role # "user" /\ ~LeftOut(m)
  <2>1. PICK parts : parts = m.parts /\ parts \in Seq(AnswerPart)
    BY <1>4 DEF SaidType
  <2>2. PICK n \in Nat : n = Len(parts) /\ DOMAIN parts = 1..n
    BY <2>1
  <2>3. PICK kept,
          a : kept = FlattenSeq([i \in DOMAIN parts |-> AssistantPart(parts[i])]) /\ a = [role |-> "assistant",
            parts |-> kept]
    OBVIOUS
  <2>4. a \in UIType /\ a.role # "user" /\ a.parts = kept
    BY <2>1, <2>3, KeptTools DEF UIType
  <2>5. ToolsOf(kept) = FinishedCalls(m)
    BY <1>4, <2>1, <2>3, KeptTools DEF FinishedCalls
  <2>6. <<<<a>>, FinishedCalls(m)>> \in UIPairs
    BY <2>4, <2>5, ConvFnIs
  <2>7. PICK s, t : /\ s = [i \in 1..n |-> When(parts[i].type = "tool" /\ parts[i].status = "completed" /\ parts[i].attached, Attached)]
                    /\ t = [i \in 1..n |-> <<>>]
    OBVIOUS
  <2>8. \A i \in 1..n : <<s[i], t[i]>> \in UIPairs
    <3>1. Attached \in UIType /\ Attached.role = "user"
      <4>1. PICK u, v : u = [type |-> "text", of |-> "attachment"] /\ v = [type |-> "file", of |-> "image"]
        OBVIOUS
      <4>2. u \in QuestionContent /\ v \in QuestionContent
        BY <4>1 DEF QuestionContent
      <4>3. <<u, v>> \in Seq(QuestionContent)
        BY <4>2
      <4>4. Attached = [role |-> "user", parts |-> <<u, v>>]
        BY <4>1 DEF Attached
      <4> QED BY <4>3, <4>4 DEF UIType
    <3>2. <<<<Attached>>, <<>>>> \in UIPairs
      BY <3>1, ConvFnIs
    <3> TAKE i \in 1..n
    <3>3. s[i] = <<Attached>> \/ s[i] = <<>>
      BY <2>7 DEF When
    <3>4. t[i] = <<>>
      BY <2>7
    <3> QED BY <1>0, <3>2, <3>3, <3>4
  <2>9. DOMAIN s = 1..n /\ DOMAIN t = 1..n /\ s = [i \in 1..n |-> s[i]] /\ t = [i \in 1..n |-> t[i]] /\ \A i \in 1..n : t[i] = <<>>
    BY <2>7
  <2>10. <<FlattenSeq(s), FlattenSeq(t)>> \in UIPairs
    BY <2>8, <2>9, ConvFnIs, FlattenBoth
  <2>11. FlattenSeq(t) = <<>>
    BY <2>9, FlattenNothing
  <2>12. <<<<a>> \o FlattenSeq(s), FinishedCalls(m) \o <<>>>> \in UIPairs
    <3>1. PICK p, q : p = <<<<a>>, FinishedCalls(m)>> /\ q = <<FlattenSeq(s), <<>>>>
      OBVIOUS
    <3>2. p \in UIPairs /\ q \in UIPairs
      BY <2>6, <2>10, <2>11, <3>1
    <3>3. p[1] = <<a>> /\ p[2] = FinishedCalls(m) /\ q[1] = FlattenSeq(s) /\ q[2] = <<>>
      BY <3>1
    <3> QED BY <1>0, <3>2, <3>3
  <2>13. FinishedCalls(m) \o <<>> = FinishedCalls(m)
    <3>1. FinishedCalls(m) \in Seq(ToolPart)
      BY <2>1, <2>3, <2>5, KeptTools, ToolsAre
    <3> QED BY <3>1
  <2>14. UIMessages(m) = <<a>> \o FlattenSeq(s)
    BY <1>4, <2>1, <2>2, <2>3, <2>7 DEF UIMessages
  <2> QED BY <2>12, <2>13, <2>14
<1> QED BY <1>1, <1>2, <1>3, <1>4

(* The messages of a conversation answer all its finished calls and no other *)
(* (session/message-v2.ts:421-542).                                          *)
LEMMA SaidIsGood ==
  ASSUME NEW list \in Seq(SaidType)
  PROVE  <<toModelMessage(list), FlattenSeq([i \in DOMAIN list |-> FinishedCalls(list[i])])>> \in GoodPairs
<1>1. PICK n \in Nat : n = Len(list) /\ DOMAIN list = 1..n /\ \A i \in 1..n : list[i] \in SaidType
  OBVIOUS
<1>2. PICK s, t : s = [i \in 1..n |-> UIMessages(list[i])] /\ t = [i \in 1..n |-> FinishedCalls(list[i])]
  OBVIOUS
<1>3. DOMAIN s = 1..n /\ DOMAIN t = 1..n /\ s = [i \in 1..n |-> s[i]] /\ t = [i \in 1..n |-> t[i]]
  BY <1>2
<1>4. \A i \in 1..n : <<s[i], t[i]>> \in UIPairs
  BY <1>1, <1>2, UIIsGood
<1>5. PICK result, c : result = FlattenSeq(s) /\ c = FlattenSeq(t)
  OBVIOUS
<1>6. <<result, c>> \in UIPairs
  BY <1>3, <1>4, <1>5, ConvFnIs, FlattenBoth
<1>7. result \in Seq(UIType) /\ <<FlattenSeq(Mapped(ConvFn, result)), c>> \in GoodPairs
  BY <1>6, UnderIs DEF UIPairs
<1>8. Mapped(ConvFn, result) = [i \in DOMAIN result |-> Converted(result[i])]
  <2>1. \A i \in DOMAIN result : ConvFn[result[i]] = Converted(result[i])
    BY <1>7 DEF ConvFn
  <2> QED BY <2>1 DEF Mapped
<1>9. toModelMessage(list) = FlattenSeq([i \in DOMAIN result |-> Converted(result[i])])
  BY <1>1, <1>2, <1>5 DEF toModelMessage
<1>10. [i \in DOMAIN list |-> FinishedCalls(list[i])] = t
  BY <1>1, <1>2
<1> QED BY <1>5, <1>7, <1>8, <1>9, <1>10

-----------------------------------------------------------------------------
(* A request without separation, and Mistral's *)

\* All that is sent, and the calls that finished.
Everything == system \o toModelMessage(said)
FinishedParts == FlattenSeq([i \in DOMAIN said |-> FinishedCalls(said[i])])

(* So do they behind the system prompt (session/llm.ts:57-83, 160-201).      *)
LEMMA EverythingIsGood ==
  ASSUME RequestsAssumption, params \in Params, said \in Seq(SaidType)
  PROVE  Everything \in Seq(MsgType) /\ Len(Everything) > 0 /\ Good(Sent(Everything), FinishedParts)
<1>0. /\ <<<<>>, <<>>>> \in GoodPairs
      /\ \A p \in GoodPairs, q \in GoodPairs : <<p[1] \o q[1], p[2] \o q[2]>> \in GoodPairs
  BY GoodJoined DEF Joined2
<1>1. PICK x : x = [role |-> "system", content |-> <<>>]
  OBVIOUS
<1>2. x \in MsgType
  <2>1. <<>> \in Seq(QuestionContent)
    OBVIOUS
  <2> QED BY <1>1, <2>1 DEF MsgType
<1>3. <<<<x>>, <<>>>> \in GoodPairs
  <2>1. <<>> \in Seq(QuestionContent)
    OBVIOUS
  <2> QED BY <1>1, <2>1, UserIsGood
<1>4. \A s \in Seq({x}) : <<s, <<>>>> \in GoodPairs
  <2> DEFINE S == {s \in Seq({x}) : <<s, <<>>>> \in GoodPairs}
  <2>1. <<>> \in S
    BY <1>0
  <2>2. ASSUME NEW s \in Seq({x}), NEW y \in {x}, s \in S PROVE Append(s, y) \in S
    <3>1. PICK p, q : p = <<s, <<>>>> /\ q = <<<<x>>, <<>>>>
      OBVIOUS
    <3>2. p \in GoodPairs /\ q \in GoodPairs
      BY <1>3, <2>2, <3>1
    <3>3. p[1] = s /\ p[2] = <<>> /\ q[1] = <<x>> /\ q[2] = <<>> /\ <<>> \o <<>> = <<>>
      BY <3>1
    <3>4. <<s \o <<x>>, <<>>>> \in GoodPairs
      BY <1>0, <3>2, <3>3
    <3>5. Append(s, x) = s \o <<x>>
      OBVIOUS
    <3>6. Append(s, x) \in Seq({x})
      OBVIOUS
    <3> QED BY <3>4, <3>5, <3>6
  <2> HIDE DEF S
  <2>3. \A s \in Seq({x}) : s \in S
    BY <2>1, <2>2, ByAppending
  <2> QED BY <2>3 DEF S
<1>5. PICK k \in Nat : k > 0 /\ system = [i \in 1..k |-> x]
  <2>1. params.plugin \in Nat
    BY DEF RequestsAssumption
  <2> QED BY <1>1, <2>1 DEF system
<1>6. system \in Seq({x}) /\ Len(system) = k
  BY <1>5
<1>7. <<system, <<>>>> \in GoodPairs
  BY <1>4, <1>6
<1>8. PICK conv, fin : conv = toModelMessage(said) /\ fin = FinishedParts
  OBVIOUS
<1>9. <<conv, fin>> \in GoodPairs
  BY <1>8, SaidIsGood DEF FinishedParts
<1>10. conv \in Seq(MsgType) /\ fin \in Seq(ToolPart) /\ system \in Seq(MsgType)
  BY <1>7, <1>9, GoodPairsAre
<1>11. Good(Sent(system \o conv), <<>> \o fin)
  <2>1. <<>> \in Seq(ToolPart)
    OBVIOUS
  <2> QED BY <1>7, <1>9, <1>10, <2>1, GoodPairsAre, GoodConcat
<1>12. <<>> \o fin = fin /\ system \o conv \in Seq(MsgType) /\ Len(system \o conv) > 0
  BY <1>5, <1>6, <1>10
<1> QED BY <1>8, <1>11, <1>12 DEF Everything

(* What holds of nothing, and with every part put behind if before, holds of *)
(* the whole (provider/transform.ts:37-76).                                  *)
LEMMA FlattenBy ==
  ASSUME NEW A, NEW b \in Seq(Seq(A)), NEW G, <<>> \in G[0],
         \A k \in 1..Len(b) : \A u \in Seq(A) : u \in G[k - 1] => u \o b[k] \in G[k]
  PROVE  FlattenSeq(b) \in G[Len(b)]
<1>1. PICK n \in Nat : n = Len(b)
  OBVIOUS
<1> DEFINE K == {k \in 0..n : FlattenSeq(SubSeq(b, 1, k)) \in G[k]}
<1>2. 0 \in K
  <2>1. SubSeq(b, 1, 0) = <<>> /\ 0 \in 0..n
    OBVIOUS
  <2> QED BY <2>1, FlattenEmpty
<1>3. ASSUME NEW k \in 1..n, k - 1 \in K PROVE k \in K
  <2>1. PICK p : p = SubSeq(b, 1, k - 1)
    OBVIOUS
  <2>2. SubSeq(b, 1, k) = Append(p, b[k]) /\ p \in Seq(Seq(A)) /\ b[k] \in Seq(A)
    BY <1>1, <2>1, PrefixGrows
  <2>3. FlattenSeq(SubSeq(b, 1, k)) = FlattenSeq(p) \o b[k] /\ FlattenSeq(p) \in Seq(A)
    BY <2>2, FlattenAppend, FlattenType
  <2>4. FlattenSeq(p) \in G[k - 1]
    BY <1>3, <2>1
  <2>5. FlattenSeq(SubSeq(b, 1, k)) \in G[k]
    BY <1>1, <2>3, <2>4
  <2> QED BY <2>5
<1>4. n \in K
  <2> HIDE DEF K
  <2>1. \A k \in 1..n : k - 1 \in K => k \in K
    BY <1>3
  <2>2. \A k \in 0..n : k \in K
    BY <1>2, <2>1, UpwardsTo, Zenon
  <2> QED BY <2>2
<1>5. SubSeq(b, 1, n) = b
  BY <1>1
<1> QED BY <1>1, <1>4, <1>5

\* What may stand behind a message.
Follows(x, y) ==
  /\ x.role = "assistant" /\ Calls(x) # <<>> => y.role = "tool" /\ ResultIds(y) = CallsOf(x)
  /\ y.role = "tool" => x.role = "assistant" /\ Len(Calls(x)) = Len(y.content)
  /\ ~(x.role = "tool" /\ y.role = "user")
\* A sequence in which each message may stand behind the one before.
Chain(u) ==
  /\ \A i \in 1..(Len(u) - 1) : Follows(u[i], u[i + 1])
  /\ \A i \in 1..Len(u) : Readable(u[i])
  /\ Len(u) > 0 => u[1].role # "tool"
\* Where Mistral is given an answer.
Parted(s, i) == s[i].role = "tool" /\ i < Len(s) /\ s[i + 1].role = "user"

(* One message more that may stand behind the last one                       *)
(* (provider/transform.ts:37-76).                                            *)
LEMMA ChainGrows ==
  ASSUME NEW A, NEW u \in Seq(A), NEW x \in A, Chain(u), Readable(x),
         Len(u) = 0 => x.role # "tool", Len(u) > 0 => Follows(u[Len(u)], x)
  PROVE  Chain(Append(u, x))
<1>1. PICK b : b = Append(u, x)
  OBVIOUS
<1>2. PICK n \in Nat : n = Len(u)
  OBVIOUS
<1>3. Len(b) = n + 1 /\ b[n + 1] = x /\ \A i \in 1..n : b[i] = u[i]
  BY <1>1, <1>2, AppendedIs
<1>4. ASSUME NEW i \in 1..n PROVE Follows(b[i], b[i + 1])
  <2>1. CASE i = n
    BY <1>2, <1>3, <2>1
  <2>2. CASE i # n
    <3>1. i \in 1..(Len(u) - 1) /\ i + 1 \in 1..n
      BY <1>2, <2>2
    <3> QED BY <1>3, <3>1 DEF Chain
  <2> QED BY <2>1, <2>2
<1>5. ASSUME NEW i \in 1..(n + 1) PROVE Readable(b[i])
  <2>1. i = n + 1 \/ i \in 1..n
    OBVIOUS
  <2> QED BY <1>2, <1>3, <2>1 DEF Chain
<1>6. b[1].role # "tool"
  <2>1. CASE n = 0
    BY <1>2, <1>3, <2>1
  <2>2. CASE n # 0
    <3>1. 1 \in 1..n /\ n > 0
      BY <2>2
    <3> QED BY <1>2, <1>3, <3>1 DEF Chain
  <2> QED BY <2>1, <2>2
<1> QED BY <1>1, <1>3, <1>4, <1>5, <1>6 DEF Chain

(* The answer that Mistral is given calls nothing                            *)
(* (provider/transform.ts:64-72).                                            *)
LEMMA DoneIs == Done.role = "assistant" /\ Calls(Done) = <<>> /\ Readable(Done)
<1>1. PICK x : x = [type |-> "text"]
  OBVIOUS
<1>2. Done.role = "assistant" /\ Done.content = <<x>> /\ x.type = "text"
  BY <1>1 DEF Done
<1>3. Readable(Done)
  BY <1>2 DEF Readable
<1>4. Calls(Done) = <<>>
  <2>1. PICK t : t = [i \in 1..1 |-> When(<<x>>[i].type = "tool-call", <<x>>[i])]
    OBVIOUS
  <2>2. \A i \in 1..1 : t[i] = <<>>
    BY <1>2, <2>1 DEF When
  <2>3. FlattenSeq(t) = <<>>
    BY <2>1, <2>2, FlattenNothing
  <2>4. DOMAIN <<x>> = 1..1
    OBVIOUS
  <2> QED BY <1>2, <2>1, <2>3, <2>4 DEF Calls
<1> QED BY <1>2, <1>3, <1>4

\* Up to a message, what Separated has put together.
Pre(s, u, k) ==
  /\ Chain(u)
  /\ k = 0 => u = <<>>
  /\ k > 0 => Len(u) > 0 /\ u[Len(u)] = IF Parted(s, k) THEN Done ELSE s[k]

(* Two messages put behind others (provider/transform.ts:56-73).             *)
LEMMA TwoMore ==
  ASSUME NEW A, NEW u, u \in Seq(A), NEW x, x \in A, NEW y, y \in A
  PROVE  u \o (<<x>> \o <<y>>) = Append(Append(u, x), y)
<1>1. PICK a, b, v, w : a = <<x>> \o <<y>> /\ b = u \o a /\ v = Append(u, x) /\ w = Append(v, y)
  OBVIOUS
<1>2. PICK n \in Nat : n = Len(u)
  OBVIOUS
<1>3. a = <<x, y>>
  BY <1>1, TwoAre
<1>4. a \in Seq(A) /\ Len(a) = 2 /\ a[1] = x /\ a[2] = y
  BY <1>3
<1>5. b \in Seq(A) /\ Len(b) = n + 2 /\ (\A i \in 1..n : b[i] = u[i]) /\ b[n + 1] = x /\ b[n + 2] = y
  BY <1>1, <1>2, <1>4
<1>6. v \in Seq(A) /\ Len(v) = n + 1 /\ v[n + 1] = x /\ \A i \in 1..n : v[i] = u[i]
  BY <1>1, <1>2, AppendedIs
<1>7. w \in Seq(A) /\ Len(w) = n + 2 /\ w[n + 2] = y /\ \A i \in 1..(n + 1) : w[i] = v[i]
  BY <1>1, <1>6, AppendedIs
<1>8. \A i \in 1..(n + 2) : b[i] = w[i]
  <2> TAKE i \in 1..(n + 2)
  <2>1. i = n + 2 \/ i = n + 1 \/ i \in 1..n
    OBVIOUS
  <2> QED BY <1>5, <1>6, <1>7, <2>1
<1>9. b = w
  BY <1>5, <1>7, <1>8, SeqEqual
<1> QED BY <1>1, <1>9

(* A message, and behind results before a question also an answer, may stand *)
(* behind what is there (provider/transform.ts:37-76).                       *)
LEMMA PartedKeeps ==
  ASSUME NEW A, NEW s \in Seq(A), Done \in A, NEW c, Good(s, c), NEW k \in 1..Len(s), NEW u \in Seq(A), Pre(s, u, k - 1)
  PROVE  Pre(s, u \o (<<s[k]>> \o When(Parted(s, k), Done)), k)
<1>1. s[k] \in A /\ AnsweredNext(s, k) /\ Readable(s[k])
  BY DEF Good
<1>2. PICK v : v = Append(u, s[k])
  OBVIOUS
<1>3. v \in Seq(A) /\ Len(v) = Len(u) + 1 /\ v[Len(v)] = s[k] /\ Len(u) \in Nat
  BY <1>1, <1>2, AppendedIs
<1>4. Len(u) = 0 => s[k].role # "tool"
  <2>1. Len(u) = 0 => k = 1
    BY DEF Pre
  <2> QED BY <1>1, <2>1 DEF AnsweredNext
<1>5. Len(u) > 0 => Follows(u[Len(u)], s[k])
  <2> SUFFICES ASSUME Len(u) > 0 PROVE Follows(u[Len(u)], s[k])
    OBVIOUS
  <2>1. k > 1
    <3>1. k = 1 => u = <<>>
      BY DEF Pre
    <3> QED BY <3>1
  <2>2. u[Len(u)] = IF Parted(s, k - 1) THEN Done ELSE s[k - 1]
    BY <2>1 DEF Pre
  <2>3. CASE Parted(s, k - 1)
    <3>1. s[k].role = "user"
      BY <2>3 DEF Parted
    <3> QED BY <2>2, <2>3, <3>1, DoneIs DEF Follows
  <2>4. CASE ~Parted(s, k - 1)
    <3>1. k - 1 \in 1..Len(s) /\ (k - 1) + 1 = k /\ k - 1 < Len(s)
      BY <2>1
    <3>2. AnsweredNext(s, k - 1)
      BY <3>1 DEF Good
    <3>3. ~(s[k - 1].role = "tool" /\ s[k].role = "user")
      BY <2>4, <3>1 DEF Parted
    <3> QED BY <1>1, <2>2, <2>4, <3>1, <3>2, <3>3 DEF AnsweredNext, Follows
  <2> QED BY <2>3, <2>4
<1>6. Chain(v)
  BY <1>1, <1>2, <1>4, <1>5, ChainGrows DEF Pre
<1>7. u \o <<s[k]>> = v
  BY <1>1, <1>2
<1>8. CASE Parted(s, k)
  <2>1. PICK w : w = Append(v, Done)
    OBVIOUS
  <2>2. Len(w) = Len(v) + 1 /\ w[Len(w)] = Done /\ Len(w) > 0
    BY <1>3, <2>1, AppendedIs
  <2>3. Follows(s[k], Done)
    <3>1. s[k].role = "tool"
      BY <1>8 DEF Parted
    <3> QED BY <3>1, DoneIs DEF Follows
  <2>4. Len(v) > 0
    BY <1>3
  <2>5. Chain(w)
    BY <1>3, <1>6, <2>1, <2>3, <2>4, DoneIs, ChainGrows
  <2>6. u \o (<<s[k]>> \o <<Done>>) = w
    BY <1>1, <1>2, <2>1, TwoMore
  <2>7. When(Parted(s, k), Done) = <<Done>>
    BY <1>8 DEF When
  <2>8. k # 0 /\ w[Len(w)] = IF Parted(s, k) THEN Done ELSE s[k]
    BY <1>8, <2>2
  <2>9. Pre(s, w, k)
    BY <2>2, <2>5, <2>8 DEF Pre
  <2> QED BY <2>6, <2>7, <2>9
<1>9. CASE ~Parted(s, k)
  <2>1. When(Parted(s, k), Done) = <<>>
    BY <1>9 DEF When
  <2>2. <<s[k]>> \o <<>> = <<s[k]>>
    OBVIOUS
  <2>3. Len(v) > 0
    BY <1>3
  <2>4. k # 0 /\ v[Len(v)] = IF Parted(s, k) THEN Done ELSE s[k]
    BY <1>3, <1>9
  <2>5. Pre(s, v, k)
    BY <1>6, <2>3, <2>4 DEF Pre
  <2> QED BY <1>7, <2>1, <2>2, <2>5
<1> QED BY <1>8, <1>9

(* With an answer between results and questions the calls are still          *)
(* answered, and no question stands behind results                           *)
(* (provider/transform.ts:37-76).                                            *)
LEMMA SeparatedIs ==
  ASSUME NEW A, NEW s \in Seq(A), Done \in A, Len(s) > 0, NEW c, Good(s, c),
         \A x \in A : x.role = "tool" => ResultIds(x) \in Seq(SentIdSet)
  PROVE  /\ Separated(s) \in Seq(A) /\ Len(Separated(s)) > 0 /\ Good(Separated(s), c)
         /\ \A i \in DOMAIN Separated(s) : Separated(s)[i].role = "tool" /\ i < Len(Separated(s)) => Separated(s)[i + 1].role # "user"
<1>1. PICK n \in Nat : n = Len(s) /\ n > 0 /\ DOMAIN s = 1..n /\ \A i \in 1..n : s[i] \in A
  OBVIOUS
<1>2. PICK b : b = [i \in 1..n |-> <<s[i]>> \o When(Parted(s, i), Done)]
  OBVIOUS
<1>3. b \in Seq(Seq(A)) /\ Len(b) = n /\ DOMAIN b = 1..n
  <2>1. PICK D : D = Seq(A)
    OBVIOUS
  <2>2. \A i \in 1..n : <<s[i]>> \o When(Parted(s, i), Done) \in D
    <3> TAKE i \in 1..n
    <3>1. Parted(s, i) \in BOOLEAN
      BY DEF Parted
    <3>2. PICK d : d = When(Parted(s, i), Done) /\ d \in Seq(A)
      BY <3>1, WhenIs
    <3>3. <<s[i]>> \in Seq(A)
      BY <1>1
    <3>4. <<s[i]>> \o d \in Seq(A)
      BY <3>2, <3>3
    <3> QED BY <2>1, <3>2, <3>4
  <2>3. b \in Seq(D) /\ Len(b) = n /\ DOMAIN b = 1..n
    BY <1>2, <2>2
  <2> QED BY <2>1, <2>3
<1>4. PICK w : w = FlattenSeq(b)
  OBVIOUS
<1>5. Separated(s) = w
  <2>1. Separated(s) = FlattenSeq([i \in 1..n |-> <<s[i]>> \o When(s[i].role = "tool" /\ i < Len(s) /\ s[i + 1].role = "user", Done)])
    BY <1>1 DEF Separated
  <2> QED BY <1>2, <1>4, <2>1 DEF Parted
<1>6. w \in Seq(A)
  BY <1>3, <1>4, FlattenType
<1>7. Pre(s, w, n)
  <2>1. PICK G : G = [k \in 0..n |-> {u \in Seq(A) : Pre(s, u, k)}]
    OBVIOUS
  <2>2. <<>> \in G[0]
    <3>1. <<>> \in Seq(A) /\ Pre(s, <<>>, 0)
      BY DEF Pre, Chain
    <3> QED BY <2>1, <3>1
  <2>3. \A k \in 1..Len(b) : \A u \in Seq(A) : u \in G[k - 1] => u \o b[k] \in G[k]
    <3> TAKE k \in 1..Len(b)
    <3> TAKE u \in Seq(A)
    <3> HAVE u \in G[k - 1]
    <3>1. k \in 1..n /\ k - 1 \in 0..n /\ k \in 0..n
      BY <1>3
    <3>2. Pre(s, u, k - 1)
      BY <2>1, <3>1
    <3>3. b[k] = <<s[k]>> \o When(Parted(s, k), Done) /\ b[k] \in Seq(A)
      BY <1>2, <1>3, <3>1
    <3>4. Pre(s, u \o b[k], k)
      BY <1>1, <3>1, <3>2, <3>3, PartedKeeps
    <3>5. u \o b[k] \in Seq(A)
      BY <3>3
    <3> QED BY <2>1, <3>1, <3>4, <3>5
  <2>4. FlattenSeq(b) \in G[Len(b)]
    BY <1>3, <2>2, <2>3, FlattenBy
  <2> QED BY <1>3, <1>4, <2>1, <2>4
<1>8. Chain(w) /\ Len(w) > 0 /\ w[Len(w)] = s[n]
  <2>1. ~Parted(s, n)
    BY <1>1 DEF Parted
  <2> QED BY <1>1, <1>7, <2>1 DEF Pre
<1>9. PICK k \in Nat : k = Len(w) /\ DOMAIN w = 1..k /\ k > 0
  BY <1>6, <1>8
<1>10. \A i \in 1..(k - 1) : Follows(w[i], w[i + 1])
  BY <1>8, <1>9 DEF Chain
<1>11. ASSUME NEW i \in 1..k PROVE AnsweredNext(w, i) /\ Readable(w[i])
  <2>1. i < k => Follows(w[i], w[i + 1])
    BY <1>10
  <2>2. i > 1 => Follows(w[i - 1], w[i])
    <3>1. i > 1 => i - 1 \in 1..(k - 1) /\ (i - 1) + 1 = i
      OBVIOUS
    <3> QED BY <1>10, <3>1
  <2>3. i = k => ~(w[i].role = "assistant" /\ Calls(w[i]) # <<>>)
    <3>1. AnsweredNext(s, n) /\ ~(n < Len(s))
      BY <1>1 DEF Good
    <3> QED BY <1>8, <1>9, <3>1 DEF AnsweredNext
  <2>4. w[i].role = "tool" => i > 1
    <3>1. w[1].role # "tool"
      BY <1>8 DEF Chain
    <3> QED BY <3>1
  <2>5. Readable(w[i])
    BY <1>8, <1>9 DEF Chain
  <2>6. w[i].role = "assistant" /\ Calls(w[i]) # <<>> => i < Len(w) /\ w[i + 1].role = "tool" /\ ResultIds(w[i + 1]) = CallsOf(w[i])
    BY <1>9, <2>1, <2>3 DEF Follows
  <2>7. w[i].role = "tool" => i > 1 /\ w[i - 1].role = "assistant" /\ Len(Calls(w[i - 1])) = Len(w[i].content)
    BY <2>2, <2>4 DEF Follows
  <2> QED BY <2>5, <2>6, <2>7 DEF AnsweredNext
<1>12. Results(w) = Results(s)
  <2>1. PICK f : f = [x \in A |-> IF x.role = "tool" THEN ResultIds(x) ELSE <<>>]
    OBVIOUS
  <2> DEFINE E == {p \in Seq(SentIdSet) \X Seq(SentIdSet) : p[1] = p[2]}
             R == Under(E, f, A, SentIdSet)
  <2>2. \A a, d : <<a, d>> \in E <=> a \in Seq(SentIdSet) /\ d \in Seq(SentIdSet) /\ a = d
    <3> TAKE a, d
    <3>1. <<a, d>> \in E <=> <<a, d>> \in Seq(SentIdSet) \X Seq(SentIdSet) /\ <<a, d>>[1] = <<a, d>>[2]
      BY Zenon
    <3>2. <<a, d>>[1] = a /\ <<a, d>>[2] = d
      OBVIOUS
    <3>3. <<a, d>> \in Seq(SentIdSet) \X Seq(SentIdSet) <=> a \in Seq(SentIdSet) /\ d \in Seq(SentIdSet)
      OBVIOUS
    <3> QED BY <3>1, <3>2, <3>3, Zenon
  <2>3. Joined2(E, SentIdSet, SentIdSet)
    BY EqualJoined
  <2>4. f \in [A -> Seq(SentIdSet)]
    <3>1. \A x \in A : (IF x.role = "tool" THEN ResultIds(x) ELSE <<>>) \in Seq(SentIdSet)
      <4>1. <<>> \in Seq(SentIdSet)
        OBVIOUS
      <4> QED BY <4>1
    <3> QED BY <2>1, <3>1
  <2> HIDE DEF E
  <2>5. Joined2(R, A, SentIdSet)
    BY <2>3, <2>4, JoinedUnder
  <2>6. PICK t : t = [i \in 1..n |-> f[s[i]]]
    OBVIOUS
  <2>7. ASSUME NEW i \in 1..n PROVE <<b[i], t[i]>> \in R
    <3>1. PICK x, y : x = s[i] /\ y = f[x]
      OBVIOUS
    <3>2. x \in A /\ y \in Seq(SentIdSet) /\ t[i] = y
      BY <1>1, <2>4, <2>6, <3>1
    <3>3. f[Done] = <<>>
      BY <2>1, DoneIs
    <3>4. CASE Parted(s, i)
      <4>1. b[i] = <<x, Done>>
        <5>1. b[i] = <<x>> \o <<Done>>
          BY <1>2, <3>1, <3>4 DEF When
        <5> QED BY <3>2, <5>1, TwoAre
      <4>2. Mapped(f, <<x, Done>>) = <<y, <<>>>>
        BY <3>1, <3>3 DEF Mapped
      <4>3. <<y, <<>>>> = Append(<<y>>, <<>>)
        <5>1. <<>> \in Seq(SentIdSet)
          OBVIOUS
        <5> QED BY <3>2, <5>1, AppendedOne
      <4>4. FlattenSeq(Append(<<y>>, <<>>)) = y
        <5>1. PICK e, yy : e = <<>> /\ yy = <<y>>
          OBVIOUS
        <5>2. e \in Seq(SentIdSet) /\ yy \in Seq(Seq(SentIdSet)) /\ y \o e = y
          BY <3>2, <5>1
        <5>3. FlattenSeq(yy) = y
          BY <3>2, <5>1, FlattenOne
        <5>4. FlattenSeq(Append(yy, e)) = FlattenSeq(yy) \o e
          BY <5>2, FlattenAppend
        <5> QED BY <5>1, <5>2, <5>3, <5>4
      <4>5. <<x, Done>> \in Seq(A)
        BY <3>2
      <4>6. <<FlattenSeq(Mapped(f, <<x, Done>>)), y>> \in E
        <5>1. FlattenSeq(Mapped(f, <<x, Done>>)) = y
          BY <4>2, <4>3, <4>4
        <5> QED BY <2>2, <3>2, <5>1
      <4>7. PICK u : u = <<x, Done>>
        OBVIOUS
      <4>8. <<u, y>> \in R
        BY <3>2, <4>5, <4>6, <4>7, UnderIs
      <4> QED BY <3>2, <4>1, <4>7, <4>8
    <3>5. CASE ~Parted(s, i)
      <4>1. b[i] = <<x>>
        <5>1. b[i] = <<x>> \o <<>>
          BY <1>2, <3>1, <3>5 DEF When
        <5> QED BY <5>1
      <4>2. Mapped(f, <<x>>) = <<y>>
        BY <3>1 DEF Mapped
      <4>3. FlattenSeq(<<y>>) = y
        BY <3>2, FlattenOne
      <4>4. <<x>> \in Seq(A)
        BY <3>2
      <4> QED BY <2>2, <3>2, <4>1, <4>2, <4>3, <4>4, UnderIs
    <3> QED BY <3>4, <3>5
  <2>8. DOMAIN t = 1..n /\ b = [i \in 1..n |-> b[i]] /\ t = [i \in 1..n |-> t[i]]
    BY <1>2, <2>6
  <2>9. <<w, FlattenSeq(t)>> \in R
    <3> HIDE DEF R
    <3> QED BY <1>3, <1>4, <2>5, <2>7, <2>8, FlattenBoth
  <2>10. FlattenSeq(Mapped(f, w)) = FlattenSeq(t)
    <3>1. PICK z : z = FlattenSeq(t)
      OBVIOUS
    <3>2. <<FlattenSeq(Mapped(f, w)), z>> \in E
      BY <2>9, <3>1, UnderIs
    <3> QED BY <2>2, <3>1, <3>2
  <2>11. Results(w) = FlattenSeq(Mapped(f, w))
    <3>1. \A i \in DOMAIN w : f[w[i]] = IF w[i].role = "tool" THEN ResultIds(w[i]) ELSE <<>>
      BY <1>6, <2>1
    <3> QED BY <3>1 DEF Results, Mapped
  <2>12. Results(s) = FlattenSeq(t)
    <3>1. \A i \in 1..n : t[i] = IF s[i].role = "tool" THEN ResultIds(s[i]) ELSE <<>>
      BY <1>1, <2>1, <2>6
    <3>2. t = [i \in 1..n |-> IF s[i].role = "tool" THEN ResultIds(s[i]) ELSE <<>>]
      BY <2>6, <3>1
    <3> QED BY <1>1, <3>2 DEF Results
  <2> QED BY <2>10, <2>11, <2>12
<1>13. Good(w, c)
  BY <1>9, <1>11, <1>12 DEF Good
<1>14. ASSUME NEW i \in 1..k, w[i].role = "tool", i < k PROVE w[i + 1].role # "user"
  <2>1. Follows(w[i], w[i + 1])
    BY <1>10, <1>14
  <2> QED BY <1>14, <2>1 DEF Follows
<1> QED BY <1>5, <1>6, <1>8, <1>9, <1>13, <1>14

-----------------------------------------------------------------------------
(* Cache marks, limits and the invariant *)

(* Elements with fewer than two on one side are at most two                  *)
(* (provider/transform.ts:119-159).                                          *)
LEMMA TwoAtMost ==
  ASSUME NEW S, IsFiniteSet(S), NEW J, \A i \in S : J[i] \subseteq S, NEW a, NEW b,
         \A i \in S : i \notin {a, b} => a # b /\ a \in J[i] /\ b \in J[i]
  PROVE  IsFiniteSet({i \in S : Cardinality(J[i]) < 2}) /\ Cardinality({i \in S : Cardinality(J[i]) < 2}) <= 2
<1>1. PICK D : D = {a, b}
  OBVIOUS
<1>2. IsFiniteSet(D) /\ Cardinality(D) \in Nat /\ Cardinality(D) <= 2 /\ (a # b => Cardinality(D) = 2)
  <2>1. IsFiniteSet({a}) /\ Cardinality({a}) = 1
    BY FS_Singleton
  <2>2. PICK B : B = {a}
    OBVIOUS
  <2>3. B \cup {b} = D /\ (b \in B <=> a = b)
    BY <1>1, <2>2
  <2>4. IsFiniteSet(B \cup {b}) /\ Cardinality(B \cup {b}) = IF b \in B THEN Cardinality(B) ELSE Cardinality(B) + 1
    BY <2>1, <2>2, FS_AddElement
  <2> QED BY <2>1, <2>2, <2>3, <2>4
<1>3. PICK T : T = {i \in S : Cardinality(J[i]) < 2}
  OBVIOUS
<1>4. T \subseteq D
  <2> SUFFICES ASSUME NEW i \in S, Cardinality(J[i]) < 2, i \notin D PROVE FALSE
    BY <1>3
  <2>1. a # b /\ D \subseteq J[i] /\ J[i] \in SUBSET S
    BY <1>1
  <2>2. IsFiniteSet(J[i])
    BY <2>1, FS_Subset
  <2>3. Cardinality(D) <= Cardinality(J[i]) /\ Cardinality(J[i]) \in Nat
    BY <2>1, <2>2, FS_Subset, FS_CardinalityType
  <2> QED BY <1>2, <2>1, <2>3
<1>5. IsFiniteSet(T) /\ Cardinality(T) <= Cardinality(D)
  BY <1>2, <1>4, FS_Subset
<1>6. Cardinality(T) \in Nat
  BY <1>5, FS_CardinalityType
<1> QED BY <1>2, <1>3, <1>5, <1>6

(* The first two are at most two (provider/transform.ts:120).                *)
LEMMA FirstTwo ==
  ASSUME NEW n \in Nat, NEW S \in SUBSET (1..n)
  PROVE  /\ IsFiniteSet({i \in S : Cardinality({j \in S : j < i}) < 2})
         /\ Cardinality({i \in S : Cardinality({j \in S : j < i}) < 2}) <= 2
<1>1. IsFiniteSet(S)
  <2>1. IsFiniteSet(1..n)
    BY FS_Interval
  <2> QED BY <2>1, FS_Subset
<1>2. PICK J : J = [i \in S |-> {j \in S : j < i}]
  OBVIOUS
<1>3. \E a, b : \A i \in S : i \notin {a, b} => a # b /\ a \in J[i] /\ b \in J[i]
  <2>1. CASE S = {}
    BY <2>1
  <2>2. CASE S # {}
    <3>1. PICK a \in S : \A m \in S : a <= m
      BY <2>2, LeastOf
    <3>2. CASE S \ {a} = {}
      BY <3>1, <3>2
    <3>3. CASE S \ {a} # {}
      <4>1. PICK b \in S \ {a} : \A m \in S \ {a} : b <= m
        <5>1. S \ {a} \in SUBSET Nat
          OBVIOUS
        <5> QED BY <3>3, <5>1, LeastOf
      <4>2. \A i \in S : i \notin {a, b} => a < i /\ b < i /\ a # b
        BY <3>1, <4>1
      <4> QED BY <1>2, <3>1, <4>1, <4>2
    <3> QED BY <3>2, <3>3
  <2> QED BY <2>1, <2>2
<1>4. PICK a, b : \A i \in S : i \notin {a, b} => a # b /\ a \in J[i] /\ b \in J[i]
  BY <1>3
<1>5. \A i \in S : J[i] \subseteq S
  BY <1>2
<1>6. PICK T : T = {i \in S : Cardinality(J[i]) < 2}
  OBVIOUS
<1>7. IsFiniteSet(T) /\ Cardinality(T) <= 2
  BY <1>1, <1>4, <1>5, <1>6, TwoAtMost
<1>8. {i \in S : Cardinality({j \in S : j < i}) < 2} = T
  BY <1>2, <1>6
<1> QED BY <1>7, <1>8

(* The last two are at most two (provider/transform.ts:121).                 *)
LEMMA LastTwo ==
  ASSUME NEW n \in Nat, NEW S \in SUBSET (1..n)
  PROVE  /\ IsFiniteSet({i \in S : Cardinality({j \in S : j > i}) < 2})
         /\ Cardinality({i \in S : Cardinality({j \in S : j > i}) < 2}) <= 2
<1>1. IsFiniteSet(S)
  <2>1. IsFiniteSet(1..n)
    BY FS_Interval
  <2> QED BY <2>1, FS_Subset
<1>2. PICK J : J = [i \in S |-> {j \in S : j > i}]
  OBVIOUS
<1>3. \E a, b : \A i \in S : i \notin {a, b} => a # b /\ a \in J[i] /\ b \in J[i]
  <2>1. CASE S = {}
    BY <2>1
  <2>2. CASE S # {}
    <3>1. PICK a \in S : \A m \in S : m <= a
      BY <2>2, GreatestOf
    <3>2. CASE S \ {a} = {}
      BY <3>1, <3>2
    <3>3. CASE S \ {a} # {}
      <4>1. PICK b \in S \ {a} : \A m \in S \ {a} : m <= b
        BY <3>3, GreatestOf
      <4>2. \A i \in S : i \notin {a, b} => a > i /\ b > i /\ a # b
        BY <3>1, <4>1
      <4> QED BY <1>2, <3>1, <4>1, <4>2
    <3> QED BY <3>2, <3>3
  <2> QED BY <2>1, <2>2
<1>4. PICK a, b : \A i \in S : i \notin {a, b} => a # b /\ a \in J[i] /\ b \in J[i]
  BY <1>3
<1>5. \A i \in S : J[i] \subseteq S
  BY <1>2
<1>6. PICK T : T = {i \in S : Cardinality(J[i]) < 2}
  OBVIOUS
<1>7. IsFiniteSet(T) /\ Cardinality(T) <= 2
  BY <1>1, <1>4, <1>5, <1>6, TwoAtMost
<1>8. {i \in S : Cardinality({j \in S : j > i}) < 2} = T
  BY <1>2, <1>6
<1> QED BY <1>7, <1>8

(* At most four messages are marked for the cache, the last one among them   *)
(* (provider/transform.ts:119-159).                                          *)
LEMMA CachingIs ==
  ASSUME NEW A, NEW w \in Seq(A), Len(w) > 0
  PROVE  Cardinality(applyCaching(w)) <= 4 /\ (Last(w).role # "system" => Len(w) \in applyCaching(w))
<1>1. PICK n \in Nat : n = Len(w) /\ DOMAIN w = 1..n /\ n > 0
  OBVIOUS
<1>2. PICK sys, others : sys = {i \in DOMAIN w : w[i].role = "system"} /\ others = DOMAIN w \ sys
  OBVIOUS
<1>3. sys \in SUBSET (1..n) /\ others \in SUBSET (1..n)
  BY <1>1, <1>2
<1>4. PICK a,
        b : a = {i \in sys : Cardinality({j \in sys : j < i}) < 2} /\ b = {i \in others : Cardinality({j \in others : j > i}) < 2}
  OBVIOUS
<1>5. applyCaching(w) = a \cup b
  BY <1>2, <1>4 DEF applyCaching
<1>6. IsFiniteSet(a) /\ Cardinality(a) <= 2
  BY <1>3, <1>4, FirstTwo
<1>7. IsFiniteSet(b) /\ Cardinality(b) <= 2
  BY <1>3, <1>4, LastTwo
<1>8. Cardinality(a \cup b) <= 4
  <2>1. IsFiniteSet(a \cap b) /\ a \cap b \in SUBSET a
    BY <1>6, FS_Subset
  <2>2. Cardinality(a) \in Nat /\ Cardinality(b) \in Nat /\ Cardinality(a \cap b) \in Nat
    BY <1>6, <1>7, <2>1, FS_CardinalityType
  <2>3. Cardinality(a \cup b) = Cardinality(a) + Cardinality(b) - Cardinality(a \cap b)
    BY <1>6, <1>7, FS_Union
  <2> QED BY <1>6, <1>7, <2>2, <2>3
<1>9. ASSUME Last(w).role # "system" PROVE n \in b
  <2>1. n \in others
    BY <1>1, <1>2, <1>9 DEF Last
  <2>2. {j \in others : j > n} = {}
    <3>1. \A j \in others : ~(j > n)
      BY <1>3
    <3> QED BY <3>1
  <2>3. Cardinality({j \in others : j > n}) < 2
    <3>1. PICK Z : Z = {j \in others : j > n}
      OBVIOUS
    <3>2. Cardinality(Z) = 0
      BY <2>2, <3>1, FS_EmptySet
    <3>3. Cardinality(Z) < 2
      BY <3>2
    <3> QED BY <3>1, <3>3, Zenon
  <2> QED BY <1>4, <2>1, <2>3
<1> QED BY <1>1, <1>5, <1>8, <1>9

\* What the model can write.
Cap == IF model.output = 0 THEN OUTPUT_TOKEN_MAX ELSE model.output

(* Thinking and answer together stay within what the model can write         *)
(* (provider/transform.ts:514-537).                                          *)
LEMMA LimitIs ==
  ASSUME RequestsAssumption, model \in Models
  PROVE  maxOutputTokens <= Cap /\ (budgetTokens > 0 => maxOutputTokens + budgetTokens <= Cap)
<1>1. PICK cap, budget, std : cap = Cap /\ budget = budgetTokens /\ std = Min({cap, OUTPUT_TOKEN_MAX})
  OBVIOUS
<1>2. cap \in Nat
  BY <1>1 DEF Cap, OUTPUT_TOKEN_MAX, RequestsAssumption
<1>3. budget \in Nat
  BY <1>1 DEF budgetTokens
<1>4. std \in Nat /\ std <= cap
  <2>1. \E x \in {cap, 32000} : \A y \in {cap, 32000} : x <= y
    <3>1. CASE cap <= 32000
      BY <1>2, <3>1
    <3>2. CASE ~(cap <= 32000)
      BY <1>2, <3>2
    <3> QED BY <3>1, <3>2
  <2>2. std = CHOOSE x \in {cap, 32000} : \A y \in {cap, 32000} : x <= y
    BY <1>1 DEF Min, OUTPUT_TOKEN_MAX
  <2>3. std \in {cap, 32000} /\ \A y \in {cap, 32000} : std <= y
    BY <2>1, <2>2
  <2> QED BY <1>2, <2>3
<1>5. maxOutputTokens = IF budget > 0 /\ budget + std > cap THEN cap - budget ELSE std
  BY <1>1 DEF maxOutputTokens, Cap
<1> QED BY <1>1, <1>2, <1>3, <1>4, <1>5

(* A request is sound in any conversation and for any model                  *)
(* (session/llm.ts:43-201).                                                  *)
LEMMA StreamIsSound ==
  ASSUME RequestsAssumption, said \in Seq(SaidType), model \in Models, params \in Params, request = stream
  PROVE  RequestsAreSound
<1>1. PICK all, s : all = Everything /\ s = Sent(all)
  OBVIOUS
<1>2. all \in Seq(MsgType) /\ Len(all) > 0 /\ Good(s, FinishedParts)
  BY <1>1, EverythingIsGood
<1>3. PICK w : w = normalizeMessages(unsupportedParts(all))
  OBVIOUS
<1>4. w = IF model.family = "mistral" THEN Separated(s) ELSE s
  BY <1>1, <1>2, <1>3, NormalIs
<1>5. /\ request.messages = w
      /\ request.marked = IF model.anthropic \/ model.family = "claude" THEN applyCaching(w) ELSE {}
      /\ request.limit = maxOutputTokens
  BY <1>1, <1>3 DEF stream, message, Everything
<1>6. PICK A : A = {SentMessage(m) : m \in MsgType} \cup {Done}
  OBVIOUS
<1>7. \A x \in A : x.role = "tool" => ResultIds(x) \in Seq(SentIdSet)
  <2> TAKE x \in A
  <2> HAVE x.role = "tool"
  <2>1. PICK m \in MsgType : x = SentMessage(m)
    BY <1>6, DoneIs
  <2>2. m.role = "tool"
    BY <2>1 DEF SentMessage
  <2> QED BY <2>1, <2>2, ToolIdsAre
<1>8. s \in Seq(A) /\ Len(s) > 0 /\ Done \in A
  <2>1. /\ Len(s) = Len(all) /\ Len(all) \in Nat /\ DOMAIN s = 1..Len(all)
        /\ \A i \in 1..Len(all) : s[i] = SentMessage(all[i]) /\ all[i] \in MsgType
    BY <1>1, <1>2, SentIs
  <2>2. s = [i \in 1..Len(all) |-> s[i]]
    <3>1. DOMAIN all = 1..Len(all)
      BY <1>2
    <3> QED BY <1>1, <3>1 DEF Sent
  <2>3. \A i \in 1..Len(all) : s[i] \in A
    BY <1>6, <2>1
  <2>4. s \in Seq(A)
    BY <2>1, <2>2, <2>3
  <2> QED BY <1>2, <1>6, <2>1, <2>4
<1>9. /\ w \in Seq(A) /\ Len(w) > 0 /\ Good(w, FinishedParts)
      /\ model.family = "mistral" => \A i \in DOMAIN w : w[i].role = "tool" /\ i < Len(w) => w[i + 1].role # "user"
  <2>1. CASE model.family = "mistral"
    BY <1>2, <1>4, <1>7, <1>8, <2>1, SeparatedIs
  <2>2. CASE model.family # "mistral"
    BY <1>2, <1>4, <1>8, <2>2
  <2> QED BY <2>1, <2>2
<1> DEFINE sent == request.messages
<1>10. /\ sent \in Seq(A) /\ Len(sent) > 0 /\ Good(sent, FinishedParts)
       /\ model.family = "mistral" => \A i \in DOMAIN sent : sent[i].role = "tool" /\ i < Len(sent) => sent[i + 1].role # "user"
       /\ request.marked = IF model.anthropic \/ model.family = "claude" THEN applyCaching(sent) ELSE {}
  BY <1>5, <1>9
<1>11. \A i \in DOMAIN sent :
         /\ sent[i].role = "assistant" /\ Calls(sent[i]) # <<>> =>
              i < Len(sent) /\ sent[i + 1].role = "tool" /\ ResultIds(sent[i + 1]) = [j \in DOMAIN Calls(sent[i]) |-> Calls(sent[i])[j].id]
         /\ sent[i].role = "tool" => i > 1 /\ sent[i - 1].role = "assistant" /\ Len(Calls(sent[i - 1])) = Len(sent[i].content)
         /\ model.family = "mistral" /\ sent[i].role = "tool" /\ i < Len(sent) => sent[i + 1].role # "user"
         /\ \A j \in DOMAIN sent[i].content : sent[i].content[j].type = "file" => sent[i].content[j].of \in model.input
  <2> TAKE i \in DOMAIN sent
  <2>1. AnsweredNext(sent, i) /\ Readable(sent[i])
    BY <1>10 DEF Good
  <2>2. model.family = "mistral" /\ sent[i].role = "tool" /\ i < Len(sent) => sent[i + 1].role # "user"
    BY <1>10
  <2> QED BY <2>1, <2>2 DEF AnsweredNext, CallsOf, Readable
<1>12. FlattenSeq([i \in DOMAIN sent |-> IF sent[i].role = "tool" THEN ResultIds(sent[i]) ELSE <<>>])
         = [i \in DOMAIN FinishedParts |-> SentId(FinishedParts[i].id)]
  BY <1>10 DEF Good, Results, IdsOf
<1>13. Cardinality(request.marked) <= 4 /\ (model.anthropic /\ Last(sent).role # "system" => Len(sent) \in request.marked)
  <2>1. Cardinality(applyCaching(sent)) <= 4 /\ (Last(sent).role # "system" => Len(sent) \in applyCaching(sent))
    BY <1>10, CachingIs
  <2>2. Cardinality({}) <= 4
    BY FS_EmptySet
  <2>3. CASE model.anthropic \/ model.family = "claude"
    BY <1>10, <2>1, <2>3
  <2>4. CASE ~(model.anthropic \/ model.family = "claude")
    BY <1>10, <2>2, <2>4
  <2> QED BY <2>3, <2>4
<1>14. request.limit <= Cap /\ (budgetTokens > 0 => request.limit + budgetTokens <= Cap)
  BY <1>5, LimitIs
<1> QED BY <1>11, <1>12, <1>13, <1>14, Zenon DEF RequestsAreSound, FinishedParts, Cap

\* The inductive invariant: the last request, if there is one, is that of the
\* conversation as it is now.
RequestsInv ==
  /\ said \in Seq(SaidType) /\ model \in Models /\ params \in Params
  /\ request = NoRequest \/ request = stream

(* A request depends on the conversation, the model and the parameters only  *)
(* (session/llm.ts:43-201).                                                  *)
LEMMA StreamStays ==
  ASSUME said' = said, model' = model, params' = params
  PROVE  stream' = stream
<1>1. (system \o toModelMessage(said))' = system \o toModelMessage(said)
  BY DEF system
<1>2. ASSUME NEW x PROVE unsupportedParts(x)' = unsupportedParts(x)
  BY DEF unsupportedParts, EachPart
<1>3. ASSUME NEW x PROVE normalizeMessages(x)' = normalizeMessages(x)
  BY DEF normalizeMessages, Renamed, EachPart, SentId
<1>4. maxOutputTokens' = maxOutputTokens /\ Effort' = Effort
  BY DEF maxOutputTokens, budgetTokens, Effort, variants
<1>5. ASSUME NEW x PROVE message(x)' = message(x)
  BY <1>2, <1>3 DEF message
<1> QED BY <1>1, <1>4, <1>5 DEF stream

(* A provider is sent what it takes: the calls of an answer, all of them     *)
(* that finished and no other, are answered one by one in the message right  *)
(* behind it, Mistral sees no question behind results, no file is of a kind  *)
(* the model cannot read, at most four messages are marked for the cache,    *)
(* and thinking and answer stay within what the model can write; for any     *)
(* conversation, however long its answers, and any model, ids and parameters *)
(* (session/llm.ts:43-201, message-v2.ts:421-542,                            *)
(* provider/transform.ts:19-212, 514-537).                                   *)
THEOREM RequestsAreSoundAlways ==
  ASSUME RequestsAssumption
  PROVE  RequestsInit /\ [][RequestsNext]_requestVars => []RequestsAreSound
<1>1. RequestsInit => RequestsInv
  <2>1. <<>> \in Seq(SaidType)
    OBVIOUS
  <2> QED BY <2>1 DEF RequestsInit, RequestsInv
<1>2. RequestsInv /\ [RequestsNext]_requestVars => RequestsInv'
  <2> SUFFICES ASSUME RequestsInv, [RequestsNext]_requestVars PROVE RequestsInv'
    OBVIOUS
  <2>1. said \in Seq(SaidType) /\ model \in Models /\ params \in Params /\ (request = NoRequest \/ request = stream)
    BY DEF RequestsInv
  <2>2. ASSUME NEW m \in SaidType, Say(m) PROVE RequestsInv'
    <3>1. said' = Append(said, m) /\ request' = NoRequest /\ model' = model /\ params' = params
      BY <2>2 DEF Say
    <3>2. said' \in Seq(SaidType)
      BY <2>1, <3>1, AppendedIs
    <3>3. NoRequest' = NoRequest
      BY DEF NoRequest
    <3> QED BY <2>1, <3>1, <3>2, <3>3 DEF RequestsInv
  <2>3. CASE UserSays
    <3>1. PICK q \in Questions : Say([role |-> "user", parts |-> q, error |-> "none"])
      BY <2>3 DEF UserSays
    <3>2. q \in Seq(STRING)
      BY DEF RequestsAssumption
    <3>3. [role |-> "user", parts |-> q, error |-> "none"] \in SaidType
      BY <3>2 DEF SaidType
    <3> QED BY <2>2, <3>1, <3>3
  <2>4. CASE AssistantSays
    <3>1. PICK a \in Answers, e \in {"none"} \cup {fromError(x) : x \in Errors} : Say([role |-> "assistant",
            parts |-> a, error |-> e])
      BY <2>4 DEF AssistantSays
    <3>2. a \in Seq(AnswerPart) /\ e \in {"none", "MessageAbortedError", "APIError"}
      BY <3>1 DEF RequestsAssumption, fromError, Errors
    <3>3. [role |-> "assistant", parts |-> a, error |-> e] \in SaidType
      BY <3>2 DEF SaidType
    <3> QED BY <2>2, <3>1, <3>3
  <2>5. CASE Send
    <3>1. request' = stream /\ said' = said /\ model' = model /\ params' = params
      BY <2>5 DEF Send
    <3> QED BY <2>1, <3>1, StreamStays DEF RequestsInv
  <2>6. CASE UNCHANGED requestVars
    <3>1. request' = request /\ said' = said /\ model' = model /\ params' = params
      BY <2>6 DEF requestVars
    <3>2. NoRequest' = NoRequest
      BY DEF NoRequest
    <3> QED BY <2>1, <3>1, <3>2, StreamStays DEF RequestsInv
  <2> QED BY <2>3, <2>4, <2>5, <2>6 DEF RequestsNext
<1>3. RequestsInv => RequestsAreSound
  <2>1. CASE request = NoRequest
    BY <2>1 DEF RequestsAreSound
  <2>2. CASE request # NoRequest
    BY <2>2, StreamIsSound DEF RequestsInv
  <2> QED BY <2>1, <2>2
<1> QED BY <1>1, <1>2, <1>3, PTL
=============================================================================
