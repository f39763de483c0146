----------------------------- MODULE CoreProofs -----------------------------
(* Proofs about the parts MCAgentCore composes: the records of               *)
(* storage/storage.ts (the lock that guards one is exclusive and never idle, *)
(* and the record behaves like RecordStore), the edits of one file that      *)
(* tool/edit.ts chains in file/time.ts, the reader of the model's stream in  *)
(* session/processor.ts with the permissions its tools ask for, the timeline *)
(* of the desktop client, undo and redo of session/revert.ts, the copy of    *)
(* the sessions that a terminal keeps (tui/context/sync.tsx), and the        *)
(* reports and baselines of tool/quality.ts.                                 *)
EXTENDS Storage, FileEdits, Processor, DesktopClient, Revert, TerminalSync, Quality,
        SequenceLemmas, FiniteSetTheorems, SequenceTheorems, WellFoundedInduction, TLAPS

StorageNext == \E p \in Procs : StorageStep(p)
StorageSpec == StorageInit /\ [][StorageNext]_storageVars

-----------------------------------------------------------------------------
(* The invariant. *)

Writes(p) == op[p] \in {"update", "write"}

Values == (SUBSET Procs) \cup {Absent}

TypesHold ==
  /\ StorageTypeOK
  /\ op \in [Procs -> {"read", "update", "write", "remove"}]
  /\ file \in [value : Values, torn : BOOLEAN, was : Values]
  /\ draft \in [Procs -> SUBSET Procs]
  /\ removed \in Values

\* Each operation is where the lock says: it holds it in one way, or waits in
\* one queue, and an update between its awaits is the writer.
PlacesHold ==
  /\ \A p \in readers : op[p] = "read" /\ at[p] = "locked"
  /\ \A i \in DOMAIN waitingReaders :
       LET p == waitingReaders[i] IN op[p] = "read" /\ at[p] = "locked" /\ p \notin readers
  /\ writer # NoProc => Writes(writer) /\ at[writer] \in {"locked", "loaded", "writing"}
  /\ \A i \in DOMAIN waitingWriters :
       LET p == waitingWriters[i] IN Writes(p) /\ at[p] = "locked" /\ p # writer
  /\ \A i, j \in DOMAIN waitingWriters : waitingWriters[i] = waitingWriters[j] => i = j
  /\ \A p \in Procs : at[p] \in {"loaded", "writing"} => writer = p

\* The file is half written only while its writer writes, unless it is gone;
\* what an update read is still the record, or what a removal removed.
ContentsHold ==
  /\ file.torn => writer # NoProc /\ at[writer] = "writing"
  /\ file.value = Absent => file = Missing
  /\ \A p \in Procs : at[p] = "writing" => file.torn \/ file = Missing
  /\ \A p \in Procs : op[p] = "update" /\ at[p] \in {"loaded", "writing"} =>
       Record = draft[p] \/ (Record = Absent /\ removed = draft[p])
  /\ \A p \in Procs : answer[p] # "torn"

StorageInv == TypesHold /\ LockExclusive /\ LockNeverIdle /\ PlacesHold /\ ContentsHold

-----------------------------------------------------------------------------
LEMMA StorageInvInit == StorageInit => StorageInv
<1> SUFFICES ASSUME StorageInit PROVE StorageInv
  OBVIOUS
<1> USE DEF StorageInit, LockInit, Missing, File
<1>1. TypesHold
  <2>1. LockTypeOK
    BY DEF LockTypeOK
  <2>2. file \in [value : Values, torn : BOOLEAN, was : Values]
    <3>1. {} \in Values /\ Absent \in Values /\ FALSE \in BOOLEAN
      BY DEF Values
    <3>2. CASE file = [value |-> Absent, torn |-> FALSE, was |-> Absent]
      BY <3>1, <3>2, Zenon
    <3>3. CASE file = [value |-> {}, torn |-> FALSE, was |-> {}]
      BY <3>1, <3>3, Zenon
    <3> QED BY <3>2, <3>3, Zenon
  <2> QED BY <2>1, <2>2, OpsAssumption DEF TypesHold, StorageTypeOK, Values
<1>2. LockExclusive /\ LockNeverIdle
  BY DEF LockExclusive, LockNeverIdle
<1>3. PlacesHold
  BY DEF PlacesHold
<1>4. ContentsHold
  BY AbsentAssumption DEF ContentsHold
<1> QED BY <1>1, <1>2, <1>3, <1>4 DEF StorageInv

\* What the lock's operations keep, whoever is given it.
LockInv == LockTypeOK /\ LockExclusive /\ LockNeverIdle

LEMMA HandOverKeepsLock ==
  ASSUME LockInv, HandOver
  PROVE  LockInv'
<1> USE NoProcAssumption DEF LockInv, LockTypeOK, LockExclusive, LockNeverIdle, HandOver
<1>1. CASE waitingWriters # <<>>
  <2>1. Head(waitingWriters) \in Procs /\ Tail(waitingWriters) \in Seq(Procs)
    BY <1>1, HeadTailProperties
  <2> QED BY <1>1, <2>1
<1>2. CASE waitingWriters = <<>>
  <2>1. ToSet(waitingReaders) \in SUBSET Procs
    BY DEF ToSet
  <2>2. <<>> \in Seq(Procs)
    OBVIOUS
  <2> QED BY <1>2, <2>1, <2>2
<1> QED BY <1>1, <1>2

LEMMA AcquiresKeepLock ==
  ASSUME LockInv, NEW p \in Procs, AcquireRead(p) \/ AcquireWrite(p)
  PROVE  LockInv'
<1> USE NoProcAssumption DEF LockInv, LockTypeOK, LockExclusive, LockNeverIdle
<1>1. /\ Append(waitingReaders, p) \in Seq(Procs) /\ Append(waitingReaders, p) # <<>>
      /\ Append(waitingWriters, p) \in Seq(Procs) /\ Append(waitingWriters, p) # <<>>
  BY AppendProperties
<1>2. CASE AcquireRead(p)
  BY <1>1, <1>2 DEF AcquireRead
<1>3. CASE AcquireWrite(p)
  BY <1>1, <1>3 DEF AcquireWrite
<1> QED BY <1>2, <1>3

LEMMA ReleasesKeepLock ==
  ASSUME LockInv, NEW p \in Procs, ReleaseRead(p) \/ ReleaseWrite(p)
  PROVE  LockInv'
<1>1. CASE HandOver
  BY <1>1, HandOverKeepsLock
<1>2. CASE ~HandOver
  BY <1>2 DEF LockInv, LockTypeOK, LockExclusive, LockNeverIdle, ReleaseRead, ReleaseWrite
<1> QED BY <1>1, <1>2

-----------------------------------------------------------------------------
(* Every step keeps the invariant. *)

LEMMA StepKeepsLock ==
  ASSUME StorageInv, NEW p \in Procs, StorageStep(p)
  PROVE  LockInv'
<1>1. LockInv
  BY DEF StorageInv, TypesHold, StorageTypeOK, LockInv
<1>2. CASE Acquire(p)
  BY <1>1, <1>2, AcquiresKeepLock DEF Acquire
<1>3. CASE ReadFile(p)
  BY <1>1, <1>3, ReleasesKeepLock DEF ReadFile
<1>4. CASE LoadFile(p)
  <2>1. CASE UNCHANGED lockVars
    BY <1>1, <2>1 DEF lockVars, LockInv, LockTypeOK, LockExclusive, LockNeverIdle
  <2>2. CASE ReleaseWrite(p)
    BY <1>1, <2>2, ReleasesKeepLock
  <2> QED BY <1>4, <2>1, <2>2 DEF LoadFile
<1>5. CASE EndWrite(p)
  BY <1>1, <1>5, ReleasesKeepLock DEF EndWrite
<1>6. CASE BeginWrite(p) \/ Unlink(p)
  BY <1>1, <1>6 DEF BeginWrite, Unlink, lockVars, LockInv, LockTypeOK, LockExclusive, LockNeverIdle
<1> QED BY <1>2, <1>3, <1>4, <1>5, <1>6 DEF StorageStep

LEMMA StepKeepsTypes ==
  ASSUME StorageInv, NEW p \in Procs, StorageStep(p)
  PROVE  TypesHold'
<1>1. LockTypeOK'
  BY StepKeepsLock DEF LockInv
<1>2. TypesHold
  BY DEF StorageInv
<1>3. op' = op
  BY DEF StorageStep, Acquire, ReadFile, LoadFile, BeginWrite, EndWrite, Unlink
<1>4. at' \in [Procs -> {"start", "locked", "loaded", "writing", "end"}]
  BY <1>2 DEF TypesHold, StorageTypeOK, StorageStep, Acquire, ReadFile, LoadFile, BeginWrite, EndWrite, Unlink, MoveTo
<1>5. answer' \in [Procs -> {"none", "value", "notFound", "torn"}]
  BY <1>2 DEF TypesHold, StorageTypeOK, StorageStep, Acquire, ReadFile, LoadFile, BeginWrite, EndWrite, Unlink, Returns
<1>6. {} \in Values /\ Absent \in Values /\ file.value \in Values /\ file.was \in Values
  BY <1>2 DEF TypesHold, Values
<1>7. draft' \in [Procs -> SUBSET Procs]
  <2>1. file.value # Absent => file.value \in SUBSET Procs
    BY <1>6 DEF Values
  <2> QED BY <1>2, <2>1 DEF TypesHold, StorageStep, Acquire, ReadFile, LoadFile, BeginWrite, EndWrite, Unlink
<1>8. file' \in [value : Values, torn : BOOLEAN, was : Values]
  <2>1. CASE file' = file
    BY <1>2, <2>1 DEF TypesHold
  <2>2. CASE file' = [value |-> {}, torn |-> TRUE, was |-> file.value]
    BY <1>6, <2>2, Zenon
  <2>3. CASE file' = [value |-> Absent, torn |-> FALSE, was |-> Absent]
    BY <1>6, <2>3, Zenon
  <2>4. ASSUME NEW v \in SUBSET Procs, file' = [value |-> v, torn |-> FALSE, was |-> v]
        PROVE  file' \in [value : Values, torn : BOOLEAN, was : Values]
    <3>1. v \in Values
      BY DEF Values
    <3> QED BY <2>4, <3>1, Zenon
  <2>5. {p} \in SUBSET Procs /\ draft[p] \cup {p} \in SUBSET Procs
    BY <1>2 DEF TypesHold
  <2> QED BY <2>1, <2>2, <2>3, <2>4, <2>5
      DEF StorageStep, Acquire, ReadFile, LoadFile, BeginWrite, EndWrite, Unlink, Missing, File
<1>9. removed' \in Values
  BY <1>2, <1>6 DEF TypesHold, StorageStep, Acquire, ReadFile, LoadFile, BeginWrite, EndWrite, Unlink, Record
<1>10. file'.torn \in BOOLEAN
  BY <1>8
<1> QED BY <1>1, <1>2, <1>3, <1>4, <1>5, <1>7, <1>8, <1>9, <1>10 DEF TypesHold, StorageTypeOK

\* The lock's operations, seen from one process that is asked about.
LEMMA HandOverPlaces ==
  ASSUME StorageInv, HandOver, NEW p \in Procs,
         at' = [at EXCEPT ![p] = "end"], op' = op,
         (p = writer /\ readers = {}) \/ (readers = {p} /\ writer = NoProc)
  PROVE  PlacesHold'
<1> USE DEF Writes
<1>1. /\ at \in [Procs -> {"start", "locked", "loaded", "writing", "end"}]
      /\ waitingReaders \in Seq(Procs) /\ waitingWriters \in Seq(Procs)
      /\ p # NoProc
  BY NoProcAssumption DEF StorageInv, TypesHold, StorageTypeOK, LockTypeOK
<1>2. PlacesHold
  BY DEF StorageInv
<1>5. ASSUME NEW i \in DOMAIN waitingReaders
      PROVE  waitingReaders[i] \in Procs /\ waitingReaders[i] # p
  <2>1. waitingReaders[i] \in Procs
    BY <1>1
  <2>2. op[waitingReaders[i]] = "read" /\ waitingReaders[i] \notin readers
    BY <1>2 DEF PlacesHold
  <2>3. CASE p = writer
    <3>1. op[p] \in {"update", "write"}
      BY <1>1, <1>2, <2>3 DEF PlacesHold
    <3> QED BY <2>1, <2>2, <3>1
  <2>4. CASE readers = {p}
    BY <2>1, <2>2, <2>4
  <2> QED BY <2>3, <2>4
<1>3. CASE waitingWriters # <<>>
  <2>1. /\ Head(waitingWriters) = waitingWriters[1] /\ 1 \in DOMAIN waitingWriters
        /\ \A i \in DOMAIN Tail(waitingWriters) :
             /\ Tail(waitingWriters)[i] = waitingWriters[i + 1]
             /\ i + 1 \in DOMAIN waitingWriters /\ i \in Nat /\ i # 0
    BY <1>1, <1>3
  <2>2. /\ writer' = waitingWriters[1] /\ waitingWriters' = Tail(waitingWriters)
        /\ readers' = {} /\ waitingReaders' = waitingReaders
    BY <1>3, <2>1, Zenon DEF HandOver
  <2>3. \A i \in DOMAIN waitingWriters : waitingWriters[i] \in Procs /\ waitingWriters[i] # p
    BY <1>1, <1>2 DEF PlacesHold
  <2>4. \A i \in DOMAIN waitingReaders : waitingReaders[i] \in Procs /\ waitingReaders[i] # p
    BY <1>5
  <2>5. \A q \in Procs : at[q] \in {"loaded", "writing"} => q = p
    BY <1>2, NoProcAssumption DEF PlacesHold
  <2>6. \A i \in DOMAIN waitingWriters' :
          /\ op'[waitingWriters'[i]] \in {"update", "write"} /\ at'[waitingWriters'[i]] = "locked"
          /\ waitingWriters'[i] # writer'
    <3> SUFFICES ASSUME NEW i \in DOMAIN waitingWriters'
                 PROVE  /\ op[waitingWriters'[i]] \in {"update", "write"}
                        /\ at'[waitingWriters'[i]] = "locked"
                        /\ waitingWriters'[i] # writer'
      OBVIOUS
    <3>1. waitingWriters'[i] = waitingWriters[i + 1] /\ i + 1 \in DOMAIN waitingWriters /\ i + 1 # 1
      BY <2>1, <2>2
    <3>2. waitingWriters[i + 1] # waitingWriters[1]
      BY <1>2, <2>1, <3>1 DEF PlacesHold
    <3>3. op[waitingWriters[i + 1]] \in {"update", "write"} /\ at[waitingWriters[i + 1]] = "locked"
      BY <1>2, <3>1 DEF PlacesHold
    <3>4. at'[waitingWriters[i + 1]] = at[waitingWriters[i + 1]]
      BY <1>1, <2>3, <3>1
    <3> QED BY <2>2, <3>1, <3>2, <3>3, <3>4
  <2>7. \A i, j \in DOMAIN waitingWriters' : waitingWriters'[i] = waitingWriters'[j] => i = j
    BY <1>1, <1>2, <2>1, <2>2 DEF PlacesHold
  <2>8. writer' # NoProc => op'[writer'] \in {"update", "write"} /\ at'[writer'] \in {"locked", "loaded", "writing"}
    BY <1>1, <1>2, <2>1, <2>2, <2>3 DEF PlacesHold
  <2> QED BY <1>1, <1>2, <2>2, <2>4, <2>5, <2>6, <2>7, <2>8 DEF PlacesHold
<1>4. CASE waitingWriters = <<>>
  <2>1. /\ readers' = {waitingReaders[i] : i \in DOMAIN waitingReaders}
        /\ waitingReaders' = <<>> /\ writer' = NoProc /\ waitingWriters' = <<>>
    BY <1>4 DEF HandOver, ToSet
  <2>2. \A i \in DOMAIN waitingReaders : waitingReaders[i] \in Procs /\ waitingReaders[i] # p
    BY <1>5
  <2>3. \A q \in Procs : at[q] \in {"loaded", "writing"} => q = p
    BY <1>2, NoProcAssumption DEF PlacesHold
  <2> QED BY <1>1, <1>2, <2>1, <2>2, <2>3 DEF PlacesHold
<1> QED BY <1>3, <1>4

\* An operation that has not begun is nowhere in the lock.
LEMMA StartIsNowhere ==
  ASSUME StorageInv, NEW p \in Procs, at[p] = "start"
  PROVE  /\ p \notin readers /\ p # writer
         /\ \A i \in DOMAIN waitingReaders : waitingReaders[i] # p
         /\ \A i \in DOMAIN waitingWriters : waitingWriters[i] # p
BY NoProcAssumption DEF StorageInv, PlacesHold

\* One who holds the lock and waits in no queue may go on.
LEMMA MovePlaces ==
  ASSUME StorageInv, UNCHANGED lockVars, op' = op,
         NEW p \in Procs, NEW place, at' = [at EXCEPT ![p] = place],
         \/ at[p] = "start" /\ place = "end"
         \/ p = writer /\ place \in {"loaded", "writing"}
  PROVE  PlacesHold'
<1>1. /\ at \in [Procs -> {"start", "locked", "loaded", "writing", "end"}]
      /\ \A i \in DOMAIN waitingReaders : waitingReaders[i] \in Procs
      /\ \A i \in DOMAIN waitingWriters : waitingWriters[i] \in Procs
      /\ readers \subseteq Procs /\ p # NoProc
  BY NoProcAssumption DEF StorageInv, TypesHold, StorageTypeOK, LockTypeOK
<1>2. PlacesHold
  BY DEF StorageInv
<1>3. /\ p \notin readers
      /\ \A i \in DOMAIN waitingReaders : waitingReaders[i] # p
      /\ \A i \in DOMAIN waitingWriters : waitingWriters[i] # p
  <2>1. CASE at[p] = "start"
    BY <2>1, StartIsNowhere
  <2>2. CASE p = writer
    BY <1>1, <1>2, <2>2 DEF PlacesHold, Writes
  <2> QED BY <2>1, <2>2
<1>4. at[p] = "start" => p # writer
  BY StartIsNowhere
<1> QED BY <1>1, <1>2, <1>3, <1>4 DEF PlacesHold, Writes, lockVars

LEMMA AcquirePlaces ==
  ASSUME StorageInv, NEW p \in Procs, Acquire(p)
  PROVE  PlacesHold'
<1>1. /\ at \in [Procs -> {"start", "locked", "loaded", "writing", "end"}]
      /\ op[p] \in {"read", "update", "write"}
      /\ waitingReaders \in Seq(Procs) /\ waitingWriters \in Seq(Procs)
      /\ readers \subseteq Procs /\ p # NoProc
      /\ at[p] = "start" /\ at' = [at EXCEPT ![p] = "locked"] /\ op' = op
  BY NoProcAssumption DEF StorageInv, TypesHold, StorageTypeOK, LockTypeOK, Acquire, MoveTo
<1>2. PlacesHold
  BY DEF StorageInv
<1>3. /\ p \notin readers /\ p # writer
      /\ \A i \in DOMAIN waitingReaders : waitingReaders[i] \in Procs /\ waitingReaders[i] # p
      /\ \A i \in DOMAIN waitingWriters : waitingWriters[i] \in Procs /\ waitingWriters[i] # p
  BY <1>1, StartIsNowhere
<1>4. CASE /\ op[p] = "read" /\ readers' = readers \cup {p}
           /\ UNCHANGED <<writer, waitingReaders, waitingWriters>>
  BY <1>1, <1>2, <1>3, <1>4 DEF PlacesHold, Writes
<1>5. CASE /\ op[p] \in {"update", "write"} /\ writer' = p /\ writer = NoProc
           /\ UNCHANGED <<readers, waitingReaders, waitingWriters>>
  BY <1>1, <1>2, <1>3, <1>5, NoProcAssumption DEF PlacesHold, Writes
<1>6. CASE /\ op[p] = "read" /\ waitingReaders' = Append(waitingReaders, p)
           /\ UNCHANGED <<writer, readers, waitingWriters>>
  <2>1. \A i \in DOMAIN waitingReaders' :
          \/ i \in DOMAIN waitingReaders /\ waitingReaders'[i] = waitingReaders[i]
          \/ waitingReaders'[i] = p
    BY <1>1, <1>6
  <2> QED BY <1>1, <1>2, <1>3, <1>6, <2>1 DEF PlacesHold, Writes
<1>7. CASE /\ op[p] \in {"update", "write"} /\ waitingWriters' = Append(waitingWriters, p)
           /\ UNCHANGED <<writer, readers, waitingReaders>>
  <2>1. \A i \in DOMAIN waitingWriters' :
          \/ i \in DOMAIN waitingWriters /\ waitingWriters'[i] = waitingWriters[i]
          \/ waitingWriters'[i] = p /\ i = Len(waitingWriters) + 1
    BY <1>1, <1>7
  <2>2. \A i \in DOMAIN waitingWriters' :
          LET q == waitingWriters'[i]
          IN  op'[q] \in {"update", "write"} /\ at'[q] = "locked" /\ q # writer'
    BY <1>1, <1>2, <1>3, <1>7, <2>1 DEF PlacesHold, Writes
  <2>3. \A i, j \in DOMAIN waitingWriters' : waitingWriters'[i] = waitingWriters'[j] => i = j
    BY <1>2, <1>3, <2>1 DEF PlacesHold
  <2> QED BY <1>1, <1>2, <1>3, <1>7, <2>2, <2>3 DEF PlacesHold, Writes
<1> QED BY <1>1, <1>4, <1>5, <1>6, <1>7 DEF Acquire, AcquireRead, AcquireWrite

LEMMA StepKeepsPlaces ==
  ASSUME StorageInv, NEW p \in Procs, StorageStep(p)
  PROVE  PlacesHold'
<1>1. /\ at \in [Procs -> {"start", "locked", "loaded", "writing", "end"}]
      /\ readers \subseteq Procs /\ p # NoProc
      /\ \A i \in DOMAIN waitingReaders : waitingReaders[i] \in Procs
      /\ \A i \in DOMAIN waitingWriters : waitingWriters[i] \in Procs
  BY NoProcAssumption DEF StorageInv, TypesHold, StorageTypeOK, LockTypeOK
<1>2. PlacesHold /\ LockExclusive
  BY DEF StorageInv
<1>3. CASE Acquire(p)
  BY <1>3, AcquirePlaces
<1>4. CASE ReadFile(p)
  <2>1. op' = op /\ at' = [at EXCEPT ![p] = "end"] /\ p \in readers
    BY <1>4 DEF ReadFile, MoveTo, ReleaseRead
  <2>2. writer = NoProc
    BY <1>2, <2>1 DEF LockExclusive
  <2>3. CASE readers = {p}
    BY <1>4, <2>1, <2>2, <2>3, HandOverPlaces DEF ReadFile, ReleaseRead
  <2>4. CASE readers # {p}
    <3>1. readers' = readers \ {p} /\ UNCHANGED <<writer, waitingReaders, waitingWriters>>
      BY <1>4, <2>4 DEF ReadFile, ReleaseRead
    <3>2. /\ \A i \in DOMAIN waitingReaders : waitingReaders[i] # p
          /\ \A i \in DOMAIN waitingWriters : waitingWriters[i] # p
      BY <1>2, <2>1 DEF PlacesHold, Writes
    <3> QED BY <1>1, <1>2, <2>1, <2>2, <3>1, <3>2 DEF PlacesHold, Writes
  <2> QED BY <2>3, <2>4
<1>5. op[p] \in {"update", "write"} /\ Holds(p) => p = writer /\ readers = {}
  BY <1>1, <1>2 DEF PlacesHold, Holds, LockExclusive
<1>6. at[p] \in {"loaded", "writing"} => p = writer /\ readers = {}
  BY <1>1, <1>2 DEF PlacesHold, LockExclusive
<1>7. CASE LoadFile(p)
  <2>1. op' = op /\ p = writer /\ readers = {}
    BY <1>5, <1>7 DEF LoadFile
  <2>2. CASE file.value = Absent
    BY <1>7, <2>1, <2>2, HandOverPlaces DEF LoadFile, MoveTo, ReleaseWrite
  <2>3. CASE file.value # Absent
    BY <1>7, <2>1, <2>3, MovePlaces DEF LoadFile, MoveTo
  <2> QED BY <2>2, <2>3
<1>8. CASE BeginWrite(p)
  BY <1>5, <1>6, <1>8, MovePlaces DEF BeginWrite, MoveTo
<1>9. CASE EndWrite(p)
  BY <1>6, <1>9, HandOverPlaces DEF EndWrite, MoveTo, ReleaseWrite
<1>10. CASE Unlink(p)
  BY <1>10, MovePlaces DEF Unlink, MoveTo
<1> QED BY <1>3, <1>4, <1>7, <1>8, <1>9, <1>10 DEF StorageStep

\* While the file is half written nobody but its writer goes on, unless to
\* remove it.
LEMMA TornIsWriters ==
  ASSUME StorageInv, NEW p \in Procs, Holds(p), at[p] \in {"locked", "loaded"}
  PROVE  ~file.torn /\ Record = file.value
BY DEF StorageInv, ContentsHold, LockExclusive, Holds, Record

LEMMA StepKeepsContents ==
  ASSUME StorageInv, NEW p \in Procs, StorageStep(p)
  PROVE  ContentsHold'
<1>1. /\ at \in [Procs -> {"start", "locked", "loaded", "writing", "end"}]
      /\ answer \in [Procs -> {"none", "value", "notFound", "torn"}]
      /\ draft \in [Procs -> SUBSET Procs]
      /\ op[p] \in {"read", "update", "write", "remove"}
      /\ writer \in Procs \cup {NoProc} /\ p # NoProc
      /\ file.torn \in BOOLEAN /\ file.value \in Values
  BY NoProcAssumption DEF StorageInv, TypesHold, StorageTypeOK, LockTypeOK
<1>2. ContentsHold /\ PlacesHold /\ LockExclusive
  BY DEF StorageInv
<1>3. \A q \in Procs : at[q] \in {"loaded", "writing"} => q = writer
  BY <1>2 DEF PlacesHold
<1>4. CASE Acquire(p)
  <2>1. /\ p # writer /\ at' = [at EXCEPT ![p] = "locked"]
        /\ UNCHANGED <<op, file, draft, answer, removed>>
    BY <1>4, StartIsNowhere DEF Acquire, MoveTo
  <2>2. writer # NoProc => writer' = writer
    BY <1>4 DEF Acquire, AcquireRead, AcquireWrite
  <2> QED BY <1>1, <1>2, <2>1, <2>2 DEF ContentsHold, Record
<1>5. CASE ReadFile(p)
  <2>1. ~file.torn
    BY <1>5, TornIsWriters DEF ReadFile
  <2> QED BY <1>1, <1>2, <1>5, <2>1 DEF ContentsHold, Record, ReadFile, MoveTo, Returns
<1>6. CASE LoadFile(p)
  <2>1. ~file.torn /\ Record = file.value
    BY <1>6, TornIsWriters DEF LoadFile
  <2> QED BY <1>1, <1>2, <1>6, <2>1 DEF ContentsHold, Record, LoadFile, MoveTo, Returns
<1>7. CASE BeginWrite(p)
  <2>1. p = writer /\ at[p] \in {"locked", "loaded"}
    BY <1>2, <1>7 DEF BeginWrite, Holds, PlacesHold
  <2>2. Record = file.value
    BY <2>1, TornIsWriters DEF Holds
  <2>3. /\ Record' = Record /\ file'.torn /\ file'.value # Absent
        /\ at' = [at EXCEPT ![p] = "writing"]
        /\ UNCHANGED <<lockVars, op, draft, answer, removed>>
    BY <1>7, <2>2, AbsentAssumption DEF BeginWrite, MoveTo, Record
  <2>4. \A q \in Procs : at'[q] \in {"loaded", "writing"} => q = p
    BY <1>1, <1>3, <2>1, <2>3
  <2>5. op[p] = "update" => Record = draft[p] \/ (Record = Absent /\ removed = draft[p])
    BY <1>2, <1>7 DEF ContentsHold, BeginWrite
  <2> QED BY <1>1, <1>2, <2>1, <2>3, <2>4, <2>5 DEF ContentsHold, lockVars
<1>8. CASE EndWrite(p)
  <2>1. p = writer
    BY <1>3, <1>8 DEF EndWrite
  <2>2. /\ ~file'.torn /\ (file'.value = Absent => file' = Missing)
    BY <1>1, <1>8, AbsentAssumption DEF EndWrite, Missing, File
  <2>3. \A q \in Procs : at'[q] \notin {"loaded", "writing"}
    BY <1>1, <1>3, <1>8, <2>1 DEF EndWrite, MoveTo
  <2>4. \A q \in Procs : answer'[q] # "torn"
    BY <1>1, <1>2, <1>8 DEF EndWrite, Returns, ContentsHold
  <2> QED BY <2>2, <2>3, <2>4 DEF ContentsHold
<1>9. CASE Unlink(p)
  <2>1. /\ file' = Missing /\ Record' = Absent /\ ~file'.torn
        /\ at' = [at EXCEPT ![p] = "end"] /\ op' = op /\ draft' = draft
    BY <1>9 DEF Unlink, MoveTo, Missing, Record
  <2>2. \A q \in Procs : answer'[q] # "torn"
    BY <1>1, <1>2, <1>9 DEF Unlink, Returns, ContentsHold
  <2>3. ASSUME NEW q \in Procs, op[q] = "update", at'[q] \in {"loaded", "writing"}
        PROVE  removed' = draft[q]
    <3>1. at[q] \in {"loaded", "writing"}
      BY <1>1, <2>1, <2>3
    <3>2. Record = draft[q] \/ (Record = Absent /\ removed = draft[q])
      BY <1>2, <2>3, <3>1 DEF ContentsHold
    <3>3. draft[q] # Absent
      BY <1>1, AbsentAssumption
    <3> QED BY <1>9, <3>2, <3>3 DEF Unlink
  <2> QED BY <2>1, <2>2, <2>3 DEF ContentsHold
<1> QED BY <1>4, <1>5, <1>6, <1>7, <1>8, <1>9 DEF StorageStep

LEMMA StorageStepKeepsInv ==
  ASSUME StorageInv, [StorageNext]_storageVars
  PROVE  StorageInv'
<1>1. ASSUME NEW p \in Procs, StorageStep(p)
      PROVE  StorageInv'
  BY <1>1, StepKeepsLock, StepKeepsTypes, StepKeepsPlaces, StepKeepsContents DEF StorageInv, LockInv
<1>2. CASE UNCHANGED storageVars
  BY <1>2 DEF storageVars, lockVars, StorageInv, TypesHold, StorageTypeOK, LockTypeOK, Values,
        LockExclusive, LockNeverIdle, PlacesHold, Writes, ContentsHold, Record
<1> QED BY <1>1, <1>2 DEF StorageNext

\* The reading half of IsRecordStore: no reader of storage.ts is answered with
\* a half-written file, and util/lock.ts never leaves a free lock with waiters.
THEOREM StorageReadsAreWhole == StorageSpec => []ReadsAreWhole
<1>1. StorageInv => ReadsAreWhole
  BY DEF StorageInv, TypesHold, ContentsHold, ReadsAreWhole
<1> QED BY <1>1, StorageInvInit, StorageStepKeepsInv, PTL DEF StorageSpec

-----------------------------------------------------------------------------
(* The refinement: each step is a step of RecordStore or a stutter. *)

LEMMA StorageStepRefines ==
  ASSUME StorageInv, StorageInv', [StorageNext]_storageVars
  PROVE  [Abstract!Next]_<<op, Record, removed>>
<1> USE DEF Abstract!Next, Abstract!Put, Abstract!Change, Abstract!Remove, Abstract!Revive
<1>1. ASSUME NEW p \in Procs, Acquire(p) \/ ReadFile(p) \/ LoadFile(p)
      PROVE  UNCHANGED <<op, Record, removed>>
  BY <1>1 DEF Acquire, ReadFile, LoadFile, Record
<1>2. ASSUME NEW p \in Procs, BeginWrite(p)
      PROVE  UNCHANGED <<op, Record, removed>>
  <2>1. Holds(p) /\ at[p] \in {"locked", "loaded"}
    BY <1>2 DEF BeginWrite, Holds, StorageInv, PlacesHold
  <2>2. Record = file.value
    BY <2>1, TornIsWriters
  <2> QED BY <1>2, <2>2 DEF BeginWrite, Record
<1>3. ASSUME NEW p \in Procs, EndWrite(p)
      PROVE  [Abstract!Next]_<<op, Record, removed>>
  <2>1. removed' = removed /\ op' = op
    BY <1>3 DEF EndWrite
  <2>2. CASE file = Missing
    BY <1>3, <2>1, <2>2 DEF EndWrite, Record, Missing
  <2>3. CASE file # Missing /\ op[p] = "write"
    <3>1. Record' = {p}
      BY <1>3, <2>3 DEF EndWrite, Record, File
    <3> QED BY <2>1, <2>3, <3>1
  <2>4. CASE file # Missing /\ op[p] # "write"
    <3>1. Record' = draft[p] \cup {p}
      BY <1>3, <2>4 DEF EndWrite, Record, File
    <3>2. op[p] = "update"
      BY <1>3, <2>4, NoProcAssumption DEF EndWrite, StorageInv, PlacesHold, Writes
    <3>3. \/ Record = draft[p]
          \/ Record = Absent /\ removed = draft[p]
      BY <1>3, <3>2 DEF EndWrite, StorageInv, ContentsHold
    <3>4. draft[p] # Absent
      BY AbsentAssumption DEF StorageInv, TypesHold
    <3> QED BY <2>1, <3>1, <3>2, <3>3, <3>4
  <2> QED BY <2>2, <2>3, <2>4
<1>4. ASSUME NEW p \in Procs, Unlink(p)
      PROVE  [Abstract!Next]_<<op, Record, removed>>
  BY <1>4 DEF Unlink, Record, Missing
<1>5. ASSUME NEW p \in Procs, StorageStep(p)
      PROVE  [Abstract!Next]_<<op, Record, removed>>
  BY <1>1, <1>2, <1>3, <1>4, <1>5 DEF StorageStep
<1> QED BY <1>5 DEF StorageNext, storageVars, Record

\* Storage's locking makes one record a record store (storage.ts:160-197):
\* writes and updates take effect one at a time, none is lost to another, and
\* the only removal that does not last is one that an update overlapped.
THEOREM StorageIsARecordStore == StorageSpec => IsRecordStore
<1>1. StorageInit => Abstract!Init
  BY DEF StorageInit, Abstract!Init, Record, Missing, File
<1>2. StorageSpec => []StorageInv
  BY StorageInvInit, StorageStepKeepsInv, PTL DEF StorageSpec
<1>3. StorageSpec => Abstract!Spec
  BY <1>1, <1>2, StorageStepRefines, PTL DEF StorageSpec, Abstract!Spec
<1> QED BY <1>3, StorageReadsAreWhole DEF IsRecordStore

-----------------------------------------------------------------------------
(* The calls that edit one file under its lock (FileEdits). *)

EditSpec == EditInit /\ [][EditNext]_editVars

Holding == {"asserted", "asking", "granted", "written", "formatted"}

\* The chain is the calls that joined and have not ended, each once, and a
\* call that is past the queue is its first.
ChainHolds ==
  /\ \A i \in DOMAIN chain : job[chain[i]] \in Locked /\ step[chain[i]] \notin {"start", "end"}
  /\ \A i, j \in DOMAIN chain : chain[i] = chain[j] => i = j
  /\ \A t \in Tools : job[t] \in Locked /\ step[t] \notin {"start", "end"} =>
       \E i \in DOMAIN chain : chain[i] = t
  /\ \A t \in Tools : job[t] \in Locked /\ step[t] \in Holding => chain # <<>> /\ chain[1] = t

\* Each step is a step of the tools that take it.
StepsHold ==
  \A t \in Tools :
    /\ step[t] = "found" => job[t] = "write"
    /\ step[t] = "read" => job[t] = "read"
    /\ step[t] \in Holding => job[t] \in Locked \cup Unlocked

BasesHold ==
  (\A t \in Tools : job[t] \notin Unlocked \cup {"external"}) =>
    \A t \in Tools : job[t] = "edit" /\ step[t] \in {"asking", "granted"} => base[t] = content

EditInv ==
  EditTypeOK /\ job \in [Tools -> JobKinds] /\ ChainHolds /\ StepsHold /\ BasesHold

LEMMA EditInvInit == EditInit => EditInv
<1> SUFFICES ASSUME EditInit PROVE EditInv
  OBVIOUS
<1> USE DEF EditInit
<1>1. EditTypeOK /\ job \in [Tools -> JobKinds]
  BY JobsAssumption DEF EditTypeOK
<1>2. ChainHolds /\ StepsHold /\ BasesHold
  BY DEF ChainHolds, StepsHold, BasesHold, Holding
<1> QED BY <1>1, <1>2 DEF EditInv

\* A call's own step changes the chain in one of three ways.
LEMMA EditStepsAre ==
  ASSUME EditInv, NEW t \in Tools, EditStep(t)
  PROVE  \E next \in {"queued", "found", "asserted", "asking", "granted", "written", "formatted",
                     "read", "end"} :
           /\ step' = [step EXCEPT ![t] = next]
           /\ \/ /\ job[t] \in Locked /\ step[t] = "start" /\ next = "queued"
                 /\ chain' = Append(chain, t)
              \/ /\ job[t] \notin Locked /\ chain' = chain
                 /\ next = "found" => job[t] = "write"
                 /\ next = "read" => job[t] = "read"
                 /\ next \in Holding => job[t] \in Unlocked
                 /\ next # "queued"
              \/ /\ job[t] \in Locked /\ chain # <<>> /\ chain[1] = t
                 /\ step[t] \notin {"start", "end"}
                 /\ \/ next \in Holding /\ chain' = chain
                    \/ next = "end" /\ chain' = Tail(chain)
<1> USE DEF Locked, Unlocked, Holding, Steps, Stop, Released
<1>1. /\ job[t] \in JobKinds /\ chain \in Seq(Tools)
      /\ step[t] \in {"start", "queued", "found", "asserted", "asking", "granted", "written",
                      "formatted", "read", "end"}
  BY DEF EditInv, EditTypeOK
<1>2. /\ job[t] \in Locked /\ step[t] \notin {"start", "end"} => chain # <<>>
      /\ job[t] \in Locked /\ step[t] \in Holding => chain[1] = t
      /\ chain # <<>> => Head(chain) = chain[1]
  BY <1>1 DEF EditInv, ChainHolds
<1>3. /\ step[t] = "found" => job[t] = "write"
      /\ step[t] = "read" => job[t] = "read"
      /\ step[t] \in Holding => job[t] \in Locked \cup Unlocked
  BY DEF EditInv, StepsHold
<1>4. CASE Join(t)
  BY <1>4 DEF Join
<1>5. CASE AskToCreate(t)
  BY <1>2, <1>5 DEF AskToCreate
<1>6. CASE AssertFresh(t)
  <2>1. CASE job[t] = "edit"
    BY <1>2, <1>6, <2>1 DEF AssertFresh
  <2>2. CASE job[t] = "patch"
    BY <1>6, <2>2 DEF AssertFresh
  <2> QED BY <1>6, <2>1, <2>2 DEF AssertFresh
<1>7. CASE ReadOld(t)
  BY <1>2, <1>7 DEF ReadOld
<1>8. CASE WriteReads(t) \/ WriteAsserts(t)
  BY <1>3, <1>8 DEF WriteReads, WriteAsserts
<1>9. CASE Answered(t)
  <2>1. CASE job[t] \in Locked
    BY <1>2, <1>9, <2>1 DEF Answered
  <2>2. CASE job[t] \in Unlocked
    BY <1>9, <2>2 DEF Answered
  <2> QED BY <1>3, <1>9, <2>1, <2>2 DEF Answered
<1>10. CASE Overwrite(t) \/ Format(t)
  BY <1>2, <1>3, <1>10 DEF Overwrite, Format
<1>11. CASE Stamp(t)
  <2>1. CASE job[t] \in Locked
    BY <1>2, <1>11, <2>1 DEF Stamp
  <2>2. CASE job[t] \in Unlocked
    BY <1>11, <2>2 DEF Stamp
  <2> QED BY <1>3, <1>11, <2>1, <2>2 DEF Stamp
<1>12. CASE ReadText(t) \/ ReadStamp(t) \/ External(t)
  BY <1>3, <1>12 DEF ReadText, ReadStamp, External
<1> QED BY <1>4, <1>5, <1>6, <1>7, <1>8, <1>9, <1>10, <1>11, <1>12 DEF EditStep

LEMMA EditStepKeepsTypes ==
  ASSUME EditInv, NEW t \in Tools, EditStep(t)
  PROVE  EditTypeOK' /\ job' = job
<1>1. EditTypeOK
  BY DEF EditInv
<1>2. job' = job
  BY DEF EditStep, Join, AskToCreate, AssertFresh, ReadOld, WriteReads, WriteAsserts, Answered,
         Overwrite, Format, Stamp, ReadText, ReadStamp, External
<1>3. step' \in [Tools -> {"start", "queued", "found", "asserted", "asking", "granted", "written",
                         "formatted", "read", "end"}]
  BY <1>1, EditStepsAre DEF EditTypeOK
<1>4. chain' \in Seq(Tools)
  <2>1. chain' = chain \/ chain' = Append(chain, t) \/ (chain # <<>> /\ chain' = Tail(chain))
    BY EditStepsAre
  <2>2. chain \in Seq(Tools)
    BY <1>1 DEF EditTypeOK
  <2>3. Append(chain, t) \in Seq(Tools) /\ (chain # <<>> => Tail(chain) \in Seq(Tools))
    BY <2>2, AppendProperties, HeadTailProperties
  <2> QED BY <2>1, <2>2, <2>3
<1>5. base' \in [Tools -> SUBSET Tools] /\ content' \in SUBSET Tools /\ exists' \in BOOLEAN
  BY <1>1 DEF EditTypeOK, EditStep, Join, AskToCreate, AssertFresh, ReadOld, WriteReads, WriteAsserts,
         Answered, Overwrite, Format, Stamp, ReadText, ReadStamp, External, NewText
<1>6. SessionFor[t] \in Sessions
  BY DEF Sessions
<1>7. stamp' \in [Sessions -> {"none", "fresh", "stale"}]
  BY <1>1, <1>6 DEF EditTypeOK, EditStep, Join, AskToCreate, AssertFresh, ReadOld, WriteReads, WriteAsserts,
         Answered, Overwrite, Format, Stamp, ReadText, ReadStamp, External, Overtake, Stamped
<1> QED BY <1>2, <1>3, <1>4, <1>5, <1>7 DEF EditTypeOK

LEMMA EditStepKeepsChain ==
  ASSUME EditInv, NEW t \in Tools, EditStep(t)
  PROVE  ChainHolds' /\ StepsHold'
<1>1. /\ chain \in Seq(Tools) /\ ChainHolds /\ StepsHold /\ job' = job
      /\ step \in [Tools -> {"start", "queued", "found", "asserted", "asking", "granted", "written",
                            "formatted", "read", "end"}]
      /\ \A i \in DOMAIN chain : chain[i] \in Tools
  BY EditStepKeepsTypes DEF EditInv, EditTypeOK
<1>2. PICK next \in {"queued", "found", "asserted", "asking", "granted", "written", "formatted",
                    "read", "end"} :
           /\ step' = [step EXCEPT ![t] = next]
           /\ \/ /\ job[t] \in Locked /\ step[t] = "start" /\ next = "queued"
                 /\ chain' = Append(chain, t)
              \/ /\ job[t] \notin Locked /\ chain' = chain
                 /\ next = "found" => job[t] = "write"
                 /\ next = "read" => job[t] = "read"
                 /\ next \in Holding => job[t] \in Unlocked
                 /\ next # "queued"
              \/ /\ job[t] \in Locked /\ chain # <<>> /\ chain[1] = t
                 /\ step[t] \notin {"start", "end"}
                 /\ \/ next \in Holding /\ chain' = chain
                    \/ next = "end" /\ chain' = Tail(chain)
  BY EditStepsAre
<1>3. StepsHold'
  BY <1>1, <1>2 DEF StepsHold, Holding, Locked, Unlocked
<1>4. CASE job[t] \in Locked /\ step[t] = "start" /\ next = "queued" /\ chain' = Append(chain, t)
  <2>1. \A i \in DOMAIN chain : chain[i] # t
    BY <1>1, <1>4 DEF ChainHolds
  <2>2. /\ \A i \in DOMAIN chain' :
             \/ i \in DOMAIN chain /\ chain'[i] = chain[i]
             \/ i = Len(chain) + 1 /\ chain'[i] = t
        /\ \A i \in DOMAIN chain : i \in DOMAIN chain' /\ chain'[i] = chain[i]
        /\ Len(chain) + 1 \in DOMAIN chain' /\ chain'[Len(chain) + 1] = t
        /\ chain' # <<>> /\ (chain # <<>> => chain'[1] = chain[1])
    <3>1. /\ Len(chain') = Len(chain) + 1 /\ chain' \in Seq(Tools)
          /\ \A i \in 1..Len(chain) : chain'[i] = chain[i]
          /\ chain'[Len(chain) + 1] = t /\ chain' # <<>>
      BY <1>1, <1>4, AppendProperties
    <3>2. DOMAIN chain' = 1..Len(chain') /\ DOMAIN chain = 1..Len(chain) /\ Len(chain) \in Nat
      BY <1>1, <3>1
    <3>3. ASSUME NEW i \in DOMAIN chain'
          PROVE  \/ i \in DOMAIN chain /\ chain'[i] = chain[i]
                 \/ i = Len(chain) + 1 /\ chain'[i] = t
      BY <3>1, <3>2, <3>3
    <3>4. \A i \in DOMAIN chain : i \in DOMAIN chain'
      BY <3>1, <3>2
    <3>5. Len(chain) + 1 \in DOMAIN chain'
      BY <3>1, <3>2
    <3>6. chain # <<>> => 1 \in 1..Len(chain)
      BY <1>1
    <3>7. \A i \in DOMAIN chain : chain'[i] = chain[i]
      BY <3>1, <3>2
    <3>8. chain # <<>> => chain'[1] = chain[1]
      BY <3>1, <3>6
    <3> QED BY <3>1, <3>3, <3>4, <3>5, <3>7, <3>8, Zenon
  <2>3. \A u \in Tools : u # t => step'[u] = step[u]
    BY <1>1, <1>2
  <2>4. step'[t] = "queued"
    BY <1>1, <1>2, <1>4
  <2>5. \A i \in DOMAIN chain' : job[chain'[i]] \in Locked /\ step'[chain'[i]] \notin {"start", "end"}
    BY <1>1, <1>4, <2>1, <2>2, <2>3, <2>4 DEF ChainHolds
  <2>6. \A i, j \in DOMAIN chain' : chain'[i] = chain'[j] => i = j
    BY <1>1, <2>1, <2>2 DEF ChainHolds
  <2>7. \A u \in Tools : job[u] \in Locked /\ step'[u] \notin {"start", "end"} =>
          \E i \in DOMAIN chain' : chain'[i] = u
    BY <1>1, <2>2, <2>3 DEF ChainHolds
  <2>8. \A u \in Tools : job[u] \in Locked /\ step'[u] \in Holding => chain' # <<>> /\ chain'[1] = u
    BY <1>1, <2>2, <2>3, <2>4 DEF ChainHolds, Holding
  <2> QED BY <1>1, <1>3, <2>5, <2>6, <2>7, <2>8 DEF ChainHolds
<1>5. CASE job[t] \notin Locked /\ chain' = chain
  <2>1. \A u \in Tools : u # t => step'[u] = step[u]
    BY <1>1, <1>2
  <2> QED BY <1>1, <1>3, <1>5, <2>1 DEF ChainHolds
<1>6. CASE job[t] \in Locked /\ chain # <<>> /\ chain[1] = t /\ next \in Holding /\ chain' = chain
           /\ step[t] \notin {"start", "end"}
  BY <1>1, <1>2, <1>3, <1>6 DEF ChainHolds, Holding
<1>7. CASE job[t] \in Locked /\ chain # <<>> /\ chain[1] = t /\ next = "end" /\ chain' = Tail(chain)
  <2>1. /\ \A i \in DOMAIN chain' : i + 1 \in DOMAIN chain /\ chain'[i] = chain[i + 1] /\ i + 1 # 1
        /\ 1 \in DOMAIN chain
        /\ \A i \in DOMAIN chain : i # 1 => i - 1 \in DOMAIN chain' /\ chain'[i - 1] = chain[i]
        /\ \A i, j \in DOMAIN chain' : i + 1 = j + 1 => i = j
    BY <1>1, <1>7
  <2>2. \A i \in DOMAIN chain' : chain'[i] \in Tools /\ chain'[i] # t
    BY <1>1, <1>7, <2>1 DEF ChainHolds
  <2>3. \A u \in Tools : u # t => step'[u] = step[u]
    BY <1>1, <1>2
  <2>4. step'[t] = "end"
    BY <1>1, <1>2, <1>7
  <2>5. \A i \in DOMAIN chain' : job[chain'[i]] \in Locked /\ step'[chain'[i]] \notin {"start", "end"}
    BY <1>1, <2>1, <2>2, <2>3 DEF ChainHolds
  <2>6. \A i, j \in DOMAIN chain' : chain'[i] = chain'[j] => i = j
    BY <1>1, <2>1 DEF ChainHolds
  <2>7. \A u \in Tools : job[u] \in Locked /\ step'[u] \notin {"start", "end"} =>
          \E i \in DOMAIN chain' : chain'[i] = u
    <3> SUFFICES ASSUME NEW u \in Tools, job[u] \in Locked, step'[u] \notin {"start", "end"}
                 PROVE  \E i \in DOMAIN chain' : chain'[i] = u
      OBVIOUS
    <3>1. u # t /\ step[u] \notin {"start", "end"}
      BY <2>3, <2>4
    <3>2. PICK i \in DOMAIN chain : chain[i] = u
      BY <1>1, <3>1 DEF ChainHolds
    <3>3. i # 1
      BY <1>7, <3>1, <3>2
    <3> QED BY <2>1, <3>2, <3>3
  <2>8. \A u \in Tools : ~(job[u] \in Locked /\ step'[u] \in Holding)
    BY <1>1, <1>7, <2>3, <2>4 DEF ChainHolds, Holding
  <2> QED BY <1>1, <1>3, <2>5, <2>6, <2>7, <2>8 DEF ChainHolds
<1> QED BY <1>2, <1>3, <1>4, <1>5, <1>6, <1>7

LEMMA EditStepKeepsBases ==
  ASSUME EditInv, NEW t \in Tools, EditStep(t)
  PROVE  BasesHold'
<1> SUFFICES ASSUME \A u \in Tools : job[u] \notin Unlocked \cup {"external"},
                    NEW u \in Tools, job[u] = "edit", step'[u] \in {"asking", "granted"}
             PROVE  base'[u] = content'
  BY EditStepKeepsTypes DEF BasesHold
<1>1. /\ base \in [Tools -> SUBSET Tools]
      /\ step \in [Tools -> {"start", "queued", "found", "asserted", "asking", "granted", "written",
                            "formatted", "read", "end"}]
      /\ BasesHold /\ ChainHolds /\ StepsHold
  BY DEF EditInv, EditTypeOK
<1>2. CASE ReadOld(t)
  BY <1>1, <1>2 DEF ReadOld, Steps, BasesHold
<1>3. CASE Overwrite(t)
  <2>1. u # t /\ step[u] \in {"asking", "granted"}
    BY <1>1, <1>3 DEF Overwrite, Steps
  <2>2. job[t] \in Locked /\ step[t] \in Holding /\ job[u] \in Locked /\ step[u] \in Holding
    BY <1>1, <1>3, <2>1 DEF Overwrite, StepsHold, Holding, Locked, Unlocked
  <2> QED BY <1>1, <2>1, <2>2 DEF ChainHolds
<1>4. CASE WriteReads(t) \/ External(t)
  BY <1>4 DEF WriteReads, External, Unlocked
<1>5. CASE UNCHANGED <<content, base>> /\ (step[u] \in {"asking", "granted"})
  BY <1>1, <1>5 DEF BasesHold
<1>6. CASE UNCHANGED <<content, base>> /\ step[u] \notin {"asking", "granted"}
  <2>1. t = u /\ job[t] = "edit" /\ step'[t] = step'[u]
    BY <1>1, <1>6, EditStepsAre
  <2>2. step[t] # "found"
    BY <1>1, <2>1 DEF StepsHold
  <2> QED BY <1>1, <1>2, <1>3, <1>6, <2>1, <2>2
      DEF EditStep, Join, AskToCreate, AssertFresh, WriteReads, WriteAsserts,
          Answered, Format, Stamp, ReadText, ReadStamp, External, Steps, Stop
<1> QED BY <1>2, <1>3, <1>4, <1>5, <1>6 DEF EditStep, Join, AskToCreate, AssertFresh, WriteAsserts,
         Answered, Format, Stamp, ReadText, ReadStamp

\* Edits of one file keep each other's changes (tool/edit.ts inside withLock,
\* file/time.ts:34-52): unless a tool outside of the lock or another program
\* writes the file too, the text that an edit replaces is the one it was
\* computed from, and a call that ended waits for and holds nothing.
THEOREM EditsKeepEachOther == EditSpec => []EditsKeepEdits
<1>1. ASSUME EditInv, [EditNext]_editVars
      PROVE  EditInv'
  <2>1. ASSUME NEW t \in Tools, EditStep(t)
        PROVE  EditInv'
    BY <1>1, <2>1, EditStepKeepsTypes, EditStepKeepsChain, EditStepKeepsBases DEF EditInv
  <2>2. CASE UNCHANGED editVars
    BY <1>1, <2>2 DEF editVars, EditInv, EditTypeOK, ChainHolds, StepsHold, BasesHold
  <2> QED BY <1>1, <2>1, <2>2 DEF EditNext
<1>2. EditInv => EditsKeepEdits
  BY DEF EditInv, EditTypeOK, ChainHolds, BasesHold, EditsKeepEdits, ToSet
<1> QED BY <1>1, <1>2, EditInvInit, PTL DEF EditSpec

-----------------------------------------------------------------------------
(* The reader of a stream and the permissions of its tools. *)

readerVars == <<permissionVars, processorVars>>
ReaderSpec == ProcessorInit /\ [][ProcessorNext]_readerVars

\* What a tool came to is what its permission came to, and a refusal that was
\* reported has blocked the loop if refusals are to end it.
Outcomes(c) ==
  /\ tool[c] = "ok" => verdict[c] = "allowed"
  /\ tool[c] = "failed" => verdict[c] \in {"allowed", "denied"}
  /\ tool[c] = "refused" => verdict[c] = "rejected"
  /\ tool[c] = "reported" =>
       /\ verdict[c] # "none"
       /\ verdict[c] = "rejected" /\ ShouldBreak => blocked

ReaderInv ==
  /\ ProcessorTypeOK /\ PendingIsUnanswered
  /\ blocked => ShouldBreak
  /\ \A c \in Calls : Outcomes(c)

(* More approved rules cover whatever fewer covered, so what an "always"     *)
(* covers stays covered (next.ts:182-213).                                   *)
LEMMA ApprovalsAdd ==
  ASSUME NEW R, NEW S, R \subseteq S, NEW q, Covered(q, R)
  PROVE  Covered(q, S)
BY DEF Covered, ApprovedBy

(* A request the approved rules cover is allowed without asking              *)
(* (next.ts:122-145, evaluate at 219).                                       *)
LEMMA CoveredIsAllowed ==
  ASSUME NEW r, Covered(r, approved)
  PROVE  Decide(r) = "allow"
<1>1. \A i \in DOMAIN PatternsOf[r] : ActionAt(r, i) = "allow"
  BY DEF Covered, ActionAt, Evaluate
<1> QED BY <1>1 DEF Decide, Undecided

\* A settled request stays settled the way it was.
VerdictsLast ==
  \A q \in Requests : verdict[q] # "none" => verdict'[q] = verdict[q]

(* Asking leaves nothing waiting that was answered, and settles at most the  *)
(* request itself (next.ts:116-146).                                         *)
LEMMA AskKeeps ==
  ASSUME PermissionTypeOK, PendingIsUnanswered, NEW r \in Requests, Ask(r)
  PROVE  PermissionTypeOK' /\ PendingIsUnanswered' /\ VerdictsLast
<1>1. UNCHANGED <<approved, swept>>
  BY DEF Ask
<1>2. CASE Decide(r) = "ask" /\ pending' = pending \cup {r} /\ UNCHANGED verdict
  <2>1. ~Covered(r, swept[r])
    BY <1>2, ApprovalsAdd, CoveredIsAllowed DEF PermissionTypeOK
  <2>2. PendingIsUnanswered'
    BY <1>1, <1>2, <2>1 DEF PendingIsUnanswered, Ask, Covered
  <2> QED BY <1>1, <1>2, <2>2 DEF PermissionTypeOK, VerdictsLast
<1>3. ASSUME NEW v \in {"denied", "allowed"}, verdict' = Settled({r}, v), UNCHANGED pending
      PROVE  PermissionTypeOK' /\ PendingIsUnanswered' /\ VerdictsLast
  <2>1. \A q \in Requests : verdict'[q] = IF q = r THEN v ELSE verdict[q]
    BY <1>3 DEF Settled
  <2>2. verdict' \in [Requests -> {"none", "allowed", "denied", "rejected"}]
    BY <1>3 DEF Settled, PermissionTypeOK
  <2>3. PendingIsUnanswered' /\ VerdictsLast
    BY <1>1, <1>3, <2>1 DEF PendingIsUnanswered, PermissionTypeOK, Ask, VerdictsLast, Covered
  <2> QED BY <1>1, <1>3, <2>2, <2>3 DEF PermissionTypeOK
<1> QED BY <1>2, <1>3 DEF Ask

(* Nor does an answer, which settles requests that were waiting only         *)
(* (next.ts:148-217).                                                        *)
LEMMA ReplyKeeps ==
  ASSUME PermissionTypeOK, PendingIsUnanswered, NEW r \in Requests, Reply(r)
  PROVE  PermissionTypeOK' /\ PendingIsUnanswered' /\ VerdictsLast
<1>1. ASSUME NEW S \in SUBSET pending, NEW v \in {"allowed", "rejected"},
             verdict' = Settled(S, v), pending' = pending \ S
      PROVE  /\ pending' \in SUBSET Requests /\ VerdictsLast
             /\ verdict' \in [Requests -> {"none", "allowed", "denied", "rejected"}]
             /\ \A q \in pending' : q \in pending /\ q \notin S /\ verdict'[q] = "none"
  BY <1>1 DEF Settled, PermissionTypeOK, PendingIsUnanswered, VerdictsLast
<1>2. CASE ReplyOnce(r)
  <2>1. {r} \in SUBSET pending /\ verdict' = Settled({r}, "allowed") /\ pending' = pending \ {r}
        /\ UNCHANGED <<approved, swept>>
    BY <1>2 DEF ReplyOnce
  <2> QED BY <1>1, <2>1 DEF PermissionTypeOK, PendingIsUnanswered, Covered
<1>3. CASE ReplyReject(r)
  <2> DEFINE S == {r} \cup Peers(r)
  <2>1. S \in SUBSET pending /\ verdict' = Settled(S, "rejected") /\ pending' = pending \ S
        /\ UNCHANGED <<approved, swept>>
    BY <1>3 DEF ReplyReject, Peers
  <2> QED BY <1>1, <2>1 DEF PermissionTypeOK, PendingIsUnanswered, Covered
<1>4. CASE ReplyAlways(r)
  <2> DEFINE rules == approved \cup {<<NeedOf[r], pattern>> : pattern \in AlwaysOf[r]}
             freed == {q \in Peers(r) : Covered(q, rules)}
             S == {r} \cup freed
  <2>1. S \in SUBSET pending /\ verdict' = Settled(S, "allowed") /\ pending' = pending \ S
        /\ approved' = rules
        /\ swept' = [q \in Requests |-> IF SessionOf[q] = SessionOf[r] THEN rules ELSE swept[q]]
    BY <1>4 DEF ReplyAlways, Peers
  <2>2. \A rule \in rules : Len(rule) = 2
    BY DEF PermissionTypeOK
  <2>3. \A q \in pending \ S : SessionOf[q] = SessionOf[r] => ~Covered(q, rules)
    BY DEF Peers
  <2>4. approved \subseteq rules
    OBVIOUS
  <2> HIDE DEF rules, freed
  <2>5. \A q \in pending \ S : ~Covered(q, swept'[q])
    BY <2>1, <2>3 DEF PendingIsUnanswered, PermissionTypeOK
  <2>6. PendingIsUnanswered'
    BY <1>1, <2>1, <2>5 DEF PendingIsUnanswered, Covered
  <2>7. \A q \in Requests : swept'[q] \subseteq approved'
    BY <2>1, <2>4 DEF PermissionTypeOK
  <2> QED BY <1>1, <2>1, <2>2, <2>6, <2>7 DEF PermissionTypeOK
<1> QED BY <1>2, <1>3, <1>4 DEF Reply

(* The invariant holds when the processor is created (processor.ts:25-45).   *)
LEMMA ReaderStarts == ProcessorInit => ReaderInv
BY ProcessorAssumption DEF ProcessorInit, PermissionInit, ReaderInv, ProcessorTypeOK,
   PermissionTypeOK, PendingIsUnanswered, Outcomes

(* A tool that is not touched keeps its outcome while verdicts last          *)
(* (processor.ts:178-242).                                                   *)
LEMMA OutcomesLast ==
  ASSUME ReaderInv, NEW c \in Calls, VerdictsLast, tool'[c] = tool[c],
         blocked => blocked'
  PROVE  Outcomes(c)'
BY ProcessorAssumption DEF ReaderInv, Outcomes, VerdictsLast

(* Every event of the stream, every tool and every answer keeps the          *)
(* invariant (processor.ts:46-404, next.ts:116-217).                         *)
LEMMA ReaderKeeps == ReaderInv /\ [ProcessorNext]_readerVars => ReaderInv'
<1> SUFFICES ASSUME ReaderInv, [ProcessorNext]_readerVars PROVE ReaderInv'
  OBVIOUS
<1> USE ProcessorAssumption
<1>1. PermissionTypeOK /\ PendingIsUnanswered /\ \A c \in Calls : Outcomes(c)
  BY DEF ReaderInv, ProcessorTypeOK
<1>2. ASSUME UNCHANGED permissionVars
      PROVE  PermissionTypeOK' /\ PendingIsUnanswered' /\ VerdictsLast
  BY <1>1, <1>2 DEF permissionVars, PermissionTypeOK, PendingIsUnanswered, VerdictsLast, Covered
<1>3. ASSUME PermissionTypeOK', PendingIsUnanswered', VerdictsLast,
             UNCHANGED processorVars
      PROVE  ReaderInv'
  <2>1. \A c \in Calls : Outcomes(c)'
    BY <1>3, OutcomesLast DEF processorVars
  <2> QED BY <1>3, <2>1 DEF ReaderInv, ProcessorTypeOK, processorVars, PermissionTypeOK
<1>4. ASSUME PermissionTypeOK', PendingIsUnanswered', VerdictsLast, UNCHANGED tool,
             UNCHANGED blocked,
             /\ part' \in [Calls -> {"none", "pending", "running", "completed", "error"}]
             /\ toolcalls' \in [Calls -> {"none", "pending", "running"}]
             /\ reader' \in {"start", "reading", "asking", "sleeping", "closing", "returned"}
             /\ attempt' \in 0..MaxAttempts
             /\ result' \in {"none", "compact", "stop", "continue"}
      PROVE  ReaderInv'
  <2>1. \A c \in Calls : Outcomes(c)'
    BY <1>4, OutcomesLast
  <2> QED BY <1>4, <2>1 DEF ReaderInv, ProcessorTypeOK, PermissionTypeOK
<1>5. CASE UNCHANGED readerVars
  BY <1>2, <1>3, <1>5 DEF readerVars
<1>6. CASE StartStep \/ DoomAnswered \/ FinishStep \/ Retry \/ Abort
  BY <1>2, <1>4, <1>6 DEF StartStep, DoomAnswered, FinishStep, Retry, Abort, ReaderInv,
     ProcessorTypeOK
<1>7. CASE StreamError
  BY <1>2, <1>4, <1>7 DEF StreamError, ReaderInv, ProcessorTypeOK
<1>8. CASE Close
  BY <1>2, <1>4, <1>8 DEF Close, ReaderInv, ProcessorTypeOK
<1>9. ASSUME NEW c \in Calls, ToolInputStart(c) \/ ToolProgress(c)
      PROVE  ReaderInv'
  BY <1>2, <1>4, <1>9 DEF ToolInputStart, ToolProgress, ReaderInv, ProcessorTypeOK
<1>10. ASSUME NEW c \in Calls, PermissionTypeOK', PendingIsUnanswered', VerdictsLast,
              NEW how \in {"started", "asking", "ok", "failed", "refused", "reported"},
              tool' = [tool EXCEPT ![c] = how],
              blocked => blocked', blocked' => ShouldBreak,
              Outcomes(c)',
             /\ part' \in [Calls -> {"none", "pending", "running", "completed", "error"}]
             /\ toolcalls' \in [Calls -> {"none", "pending", "running"}]
             /\ reader' \in {"start", "reading", "asking", "sleeping", "closing", "returned"}
             /\ UNCHANGED <<attempt, result>>
       PROVE  ReaderInv'
  <2>1. \A d \in Calls \ {c} : tool'[d] = tool[d]
    BY <1>10 DEF ReaderInv, ProcessorTypeOK
  <2>2. \A d \in Calls : Outcomes(d)'
    BY <1>10, <2>1, OutcomesLast
  <2>3. tool' \in [Calls -> {"none", "started", "asking", "ok", "failed", "refused", "reported"}]
    BY <1>10 DEF ReaderInv, ProcessorTypeOK
  <2> QED BY <1>10, <2>2, <2>3 DEF ReaderInv, ProcessorTypeOK, PermissionTypeOK
<1>11. ASSUME NEW c \in Calls, ToolCall(c)
       PROVE  ReaderInv'
  <2>1. PermissionTypeOK' /\ PendingIsUnanswered' /\ VerdictsLast
    BY <1>1, <1>2, <1>11, AskKeeps DEF ToolCall
  <2>2. Outcomes(c)'
    BY <1>11 DEF ToolCall, Outcomes, ReaderInv, ProcessorTypeOK
  <2> QED BY <1>10, <1>11, <2>1, <2>2 DEF ToolCall, ReaderInv, ProcessorTypeOK
<1>12. ASSUME NEW c \in Calls, ToolResult(c) \/ ToolError(c)
       PROVE  ReaderInv'
  <2>1. UNCHANGED permissionVars /\ UNCHANGED <<attempt, result>>
    BY <1>12 DEF ToolResult, ToolError
  <2>2. tool' = [tool EXCEPT ![c] = "reported"]
    BY <1>12 DEF ToolResult, ToolError, Forget
  <2>3. (blocked => blocked') /\ (blocked' => ShouldBreak)
    BY <1>12 DEF ToolResult, ToolError, ReaderInv
  <2>4. Outcomes(c)'
    BY <1>1, <1>12, <2>1, <2>2 DEF ToolResult, ToolError, Outcomes, permissionVars, ReaderInv,
       ProcessorTypeOK
  <2>5. PICK status \in {"completed", "error"} :
             /\ part' = [part EXCEPT ![c] = status]
             /\ toolcalls' = [toolcalls EXCEPT ![c] = "none"]
             /\ UNCHANGED reader
    BY <1>12 DEF ToolResult, ToolError, Forget
  <2> QED BY <1>2, <1>10, <2>1, <2>2, <2>3, <2>4, <2>5 DEF ReaderInv, ProcessorTypeOK
<1>13. ASSUME NEW c \in Calls, ToolAsks(c)
       PROVE  ReaderInv'
  <2>1. PermissionTypeOK' /\ PendingIsUnanswered' /\ VerdictsLast
    BY <1>1, <1>13, AskKeeps DEF ToolAsks
  <2>2. Outcomes(c)'
    BY <1>13 DEF ToolAsks, Outcomes, ReaderInv, ProcessorTypeOK
  <2> QED BY <1>10, <1>13, <2>1, <2>2 DEF ToolAsks, ReaderInv, ProcessorTypeOK
<1>14. ASSUME NEW c \in Calls, ToolEnds(c)
       PROVE  ReaderInv'
  <2>1. PICK how \in Ended(verdict[c]) : tool' = [tool EXCEPT ![c] = how]
    BY <1>14 DEF ToolEnds
  <2>2. /\ how \in {"ok", "failed", "refused"}
        /\ how = "ok" => verdict[c] = "allowed"
        /\ how = "failed" => verdict[c] \in {"allowed", "denied"}
        /\ how = "refused" => verdict[c] = "rejected"
    BY <2>1 DEF Ended, ReaderInv
  <2>3. verdict' = verdict
    BY <1>14 DEF ToolEnds, permissionVars
  <2>4. Outcomes(c)'
    BY <2>1, <2>2, <2>3 DEF Outcomes, ReaderInv, ProcessorTypeOK
  <2> QED BY <1>2, <1>10, <1>14, <2>1, <2>2, <2>4 DEF ToolEnds, ReaderInv, ProcessorTypeOK
<1>15. CASE ClientReplies
  BY <1>1, <1>3, <1>15, ReplyKeeps DEF ClientReplies
<1> QED
  BY <1>5, <1>6, <1>7, <1>8, <1>9, <1>11, <1>12, <1>13, <1>14, <1>15
  DEF ProcessorNext, ReaderStep

(* Only the closing of the message returns, with what it was told            *)
(* (processor.ts:373-396).                                                   *)
LEMMA ReturnsAreClean ==
  ASSUME ReaderInv, [ProcessorNext]_readerVars, result' # result
  PROVE  /\ \A c \in Calls : part'[c] \notin Open
         /\ result' = "continue" =>
              /\ ~error
              /\ ShouldBreak =>
                   \A c \in Calls : tool[c] = "reported" => verdict[c] # "rejected"
<1>1. Close
  BY DEF ProcessorNext, ReaderStep, StartStep, DoomAnswered, FinishStep, StreamError, Retry,
     Abort, ClientReplies, ToolInputStart, ToolCall, ToolResult, ToolError, ToolAsks, ToolEnds,
     ToolProgress, readerVars, processorVars
<1> QED BY <1>1 DEF Close, Open, ReaderInv, ProcessorTypeOK, Outcomes

(* Whatever the stream, the tools and the clients do, in any number and      *)
(* order: no request waits for an answer that was given, the reader returns  *)
(* with no part left open, and it tells the loop to go on only when nothing  *)
(* failed and no refusal that ends the turn was reported                     *)
(* (processor.ts:335-396, next.ts:153-216).                                  *)
THEOREM ReaderIsSafe ==
  ReaderSpec => [](ProcessorTypeOK /\ PendingIsUnanswered) /\ ReturnedClean
<1>1. ReaderSpec => []ReaderInv
  BY ReaderStarts, ReaderKeeps, PTL DEF ReaderSpec, readerVars
<1>2. ReaderInv => ProcessorTypeOK /\ PendingIsUnanswered
  BY DEF ReaderInv
<1>3. ReaderInv /\ [ProcessorNext]_readerVars =>
        [result' # result =>
           /\ \A c \in Calls : part'[c] \notin Open
           /\ result' = "continue" =>
                /\ ~error
                /\ ShouldBreak =>
                     \A c \in Calls : tool[c] = "reported" => verdict[c] # "rejected"]_processorVars
  BY ReturnsAreClean
<1> QED BY <1>1, <1>2, <1>3, PTL DEF ReaderSpec, ReturnedClean, readerVars

-----------------------------------------------------------------------------
(* The desktop client: the timeline of electron/renderer/store.ts and the    *)
(* lines of harness/turn-runner.ts that build it.                            *)

DesktopSpec == DesktopInit /\ [][DesktopNext]_desktopVars

-----------------------------------------------------------------------------
(* The timeline of the desktop client *)

EventTypes ==
  {"turn.started", "turn.completed", "item.started", "item.delta", "item.completed", "approval.requested"}
Events == [type : EventTypes, item : Nat \X (AllParts \cup {"user", "turn"}), n : Nat]
TurnReplies == [type : {"response"}, item : Nat \X {"turn"}, n : {0}]
ThreadReplies == [type : {"response"}, item : {<<0, "thread">>}, n : Seq(Events)]
WireLines == Events \cup TurnReplies \cup ThreadReplies
Entries == [item : Nat \X (AllParts \cup {"user", "turn", "sent", "pending"}), done : BOOLEAN, deltas : Seq(Nat)]

Once(line) ==
  \A i, j \in DOMAIN line :
    ShownAs(line[i].item) = ShownAs(line[j].item) /\ line[i].item[2] # "pending" => i = j

\* No item is of a turn after the n-th.
UpTo(seq, n) == \A i \in DOMAIN seq : seq[i].item[1] <= n
LinesUpTo(w, n) == UpTo(w, n) /\ \A i \in DOMAIN w : w[i] \in ThreadReplies => UpTo(w[i].n, n)

\* What a line has to say of an item: that it started.
Starts(note, item) == note.type = "item.started" /\ note.item = item
Tells(line, item) ==
  \/ line \in Events /\ Starts(line, item)
  \/ line \in ThreadReplies /\ \E k \in DOMAIN line.n : Starts(line.n[k], item)

\* Until the answer to turn.start is read, the turn's message is not shown,
\* and nothing that comes before the answer shows it.
ReplyFits(w, line, i) ==
  LET n == w[i].item[1] IN
  /\ \A j \in DOMAIN line : line[j].item # <<n, "sent">> /\ line[j].item # <<n, "user">>
  /\ \A j \in DOMAIN w : j < i => ~Tells(w[j], <<n, "user">>)
  /\ \A j \in DOMAIN w : w[j] \in TurnReplies /\ w[j].item[1] = n => j = i
RepliesFirst(w, line) == \A i \in DOMAIN w : w[i] \in TurnReplies => ReplyFits(w, line, i)

WireFits(w, line, n) == w \in Seq(WireLines) /\ LinesUpTo(w, n) /\ RepliesFirst(w, line)

LineFits(line, n) == line \in Seq(Entries) /\ Once(line) /\ UpTo(line, n)

DeskData ==
  /\ turnNo \in Nat /\ seen \in [AllParts -> Nat]
  /\ log \in Seq(Events) /\ UpTo(log, turnNo)
  /\ \A a \in appends : a.event \in Events /\ a.event.item[1] <= turnNo
  /\ LineFits(timeline, turnNo)
  /\ WireFits(wire, timeline, turnNo)

DeskInv == DesktopTypeOK /\ DeskData

-----------------------------------------------------------------------------
(* One step of the timeline *)

\* What reduceEvent makes of a timeline: entries, each once, and of no item
\* but those that were there and the one the event starts.
Grows(line, note, next) ==
  /\ next \in Seq(Entries) /\ Once(next)
  /\ \A i \in DOMAIN next :
       (\E j \in DOMAIN line : next[i].item = line[j].item) \/ Starts(note, next[i].item)

LEMMA ShownIsEntry ==
  ASSUME NEW item \in Nat \X (AllParts \cup {"user", "turn", "sent", "pending"})
  PROVE  Shown(item) \in Entries /\ Shown(item).item = item
BY DEF Shown, Entries

LEMMA StartItemGrows ==
  ASSUME NEW line \in Seq(Entries), Once(line), NEW note \in Events, note.type = "item.started"
  PROVE  Grows(line, note, StartItem(line, note.item))
<1> DEFINE item == note.item
<1>0. /\ item \in Nat \X (AllParts \cup {"user", "turn"})
      /\ item[2] # "sent" /\ item[2] # "pending"
  BY PartsAssumption DEF Events, AllParts
<1>s. Shown(item) \in Entries /\ Shown(item).item = item
  BY <1>0, ShownIsEntry
<1>e. \A i \in DOMAIN line : line[i] \in Entries
  OBVIOUS
<1>1. CASE Positions(line, item) # {}
  BY <1>1 DEF StartItem, Grows
<1>2. CASE Positions(line, item) = {} /\ item[2] = "user" /\ Positions(line, <<item[1], "sent">>) # {}
  <2> DEFINE next == [i \in DOMAIN line |-> IF line[i].item = <<item[1], "sent">> THEN Shown(item) ELSE line[i]]
  <2>1. StartItem(line, item) = next
    BY <1>2 DEF StartItem
  <2>2. next \in Seq(Entries) /\ DOMAIN next = DOMAIN line
    BY <1>s, <1>e
  <2>3. \A i \in DOMAIN line : /\ ShownAs(next[i].item) = ShownAs(line[i].item)
                               /\ next[i].item[2] = "pending" <=> line[i].item[2] = "pending"
    <3> TAKE i \in DOMAIN line
    <3>1. CASE line[i].item = <<item[1], "sent">>
      BY <3>1, <1>0, <1>2, <1>s DEF ShownAs
    <3>2. CASE line[i].item # <<item[1], "sent">>
      BY <3>2
    <3> QED BY <3>1, <3>2
  <2>4. Once(next)
    BY <2>2, <2>3 DEF Once
  <2>5. \A i \in DOMAIN line : next[i].item = line[i].item \/ next[i].item = item
    BY <1>s
  <2> HIDE DEF next
  <2> QED BY <2>1, <2>2, <2>4, <2>5 DEF Grows, Starts
<1>3. CASE Positions(line, item) = {} /\ ~(item[2] = "user" /\ Positions(line, <<item[1], "sent">>) # {})
  <2> DEFINE next == Append(line, Shown(item))
  <2>1. StartItem(line, item) = next
    BY <1>3 DEF StartItem
  <2>2. /\ next \in Seq(Entries) /\ DOMAIN next = 1..(Len(line) + 1)
        /\ \A i \in DOMAIN line : next[i] = line[i]
        /\ next[Len(line) + 1] = Shown(item)
    BY <1>s
  <2>3. DOMAIN line = 1..Len(line) /\ Len(line) \in Nat
    OBVIOUS
  <2> HIDE DEF next
  <2>4. ShownAs(item) = item
    BY <1>0 DEF ShownAs
  <2>5. \A i \in DOMAIN line : ShownAs(line[i].item) # item
    <3> TAKE i \in DOMAIN line
    <3>1. line[i].item # item
      BY <1>3 DEF Positions
    <3>2. CASE line[i].item[2] # "sent"
      BY <3>1, <3>2 DEF ShownAs
    <3>3. CASE line[i].item[2] = "sent" /\ ShownAs(line[i].item) = item
      <4>1. line[i].item = <<line[i].item[1], "sent">>
        BY <1>e, <3>3 DEF Entries
      <4>2. item = <<line[i].item[1], "user">>
        BY <3>3 DEF ShownAs
      <4>3. item[2] = "user" /\ line[i].item = <<item[1], "sent">>
        BY <4>1, <4>2
      <4> QED BY <1>3, <4>3 DEF Positions
    <3> QED BY <3>2, <3>3
  <2>6. Once(next)
    <3> SUFFICES ASSUME NEW i \in DOMAIN next, NEW j \in DOMAIN next,
                        ShownAs(next[i].item) = ShownAs(next[j].item), next[i].item[2] # "pending"
                 PROVE  i = j
      BY DEF Once
    <3>1. CASE i \in DOMAIN line /\ j \in DOMAIN line
      BY <3>1, <2>2 DEF Once
    <3>2. CASE i \notin DOMAIN line /\ j \in DOMAIN line
      BY <3>2, <2>2, <2>3, <2>4, <2>5, <1>s
    <3>3. CASE i \in DOMAIN line /\ j \notin DOMAIN line
      BY <3>3, <2>2, <2>3, <2>4, <2>5, <1>s
    <3>4. CASE i \notin DOMAIN line /\ j \notin DOMAIN line
      BY <3>4, <2>2, <2>3
    <3> QED BY <3>1, <3>2, <3>3, <3>4
  <2>7. \A i \in DOMAIN next : (\E j \in DOMAIN line : next[i].item = line[j].item) \/ next[i].item = item
    BY <2>2, <2>3, <1>s
  <2> QED BY <2>1, <2>2, <2>6, <2>7 DEF Grows, Starts
<1> QED BY <1>1, <1>2, <1>3

\* A change of entries that leaves the items alone.
LEMMA SameItems ==
  ASSUME NEW line \in Seq(Entries), Once(line), NEW note, NEW next \in [DOMAIN line -> Entries],
         \A i \in DOMAIN line : next[i].item = line[i].item
  PROVE  Grows(line, note, next)
<1>1. next \in Seq(Entries) /\ DOMAIN next = DOMAIN line
  OBVIOUS
<1>2. Once(next)
  BY <1>1 DEF Once
<1> QED BY <1>1, <1>2 DEF Grows

LEMMA ReduceGrows ==
  ASSUME NEW line \in Seq(Entries), Once(line), NEW note \in Events
  PROVE  Grows(line, note, ReduceTimeline(line, note))
<1>e. \A i \in DOMAIN line : line[i] \in Entries
  OBVIOUS
<1>1. CASE note.type = "item.started"
  BY <1>1, StartItemGrows DEF ReduceTimeline
<1>2. CASE note.type = "item.delta"
  <2> DEFINE next == [i \in DOMAIN line |-> IF line[i].item = note.item
                        THEN [line[i] EXCEPT !.deltas = Append(@, note.n)] ELSE line[i]]
  <2>1. ReduceTimeline(line, note) = next
    BY <1>2 DEF ReduceTimeline
  <2>2. \A i \in DOMAIN line : next[i] \in Entries /\ next[i].item = line[i].item
    <3> TAKE i \in DOMAIN line
    <3>1. line[i] \in Entries /\ note.n \in Nat
      BY <1>e DEF Events
    <3>2. Append(line[i].deltas, note.n) \in Seq(Nat)
      BY <3>1 DEF Entries
    <3> QED BY <3>1, <3>2 DEF Entries
  <2>3. next \in [DOMAIN line -> Entries]
    BY <2>2
  <2> HIDE DEF next
  <2> QED BY <2>1, <2>2, <2>3, SameItems
<1>3. CASE note.type = "item.completed"
  <2> DEFINE next == [i \in DOMAIN line |-> IF line[i].item = note.item
                        THEN [line[i] EXCEPT !.done = TRUE] ELSE line[i]]
  <2>1. ReduceTimeline(line, note) = next
    BY <1>3 DEF ReduceTimeline
  <2>2. \A i \in DOMAIN line : next[i] \in Entries /\ next[i].item = line[i].item
    BY <1>e DEF Entries
  <2>3. next \in [DOMAIN line -> Entries]
    BY <2>2
  <2> HIDE DEF next
  <2> QED BY <2>1, <2>2, <2>3, SameItems
<1>4. CASE note.type \notin {"item.started", "item.delta", "item.completed"}
  BY <1>4 DEF ReduceTimeline, Grows
<1> QED BY <1>1, <1>2, <1>3, <1>4

-----------------------------------------------------------------------------
(* The replay of a log, one event after the other *)

NextTimeline(line, note) == IF IsNews(note) THEN ReduceTimeline(line, note) ELSE line
ReplayUpTo(entries, k, f) ==
  f = [i \in 0..k |-> IF i = 0 THEN <<>> ELSE NextTimeline(f[i - 1], entries[i])]

LEMMA ReplayExists ==
  ASSUME NEW entries, NEW n \in Nat
  PROVE  \E f : ReplayUpTo(entries, n, f)
<1> DEFINE S == {k \in Nat : ~\E f : ReplayUpTo(entries, k, f)}
<1>1. SUFFICES ASSUME S # {} PROVE FALSE
  OBVIOUS
<1>2. PICK k \in S : \A m \in S : k <= m
  <2>1. S \in SUBSET Nat
    OBVIOUS
  <2> HIDE DEF S
  <2> QED BY <1>1, <2>1, LeastOf
<1>3. CASE k = 0
  <2> DEFINE f == [i \in 0..0 |-> <<>>]
  <2>1. f = [i \in 0..0 |-> IF i = 0 THEN <<>> ELSE NextTimeline(f[i - 1], entries[i])]
    OBVIOUS
  <2>2. ReplayUpTo(entries, 0, f)
    BY <2>1 DEF ReplayUpTo
  <2> HIDE DEF f
  <2> QED BY <1>3, <2>2
<1>4. CASE k # 0
  <2>1. k - 1 \in Nat /\ k - 1 \notin S
    BY <1>2, <1>4
  <2>2. PICK f : ReplayUpTo(entries, k - 1, f)
    BY <2>1
  <2> DEFINE g == [i \in 0..k |-> IF i = k THEN NextTimeline(f[k - 1], entries[k]) ELSE f[i]]
  <2>3. \A i \in 0..(k - 1) : f[i] = IF i = 0 THEN <<>> ELSE NextTimeline(f[i - 1], entries[i])
    BY <2>2 DEF ReplayUpTo
  <2>4. \A i \in 0..k : g[i] = IF i = 0 THEN <<>> ELSE NextTimeline(g[i - 1], entries[i])
    <3> TAKE i \in 0..k
    <3>1. CASE i = k
      BY <3>1, <1>4, <2>1
    <3>2. CASE i # k
      BY <3>2, <2>3, <2>1
    <3> QED BY <3>1, <3>2
  <2>5. g = [i \in 0..k |-> IF i = 0 THEN <<>> ELSE NextTimeline(g[i - 1], entries[i])]
    BY <2>4
  <2>6. ReplayUpTo(entries, k, g)
    BY <2>5 DEF ReplayUpTo
  <2> HIDE DEF g
  <2> QED BY <1>2, <2>6
<1> QED BY <1>3, <1>4

LEMMA ReplayedIs ==
  ASSUME NEW entries \in Seq(Events)
  PROVE  \E f : ReplayUpTo(entries, Len(entries), f) /\ Replayed(entries) = f[Len(entries)]
<1> DEFINE f == CHOOSE after : after = [i \in 0..Len(entries) |->
                  IF i = 0 THEN <<>>
                  ELSE IF IsNews(entries[i]) THEN ReduceTimeline(after[i - 1], entries[i]) ELSE after[i - 1]]
<1>1. Replayed(entries) = f[Len(entries)]
  BY Zenon DEF Replayed
<1>2. \E g : g = [i \in 0..Len(entries) |->
                  IF i = 0 THEN <<>>
                  ELSE IF IsNews(entries[i]) THEN ReduceTimeline(g[i - 1], entries[i]) ELSE g[i - 1]]
  BY ReplayExists, Len(entries) \in Nat, Zenon DEF ReplayUpTo, NextTimeline
<1>3. ReplayUpTo(entries, Len(entries), f)
  BY <1>2, Zenon DEF ReplayUpTo, NextTimeline
<1> HIDE DEF f
<1> QED BY <1>1, <1>3

LEMMA ReplayGrows ==
  ASSUME NEW entries \in Seq(Events)
  PROVE  /\ Replayed(entries) \in Seq(Entries) /\ Once(Replayed(entries))
         /\ \A i \in DOMAIN Replayed(entries) :
              \E k \in DOMAIN entries : Starts(entries[k], Replayed(entries)[i].item)
<1> DEFINE Good(line) == /\ line \in Seq(Entries) /\ Once(line)
                         /\ \A i \in DOMAIN line : \E k \in DOMAIN entries : Starts(entries[k], line[i].item)
<1>1. PICK f : ReplayUpTo(entries, Len(entries), f) /\ Replayed(entries) = f[Len(entries)]
  BY ReplayedIs
<1>2. \A i \in 0..Len(entries) : f[i] = IF i = 0 THEN <<>> ELSE NextTimeline(f[i - 1], entries[i])
  BY <1>1 DEF ReplayUpTo
<1>3. Good(<<>>)
  BY DEF Once
<1>4. ASSUME NEW k \in 1..Len(entries), Good(f[k - 1]) PROVE Good(f[k])
  <2>1. f[k] = NextTimeline(f[k - 1], entries[k]) /\ entries[k] \in Events /\ k \in DOMAIN entries
    BY <1>2
  <2>2. CASE ~IsNews(entries[k])
    BY <2>1, <2>2, <1>4 DEF NextTimeline
  <2>3. CASE IsNews(entries[k])
    <3>1. Grows(f[k - 1], entries[k], f[k])
      BY <2>1, <2>3, <1>4, ReduceGrows DEF NextTimeline
    <3> QED BY <3>1, <2>1, <1>4 DEF Grows
  <2> QED BY <2>2, <2>3
<1> DEFINE S == {k \in 0..Len(entries) : ~Good(f[k])}
<1>5. S = {}
  <2>1. SUFFICES ASSUME S # {} PROVE FALSE
    OBVIOUS
  <2>2. S \in SUBSET Nat
    OBVIOUS
  <2>3. PICK k \in S : \A m \in S : k <= m
    <3> HIDE DEF S
    <3> QED BY <2>1, <2>2, LeastOf
  <2> HIDE DEF Good
  <2>4. k # 0
    BY <2>3, <1>2, <1>3
  <2>5. k - 1 \in 0..Len(entries) /\ k - 1 \notin S /\ k \in 1..Len(entries)
    BY <2>3, <2>4
  <2> QED BY <2>3, <2>5, <1>4
<1>6. Len(entries) \in 0..Len(entries)
  OBVIOUS
<1>7. Good(f[Len(entries)])
  <2> HIDE DEF Good
  <2> QED BY <1>5, <1>6
<1> QED BY <1>1, <1>7

-----------------------------------------------------------------------------
(* Lines written and read *)

LEMMA LineKinds ==
  /\ \A l \in Events : l \notin TurnReplies /\ l \notin ThreadReplies
  /\ \A l \in TurnReplies : l \notin Events /\ l \notin ThreadReplies
  /\ \A l \in ThreadReplies : l \notin Events /\ l \notin TurnReplies
<1>1. \A l \in Events : l.type # "response"
  BY DEF Events, EventTypes
<1>2. \A l \in TurnReplies : l.type = "response" /\ l.item[2] = "turn"
  BY DEF TurnReplies
<1>3. \A l \in ThreadReplies : l.type = "response" /\ l.item[2] = "thread"
  BY DEF ThreadReplies
<1> QED BY <1>1, <1>2, <1>3

LEMMA AppendFits ==
  ASSUME NEW w, NEW line, NEW n \in Nat, NEW m \in Nat, WireFits(w, line, n), n <= m,
         NEW l \in Events \cup ThreadReplies, l.item[1] <= m, l \in ThreadReplies => UpTo(l.n, m)
  PROVE  WireFits(Append(w, l), line, m)
<1> DEFINE v == Append(w, l)
<1>1. /\ v \in Seq(WireLines) /\ DOMAIN v = 1..(Len(w) + 1) /\ v[Len(w) + 1] = l
      /\ DOMAIN w = 1..Len(w) /\ Len(w) \in Nat /\ \A i \in DOMAIN w : v[i] = w[i] /\ w[i] \in WireLines
  BY DEF WireFits, WireLines
<1> HIDE DEF v
<1>2. LinesUpTo(v, m)
  <2>1. ASSUME NEW i \in DOMAIN w PROVE w[i].item[1] <= m /\ (w[i] \in ThreadReplies => UpTo(w[i].n, m))
    <3>1. w[i].item[1] \in Nat /\ w[i].item[1] <= n
      BY <1>1 DEF WireFits, LinesUpTo, UpTo, WireLines, Events, TurnReplies, ThreadReplies
    <3>2. ASSUME w[i] \in ThreadReplies PROVE UpTo(w[i].n, m)
      <4>1. UpTo(w[i].n, n) /\ w[i].n \in Seq(Events)
        BY <3>2, <1>1 DEF WireFits, LinesUpTo, ThreadReplies
      <4>2. \A k \in DOMAIN w[i].n : w[i].n[k] \in Events
        BY <4>1
      <4>3. \A k \in DOMAIN w[i].n : w[i].n[k].item[1] \in Nat
        BY <4>2 DEF Events
      <4> QED BY <4>1, <4>3 DEF UpTo
    <3> QED BY <3>1, <3>2
  <2> QED BY <2>1, <1>1 DEF LinesUpTo, UpTo
<1>3. RepliesFirst(v, line)
  <2>1. l \notin TurnReplies
    BY LineKinds
  <2>2. ASSUME NEW i \in DOMAIN v, v[i] \in TurnReplies PROVE ReplyFits(v, line, i)
    <3>1. i \in DOMAIN w /\ w[i] \in TurnReplies /\ v[i] = w[i]
      BY <2>1, <2>2, <1>1
    <3>2. ReplyFits(w, line, i)
      BY <3>1 DEF WireFits, RepliesFirst
    <3>3. ASSUME NEW j \in DOMAIN v, j < i PROVE ~Tells(v[j], <<w[i].item[1], "user">>)
      <4>1. j \in DOMAIN w /\ v[j] = w[j]
        BY <3>1, <3>3, <1>1
      <4> QED BY <4>1, <3>2, <3>3 DEF ReplyFits
    <3>4. ASSUME NEW j \in DOMAIN v, v[j] \in TurnReplies, v[j].item[1] = w[i].item[1] PROVE j = i
      <4>1. j \in DOMAIN w /\ v[j] = w[j]
        BY <3>4, <2>1, <1>1
      <4> QED BY <4>1, <3>2, <3>4 DEF ReplyFits
    <3>5. \A j \in DOMAIN line : line[j].item # <<w[i].item[1], "sent">> /\ line[j].item # <<w[i].item[1], "user">>
      BY <3>2 DEF ReplyFits
    <3> QED BY <3>1, <3>3, <3>4, <3>5 DEF ReplyFits
  <2> QED BY <2>2 DEF RepliesFirst
<1> QED BY <1>1, <1>2, <1>3 DEF WireFits, v

\* The answer to turn.start, for a turn nothing knows of yet.
LEMMA ReplyIsFirst ==
  ASSUME NEW w, NEW line, NEW n \in Nat, WireFits(w, line, n), NEW reply \in TurnReplies, reply.item[1] = n,
         \A i \in DOMAIN line : line[i].item # <<n, "sent">> /\ line[i].item # <<n, "user">>,
         \A i \in DOMAIN w : ~Tells(w[i], <<n, "user">>) /\ (w[i] \in TurnReplies => w[i].item[1] # n)
  PROVE  WireFits(Append(w, reply), line, n)
<1> DEFINE v == Append(w, reply)
<1>1. /\ v \in Seq(WireLines) /\ DOMAIN v = 1..(Len(w) + 1) /\ v[Len(w) + 1] = reply
      /\ DOMAIN w = 1..Len(w) /\ Len(w) \in Nat /\ \A i \in DOMAIN w : v[i] = w[i] /\ w[i] \in WireLines
  BY DEF WireFits, WireLines
<1> HIDE DEF v
<1>2. LinesUpTo(v, n)
  BY <1>1, LineKinds DEF WireFits, LinesUpTo, UpTo
<1>3. RepliesFirst(v, line)
  <2>1. ASSUME NEW i \in DOMAIN v, v[i] \in TurnReplies PROVE ReplyFits(v, line, i)
    <3>1. CASE i \in DOMAIN w
      <4>1. ReplyFits(w, line, i) /\ v[i] = w[i]
        BY <3>1, <2>1, <1>1 DEF WireFits, RepliesFirst
      <4>2. ASSUME NEW j \in DOMAIN v, j < i PROVE ~Tells(v[j], <<w[i].item[1], "user">>)
        <5>1. j \in DOMAIN w /\ v[j] = w[j]
          BY <3>1, <4>2, <1>1
        <5> QED BY <5>1, <4>1, <4>2 DEF ReplyFits
      <4>3. ASSUME NEW j \in DOMAIN v, v[j] \in TurnReplies, v[j].item[1] = w[i].item[1] PROVE j = i
        <5>1. w[i].item[1] # n
          BY <3>1, <2>1, <4>1
        <5>2. j \in DOMAIN w /\ v[j] = w[j]
          BY <5>1, <4>3, <1>1
        <5> QED BY <5>2, <4>1, <4>3 DEF ReplyFits
      <4>4. \A j \in DOMAIN line : line[j].item # <<w[i].item[1], "sent">> /\ line[j].item # <<w[i].item[1], "user">>
        BY <4>1 DEF ReplyFits
      <4> QED BY <4>1, <4>2, <4>3, <4>4 DEF ReplyFits
    <3>2. CASE i = Len(w) + 1
      <4>1. ASSUME NEW j \in DOMAIN v, j < i PROVE ~Tells(v[j], <<n, "user">>)
        <5>1. j \in DOMAIN w /\ v[j] = w[j]
          BY <3>2, <4>1, <1>1
        <5> QED BY <5>1
      <4>2. ASSUME NEW j \in DOMAIN v, v[j] \in TurnReplies, v[j].item[1] = n PROVE j = i
        BY <4>2, <3>2, <1>1
      <4>3. v[i].item[1] = n
        BY <3>2, <1>1
      <4> QED BY <4>1, <4>2, <4>3 DEF ReplyFits
    <3> QED BY <3>1, <3>2, <1>1
  <2> QED BY <2>1 DEF RepliesFirst
<1> QED BY <1>1, <1>2, <1>3 DEF WireFits, v

\* Another timeline, which shows nothing that waits for an answer.
LEMMA OtherLineFits ==
  ASSUME NEW w, NEW line, NEW next, NEW n \in Nat, WireFits(w, line, n),
         \A i \in DOMAIN w : w[i] \in TurnReplies => \A j \in DOMAIN next :
            \/ \E k \in DOMAIN line : next[j].item = line[k].item
            \/ next[j].item # <<w[i].item[1], "sent">> /\ next[j].item # <<w[i].item[1], "user">>
  PROVE  WireFits(w, next, n)
BY DEF WireFits, RepliesFirst, ReplyFits

\* A line is read: what it tells waits for no answer behind it.
LEMMA TailFits ==
  ASSUME NEW w, NEW line, NEW n \in Nat, WireFits(w, line, n), w # <<>>
  PROVE  /\ Head(w) \in WireLines /\ Head(w).item[1] <= n
         /\ Head(w) \in ThreadReplies => UpTo(Head(w).n, n)
         /\ Head(w) \in TurnReplies => ReplyFits(w, line, 1)
         /\ WireFits(Tail(w), line, n)
         /\ \A i \in DOMAIN Tail(w) : Tail(w)[i] \in TurnReplies =>
              /\ ~Tells(Head(w), <<Tail(w)[i].item[1], "user">>)
              /\ Head(w) \in TurnReplies => Head(w).item[1] # Tail(w)[i].item[1]
<1> DEFINE v == Tail(w)
<1>1. /\ v \in Seq(WireLines) /\ DOMAIN w = 1..Len(w) /\ Len(w) \in Nat /\ Len(w) # 0
      /\ DOMAIN v = 1..(Len(w) - 1) /\ Head(w) = w[1] /\ w[1] \in WireLines
      /\ \A i \in DOMAIN v : v[i] = w[i + 1] /\ i + 1 \in DOMAIN w
  BY DEF WireFits
<1> HIDE DEF v
<1>2. LinesUpTo(v, n)
  BY <1>1 DEF WireFits, LinesUpTo, UpTo
<1>3. ASSUME NEW i \in DOMAIN v, v[i] \in TurnReplies
      PROVE  /\ ReplyFits(v, line, i)
             /\ ~Tells(w[1], <<v[i].item[1], "user">>)
             /\ w[1] \in TurnReplies => w[1].item[1] # v[i].item[1]
  <2>1. ReplyFits(w, line, i + 1) /\ v[i] = w[i + 1] /\ i \in Nat
    BY <1>1, <1>3 DEF WireFits, RepliesFirst
  <2>2. ASSUME NEW j \in DOMAIN v, j < i PROVE ~Tells(v[j], <<v[i].item[1], "user">>)
    <3>1. j + 1 < i + 1 /\ j + 1 \in DOMAIN w /\ v[j] = w[j + 1]
      BY <2>2, <1>1
    <3> QED BY <3>1, <2>1 DEF ReplyFits
  <2>3. ASSUME NEW j \in DOMAIN v, v[j] \in TurnReplies, v[j].item[1] = v[i].item[1] PROVE j = i
    <3>1. j + 1 \in DOMAIN w /\ v[j] = w[j + 1] /\ j \in Nat
      BY <1>1
    <3>2. j + 1 = i + 1
      BY <3>1, <2>1, <2>3 DEF ReplyFits
    <3> QED BY <3>1, <3>2, <2>1
  <2>4. \A j \in DOMAIN line : line[j].item # <<v[i].item[1], "sent">> /\ line[j].item # <<v[i].item[1], "user">>
    BY <2>1 DEF ReplyFits
  <2>5. 1 \in DOMAIN w /\ 1 < i + 1
    BY <1>1
  <2>6. ~Tells(w[1], <<v[i].item[1], "user">>) /\ (w[1] \in TurnReplies => w[1].item[1] # v[i].item[1])
    <3>1. ~Tells(w[1], <<v[i].item[1], "user">>)
      BY <2>1, <2>5 DEF ReplyFits
    <3>2. ASSUME w[1] \in TurnReplies, w[1].item[1] = v[i].item[1] PROVE FALSE
      <4>1. 1 = i + 1
        BY <2>1, <2>5, <3>2 DEF ReplyFits
      <4> QED BY <4>1, <2>5
    <3> QED BY <3>1, <3>2
  <2> QED BY <2>2, <2>3, <2>4, <2>6 DEF ReplyFits
<1>4. w[1].item[1] <= n /\ (w[1] \in ThreadReplies => UpTo(w[1].n, n))
      /\ (w[1] \in TurnReplies => ReplyFits(w, line, 1))
  BY <1>1 DEF WireFits, LinesUpTo, UpTo, RepliesFirst
<1> QED BY <1>1, <1>2, <1>3, <1>4 DEF WireFits, RepliesFirst, v

-----------------------------------------------------------------------------
(* The steps *)

LEMMA DeskStarts == DesktopInit => DeskInv
<1> SUFFICES ASSUME DesktopInit PROVE DeskInv
  OBVIOUS
<1> USE DEF DesktopInit, TurnItemsInit
<1>1. DesktopTypeOK
  <2>1. crashes \in 0..MaxCrashes /\ hydrates \in 0..MaxHydrates
    BY DesktopAssumption
  <2>2. leaks \in Nat /\ exits \in Nat /\ resetting \in BOOLEAN /\ activeTurn \in BOOLEAN /\ banner \in BOOLEAN
    OBVIOUS
  <2>3. waiting \subseteq {"turn", "thread"} /\ opened \subseteq AllParts
    OBVIOUS
  <2> QED BY <2>1, <2>2, <2>3 DEF DesktopTypeOK
<1>2. LineFits(timeline, turnNo)
  BY DEF LineFits, Once, UpTo
<1>3. WireFits(wire, timeline, turnNo)
  BY DEF WireFits, LinesUpTo, UpTo, RepliesFirst
<1>4. log \in Seq(Events) /\ UpTo(log, turnNo)
  BY DEF UpTo
<1> QED BY <1>1, <1>2, <1>3, <1>4 DEF DeskInv, DeskData

\* The process or its output is gone; the timeline stays or is emptied.
LEMMA EmptiedKeeps ==
  ASSUME DeskData, turnNo' = turnNo, log' = log, timeline' = timeline, wire' = <<>>, appends' = {},
         seen' \in [AllParts -> Nat]
  PROVE  DeskData'
<1>1. WireFits(wire', timeline', turnNo')
  BY DEF WireFits, LinesUpTo, UpTo, RepliesFirst
<1> QED BY <1>1 DEF DeskData

\* The harness writes a line, or logs an event, or both.
LEMMA WritingKeeps ==
  ASSUME DeskData, NEW l \in Events, l.item[1] <= turnNo,
         turnNo' = turnNo, timeline' = timeline, seen' \in [AllParts -> Nat],
         log' = log \/ \E a \in appends : log' = Append(log, a.event),
         wire' = wire \/ wire' = Append(wire, l),
         \A a \in appends' : a \in appends \/ a.event = l
  PROVE  DeskData'
<1>1. WireFits(wire', timeline', turnNo')
  <2>1. l \notin ThreadReplies
    BY LineKinds
  <2>2. WireFits(wire, timeline, turnNo) /\ turnNo \in Nat /\ turnNo <= turnNo
    BY DEF DeskData
  <2>3. WireFits(Append(wire, l), timeline, turnNo)
    BY <2>1, <2>2, AppendFits
  <2> QED BY <2>2, <2>3
<1>2. log' \in Seq(Events) /\ UpTo(log', turnNo')
  <2>1. ASSUME NEW a \in appends, log' = Append(log, a.event)
        PROVE  log' \in Seq(Events) /\ UpTo(log', turnNo')
    <3>1. a.event \in Events /\ a.event.item[1] <= turnNo /\ log \in Seq(Events) /\ UpTo(log, turnNo)
      BY DEF DeskData
    <3>2. /\ DOMAIN log' = 1..(Len(log) + 1) /\ DOMAIN log = 1..Len(log) /\ Len(log) \in Nat
          /\ log'[Len(log) + 1] = a.event /\ \A i \in DOMAIN log : log'[i] = log[i]
      BY <3>1, <2>1
    <3>3. UpTo(log', turnNo)
      BY <3>1, <3>2 DEF UpTo
    <3> QED BY <3>1, <3>3, <2>1
  <2> QED BY <2>1 DEF DeskData
<1>3. \A a \in appends' : a.event \in Events /\ a.event.item[1] <= turnNo'
  BY DEF DeskData
<1> QED BY <1>1, <1>2, <1>3 DEF DeskData

LEMMA NoteIsEvent ==
  ASSUME turnNo \in Nat, NEW type \in EventTypes, NEW p \in AllParts \cup {"user", "turn"}, NEW n \in Nat
  PROVE  Note(type, Item(p), n) \in Events /\ Note(type, Item(p), n).item[1] <= turnNo
BY DEF Note, Item, Events

LEMMA AppendEndsKeeps ==
  ASSUME DeskData, NEW a \in appends, AppendEnds(a), timeline' = timeline
  PROVE  DeskData'
<1>1. /\ turnNo' = turnNo /\ seen' \in [AllParts -> Nat]
      /\ \E b \in appends : log' = Append(log, b.event)
  BY DEF AppendEnds, DeskData
<1>2. a.event \in Events /\ a.event.item[1] <= turnNo /\ turnNo \in Nat
  BY DEF DeskData
<1>3. \E l \in Events : /\ l.item[1] <= turnNo
                        /\ wire' = wire \/ wire' = Append(wire, l)
                        /\ \A b \in appends' : b \in appends \/ b.event = l
  <2>1. CASE a.then \in {"nothing", "subscribe"}
    BY <2>1, <1>2 DEF AppendEnds
  <2>2. CASE a.then = "userItem"
    <3> DEFINE l == Note("item.started", Item("user"), 0)
    <3>1. l \in Events /\ l.item[1] <= turnNo
      BY <1>2, NoteIsEvent DEF EventTypes
    <3>2. wire' = Append(wire, l) /\ appends' = (appends \ {a}) \cup {[event |-> l, then |-> "userDone"]}
      BY <2>2 DEF AppendEnds, Announce
    <3> HIDE DEF l
    <3> QED BY <3>1, <3>2
  <2>3. CASE a.then = "userDone"
    <3> DEFINE l == Note("item.completed", Item("user"), 0)
    <3>1. l \in Events /\ l.item[1] <= turnNo
      BY <1>2, NoteIsEvent DEF EventTypes
    <3>2. wire' = Append(wire, l) /\ appends' = (appends \ {a}) \cup {[event |-> l, then |-> "subscribe"]}
      BY <2>3 DEF AppendEnds, Announce
    <3> HIDE DEF l
    <3> QED BY <3>1, <3>2
  <2>4. CASE a.then = "delta"
    <3> DEFINE l == Note("item.delta", a.event.item, 1)
    <3>1. l \in Events /\ l.item[1] <= turnNo
      BY <1>2 DEF Note, Events, EventTypes
    <3>2. wire' = Append(wire, l) /\ appends' = appends \ {a}
      BY <2>4 DEF AppendEnds
    <3> HIDE DEF l
    <3> QED BY <3>1, <3>2
  <2>5. CASE a.then = "approval"
    <3> DEFINE l == Note("approval.requested", a.event.item, 0)
    <3>1. l \in Events /\ l.item[1] <= turnNo
      BY <1>2 DEF Note, Events, EventTypes
    <3>2. wire' = Append(wire, l) /\ appends' = (appends \ {a}) \cup {[event |-> l, then |-> "nothing"]}
      BY <2>5 DEF AppendEnds, Announce
    <3> HIDE DEF l
    <3> QED BY <3>1, <3>2
  <2> QED BY <2>1, <2>2, <2>3, <2>4, <2>5 DEF AppendEnds
<1>4. PICK l \in Events : /\ l.item[1] <= turnNo
                          /\ wire' = wire \/ wire' = Append(wire, l)
                          /\ \A b \in appends' : b \in appends \/ b.event = l
  BY <1>3
<1> QED BY <1>1, <1>4, WritingKeeps

LEMMA PartsKeep ==
  ASSUME DeskData, timeline' = timeline,
         NEW p \in AllParts, TextDelta(p) \/ ToolPart(p) \/ PermissionPart(p)
  PROVE  DeskData'
<1>1. turnNo' = turnNo /\ log' = log /\ turnNo \in Nat
  BY DEF TextDelta, ToolPart, PermissionPart, DeskData
<1>2. seen[p] \in Nat /\ seen' \in [AllParts -> Nat]
  BY DEF TextDelta, ToolPart, PermissionPart, Advance, DeskData
<1>3. \E type \in EventTypes, n \in Nat : LET l == Note(type, Item(p), n) IN
         /\ wire' = wire \/ wire' = Append(wire, l)
         /\ \A b \in appends' : b \in appends \/ b.event = l
  <2>1. CASE TextDelta(p)
    <3>1. CASE p \in opened
      <4>1. wire' = Append(wire, Note("item.delta", Item(p), seen[p] + 1)) /\ appends' = appends
        BY <2>1, <3>1 DEF TextDelta
      <4>2. "item.delta" \in EventTypes /\ seen[p] + 1 \in Nat
        BY <1>2 DEF EventTypes
      <4> QED BY <4>1, <4>2
    <3>2. CASE p \notin opened
      <4>1. /\ wire' = Append(wire, Note("item.started", Item(p), 0))
            /\ appends' = appends \cup {[event |-> Note("item.started", Item(p), 0), then |-> "delta"]}
        BY <2>1, <3>2 DEF TextDelta, Announce
      <4>2. "item.started" \in EventTypes
        BY DEF EventTypes
      <4> QED BY <4>1, <4>2
    <3> QED BY <3>1, <3>2
  <2>2. CASE ToolPart(p)
    <3>1. CASE seen[p] = 1
      <4>1. wire' = Append(wire, Note("item.delta", Item(p), 1)) /\ appends' = appends
        BY <2>2, <3>1 DEF ToolPart
      <4>2. "item.delta" \in EventTypes
        BY DEF EventTypes
      <4> QED BY <4>1, <4>2
    <3>2. CASE seen[p] # 1
      <4>1. PICK type \in {"item.started", "item.completed"} :
              /\ wire' = Append(wire, Note(type, Item(p), 0))
              /\ appends' = appends \cup {[event |-> Note(type, Item(p), 0), then |-> "nothing"]}
        BY <2>2, <3>2 DEF ToolPart, Announce
      <4>2. type \in EventTypes
        BY DEF EventTypes
      <4> QED BY <4>1, <4>2
    <3> QED BY <3>1, <3>2
  <2>3. CASE PermissionPart(p)
    <3>1. PICK type \in {"item.started", "item.completed"}, then \in {"approval", "nothing"} :
            /\ wire' = Append(wire, Note(type, Item(p), 0))
            /\ appends' = appends \cup {[event |-> Note(type, Item(p), 0), then |-> then]}
      BY <2>3 DEF PermissionPart, Announce
    <3>2. type \in EventTypes
      BY DEF EventTypes
    <3> QED BY <3>1, <3>2
  <2> QED BY <2>1, <2>2, <2>3
<1>4. PICK type \in EventTypes, n \in Nat : LET l == Note(type, Item(p), n) IN
         /\ wire' = wire \/ wire' = Append(wire, l)
         /\ \A b \in appends' : b \in appends \/ b.event = l
  BY <1>3
<1>5. Note(type, Item(p), n) \in Events /\ Note(type, Item(p), n).item[1] <= turnNo
  BY <1>1, NoteIsEvent
<1> QED BY <1>1, <1>2, <1>4, <1>5, WritingKeeps

LEMMA CloseKeeps ==
  ASSUME DeskData, timeline' = timeline, CloseTurn
  PROVE  DeskData'
<1>1. turnNo' = turnNo /\ log' = log /\ turnNo \in Nat /\ seen' \in [AllParts -> Nat]
  BY DEF CloseTurn, DeskData
<1> DEFINE l == Note("turn.completed", Item("turn"), 0)
<1>2. l \in Events /\ l.item[1] <= turnNo
  BY <1>1, NoteIsEvent DEF EventTypes
<1>3. wire' = Append(wire, l) /\ appends' = appends \cup {[event |-> l, then |-> "nothing"]}
  BY DEF CloseTurn, Announce
<1> HIDE DEF l
<1> QED BY <1>1, <1>2, <1>3, WritingKeeps

LEMMA HarnessKeeps == DeskData /\ HarnessWorks => DeskData'
<1> SUFFICES ASSUME DeskData, HarnessWorks PROVE DeskData'
  OBVIOUS
<1>1. timeline' = timeline /\ TurnItemsStep
  BY DEF HarnessWorks
<1>2. ASSUME NEW a \in appends, AppendEnds(a) PROVE DeskData'
  BY <1>1, <1>2, AppendEndsKeeps
<1>3. ASSUME NEW p \in AllParts, TextDelta(p) \/ ToolPart(p) \/ PermissionPart(p) PROVE DeskData'
  BY <1>1, <1>3, PartsKeep
<1>4. CASE CloseTurn
  BY <1>1, <1>4, CloseKeeps
<1> QED BY <1>1, <1>2, <1>3, <1>4 DEF TurnItemsStep, AllParts

LEMMA SendPromptKeeps == DeskData /\ SendPrompt => DeskData'
<1> SUFFICES ASSUME DeskData, SendPrompt PROVE DeskData'
  OBVIOUS
<1> DEFINE n == turnNo + 1
           started == Note("turn.started", <<n, "turn">>, 0)
           reply == Note("response", <<n, "turn">>, 0)
           unsent == Shown(<<0, "pending">>)
<1>1. /\ turnNo' = n /\ log' = log /\ seen' = [p \in AllParts |-> 0]
      /\ wire' = wire \o <<started, reply>>
      /\ appends' = appends \cup {[event |-> started, then |-> "userItem"]}
      /\ timeline' = Append(timeline, unsent)
  BY DEF SendPrompt, OpenTurn
<1>2. /\ turnNo \in Nat /\ n \in Nat /\ turnNo <= n
      /\ wire \in Seq(WireLines) /\ LinesUpTo(wire, turnNo) /\ WireFits(wire, timeline, turnNo)
      /\ timeline \in Seq(Entries) /\ Once(timeline) /\ UpTo(timeline, turnNo)
      /\ log \in Seq(Events) /\ UpTo(log, turnNo)
  BY DEF DeskData, WireFits, LineFits
<1>3. started \in Events /\ started.item = <<n, "turn">> /\ started.type = "turn.started"
  BY <1>2 DEF Note, Events, EventTypes
<1>4. reply \in TurnReplies /\ reply.item = <<n, "turn">>
  BY <1>2 DEF Note, TurnReplies
<1>5. unsent \in Entries /\ unsent.item = <<0, "pending">>
  BY ShownIsEntry
<1> HIDE DEF started, reply, unsent
<1>6. wire' = Append(Append(wire, started), reply)
  BY <1>1, <1>2, <1>3, <1>4 DEF WireLines
<1>7. /\ DOMAIN timeline' = 1..(Len(timeline) + 1) /\ timeline' \in Seq(Entries)
      /\ DOMAIN timeline = 1..Len(timeline) /\ Len(timeline) \in Nat
      /\ timeline'[Len(timeline) + 1] = unsent
      /\ \A i \in DOMAIN timeline : timeline'[i] = timeline[i] /\ timeline[i] \in Entries
  BY <1>1, <1>2, <1>5
<1>8. \A i \in DOMAIN timeline : timeline[i].item[1] \in Nat /\ timeline[i].item[1] <= turnNo
  BY <1>2, <1>7 DEF Entries, UpTo
<1>9. UpTo(timeline', n)
  <2>1. ASSUME NEW i \in DOMAIN timeline' PROVE timeline'[i].item[1] <= n
    <3>1. CASE i \in DOMAIN timeline
      BY <3>1, <1>2, <1>7, <1>8
    <3>2. CASE i = Len(timeline) + 1
      <4>1. timeline'[i].item[1] = 0
        BY <3>2, <1>5, <1>7
      <4> QED BY <4>1, <1>2
    <3> QED BY <3>1, <3>2, <1>7
  <2> QED BY <2>1 DEF UpTo
<1>10. Once(timeline')
  <2> SUFFICES ASSUME NEW i \in DOMAIN timeline', NEW j \in DOMAIN timeline',
                      ShownAs(timeline'[i].item) = ShownAs(timeline'[j].item), timeline'[i].item[2] # "pending"
               PROVE  i = j
    BY DEF Once
  <2>1. i \in DOMAIN timeline
    BY <1>5, <1>7
  <2>2. CASE j \in DOMAIN timeline
    BY <2>1, <2>2, <1>2, <1>7 DEF Once
  <2>3. CASE j = Len(timeline) + 1
    <3>1. ShownAs(timeline'[j].item) = <<0, "pending">>
      BY <2>3, <1>5, <1>7 DEF ShownAs
    <3>2. ShownAs(timeline'[i].item)[2] # "pending"
      BY DEF ShownAs
    <3> QED BY <3>1, <3>2
  <2> QED BY <2>2, <2>3, <1>7
<1>11. \A i \in DOMAIN timeline' : /\ timeline'[i].item # <<n, "sent">>
                                   /\ timeline'[i].item # <<n, "user">>
  <2> TAKE i \in DOMAIN timeline'
  <2>1. CASE i \in DOMAIN timeline
    <3>1. timeline'[i].item[1] # n
      BY <2>1, <1>2, <1>7, <1>8
    <3> QED BY <3>1
  <2>2. CASE i = Len(timeline) + 1
    <3>1. timeline'[i].item[2] = "pending"
      BY <2>2, <1>5, <1>7
    <3> QED BY <3>1
  <2> QED BY <2>1, <2>2, <1>7
<1>12. WireFits(wire, timeline', turnNo)
  <2>1. \A i \in DOMAIN wire : wire[i] \in TurnReplies => \A j \in DOMAIN timeline' :
            \/ \E k \in DOMAIN timeline : timeline'[j].item = timeline[k].item
            \/ /\ timeline'[j].item # <<wire[i].item[1], "sent">>
               /\ timeline'[j].item # <<wire[i].item[1], "user">>
    BY <1>5, <1>7
  <2> QED BY <2>1, <1>2, OtherLineFits
<1> DEFINE w == Append(wire, started)
<1>13. WireFits(w, timeline', n)
  <2>1. started.item[1] <= n /\ started \notin ThreadReplies
    BY <1>2, <1>3, LineKinds
  <2> QED BY <2>1, <1>2, <1>3, <1>12, AppendFits
<1>14. \A i \in DOMAIN w : ~Tells(w[i], <<n, "user">>) /\ (w[i] \in TurnReplies => w[i].item[1] # n)
  <2> TAKE i \in DOMAIN w
  <2>1. CASE i \in DOMAIN wire
    <3>1. w[i] = wire[i] /\ wire[i] \in WireLines /\ wire[i].item[1] <= turnNo
      BY <2>1, <1>2 DEF LinesUpTo, UpTo
    <3>2. wire[i].item[1] \in Nat
      BY <3>1 DEF WireLines, Events, TurnReplies, ThreadReplies
    <3>3. wire[i].item[1] # n
      BY <3>1, <3>2, <1>2
    <3>4. ASSUME wire[i] \in ThreadReplies, NEW k \in DOMAIN wire[i].n
          PROVE  ~Starts(wire[i].n[k], <<n, "user">>)
      <4>1. wire[i].n[k].item[1] <= turnNo /\ wire[i].n \in Seq(Events)
        BY <2>1, <3>4, <1>2 DEF LinesUpTo, UpTo, ThreadReplies
      <4>2. wire[i].n[k] \in Events
        BY <4>1
      <4>3. wire[i].n[k].item[1] # n
        BY <4>1, <4>2, <1>2 DEF Events
      <4> QED BY <4>3 DEF Starts
    <3>5. ~Starts(wire[i], <<n, "user">>)
      BY <3>3 DEF Starts
    <3> QED BY <3>1, <3>3, <3>4, <3>5 DEF Tells
  <2>2. CASE i = Len(wire) + 1
    <3>1. w[i] = started
      BY <2>2, <1>2
    <3> QED BY <3>1, <1>3, LineKinds DEF Tells, Starts
  <2>3. i \in DOMAIN wire \/ i = Len(wire) + 1
    BY <1>2
  <2> QED BY <2>1, <2>2, <2>3
<1> HIDE DEF w
<1>15. WireFits(Append(w, reply), timeline', n)
  <2>1. reply.item[1] = n
    BY <1>4
  <2> QED BY <2>1, <1>2, <1>4, <1>11, <1>13, <1>14, ReplyIsFirst
<1>16. wire' = Append(w, reply)
  BY <1>6 DEF w
<1>17. log' \in Seq(Events) /\ UpTo(log', n)
  <2>1. \A i \in DOMAIN log : log[i] \in Events
    BY <1>2
  <2> QED BY <2>1, <1>1, <1>2 DEF UpTo, Events
<1>18. \A a \in appends' : a.event \in Events /\ a.event.item[1] <= n
  <2> TAKE a \in appends'
  <2>1. CASE a \in appends
    BY <2>1, <1>2 DEF DeskData, Events
  <2>2. CASE a.event = started
    BY <2>2, <1>2, <1>3
  <2> QED BY <2>1, <2>2, <1>1
<1>19. seen' \in [AllParts -> Nat]
  BY <1>1
<1> HIDE DEF n
<1> QED BY <1>1, <1>2, <1>7, <1>9, <1>10, <1>15, <1>16, <1>17, <1>18, <1>19 DEF DeskData, LineFits

LEMMA SelectThreadKeeps == DeskData /\ SelectThread => DeskData'
<1> SUFFICES ASSUME DeskData, SelectThread PROVE DeskData'
  OBVIOUS
<1> DEFINE reply == Note("response", <<0, "thread">>, log)
<1>1. reply \in ThreadReplies /\ reply.item[1] = 0 /\ reply.n = log
  BY DEF Note, ThreadReplies, DeskData
<1>2. /\ wire' = Append(wire, reply) /\ turnNo' = turnNo /\ seen' = seen /\ log' = log
      /\ appends' = appends /\ timeline' = timeline
  BY DEF SelectThread
<1> HIDE DEF reply
<1>3. WireFits(wire, timeline, turnNo) /\ turnNo \in Nat /\ 0 <= turnNo /\ turnNo <= turnNo /\ UpTo(log, turnNo)
  BY DEF DeskData
<1>4. WireFits(Append(wire, reply), timeline, turnNo)
  BY <1>1, <1>3, AppendFits
<1> QED BY <1>2, <1>4 DEF DeskData

LEMMA InitializedKeeps == DeskData /\ Initialized => DeskData'
<1> SUFFICES ASSUME DeskData, Initialized PROVE DeskData'
  OBVIOUS
<1>1. UNCHANGED <<turnNo, seen, log, appends, wire>> /\ timeline' \in {timeline, <<>>}
  BY DEF Initialized, turnItemVars
<1>2. LineFits(timeline', turnNo)
  <2>1. LineFits(<<>>, turnNo)
    BY DEF LineFits, Once, UpTo
  <2>2. LineFits(timeline, turnNo)
    BY DEF DeskData
  <2> QED BY <2>1, <2>2, <1>1
<1>3. WireFits(wire, timeline', turnNo)
  BY <1>1, OtherLineFits DEF DeskData
<1> QED BY <1>1, <1>2, <1>3 DEF DeskData

\* markOptimisticTurn shows as sent a message that nothing showed yet.
LEMMA MarkFits ==
  ASSUME NEW n \in Nat, NEW m \in Nat, n <= m, LineFits(timeline, m),
         \A i \in DOMAIN timeline : timeline[i].item # <<n, "sent">> /\ timeline[i].item # <<n, "user">>
  PROVE  /\ LineFits(MarkOptimistic(n), m)
         /\ \A i \in DOMAIN MarkOptimistic(n) :
              \/ \E k \in DOMAIN timeline : MarkOptimistic(n)[i].item = timeline[k].item
              \/ MarkOptimistic(n)[i].item = <<n, "sent">>
<1> DEFINE waits == Positions(timeline, <<0, "pending">>)
           first == Min(waits)
           next == MarkOptimistic(n)
<1>1. next = [i \in DOMAIN timeline |-> IF waits # {} /\ i = first THEN Shown(<<n, "sent">>) ELSE timeline[i]]
  BY DEF MarkOptimistic
<1>2. Shown(<<n, "sent">>) \in Entries /\ Shown(<<n, "sent">>).item = <<n, "sent">>
  BY ShownIsEntry
<1>3. timeline \in Seq(Entries) /\ Once(timeline) /\ UpTo(timeline, m)
  BY DEF LineFits
<1>4. \A i \in DOMAIN timeline : timeline[i] \in Entries
  BY <1>3
<1> HIDE DEF waits, first
<1> HIDE DEF next
<1>5. next \in Seq(Entries) /\ DOMAIN next = DOMAIN timeline
  <2>1. DOMAIN timeline = 1..Len(timeline) /\ Len(timeline) \in Nat
    BY <1>3
  <2>2. next \in [1..Len(timeline) -> Entries]
    BY <2>1, <1>1, <1>2, <1>4
  <2> QED BY <2>1, <2>2
<1>6. \A i \in DOMAIN timeline : next[i] = timeline[i] \/ (i = first /\ next[i].item = <<n, "sent">>)
  BY <1>1, <1>2
<1>7. UpTo(next, m)
  BY <1>3, <1>5, <1>6 DEF UpTo
<1>8. \A i \in DOMAIN timeline : ShownAs(timeline[i].item) # <<n, "user">>
  <2> TAKE i \in DOMAIN timeline
  <2>1. CASE timeline[i].item[2] = "sent"
    <3>1. timeline[i].item = <<timeline[i].item[1], "sent">>
      BY <2>1, <1>4 DEF Entries
    <3> QED BY <3>1, <2>1 DEF ShownAs
  <2>2. CASE timeline[i].item[2] # "sent"
    BY <2>2 DEF ShownAs
  <2> QED BY <2>1, <2>2
<1>9. ShownAs(<<n, "sent">>) = <<n, "user">>
  BY DEF ShownAs
<1>10. Once(next)
  <2> SUFFICES ASSUME NEW i \in DOMAIN timeline, NEW j \in DOMAIN timeline,
                      ShownAs(next[i].item) = ShownAs(next[j].item), next[i].item[2] # "pending"
               PROVE  i = j
    BY <1>5 DEF Once
  <2>1. CASE next[i] = timeline[i] /\ next[j] = timeline[j]
    BY <2>1, <1>3 DEF Once
  <2>2. CASE next[i] # timeline[i] /\ next[j] # timeline[j]
    BY <2>2, <1>6
  <2>3. CASE next[i] # timeline[i] /\ next[j] = timeline[j]
    BY <2>3, <1>6, <1>8, <1>9
  <2>4. CASE next[i] = timeline[i] /\ next[j] # timeline[j]
    BY <2>4, <1>6, <1>8, <1>9
  <2> QED BY <2>1, <2>2, <2>3, <2>4
<1>11. \A i \in DOMAIN next :
         (\E k \in DOMAIN timeline : next[i].item = timeline[k].item) \/ next[i].item = <<n, "sent">>
  BY <1>5, <1>6
<1> QED BY <1>5, <1>7, <1>10, <1>11 DEF LineFits, next

\* What a timeline may show after a line told it.
MayShow(line, next, item) ==
  \/ \E k \in DOMAIN line : item = line[k].item
  \/ Tells(next, item) /\ item[2] # "sent"
  \/ next \in TurnReplies /\ item = <<next.item[1], "sent">>

LEMMA ToldIsSafe ==
  ASSUME NEW line, NEW note, NEW item, NEW n, MayShow(line, note, item), ~Tells(note, <<n, "user">>),
         note \in TurnReplies => note.item[1] # n
  PROVE  (\E k \in DOMAIN line : item = line[k].item) \/ (item # <<n, "sent">> /\ item # <<n, "user">>)
BY DEF MayShow

LEMMA ReadLineShows ==
  ASSUME DeskData, ReadLine
  PROVE  LineFits(timeline', turnNo) /\ \A i \in DOMAIN timeline' : MayShow(timeline, Head(wire), timeline'[i].item)
<1> DEFINE note == Head(wire)
<1>1. wire # <<>>
  BY DEF ReadLine
<1>2. /\ WireFits(wire, timeline, turnNo) /\ turnNo \in Nat /\ LineFits(timeline, turnNo)
      /\ timeline \in Seq(Entries) /\ Once(timeline) /\ UpTo(timeline, turnNo)
  BY DEF DeskData, LineFits
<1>3. /\ note \in WireLines /\ note.item[1] <= turnNo
      /\ note \in ThreadReplies => UpTo(note.n, turnNo)
      /\ note \in TurnReplies => ReplyFits(wire, timeline, 1)
  BY <1>1, <1>2, TailFits
<1>a. note = wire[1]
  BY <1>1, <1>2 DEF WireFits
<1>4. CASE note \in Events
  <2>1. Apply(note)
    <3>1. note.type # "response"
      BY <1>4 DEF Events, EventTypes
    <3> QED BY <3>1 DEF ReadLine
  <2>2. CASE timeline' = timeline
    BY <2>2, <1>2 DEF MayShow
  <2>3. CASE timeline' = ReduceTimeline(timeline, note)
    <3>1. Grows(timeline, note, timeline')
      BY <2>3, <1>2, <1>4, ReduceGrows
    <3>2. \A i \in DOMAIN timeline' :
            (\E k \in DOMAIN timeline : timeline'[i].item = timeline[k].item) \/ Starts(note, timeline'[i].item)
      BY <3>1 DEF Grows
    <3>3. note.item[2] # "sent"
      BY <1>4, PartsAssumption DEF Events, AllParts
    <3>4. UpTo(timeline', turnNo)
      BY <3>2, <1>2, <1>3 DEF UpTo, Starts
    <3> QED BY <3>1, <3>2, <3>3, <3>4, <1>4 DEF Grows, LineFits, MayShow, Tells, Starts
  <2> QED BY <2>1, <2>2, <2>3 DEF Apply
<1>5. CASE note \in TurnReplies
  <2>1. timeline' = MarkOptimistic(note.item[1])
    BY <1>5 DEF ReadLine, TurnReplies
  <2>2. note.item[1] \in Nat
    BY <1>5 DEF TurnReplies
  <2>3. \A i \in DOMAIN timeline :
          timeline[i].item # <<note.item[1], "sent">> /\ timeline[i].item # <<note.item[1], "user">>
    BY <1>3, <1>5, <1>a DEF ReplyFits
  <2>4. /\ LineFits(timeline', turnNo)
        /\ \A i \in DOMAIN timeline' :
              \/ \E k \in DOMAIN timeline : timeline'[i].item = timeline[k].item
              \/ timeline'[i].item = <<note.item[1], "sent">>
    BY <2>1, <2>2, <2>3, <1>2, <1>3, MarkFits
  <2> QED BY <2>4, <1>5 DEF MayShow
<1>6. CASE note \in ThreadReplies
  <2>1. timeline' = Replayed(note.n)
    <3>1. note.type = "response" /\ note.item[2] = "thread"
      BY <1>6 DEF ThreadReplies
    <3> QED BY <3>1 DEF ReadLine, Hydrate
  <2>2. note.n \in Seq(Events) /\ UpTo(note.n, turnNo)
    BY <1>6, <1>3 DEF ThreadReplies
  <2>3. /\ timeline' \in Seq(Entries) /\ Once(timeline')
        /\ \A i \in DOMAIN timeline' : \E k \in DOMAIN note.n : Starts(note.n[k], timeline'[i].item)
    BY <2>1, <2>2, ReplayGrows
  <2>4. ASSUME NEW i \in DOMAIN timeline'
        PROVE  timeline'[i].item[1] <= turnNo /\ MayShow(timeline, note, timeline'[i].item)
    <3>1. PICK k \in DOMAIN note.n : Starts(note.n[k], timeline'[i].item)
      BY <2>3
    <3>2. note.n[k] \in Events
      BY <2>2
    <3>3. timeline'[i].item[2] # "sent"
      BY <3>1, <3>2, PartsAssumption DEF Starts, Events, AllParts
    <3>4. timeline'[i].item[1] <= turnNo
      BY <3>1, <2>2 DEF Starts, UpTo
    <3> QED BY <3>1, <3>3, <3>4, <1>6 DEF MayShow, Tells
  <2> QED BY <2>3, <2>4 DEF LineFits, UpTo
<1> QED BY <1>3, <1>4, <1>5, <1>6 DEF WireLines

LEMMA ReadLineKeeps == DeskData /\ ReadLine => DeskData'
<1> SUFFICES ASSUME DeskData, ReadLine PROVE DeskData'
  OBVIOUS
<1>1. wire # <<>> /\ wire' = Tail(wire) /\ UNCHANGED <<turnNo, seen, log, appends>>
  BY DEF ReadLine
<1>2. WireFits(wire, timeline, turnNo) /\ turnNo \in Nat
  BY DEF DeskData
<1>3. /\ WireFits(wire', timeline, turnNo)
      /\ \A i \in DOMAIN wire' : wire'[i] \in TurnReplies =>
              /\ ~Tells(Head(wire), <<wire'[i].item[1], "user">>)
              /\ Head(wire) \in TurnReplies => Head(wire).item[1] # wire'[i].item[1]
  BY <1>1, <1>2, TailFits
<1>4. LineFits(timeline', turnNo) /\ \A i \in DOMAIN timeline' : MayShow(timeline, Head(wire), timeline'[i].item)
  BY ReadLineShows
<1>5. \A i \in DOMAIN wire' : wire'[i] \in TurnReplies => \A j \in DOMAIN timeline' :
            \/ \E k \in DOMAIN timeline : timeline'[j].item = timeline[k].item
            \/ timeline'[j].item # <<wire'[i].item[1], "sent">> /\ timeline'[j].item # <<wire'[i].item[1], "user">>
  <2> TAKE i \in DOMAIN wire'
  <2> HAVE wire'[i] \in TurnReplies
  <2> TAKE j \in DOMAIN timeline'
  <2>1. MayShow(timeline, Head(wire), timeline'[j].item)
    BY <1>4
  <2>2. /\ ~Tells(Head(wire), <<wire'[i].item[1], "user">>)
        /\ Head(wire) \in TurnReplies => Head(wire).item[1] # wire'[i].item[1]
    BY <1>3
  <2> QED BY <2>1, <2>2, ToldIsSafe
<1>6. WireFits(wire', timeline', turnNo)
  BY <1>2, <1>3, <1>5, OtherLineFits
<1> QED BY <1>1, <1>4, <1>6 DEF DeskData

\* What the processes of the bridge do leaves the timeline alone.
LEMMA DeskDataKept == DeskData /\ [DesktopNext]_desktopVars => DeskData'
<1> SUFFICES ASSUME DeskData, [DesktopNext]_desktopVars PROVE DeskData'
  OBVIOUS
<1>1. CASE SendPrompt
  BY <1>1, SendPromptKeeps
<1>2. CASE SelectThread
  BY <1>2, SelectThreadKeeps
<1>3. CASE Reconnect \/ SetWorkspace \/ EnsureStarted
  <2>1. /\ turnNo' = turnNo /\ log' = log /\ timeline' = timeline /\ wire' = <<>> /\ appends' = {}
        /\ seen' = [p \in AllParts |-> 0]
    BY <1>3 DEF Reconnect, SetWorkspace, EnsureStarted, Spawn
  <2>2. seen' \in [AllParts -> Nat]
    BY <2>1
  <2> QED BY <2>1, <2>2, EmptiedKeeps
<1>4. CASE Initialized
  BY <1>4, InitializedKeeps
<1>5. CASE ReadLine
  BY <1>5, ReadLineKeeps
<1>6. CASE ProcessDies
  <2>1. /\ turnNo' = turnNo /\ log' = log /\ timeline' = timeline /\ wire' = <<>> /\ appends' = {}
        /\ seen' = seen
    BY <1>6 DEF ProcessDies
  <2> QED BY <2>1, EmptiedKeeps DEF DeskData
<1>7. CASE LateExit
  BY <1>7 DEF LateExit, turnItemVars, DeskData
<1>8. CASE HarnessWorks
  BY <1>8, HarnessKeeps
<1>9. CASE UNCHANGED desktopVars
  BY <1>9 DEF desktopVars, turnItemVars, DeskData
<1> QED BY <1>1, <1>2, <1>3, <1>4, <1>5, <1>6, <1>7, <1>8, <1>9 DEF DesktopNext

LEMMA DeskTypesKept == DesktopTypeOK /\ [DesktopNext]_desktopVars => DesktopTypeOK'
<1> SUFFICES ASSUME DesktopTypeOK, [DesktopNext]_desktopVars PROVE DesktopTypeOK'
  OBVIOUS
<1>0. MaxCrashes \in Nat /\ MaxHydrates \in Nat
  BY DesktopAssumption
<1> USE DEF DesktopTypeOK
<1>1. CASE SendPrompt
  BY <1>1 DEF SendPrompt, OpenTurn
<1>2. CASE SelectThread
  BY <1>0, <1>2 DEF SelectThread
<1>3. CASE Reconnect
  <2>1. exits' \in Nat
    BY <1>3 DEF Reconnect
  <2>2. bridge' = "starting" /\ process' = "starting" /\ turnPhase' = "idle" /\ opened' = {} /\ waiting' = {}
    BY <1>3 DEF Reconnect, Spawn
  <2>3. banner' = FALSE /\ UNCHANGED <<leaks, resetting, crashes, activeTurn, hydrates>>
    BY <1>3 DEF Reconnect
  <2> QED BY <2>1, <2>2, <2>3
<1>4. CASE SetWorkspace
  BY <1>0, <1>4 DEF SetWorkspace, Spawn
<1>5. CASE EnsureStarted
  BY <1>5 DEF EnsureStarted, Spawn
<1>6. CASE Initialized
  BY <1>6 DEF Initialized, turnItemVars
<1>7. CASE ReadLine
  <2>1. activeTurn' \in BOOLEAN
    BY <1>7 DEF ReadLine, Apply, ReduceActive, Hydrate
  <2>2. waiting' \subseteq waiting
    BY <1>7 DEF ReadLine
  <2> QED BY <2>1, <2>2, <1>7 DEF ReadLine
<1>8. CASE ProcessDies
  <2>1. banner' \in BOOLEAN
    BY <1>8 DEF ProcessDies, ReduceCrash
  <2>2. crashes' \in 0..MaxCrashes
    BY <1>0, <1>8 DEF ProcessDies
  <2>3. bridge' = "error" /\ process' = "gone" /\ waiting' = {} /\ resetting' = FALSE
    BY <1>8 DEF ProcessDies
  <2>4. UNCHANGED <<turnPhase, opened, leaks, exits, activeTurn, hydrates>>
    BY <1>8 DEF ProcessDies
  <2> QED BY <2>1, <2>2, <2>3, <2>4
<1>9. CASE LateExit
  <2>1. banner' \in BOOLEAN
    BY <1>9 DEF LateExit, ReduceCrash
  <2> QED BY <2>1, <1>9 DEF LateExit, turnItemVars
<1>10. CASE HarnessWorks
  <2>1. turnPhase' \in {"idle", "opening", "running", "over"} /\ opened' \subseteq AllParts
    <3>1. ASSUME NEW a \in appends, AppendEnds(a)
          PROVE  turnPhase' \in {"idle", "opening", "running", "over"} /\ opened' \subseteq AllParts
      BY <3>1 DEF AppendEnds
    <3>2. ASSUME NEW p \in AllParts, TextDelta(p) \/ ToolPart(p) \/ PermissionPart(p)
          PROVE  turnPhase' \in {"idle", "opening", "running", "over"} /\ opened' \subseteq AllParts
      BY <3>2 DEF TextDelta, ToolPart, PermissionPart
    <3>3. ASSUME CloseTurn
          PROVE  turnPhase' \in {"idle", "opening", "running", "over"} /\ opened' \subseteq AllParts
      BY <3>3 DEF CloseTurn
    <3>4. TurnItemsStep
      BY <1>10 DEF HarnessWorks
    <3> QED BY <3>1, <3>2, <3>3, <3>4 DEF TurnItemsStep, AllParts
  <2> QED BY <2>1, <1>10 DEF HarnessWorks
<1>11. CASE UNCHANGED desktopVars
  BY <1>11 DEF desktopVars, turnItemVars
<1> QED
  BY <1>1, <1>2, <1>3, <1>4, <1>5, <1>6, <1>7, <1>8, <1>9, <1>10, <1>11 DEF DesktopNext

(* The desktop client shows each item once and the user's message once, for  *)
(* any number of turns, parts, crashes, hydrations and lines on the wire     *)
(* (store.ts:100-137, app.tsx:38-60).                                        *)
THEOREM ItemsAreShownOnce == DesktopSpec => []ShownOnce
<1>1. DesktopInit => DeskInv
  BY DeskStarts
<1>2. DeskInv /\ [DesktopNext]_desktopVars => DeskInv'
  BY DeskTypesKept, DeskDataKept DEF DeskInv
<1>3. DeskInv => ShownOnce
  BY DEF DeskInv, DeskData, LineFits, Once, ShownOnce
<1> QED BY <1>1, <1>2, <1>3, PTL DEF DesktopSpec

-----------------------------------------------------------------------------
(* Undo and redo *)

RevertSpec == RevertInit /\ [][RevertNext]_revertVars

Trees == [Files -> 0..MaxWrites]
StepPatches == [hash : Trees, files : SUBSET Files]
PlacedPatches == [turn : Nat, step : Nat, hash : Trees, files : SUBSET Files]

\* A set of patches that has one at a place.
Placed(patches) ==
  /\ patches \subseteq PlacedPatches
  /\ \A p, q \in patches : p.turn = q.turn /\ p.step = q.step => p = q

-----------------------------------------------------------------------------
(* Patches checked out one after the other *)
(* A set of patches that is not empty has a first one (the order in which    *)
(* snapshot/index.ts:93-98 goes through them).                               *)
LEMMA FirstIsThere ==
  ASSUME NEW patches, Placed(patches), patches # {}
  PROVE  First(patches) \in patches /\ \A q \in patches : Before(First(patches), q)
<1> DEFINE Of == {p.turn : p \in patches}
<1>1. Of \in SUBSET Nat /\ Of # {}
  BY DEF Placed, PlacedPatches
<1>2. PICK t \in Of : \A m \in Of : t <= m
  <2> HIDE DEF Of
  <2> QED BY <1>1, LeastOf
<1> DEFINE InIt == {p.step : p \in {q \in patches : q.turn = t}}
<1>3. InIt \in SUBSET Nat /\ InIt # {}
  BY DEF Placed, PlacedPatches
<1>4. PICK s \in InIt : \A m \in InIt : s <= m
  <2> HIDE DEF InIt
  <2> QED BY <1>3, LeastOf
<1>5. PICK p \in patches : p.turn = t /\ p.step = s
  BY <1>4
<1>6. ASSUME NEW q \in patches PROVE Before(p, q)
  <2>1. t \in Nat /\ q.turn \in Nat /\ t <= q.turn
    BY <1>1, <1>2 DEF Placed, PlacedPatches
  <2>2. q.turn = t => s <= q.step
    BY <1>4
  <2> QED BY <1>5, <2>1, <2>2 DEF Before
<1> QED BY <1>5, <1>6 DEF First
(* The first is the only one before all others (snapshot/index.ts:93-98).    *)
LEMMA FirstIsOne ==
  ASSUME NEW patches, Placed(patches), NEW p \in patches, \A q \in patches : Before(p, q)
  PROVE  First(patches) = p
<1>1. First(patches) \in patches /\ Before(First(patches), p) /\ Before(p, First(patches))
  BY FirstIsThere
<1>2. p \in PlacedPatches /\ First(patches) \in PlacedPatches
  BY <1>1 DEF Placed
<1>3. p.turn = First(patches).turn /\ p.step = First(patches).step
  BY <1>1, <1>2 DEF Before, PlacedPatches
<1> QED BY <1>1, <1>3 DEF Placed
(* The patches that have a file are placed as all are                        *)
(* (snapshot/index.ts:97-98).                                                *)
LEMMA HavingIsPlaced ==
  ASSUME NEW patches, Placed(patches), NEW f
  PROVE  Placed(Having(f, patches))
BY DEF Placed, Having

(* Checking out later patches and then earlier ones is checking out both:    *)
(* an undo after an undo is one undo of both turns                           *)
(* (snapshot/index.ts:93-123).                                               *)
LEMMA CheckOutInTurn ==
  ASSUME NEW early, NEW late, Placed(early \cup late), NEW tree,
         \A p \in early, q \in late : Before(p, q)
  PROVE  CheckOut(early, CheckOut(late, tree)) = CheckOut(early \cup late, tree)
<1> DEFINE all == early \cup late
<1>1. ASSUME NEW f \in Files
      PROVE  CheckOut(early, CheckOut(late, tree))[f] = CheckOut(all, tree)[f]
  <2>1. Placed(Having(f, early)) /\ Placed(Having(f, late)) /\ Placed(Having(f, all))
    BY DEF Placed, Having
  <2>2. Having(f, all) = Having(f, early) \cup Having(f, late)
    BY DEF Having
  <2>3. CASE Having(f, early) = {}
    <3>1. Having(f, all) = Having(f, late)
      BY <2>2, <2>3
    <3> QED BY <2>3, <3>1 DEF CheckOut
  <2>4. CASE Having(f, early) # {}
    <3> DEFINE p == First(Having(f, early))
    <3>1. p \in Having(f, early) /\ \A q \in Having(f, early) : Before(p, q)
      BY <2>1, <2>4, FirstIsThere
    <3>2. \A q \in Having(f, late) : Before(p, q)
      BY <3>1 DEF Having
    <3>3. First(Having(f, all)) = p
      <4> HIDE DEF p
      <4> QED BY <2>1, <2>2, <3>1, <3>2, FirstIsOne
    <3>4. Having(f, all) # {}
      BY <2>2, <2>4
    <3> QED BY <2>4, <3>3, <3>4 DEF CheckOut
  <2> QED BY <2>3, <2>4
<1> QED BY <1>1 DEF CheckOut
(* Checking out patches gives a worktree (snapshot/index.ts:93-123).         *)
LEMMA CheckOutIsTree ==
  ASSUME NEW patches, Placed(patches), NEW tree \in Trees
  PROVE  CheckOut(patches, tree) \in Trees
<1>1. ASSUME NEW f \in Files PROVE CheckOut(patches, tree)[f] \in 0..MaxWrites
  <2>1. CASE Having(f, patches) = {}
    BY <2>1 DEF CheckOut, Trees
  <2>2. CASE Having(f, patches) # {}
    <3>1. First(Having(f, patches)) \in PlacedPatches
      BY <2>2, HavingIsPlaced, FirstIsThere DEF Placed
    <3> QED BY <3>1, <2>2 DEF CheckOut, PlacedPatches, Trees
  <2> QED BY <2>1, <2>2
<1> QED BY <1>1 DEF CheckOut, Trees

-----------------------------------------------------------------------------
(* The patches of a list of turns *)

TurnLists == Seq(Seq(StepPatches))
PlacedAt(list, t, s) == [turn |-> t, step |-> s, hash |-> list[t][s].hash, files |-> list[t][s].files]
(* The patches from a point on are those of the steps there                  *)
(* (revert.ts:25-52).                                                        *)
LEMMA PatchesAre ==
  ASSUME NEW list \in TurnLists, NEW turn \in Nat, NEW from, NEW p
  PROVE  p \in PatchesFrom(list, turn, from) <=>
           \E t \in turn..Len(list) : \E s \in DOMAIN list[t] : (t = turn => s >= from) /\ p = PlacedAt(list, t, s)
<1> DEFINE Places == {q \in UNION {{t} \X DOMAIN list[t] : t \in turn..Len(list)} : q[1] = turn => q[2] >= from}
<1>1. PatchesFrom(list, turn, from) = {PlacedAt(list, q[1], q[2]) : q \in Places}
  BY DEF PatchesFrom, PlacedAt
<1>2. ASSUME NEW t \in turn..Len(list), NEW s \in DOMAIN list[t], t = turn => s >= from
      PROVE  <<t, s>> \in Places
  BY <1>2
<1>3. ASSUME NEW q \in Places
      PROVE  /\ q[1] \in turn..Len(list) /\ q[2] \in DOMAIN list[q[1]]
             /\ q[1] = turn => q[2] >= from
  BY <1>3
<1> HIDE DEF Places
<1>4. ASSUME p \in PatchesFrom(list, turn, from)
      PROVE  \E t \in turn..Len(list) : \E s \in DOMAIN list[t] : (t = turn => s >= from) /\ p = PlacedAt(list, t, s)
  <2>1. PICK q \in Places : p = PlacedAt(list, q[1], q[2])
    BY <1>1, <1>4
  <2> QED BY <2>1, <1>3
<1>5. ASSUME NEW t \in turn..Len(list), NEW s \in DOMAIN list[t], t = turn => s >= from, p = PlacedAt(list, t, s)
      PROVE  p \in PatchesFrom(list, turn, from)
  <2>1. p = PlacedAt(list, <<t, s>>[1], <<t, s>>[2])
    BY <1>5
  <2> QED BY <1>1, <1>2, <1>5, <2>1
<1> QED BY <1>4, <1>5
(* Each of the patches from a point on is that of a step there               *)
(* (revert.ts:25-52).                                                        *)
LEMMA PatchesHavePlaces ==
  ASSUME NEW list \in TurnLists, NEW turn \in Nat, NEW from
  PROVE  \A p \in PatchesFrom(list, turn, from) :
           \E t \in turn..Len(list) : \E s \in DOMAIN list[t] : p = PlacedAt(list, t, s)
BY PatchesAre

(* A step of a turn has a place (revert.ts:25-52).                           *)
LEMMA ListTypes ==
  ASSUME NEW list \in TurnLists, NEW t \in 1..Len(list), NEW s \in DOMAIN list[t]
  PROVE  /\ s \in Nat /\ s # 0 /\ list[t] \in Seq(StepPatches) /\ s \in 1..Len(list[t])
         /\ PlacedAt(list, t, s) \in PlacedPatches
<1>1. list[t] \in Seq(StepPatches)
  BY DEF TurnLists
<1>2. s \in 1..Len(list[t]) /\ list[t][s] \in StepPatches
  BY <1>1
<1>3. t \in Nat
  BY DEF TurnLists
<1> QED BY <1>1, <1>2, <1>3 DEF PlacedAt, PlacedPatches, StepPatches
(* No two patches from a point on have the same place (revert.ts:25-52).     *)
LEMMA PatchesArePlaced ==
  ASSUME NEW list \in TurnLists, NEW turn \in Nat \ {0}, NEW from
  PROVE  Placed(PatchesFrom(list, turn, from))
<1>1. ASSUME NEW p \in PatchesFrom(list, turn, from)
      PROVE  /\ p \in PlacedPatches
             /\ p.turn \in turn..Len(list) /\ p.step \in DOMAIN list[p.turn] /\ p = PlacedAt(list, p.turn, p.step)
  <2>1. PICK t \in turn..Len(list) : \E s \in DOMAIN list[t] : p = PlacedAt(list, t, s)
    BY PatchesAre
  <2>2. PICK s \in DOMAIN list[t] : p = PlacedAt(list, t, s)
    BY <2>1
  <2>3. t \in 1..Len(list)
    BY DEF TurnLists
  <2>4. p.turn = t /\ p.step = s
    BY <2>2 DEF PlacedAt
  <2> QED BY <2>2, <2>3, <2>4, ListTypes
<1> QED BY <1>1 DEF Placed
(* A later point has fewer patches after it (revert.ts:25-52).               *)
LEMMA FewerPatches ==
  ASSUME NEW list \in TurnLists, NEW turn \in Nat \ {0}, NEW t \in Nat, turn <= t, NEW from
  PROVE  PatchesFrom(list, t, from) \subseteq PatchesFrom(list, turn, 0)
<1> SUFFICES ASSUME NEW p \in PatchesFrom(list, t, from)
             PROVE  p \in PatchesFrom(list, turn, 0)
  OBVIOUS
<1>1. PICK u \in t..Len(list) : \E s \in DOMAIN list[u] : p = PlacedAt(list, u, s)
  BY PatchesAre
<1>2. PICK s \in DOMAIN list[u] : p = PlacedAt(list, u, s)
  BY <1>1
<1>3. u \in turn..Len(list) /\ u \in 1..Len(list)
  BY DEF TurnLists
<1>4. s >= 0
  BY <1>3, ListTypes
<1> QED BY <1>2, <1>3, <1>4, PatchesAre

(* When the turns from one on are removed, what remains and what was         *)
(* removed are together what there was, the first before the second          *)
(* (revert.ts:79-108).                                                       *)
LEMMA PatchesOfTwoParts ==
  ASSUME NEW list \in TurnLists, NEW k \in 1..(Len(list) + 1), NEW t \in 1..k,
         NEW new \in TurnLists, Len(new) = k, new[k] = <<>>,
         \A u \in 1..(k - 1) : new[u] = list[u]
  PROVE  /\ PatchesFrom(new, t, 0) \cup PatchesFrom(list, k, 0) = PatchesFrom(list, t, 0)
         /\ \A p \in PatchesFrom(new, t, 0), q \in PatchesFrom(list, k, 0) : Before(p, q)
<1>1. k \in Nat \ {0} /\ t \in Nat \ {0} /\ Len(list) \in Nat /\ k <= Len(list) + 1 /\ t <= k
  BY DEF TurnLists
<1>2. ASSUME NEW p \in PatchesFrom(new, t, 0)
      PROVE  \E u \in t..(k - 1) : \E s \in DOMAIN list[u] : s >= 0 /\ p = PlacedAt(list, u, s)
  <2>1. PICK u \in t..Len(new) : \E s \in DOMAIN new[u] : p = PlacedAt(new, u, s)
    <3>1. t \in Nat
      BY <1>1
    <3> QED BY <3>1, PatchesHavePlaces
  <2>2. PICK s \in DOMAIN new[u] : p = PlacedAt(new, u, s)
    BY <2>1
  <2>3. u # k
    BY <2>2
  <2>4. u \in t..(k - 1) /\ u \in 1..(k - 1) /\ u \in 1..Len(list)
    BY <1>1, <2>3
  <2>5. new[u] = list[u]
    BY <2>4
  <2>6. s >= 0
    BY <2>4, <2>5, ListTypes
  <2> QED BY <2>2, <2>4, <2>5, <2>6 DEF PlacedAt
<1>3. ASSUME NEW u \in t..(k - 1), NEW s \in DOMAIN list[u]
      PROVE  PlacedAt(list, u, s) \in PatchesFrom(new, t, 0)
  <2>1. u \in 1..(k - 1) /\ u \in t..Len(new) /\ u \in 1..Len(list)
    BY <1>1
  <2>2. new[u] = list[u]
    BY <2>1
  <2>3. PlacedAt(list, u, s) = PlacedAt(new, u, s) /\ s \in DOMAIN new[u]
    BY <2>2 DEF PlacedAt
  <2>4. s >= 0
    BY <2>1, ListTypes
  <2> QED BY <1>1, <2>1, <2>3, <2>4, PatchesAre
<1>4. PatchesFrom(list, k, 0) \subseteq PatchesFrom(list, t, 0)
  BY <1>1, FewerPatches
<1>5. PatchesFrom(new, t, 0) \subseteq PatchesFrom(list, t, 0)
  <2> SUFFICES ASSUME NEW p \in PatchesFrom(new, t, 0) PROVE p \in PatchesFrom(list, t, 0)
    OBVIOUS
  <2>1. PICK u \in t..(k - 1) : \E s \in DOMAIN list[u] : s >= 0 /\ p = PlacedAt(list, u, s)
    BY <1>2
  <2>2. u \in t..Len(list)
    BY <1>1
  <2> QED BY <1>1, <2>1, <2>2, PatchesAre
<1>6. ASSUME NEW p \in PatchesFrom(list, t, 0)
      PROVE  p \in PatchesFrom(new, t, 0) \cup PatchesFrom(list, k, 0)
  <2>1. PICK u \in t..Len(list) : \E s \in DOMAIN list[u] : p = PlacedAt(list, u, s)
    <3>1. t \in Nat
      BY <1>1
    <3> QED BY <3>1, PatchesHavePlaces
  <2>2. PICK s \in DOMAIN list[u] : p = PlacedAt(list, u, s)
    BY <2>1
  <2>3. u \in 1..Len(list)
    BY <1>1
  <2>4. s >= 0
    BY <2>3, ListTypes
  <2>5. CASE u < k
    <3>1. u \in t..(k - 1)
      BY <1>1, <2>5
    <3> QED BY <2>2, <3>1, <1>3
  <2>6. CASE u >= k
    <3>1. u \in k..Len(list)
      BY <1>1, <2>6
    <3> QED BY <1>1, <2>2, <2>4, <3>1, PatchesAre
  <2> QED BY <1>1, <2>5, <2>6
<1>7. ASSUME NEW p \in PatchesFrom(new, t, 0), NEW q \in PatchesFrom(list, k, 0)
      PROVE  Before(p, q)
  <2>1. PICK u \in t..(k - 1) : \E s \in DOMAIN list[u] : s >= 0 /\ p = PlacedAt(list, u, s)
    BY <1>2
  <2>2. PICK v \in k..Len(list) : \E s \in DOMAIN list[v] : q = PlacedAt(list, v, s)
    <3>1. k \in Nat
      BY <1>1
    <3> QED BY <3>1, PatchesHavePlaces
  <2>3. p.turn = u /\ q.turn = v
    BY <2>1, <2>2 DEF PlacedAt
  <2> QED BY <1>1, <2>3 DEF Before
<1> QED BY <1>4, <1>5, <1>6, <1>7

(* A patch added to the newest turn comes after every other                  *)
(* (processor.ts:253-265).                                                   *)
LEMMA PatchesAndOneMore ==
  ASSUME NEW list \in TurnLists, list # <<>>, NEW patch \in StepPatches,
         NEW n, n = Len(list), NEW m, m = Len(list[n]), NEW t \in 1..n,
         NEW new \in TurnLists,
         Len(new) = n, new[n] = Append(list[n], patch), \A u \in 1..n : u # n => new[u] = list[u],
         NEW one, one = PlacedAt(new, n, m + 1)
  PROVE  /\ PatchesFrom(new, t, 0) = PatchesFrom(list, t, 0) \cup {one}
         /\ \A p \in PatchesFrom(list, t, 0) : Before(p, one)
<1>1. n \in Nat \ {0} /\ t \in Nat \ {0} /\ t <= n /\ n \in 1..n
  BY DEF TurnLists
<1>2. Len(new) = n /\ new[n] = Append(list[n], patch) /\ \A u \in 1..n : u # n => new[u] = list[u]
  BY <1>1 DEF TurnLists
<1>3. list[n] \in Seq(StepPatches) /\ m \in Nat
  BY <1>1 DEF TurnLists
<1>4. DOMAIN new[n] = 1..(m + 1) /\ \A s \in 1..m : new[n][s] = list[n][s]
  BY <1>2, <1>3
<1>5. DOMAIN list[n] = 1..m
  BY <1>3
<1>6. ASSUME NEW u \in 1..n, NEW s \in DOMAIN list[u]
      PROVE  s \in DOMAIN new[u] /\ PlacedAt(new, u, s) = PlacedAt(list, u, s)
  <2>1. CASE u = n
    BY <1>3, <1>4, <1>5, <2>1 DEF PlacedAt
  <2>2. CASE u # n
    BY <1>2, <2>2 DEF PlacedAt
  <2> QED BY <2>1, <2>2
<1>7. ASSUME NEW p \in PatchesFrom(new, t, 0)
      PROVE  p \in PatchesFrom(list, t, 0) \cup {one}
  <2>0. Len(new) = n
    BY <1>2
  <2>1. PICK u \in t..Len(new) : \E s \in DOMAIN new[u] : p = PlacedAt(new, u, s)
    <3>1. t \in Nat
      BY <1>1
    <3> QED BY <3>1, PatchesHavePlaces
  <2>2. PICK s \in DOMAIN new[u] : p = PlacedAt(new, u, s)
    BY <2>1
  <2>3. u \in 1..n
    BY <1>1, <2>0
  <2>4. CASE u = n /\ s = m + 1
    BY <2>2, <2>4
  <2>5. CASE ~(u = n /\ s = m + 1)
    <3>1. s \in DOMAIN list[u]
      <4>1. CASE u = n
        BY <4>1, <2>5, <1>3, <1>4, <1>5
      <4>2. CASE u # n
        BY <4>2, <1>2, <2>3
      <4> QED BY <4>1, <4>2
    <3>2. p = PlacedAt(list, u, s)
      BY <1>6, <2>2, <2>3, <3>1
    <3>3. s >= 0
      BY <2>3, <3>1, ListTypes
    <3> QED BY <1>1, <3>1, <3>2, <3>3, PatchesAre
  <2> QED BY <2>4, <2>5
<1>8. ASSUME NEW p \in PatchesFrom(list, t, 0)
      PROVE  p \in PatchesFrom(new, t, 0) /\ Before(p, one)
  <2>1. PICK u \in t..n : \E s \in DOMAIN list[u] : p = PlacedAt(list, u, s)
    BY <1>1, PatchesAre
  <2>2. PICK s \in DOMAIN list[u] : p = PlacedAt(list, u, s)
    BY <2>1
  <2>3. u \in 1..n
    BY <1>1
  <2>4. s >= 0 /\ s \in 1..Len(list[u])
    BY <2>3, ListTypes
  <2>5. p = PlacedAt(new, u, s) /\ s \in DOMAIN new[u]
    BY <1>6, <2>2, <2>3
  <2>6. p \in PatchesFrom(new, t, 0)
    BY <1>1, <1>2, <2>4, <2>5, PatchesAre
  <2>7. p.turn = u /\ p.step = s /\ one.turn = n /\ one.step = m + 1
    BY <2>2 DEF PlacedAt
  <2> QED BY <1>1, <1>3, <2>3, <2>4, <2>6, <2>7 DEF Before
<1>9. one \in PatchesFrom(new, t, 0)
  <2>1. n \in t..Len(new)
    BY <1>1, <1>2
  <2>2. m + 1 \in DOMAIN new[n] /\ m + 1 >= 0
    BY <1>3, <1>4
  <2> QED BY <1>1, <2>1, <2>2, PatchesAre
<1> QED BY <1>7, <1>8, <1>9

-----------------------------------------------------------------------------
(* The invariant *)

RevertTypes ==
  /\ worktree \in Trees /\ latest \in Trees
  /\ turns \in TurnLists /\ begun \in Seq(Trees) /\ Len(begun) = Len(turns)
  /\ reverted = NoRevert \/ reverted \in [turn : 1..Len(turns), step : Nat, snapshot : Trees]
  /\ reverted = NoRevert => ~forward
  /\ apart \in BOOLEAN /\ forward \in BOOLEAN
  /\ writes \in 1..MaxWrites /\ userWrites \in Nat /\ reverts \in Nat

\* The patches lead from what the newest step left back to the start of each turn.
Chained ==
  userWrites = 0 /\ ~apart =>
    \A t \in 1..Len(turns) : CheckOut(PatchesFrom(turns, t, 0), latest) = begun[t]

\* Outside a revert the worktree is what the newest step left.
InPlace == userWrites = 0 /\ ~apart /\ reverted = NoRevert => worktree = latest

\* Within one, only files that the reverted turns have are different.
TakenBack ==
  userWrites = 0 /\ ~apart /\ reverted # NoRevert /\ ~forward =>
    \A f \in Files : Having(f, PatchesFrom(turns, reverted.turn, 0)) = {} => worktree[f] = latest[f]

\* What would be brought back is what the newest step left.
ToBringBack ==
  userWrites = 0 =>
    \A f \in Files : latest[f] # 0 =>
      (IF reverted = NoRevert THEN worktree ELSE reverted.snapshot)[f] = latest[f]

RevertInv == RevertTypes /\ Chained /\ InPlace /\ TakenBack /\ ToBringBack /\ UndoRestores
(* The invariant holds of a new session (revert.ts:1-30).                    *)
LEMMA RevertStarts == RevertInit => RevertInv
<1> SUFFICES ASSUME RevertInit PROVE RevertInv
  OBVIOUS
<1> USE RevertAssumption DEF RevertInit
<1>1. RevertTypes
  <2>1. \A f \in Files : worktree[f] \in 0..MaxWrites
    OBVIOUS
  <2>2. worktree \in Trees /\ latest \in Trees
    BY <2>1 DEF Trees
  <2>3. turns \in TurnLists /\ begun \in Seq(Trees) /\ Len(begun) = Len(turns)
    BY DEF TurnLists
  <2>4. writes \in 1..MaxWrites /\ userWrites \in Nat /\ reverts \in Nat
    OBVIOUS
  <2> QED BY <2>2, <2>3, <2>4 DEF RevertTypes
<1>2. Chained /\ InPlace /\ TakenBack /\ ToBringBack /\ UndoRestores
  BY DEF Chained, InPlace, TakenBack, ToBringBack, UndoRestores
<1> QED BY <1>1, <1>2 DEF RevertInv

(* A revert names a turn that is stored (revert.ts:22-45).                   *)
LEMMA RevertIsSome ==
  ASSUME RevertTypes, reverted # NoRevert
  PROVE  /\ reverted.turn \in 1..Len(turns) /\ reverted.step \in Nat /\ reverted.snapshot \in Trees
         /\ Len(turns) \in Nat
BY DEF RevertTypes, TurnLists
(* A step whose patch is stored keeps the invariant (processor.ts:253-265).  *)
LEMMA AgentSteps ==
  ASSUME RevertInv, AgentStep PROVE RevertInv'
<1> USE DEF RevertInv
<1>1. PICK changed \in SUBSET Files : \E after \in [changed -> {0, writes + 1}] :
         /\ \A f \in changed : after[f] # worktree[f]
         /\ worktree' = [f \in Files |-> IF f \in changed THEN after[f] ELSE worktree[f]]
         /\ turns' = [turns EXCEPT ![Len(turns)] = Append(@, [hash |-> worktree, files |-> changed])]
  BY DEF AgentStep
<1>2. PICK after \in [changed -> {0, writes + 1}] :
         /\ worktree' = [f \in Files |-> IF f \in changed THEN after[f] ELSE worktree[f]]
         /\ turns' = [turns EXCEPT ![Len(turns)] = Append(@, [hash |-> worktree, files |-> changed])]
  BY <1>1
<1>3. /\ reverted = NoRevert /\ turns # <<>> /\ writes < MaxWrites
      /\ latest' = worktree' /\ writes' = writes + 1
      /\ begun' = begun /\ reverted' = reverted /\ apart' = apart /\ forward' = forward
      /\ userWrites' = userWrites /\ reverts' = reverts
  BY DEF AgentStep
<1>4. PICK n : n = Len(turns)
  OBVIOUS
<1>5. PICK m : m = Len(turns[n])
  OBVIOUS
<1>6. PICK patch : patch = [hash |-> worktree, files |-> changed]
  OBVIOUS
<1>7. n \in Nat \ {0} /\ turns[n] \in Seq(StepPatches) /\ DOMAIN turns = 1..n
  BY <1>3, <1>4 DEF RevertTypes, TurnLists
<1>8. patch \in StepPatches
  BY <1>6 DEF StepPatches, RevertTypes
<1>9. turns' = [turns EXCEPT ![n] = Append(turns[n], patch)]
  BY <1>2, <1>4, <1>6
<1>10. /\ turns' \in TurnLists /\ Len(turns') = n
       /\ turns'[n] = Append(turns[n], patch) /\ \A u \in 1..n : u # n => turns'[u] = turns[u]
  <2>1. Append(turns[n], patch) \in Seq(StepPatches)
    BY <1>7, <1>8
  <2> QED BY <1>4, <1>7, <1>9, <2>1 DEF RevertTypes, TurnLists
<1>11. worktree' \in Trees
  <2>1. ASSUME NEW f \in Files PROVE worktree'[f] \in 0..MaxWrites
    <3>1. writes + 1 \in 0..MaxWrites /\ 0 \in 0..MaxWrites
      BY <1>3, RevertAssumption DEF RevertTypes
    <3>2. CASE f \in changed
      BY <1>2, <3>1, <3>2
    <3>3. CASE f \notin changed
      BY <1>2, <3>3 DEF RevertTypes, Trees
    <3> QED BY <3>2, <3>3
  <2> QED BY <1>2, <2>1 DEF Trees
<1>12. RevertTypes'
  BY <1>3, <1>4, <1>10, <1>11, RevertAssumption DEF RevertTypes
<1>13. Chained'
  <2> SUFFICES ASSUME userWrites = 0, ~apart, NEW t \in 1..n
               PROVE  CheckOut(PatchesFrom(turns', t, 0), worktree') = begun[t]
    BY <1>3, <1>10 DEF Chained
  <2>1. PICK one : one = PlacedAt(turns', n, m + 1)
    OBVIOUS
  <2>2. /\ PatchesFrom(turns', t, 0) = PatchesFrom(turns, t, 0) \cup {one}
        /\ \A p \in PatchesFrom(turns, t, 0) : Before(p, one)
    BY <1>3, <1>4, <1>5, <1>8, <1>10, <2>1, PatchesAndOneMore DEF RevertTypes
  <2>3. turns'[n][m + 1] = patch
    BY <1>5, <1>7, <1>8, <1>10
  <2>4. one.hash = worktree /\ one.files = changed
    BY <2>1, <2>3, <1>6 DEF PlacedAt
  <2>5. t \in Nat \ {0}
    BY <1>7
  <2>6. Placed(PatchesFrom(turns', t, 0))
    BY <1>10, <2>5, PatchesArePlaced
  <2>7. CheckOut({one}, worktree') = worktree
    <3>1. ASSUME NEW f \in Files PROVE CheckOut({one}, worktree')[f] = worktree[f]
      <4>1. CASE f \in changed
        <5>1. Having(f, {one}) = {one}
          BY <2>4, <4>1 DEF Having
        <5>2. First({one}) \in {one}
          <6>1. Placed({one})
            BY <2>2, <2>6 DEF Placed
          <6> QED BY <6>1, FirstIsThere
        <5> QED BY <2>4, <5>1, <5>2 DEF CheckOut
      <4>2. CASE f \notin changed
        <5>1. Having(f, {one}) = {}
          BY <2>4, <4>2 DEF Having
        <5> QED BY <1>2, <4>2, <5>1 DEF CheckOut
      <4> QED BY <4>1, <4>2
    <3> QED BY <3>1 DEF CheckOut, RevertTypes, Trees
  <2>8. CheckOut(PatchesFrom(turns', t, 0), worktree') = CheckOut(PatchesFrom(turns, t, 0), worktree)
    <3>1. \A p \in PatchesFrom(turns, t, 0), q \in {one} : Before(p, q)
      BY <2>2
    <3>2. Placed(PatchesFrom(turns, t, 0) \cup {one})
      BY <2>2, <2>6
    <3>3. CheckOut(PatchesFrom(turns, t, 0), CheckOut({one}, worktree'))
            = CheckOut(PatchesFrom(turns, t, 0) \cup {one}, worktree')
      BY <3>1, <3>2, CheckOutInTurn
    <3> QED BY <2>2, <2>7, <3>3
  <2>9. worktree = latest
    BY <1>3 DEF InPlace
  <2> QED BY <1>4, <2>8, <2>9 DEF Chained
<1>14. InPlace' /\ TakenBack' /\ ToBringBack' /\ UndoRestores'
  BY <1>3 DEF InPlace, TakenBack, ToBringBack, UndoRestores
<1> QED BY <1>12, <1>13, <1>14
(* The cleanup before a new message keeps the invariant (revert.ts:79-108).  *)
LEMMA TurnsStart ==
  ASSUME RevertInv, NewTurn PROVE RevertInv'
<1> USE DEF RevertInv
<1>1. /\ turns' = Append(Kept, <<>>)
      /\ begun' = Append(SubSeq(begun, 1, Len(Kept)), worktree)
      /\ latest' = worktree /\ worktree' = worktree
      /\ apart' = (apart \/ reverted.step # 0 \/ forward)
      /\ reverted' = NoRevert /\ forward' = FALSE
      /\ writes' = writes /\ userWrites' = userWrites /\ reverts' = reverts
  BY DEF NewTurn
<1>2. turns \in TurnLists /\ begun \in Seq(Trees) /\ Len(begun) = Len(turns) /\ Len(turns) \in Nat
  BY DEF RevertTypes, TurnLists
<1>3. Kept \in TurnLists /\ Len(Kept) \in 0..Len(turns)
  <2>1. CASE reverted = NoRevert
    BY <1>2, <2>1 DEF Kept
  <2>2. CASE reverted # NoRevert
    <3>1. reverted.turn \in 1..Len(turns) /\ reverted.step \in Nat
      BY <2>2, RevertIsSome
    <3>2. PICK some : some = SubSeq(turns, 1, reverted.turn - 1)
      OBVIOUS
    <3>3. some \in TurnLists /\ Len(some) = reverted.turn - 1
      BY <1>2, <3>1, <3>2 DEF TurnLists
    <3>4. Append(some, <<>>) \in TurnLists /\ Len(Append(some, <<>>)) = reverted.turn
      BY <3>1, <3>3 DEF TurnLists
    <3>5. Kept = some \/ Kept = Append(some, <<>>)
      BY <2>2, <3>2 DEF Kept
    <3>6. reverted.turn - 1 \in 0..Len(turns) /\ reverted.turn \in 0..Len(turns)
      BY <1>2, <3>1
    <3>7. CASE Kept = some
      BY <3>3, <3>6, <3>7
    <3>8. CASE Kept = Append(some, <<>>)
      BY <3>4, <3>6, <3>8
    <3> QED BY <3>5, <3>7, <3>8
  <2> QED BY <2>1, <2>2
<1>4. PICK kept : kept = Kept
  OBVIOUS
<1>5. turns' \in TurnLists /\ Len(turns') = Len(kept) + 1
  BY <1>1, <1>3, <1>4 DEF TurnLists
<1>6. worktree \in Trees
  BY DEF RevertTypes
<1>7. begun' \in Seq(Trees) /\ Len(begun') = Len(kept) + 1
  BY <1>1, <1>2, <1>3, <1>4, <1>6
<1>8. RevertTypes'
  BY <1>1, <1>5, <1>6, <1>7 DEF RevertTypes
<1>9. Chained'
  <2> SUFFICES ASSUME userWrites = 0, ~apart, reverted.step = 0, ~forward, NEW t \in 1..(Len(kept) + 1)
               PROVE  CheckOut(PatchesFrom(turns', t, 0), worktree) = begun'[t]
    BY <1>1, <1>5 DEF Chained
  <2>1. PICK k \in 1..(Len(turns) + 1) : k = Len(kept) + 1
    BY <1>2, <1>3, <1>4
  <2>2. /\ Len(turns') = k /\ turns'[k] = <<>>
        /\ \A u \in 1..(k - 1) : turns'[u] = turns[u]
        /\ worktree = CheckOut(PatchesFrom(turns, k, 0), latest)
    <3>1. Len(turns') = k /\ turns'[k] = <<>> /\ \A u \in 1..(k - 1) : turns'[u] = kept[u]
      BY <1>1, <1>3, <1>4, <2>1 DEF TurnLists
    <3>2. CASE reverted = NoRevert
      <4>1. kept = turns /\ k = Len(turns) + 1
        BY <1>4, <2>1, <3>2 DEF Kept
      <4>2. PatchesFrom(turns, k, 0) = {}
        <5> SUFFICES ASSUME NEW p \in PatchesFrom(turns, k, 0) PROVE FALSE
          OBVIOUS
        <5>1. \E u \in k..Len(turns) : \E s \in DOMAIN turns[u] : p = PlacedAt(turns, u, s)
          BY <1>2, <2>1, PatchesAre
        <5> QED BY <1>2, <4>1, <5>1
      <4>3. CheckOut({}, latest) = latest
        BY DEF CheckOut, Having, RevertTypes, Trees
      <4> QED BY <3>1, <3>2, <4>1, <4>2, <4>3 DEF InPlace
    <3>3. CASE reverted # NoRevert
      <4>1. reverted.turn \in 1..Len(turns)
        BY <3>3, RevertIsSome
      <4>2. kept = SubSeq(turns, 1, reverted.turn - 1)
        BY <1>4, <3>3 DEF Kept
      <4>3. k = reverted.turn /\ \A u \in 1..(k - 1) : kept[u] = turns[u]
        BY <1>2, <2>1, <4>1, <4>2 DEF TurnLists
      <4>4. worktree = begun[k]
        BY <3>3, <4>3 DEF UndoRestores
      <4>5. CheckOut(PatchesFrom(turns, k, 0), latest) = begun[k]
        BY <4>1, <4>3 DEF Chained
      <4> QED BY <3>1, <4>3, <4>4, <4>5
    <3> QED BY <3>2, <3>3
  <2>3. t \in 1..k /\ k \in Nat /\ t \in Nat \ {0}
    BY <1>2, <2>1
  <2>4. /\ PatchesFrom(turns', t, 0) \cup PatchesFrom(turns, k, 0) = PatchesFrom(turns, t, 0)
        /\ \A p \in PatchesFrom(turns', t, 0), q \in PatchesFrom(turns, k, 0) : Before(p, q)
    BY <1>2, <1>5, <2>2, <2>3, PatchesOfTwoParts
  <2>5. CheckOut(PatchesFrom(turns', t, 0), worktree) = CheckOut(PatchesFrom(turns, t, 0), latest)
    <3>1. Placed(PatchesFrom(turns, t, 0))
      BY <1>2, <2>3, PatchesArePlaced
    <3> QED BY <2>2, <2>4, <3>1, CheckOutInTurn
  <2>6. CASE t <= Len(turns) /\ t < k
    <3>1. CheckOut(PatchesFrom(turns, t, 0), latest) = begun[t]
      BY <1>2, <2>3, <2>6 DEF Chained
    <3>2. begun'[t] = begun[t]
      BY <1>1, <1>2, <1>3, <1>4, <2>1, <2>3, <2>6
    <3> QED BY <2>5, <3>1, <3>2
  <2>7. CASE t = k
    <3>1. begun'[t] = worktree
      BY <1>1, <1>2, <1>3, <1>4, <2>1, <2>7
    <3>2. PatchesFrom(turns', k, 0) = {}
      <4> SUFFICES ASSUME NEW p \in PatchesFrom(turns', k, 0) PROVE FALSE
        OBVIOUS
      <4>1. \E u \in k..Len(turns') : \E s \in DOMAIN turns'[u] : p = PlacedAt(turns', u, s)
        BY <1>5, <2>3, PatchesAre
      <4> QED BY <2>2, <2>3, <4>1
    <3>3. CheckOut({}, worktree) = worktree
      BY <1>6 DEF CheckOut, Having, Trees
    <3> QED BY <2>7, <3>1, <3>2, <3>3
  <2> QED BY <1>2, <2>1, <2>3, <2>6, <2>7
<1>10. InPlace' /\ TakenBack' /\ ToBringBack' /\ UndoRestores'
  BY <1>1 DEF InPlace, TakenBack, ToBringBack, UndoRestores
<1> QED BY <1>8, <1>9, <1>10
(* A revert keeps the invariant, from within one as well (revert.ts:22-65).  *)
LEMMA TurnsAreReverted ==
  ASSUME RevertInv, NEW turn \in 1..Len(turns), NEW from \in Nat, RevertTo(turn, from)
  PROVE  RevertInv'
<1> USE DEF RevertInv
<1>1. /\ worktree' = CheckOut(PatchesFrom(turns, turn, from), worktree)
      /\ reverted' = [turn |-> turn, step |-> from,
                      snapshot |-> IF reverted = NoRevert THEN worktree ELSE reverted.snapshot]
      /\ forward' = (forward \/ (reverted # NoRevert /\ turn > reverted.turn))
      /\ reverts' = reverts + 1
      /\ turns' = turns /\ begun' = begun /\ latest' = latest /\ apart' = apart
      /\ writes' = writes /\ userWrites' = userWrites
  BY DEF RevertTo
<1>2. turns \in TurnLists /\ Len(turns) \in Nat /\ turn \in Nat \ {0} /\ turn <= Len(turns)
  BY DEF RevertTypes, TurnLists
<1>3. worktree' \in Trees
  BY <1>1, <1>2, PatchesArePlaced, CheckOutIsTree DEF RevertTypes
<1>4. reverted'.snapshot \in Trees
  BY <1>1, RevertIsSome DEF RevertTypes
<1>5. reverted' \in [turn : 1..Len(turns), step : Nat, snapshot : Trees]
  BY <1>1, <1>4
<1>6. reverted' # NoRevert
  BY <1>1, <1>2 DEF NoRevert
<1>7. RevertTypes'
  BY <1>1, <1>3, <1>5, <1>6 DEF RevertTypes
<1>8. Chained' /\ InPlace' /\ ToBringBack'
  BY <1>1, <1>6 DEF Chained, InPlace, ToBringBack
<1>9. ASSUME userWrites = 0, ~apart, ~forward', NEW f \in Files,
             Having(f, PatchesFrom(turns, turn, 0)) = {}
      PROVE  worktree[f] = latest[f]
  <2>1. CASE reverted = NoRevert
    BY <1>9, <2>1 DEF InPlace
  <2>2. CASE reverted # NoRevert
    <3>1. reverted.turn \in Nat \ {0} /\ turn <= reverted.turn /\ ~forward
      <4>1. reverted.turn \in 1..Len(turns)
        BY <2>2, RevertIsSome
      <4>2. ~forward /\ ~(turn > reverted.turn)
        BY <1>1, <1>9, <2>2, Zenon
      <4> QED BY <1>2, <4>1, <4>2
    <3>2. PatchesFrom(turns, reverted.turn, 0) \subseteq PatchesFrom(turns, turn, 0)
      BY <1>2, <3>1, FewerPatches
    <3>3. Having(f, PatchesFrom(turns, reverted.turn, 0)) = {}
      BY <1>9, <3>2 DEF Having
    <3> QED BY <1>9, <2>2, <3>1, <3>3 DEF TakenBack
  <2> QED BY <2>1, <2>2
<1>10. TakenBack'
  <2> SUFFICES ASSUME userWrites = 0, ~apart, ~forward', NEW f \in Files,
                      Having(f, PatchesFrom(turns, turn, 0)) = {}
               PROVE  worktree'[f] = latest[f]
    BY <1>1 DEF TakenBack
  <2>1. Having(f, PatchesFrom(turns, turn, from)) = {}
    BY <1>2, FewerPatches DEF Having
  <2> QED BY <1>1, <1>9, <2>1 DEF CheckOut
<1>11. UndoRestores'
  <2> SUFFICES ASSUME userWrites = 0, ~apart, ~forward', from = 0
               PROVE  worktree' = begun[turn]
    BY <1>1 DEF UndoRestores
  <2>1. CheckOut(PatchesFrom(turns, turn, 0), latest) = begun[turn]
    BY DEF Chained
  <2>2. ASSUME NEW f \in Files
        PROVE  CheckOut(PatchesFrom(turns, turn, 0), worktree)[f] = CheckOut(PatchesFrom(turns, turn, 0), latest)[f]
    BY <1>9 DEF CheckOut
  <2>3. CheckOut(PatchesFrom(turns, turn, 0), worktree) = CheckOut(PatchesFrom(turns, turn, 0), latest)
    BY <2>2 DEF CheckOut
  <2> QED BY <1>1, <2>1, <2>3
<1> QED BY <1>7, <1>8, <1>10, <1>11
(* Taking a revert back keeps the invariant (revert.ts:67-77).               *)
LEMMA RevertsAreTakenBack ==
  ASSUME RevertInv, Unrevert PROVE RevertInv'
<1> USE DEF RevertInv
<1>1. /\ reverted # NoRevert
      /\ worktree' = CheckOutAll(reverted.snapshot, worktree)
      /\ apart' = (apart \/ worktree' # latest)
      /\ reverted' = NoRevert /\ forward' = FALSE
      /\ turns' = turns /\ begun' = begun /\ latest' = latest
      /\ writes' = writes /\ userWrites' = userWrites /\ reverts' = reverts
  BY DEF Unrevert
<1>2. worktree' \in Trees
  BY <1>1, RevertIsSome DEF CheckOutAll, RevertTypes, Trees
<1>3. RevertTypes'
  BY <1>1, <1>2 DEF RevertTypes
<1>4. Chained' /\ InPlace' /\ TakenBack' /\ UndoRestores'
  BY <1>1 DEF Chained, InPlace, TakenBack, UndoRestores
<1>5. ToBringBack'
  BY <1>1 DEF ToBringBack, CheckOutAll
<1> QED BY <1>3, <1>4, <1>5
(* What the user writes beside the agent keeps the invariant, which then     *)
(* claims the types only (revert.ts:22-77).                                  *)
LEMMA UsersWrite ==
  ASSUME RevertInv, NEW f \in Files, UserWrites(f) PROVE RevertInv'
<1> USE DEF RevertInv
<1>1. /\ writes < MaxWrites /\ writes' = writes + 1 /\ userWrites' = userWrites + 1
      /\ worktree' = [worktree EXCEPT ![f] = writes + 1]
      /\ turns' = turns /\ begun' = begun /\ latest' = latest /\ reverted' = reverted
      /\ apart' = apart /\ forward' = forward /\ reverts' = reverts
  BY DEF UserWrites
<1>2. worktree' \in Trees
  BY <1>1, RevertAssumption DEF RevertTypes, Trees
<1>3. RevertTypes'
  BY <1>1, <1>2, RevertAssumption DEF RevertTypes
<1>4. userWrites' # 0
  BY <1>1 DEF RevertTypes
<1>5. Chained' /\ InPlace' /\ TakenBack' /\ ToBringBack' /\ UndoRestores'
  BY <1>4 DEF Chained, InPlace, TakenBack, ToBringBack, UndoRestores
<1> QED BY <1>3, <1>5
(* Every step keeps the invariant (revert.ts:22-108).                        *)
LEMMA RevertSteps == RevertInv /\ [RevertNext]_revertVars => RevertInv'
<1> SUFFICES ASSUME RevertInv, [RevertNext]_revertVars PROVE RevertInv'
  OBVIOUS
<1>0. Len(turns) \in Nat /\ DOMAIN turns = 1..Len(turns)
  BY DEF RevertInv, RevertTypes, TurnLists
<1>1. CASE NewTurn
  BY <1>1, TurnsStart
<1>2. CASE AgentStep
  BY <1>2, AgentSteps
<1>3. CASE Undo
  BY <1>0, <1>3, TurnsAreReverted DEF Undo
<1>4. CASE Redo
  <2>1. CASE reverted.turn < Len(turns)
    <3>1. reverted.turn + 1 \in 1..Len(turns)
      BY <1>0, <1>4, <2>1, RevertIsSome DEF Redo, RevertInv
    <3> QED BY <1>4, <2>1, <3>1, TurnsAreReverted DEF Redo
  <2>2. CASE ~(reverted.turn < Len(turns))
    BY <1>4, <2>2, RevertsAreTakenBack DEF Redo
  <2> QED BY <2>1, <2>2
<1>5. CASE RevertToPart
  <2>1. PICK turn \in 1..Len(turns) : \E from \in 2..Len(turns[turn]) : RevertTo(turn, from)
    BY <1>0, <1>5 DEF RevertToPart
  <2>2. turns[turn] \in Seq(StepPatches)
    BY <2>1 DEF RevertInv, RevertTypes, TurnLists
  <2>3. PICK from \in Nat : RevertTo(turn, from)
    BY <2>1, <2>2
  <2> QED BY <2>3, TurnsAreReverted
<1>6. CASE \E f \in Files : UserWrites(f)
  BY <1>6, UsersWrite
<1>7. CASE UNCHANGED revertVars
  BY <1>7 DEF revertVars, RevertInv, RevertTypes, Chained, InPlace, TakenBack, ToBringBack, UndoRestores
<1> QED BY <1>1, <1>2, <1>3, <1>4, <1>5, <1>6, <1>7 DEF RevertNext
(* However often, in whatever order and over however many turns and steps    *)
(* the user undoes and redoes, an undo takes the worktree back to what it    *)
(* was when the undone message was sent, and a redo loses no file of the     *)
(* agent's, under the conditions the property names (revert.ts:22-108,       *)
(* snapshot/index.ts:74-123).                                                *)
THEOREM UndoTakesBack == RevertSpec => []UndoAndRedoRestore
<1>1. RevertInv => UndoAndRedoRestore
  <2> SUFFICES ASSUME RevertInv PROVE UndoAndRedoRestore
    OBVIOUS
  <2>1. reverted.turn \in 0..Len(turns)
    <3>1. CASE reverted = NoRevert
      BY <3>1 DEF NoRevert, RevertInv, RevertTypes, TurnLists
    <3>2. CASE reverted # NoRevert
      BY <3>2, RevertIsSome DEF RevertInv
    <3> QED BY <3>1, <3>2
  <2>2. RevertTypeOK
    BY <2>1 DEF RevertInv, RevertTypes, RevertTypeOK, Trees
  <2>3. UnrevertRestores
    BY DEF RevertInv, ToBringBack, UnrevertRestores
  <2> QED BY <2>2, <2>3 DEF RevertInv, UndoAndRedoRestore
<1> QED BY <1>1, RevertStarts, RevertSteps, PTL DEF RevertSpec

-----------------------------------------------------------------------------
(* The terminal's copy of the sessions (sync.tsx) over the server's records  *)
(* and its stream of events (server.ts, bus/index.ts).                       *)

TerminalSpec == (ServerInit /\ TerminalInit) /\ [][TerminalNext]_<<serverVars, terminalVars>>

Versions == [Records -> 0..MaxVersion]
Updates == [type : {"updated"}, key : Records, version : 1..MaxVersion, late : BOOLEAN]
Removals == [type : {"removed"}, key : Records, version : {0}, late : BOOLEAN]
StreamEvents == Updates \cup Removals \cup {Disposed}

JobRecords ==
  [op : {"create", "update"}, session : Rooms, value : 1..MaxVersion]
    \cup [op : {"remove"}, todo : Seq(Rooms) \ {<<>>}, at : {"get", "messages", "record"}]

\* Records whose creation is still to be told.
Creating == {Info(j.session) : j \in {i \in jobs : i.op = "create"}}

\* The last event that waits about a record says what the server has, or that
\* it was overtaken there, unless the record is excused.
LastIn(q, i) == \A j \in DOMAIN q : j > i => q[j].key # q[i].key
WaitsRight(q, excused, kept) ==
  \A i \in DOMAIN q :
    q[i].type # "disposed" /\ LastIn(q, i) /\ q[i].key \notin excused
      => q[i].late \/ q[i].version = kept[q[i].key]

\* A record is shown with a version, or was pushed out.
ShownWith(acc, k, version) == acc.view[k] = version \/ k \in acc.pushed
ShowsRight(keys, excused, kept, acc) ==
  \A k \in Records : k \notin keys \cup excused => ShownWith(acc, k, kept[k])

FewShown(v) == \A s \in Talking : Cardinality(ShownIn(v, s)) <= MaxShown

LoadRecords ==
  [kind : {"list", "status", "sync"}, session : Talking \cup {Project}, of : SUBSET Records, id : Nat,
   listed : BOOLEAN, got : SUBSET (Records \X (0..MaxVersion)), failed : BOOLEAN]

\* A session is fetched with no more messages than are kept.
ListedPosts(l) == {m \in Posts : Post(l.session, m) \in l.of}
LoadFits(l) ==
  /\ l \in LoadRecords
  /\ l.kind = "sync" =>
       /\ l.session \in Talking
       /\ ~l.listed => l.of = {Info(l.session)}
       /\ \A r \in l.got : r[1] \in l.of
       /\ Cardinality(ListedPosts(l)) <= MaxShown

ServerData ==
  /\ stored \in Versions /\ created \subseteq Rooms /\ jobs \subseteq JobRecords
  /\ stream \in Seq(StreamEvents) /\ subscribed \in BOOLEAN /\ untold \subseteq Records
TerminalData ==
  /\ view \in Versions /\ FewShown(view) /\ pushed \subseteq Records
  /\ batch \in Seq(StreamEvents) /\ timer = (batch # <<>>)
  /\ synced \subseteq Rooms /\ loaded \in Nat /\ due \subseteq Bootstrap
  /\ \A l \in loads : LoadFits(l)
Pending == batch \o stream
Excused == untold \cup Creating
EventsRight == WaitsRight(Pending, Excused, stored)
CopyRight == ShowsRight(KeysOf(Pending), Excused, stored, [view |-> view, pushed |-> pushed])
SyncInv == ServerData /\ TerminalData /\ EventsRight /\ CopyRight

-----------------------------------------------------------------------------
(* Events and keys *)

(* A record is no event without one, and a message's record names its        *)
(* session (session/index.ts:330-336).                                       *)
LEMMA RecordIs ==
  ASSUME NEW k \in Records
  PROVE  /\ k # NoRecord
         /\ k[1] = "message" => \E s \in Talking, m \in Posts : k = Post(s, m)
<1> USE DEF Info, Post, PartOf, Question, StatusOf, NoRecord
<1>1. CASE k \in Infos
  BY <1>1 DEF Infos
<1>2. CASE k \in InMemory
  BY <1>2 DEF InMemory
<1>3. CASE k \in UNION {Written(s) : s \in Talking}
  BY <1>3 DEF Written
<1> QED BY <1>1, <1>2, <1>3 DEF Records

(* The names of the records of the project's sessions                        *)
(* (session/index.ts:181-391).                                               *)
LEMMA RecordsAre ==
  /\ \A s \in Rooms : Info(s) \in Records
  /\ \A s \in Talking, m \in Posts : Post(s, m) \in Records /\ PartOf(s, m) \in Records
  /\ \A s \in Talking : Question(s) \in Records /\ StatusOf(s) \in Records
BY DEF Records, Infos, InMemory, Written

(* What an event on the stream says (bus/index.ts:41-64).                    *)
LEMMA EventIs ==
  ASSUME NEW e \in StreamEvents
  PROVE  /\ e.type \in {"updated", "removed", "disposed"}
         /\ e.type = "disposed" => e = Disposed /\ e.key = NoRecord
         /\ e.type # "disposed" => e.key \in Records /\ e.key # NoRecord /\ e.version \in 0..MaxVersion
         /\ e.type = "updated" => e.version \in 1..MaxVersion
         /\ e.type = "removed" => e.version = 0
         /\ e.late \in BOOLEAN
<1>1. CASE e \in Updates
  BY <1>1, RecordIs, ServerAssumption DEF Updates
<1>2. CASE e \in Removals
  BY <1>2, RecordIs, ServerAssumption DEF Removals
<1>3. CASE e = Disposed
  BY <1>3 DEF Disposed
<1> QED BY <1>1, <1>2, <1>3 DEF StreamEvents

(* The records some events are about (bus/index.ts:41-64).                   *)
LEMMA KeysAre ==
  ASSUME NEW q \in Seq(StreamEvents), NEW k \in Records
  PROVE  k \in KeysOf(q) <=> \E i \in DOMAIN q : q[i].key = k
BY RecordIs DEF KeysOf

(* Events are about records (bus/index.ts:41-64).                            *)
LEMMA KeysAreRecords ==
  ASSUME NEW q \in Seq(StreamEvents)
  PROVE  KeysOf(q) \subseteq Records
<1> SUFFICES ASSUME NEW i \in DOMAIN q, q[i].key # NoRecord PROVE q[i].key \in Records
  BY DEF KeysOf
<1>1. q[i] \in StreamEvents
  OBVIOUS
<1> QED BY <1>1, EventIs

(* Events before events are about the records of either (sdk.tsx:46-58).     *)
LEMMA KeysOfBoth ==
  ASSUME NEW q \in Seq(StreamEvents), NEW r \in Seq(StreamEvents), NEW all, all = q \o r, NEW k \in Records
  PROVE  k \in KeysOf(all) <=> k \in KeysOf(q) \/ k \in KeysOf(r)
<1>1. all \in Seq(StreamEvents) /\ Len(all) = Len(q) + Len(r) /\ Len(q) \in Nat /\ Len(r) \in Nat
  OBVIOUS
<1>2. \A i \in 1..Len(q) : i \in 1..Len(all) /\ all[i] = q[i]
  OBVIOUS
<1>3. \A i \in 1..Len(r) : Len(q) + i \in 1..Len(all) /\ all[Len(q) + i] = r[i]
  BY <1>1
<1>4. \A i \in 1..Len(all) : i \in 1..Len(q) \/ \E j \in 1..Len(r) : i = Len(q) + j
  <2> TAKE i \in 1..Len(all)
  <2>1. CASE i <= Len(q)
    BY <1>1, <2>1
  <2>2. CASE i > Len(q)
    <3>1. i - Len(q) \in 1..Len(r) /\ i = Len(q) + (i - Len(q))
      BY <1>1, <2>2
    <3> QED BY <3>1
  <2> QED BY <1>1, <2>1, <2>2
<1>5. /\ DOMAIN all = 1..Len(all) /\ DOMAIN q = 1..Len(q) /\ DOMAIN r = 1..Len(r)
      /\ k \in KeysOf(all) <=> \E i \in DOMAIN all : all[i].key = k
      /\ k \in KeysOf(q) <=> \E i \in DOMAIN q : q[i].key = k
      /\ k \in KeysOf(r) <=> \E i \in DOMAIN r : r[i].key = k
  <2>1. k # NoRecord
    BY RecordIs
  <2> QED BY <1>1, <2>1 DEF KeysOf
<1>6. ASSUME k \in KeysOf(all) PROVE k \in KeysOf(q) \/ k \in KeysOf(r)
  <2>1. PICK i \in 1..Len(all) : all[i].key = k
    BY <1>5, <1>6
  <2>2. CASE i \in 1..Len(q)
    BY <1>2, <1>5, <2>1, <2>2
  <2>3. CASE i \notin 1..Len(q)
    <3>1. PICK j \in 1..Len(r) : i = Len(q) + j
      BY <1>4, <2>3
    <3>2. r[j].key = k
      BY <1>3, <2>1, <3>1
    <3> QED BY <1>5, <3>2
  <2> QED BY <2>2, <2>3
<1>7. ASSUME k \in KeysOf(q) PROVE k \in KeysOf(all)
  BY <1>2, <1>5, <1>7
<1>8. ASSUME k \in KeysOf(r) PROVE k \in KeysOf(all)
  BY <1>3, <1>5, <1>8
<1> QED BY <1>6, <1>7, <1>8

-----------------------------------------------------------------------------
(* What waits, when the server writes *)

(* Nothing is told and what changes is excused: what waits stays right       *)
(* (server.ts:549-570).                                                      *)
LEMMA WaitsOn ==
  ASSUME NEW q \in Seq(StreamEvents), NEW excused, NEW kept, NEW excused2, NEW kept2,
         WaitsRight(q, excused, kept),
         \A r \in Records : r \notin excused2 => r \notin excused /\ kept2[r] = kept[r]
  PROVE  WaitsRight(q, excused2, kept2)
<1> SUFFICES ASSUME NEW i \in DOMAIN q, q[i].type # "disposed", LastIn(q, i), q[i].key \notin excused2
             PROVE  q[i].late \/ q[i].version = kept2[q[i].key]
  BY DEF WaitsRight
<1>1. q[i] \in StreamEvents
  OBVIOUS
<1>2. q[i].key \in Records
  BY <1>1, EventIs
<1> QED BY <1>2 DEF WaitsRight

(* An event that says what was written waits as well (bus/index.ts:41-64).   *)
LEMMA WaitsAlso ==
  ASSUME NEW q \in Seq(StreamEvents), NEW excused, NEW kept, NEW excused2, NEW kept2, NEW e \in StreamEvents,
         WaitsRight(q, excused, kept),
         e.type = "disposed" \/ e.late \/ e.version = kept2[e.key],
         \A r \in Records : r # e.key /\ r \notin excused2 => r \notin excused /\ kept2[r] = kept[r]
  PROVE  WaitsRight(Append(q, e), excused2, kept2)
<1> DEFINE p == Append(q, e)
<1>1. Len(p) = Len(q) + 1 /\ p[Len(q) + 1] = e /\ \A i \in 1..Len(q) : p[i] = q[i]
  OBVIOUS
<1>2. DOMAIN p = 1..(Len(q) + 1) /\ DOMAIN q = 1..Len(q) /\ Len(q) \in Nat
  BY <1>1
<1> HIDE DEF p
<1> SUFFICES ASSUME NEW i \in DOMAIN p, p[i].type # "disposed", LastIn(p, i), p[i].key \notin excused2
             PROVE  p[i].late \/ p[i].version = kept2[p[i].key]
  BY DEF WaitsRight, p
<1>3. CASE i = Len(q) + 1
  BY <1>1, <1>3
<1>4. CASE i \in 1..Len(q)
  <2>1. p[i] = q[i] /\ q[i] \in StreamEvents /\ q[i].key \in Records
    BY <1>1, <1>4, EventIs
  <2>2. q[i].key # e.key
    BY <1>1, <1>2, <1>4, <2>1 DEF LastIn
  <2>3. LastIn(q, i)
    BY <1>1, <1>2, <1>4, <2>1 DEF LastIn
  <2> QED BY <1>2, <1>4, <2>1, <2>2, <2>3 DEF WaitsRight
<1> QED BY <1>2, <1>3, <1>4

-----------------------------------------------------------------------------
(* Events are applied *)

Accs == [view : Versions, pushed : SUBSET Records]
AccFits(acc) == acc \in Accs /\ FewShown(acc.view)

(* A session's messages are finitely many (sync.tsx:180-200).                *)
LEMMA ShownIsFinite ==
  ASSUME NEW v, NEW s
  PROVE  ShownIn(v, s) \subseteq Posts /\ IsFiniteSet(ShownIn(v, s)) /\ Cardinality(ShownIn(v, s)) \in Nat
<1>1. IsFiniteSet(Posts)
  BY FS_Interval, ServerAssumption DEF Posts
<1>2. ShownIn(v, s) \subseteq Posts
  BY DEF ShownIn
<1> QED BY <1>1, <1>2, FS_Subset, FS_CardinalityType

(* Fewer messages than are kept are few (sync.tsx:180-200).                  *)
LEMMA FewerAreFew ==
  ASSUME NEW v, NEW w, NEW s, ShownIn(w, s) \subseteq ShownIn(v, s), Cardinality(ShownIn(v, s)) <= MaxShown
  PROVE  Cardinality(ShownIn(w, s)) <= MaxShown
<1>1. Cardinality(ShownIn(w, s)) <= Cardinality(ShownIn(v, s))
  BY ShownIsFinite, FS_Subset
<1> QED BY <1>1, ShownIsFinite, TerminalAssumption

\* What one event does to what is shown of the records.
Turns(e, a, b) ==
  /\ AccFits(b)
  /\ \A k \in Records :
       /\ k = e.key => ShownWith(b, k, e.version)
       /\ k # e.key => \A v : ShownWith(a, k, v) => ShownWith(b, k, v)

(* Some messages have an oldest one (sync.tsx:196).                          *)
LEMMA OldestIs ==
  ASSUME NEW S \in SUBSET Posts, S # {}
  PROVE  LET oldest == CHOOSE m \in S : \A n \in S : m <= n
         IN oldest \in S
<1>1. S \in SUBSET Nat
  BY ServerAssumption DEF Posts
<1>2. \E m \in S : \A n \in S : m <= n
  BY <1>1, LeastOf
<1> QED BY <1>2

(* A record that is put into its list is shown, and changes no other except  *)
(* the message it pushes out (sync.tsx:160-200).                             *)
LEMMA UpsertTurns ==
  ASSUME NEW acc, AccFits(acc), NEW e \in Updates
  PROVE  Turns(e, acc, Upsert(acc, e))
<1>1. e.key \in Records /\ e.version \in 0..MaxVersion /\ e.version # 0
  BY ServerAssumption DEF Updates
<1>2. acc.view \in Versions /\ acc.pushed \subseteq Records /\ FewShown(acc.view)
  BY DEF AccFits, Accs
<1>3. PICK w : w = [acc.view EXCEPT ![e.key] = e.version]
  OBVIOUS
<1>4. w \in Versions /\ w[e.key] = e.version /\ \A k \in Records : k # e.key => w[k] = acc.view[k]
  BY <1>1, <1>2, <1>3 DEF Versions
<1>5. PICK s : s = e.key[2]
  OBVIOUS
<1>6. PICK oldest : oldest = CHOOSE m \in ShownIn(w, s) : \A n \in ShownIn(w, s) : m <= n
  OBVIOUS
<1> DEFINE full == e.key[1] = "message" /\ acc.view[e.key] = 0 /\ Cardinality(ShownIn(w, s)) > MaxShown
<1>7. Upsert(acc, e) = IF full
     THEN [view |-> [w EXCEPT ![Post(s, oldest)] = 0], pushed |-> (acc.pushed \ {e.key}) \cup {Post(s, oldest)}]
     ELSE [view |-> w, pushed |-> acc.pushed \ {e.key}]
  BY <1>3, <1>5, <1>6 DEF Upsert
<1>8. ASSUME NEW t \in Talking, ~(e.key[1] = "message" /\ acc.view[e.key] = 0 /\ e.key[2] = t)
      PROVE  ShownIn(w, t) = ShownIn(acc.view, t)
  <2> SUFFICES ASSUME NEW m \in Posts PROVE w[Post(t, m)] # 0 <=> acc.view[Post(t, m)] # 0
    BY DEF ShownIn
  <2>1. Post(t, m) \in Records
    BY RecordsAre
  <2>2. CASE Post(t, m) # e.key
    BY <1>4, <2>1, <2>2
  <2>3. CASE Post(t, m) = e.key
    <3>1. e.key[1] = "message" /\ e.key[2] = t
      BY <2>3 DEF Post
    <3> QED BY <1>1, <1>4, <1>8, <2>3, <3>1
  <2> QED BY <2>2, <2>3
<1>9. CASE ~full
  <2>1. Upsert(acc, e) = [view |-> w, pushed |-> acc.pushed \ {e.key}]
    BY <1>7, <1>9
  <2>2. FewShown(w)
    <3> SUFFICES ASSUME NEW t \in Talking PROVE Cardinality(ShownIn(w, t)) <= MaxShown
      BY DEF FewShown
    <3>1. CASE e.key[1] = "message" /\ acc.view[e.key] = 0 /\ e.key[2] = t
      BY <1>5, <1>9, <3>1, ShownIsFinite, TerminalAssumption
    <3>2. CASE ~(e.key[1] = "message" /\ acc.view[e.key] = 0 /\ e.key[2] = t)
      BY <1>2, <1>8, <3>2 DEF FewShown
    <3> QED BY <3>1, <3>2
  <2> QED BY <1>1, <1>2, <1>4, <2>1, <2>2 DEF Turns, AccFits, Accs, ShownWith
<1>10. CASE full
  <2>1. PICK m \in Posts : s \in Talking /\ e.key = Post(s, m)
    <3>1. PICK t \in Talking, m \in Posts : e.key = Post(t, m)
      BY <1>1, <1>10, RecordIs
    <3>2. t = s
      BY <1>5, <3>1 DEF Post
    <3> QED BY <3>1, <3>2
  <2>2. m \in ShownIn(w, s)
    BY <1>1, <1>4, <2>1 DEF ShownIn
  <2>3. oldest \in ShownIn(w, s) /\ oldest \in Posts
    <3>1. ShownIn(w, s) \in SUBSET Posts /\ ShownIn(w, s) # {}
      BY <2>2, ShownIsFinite
    <3> QED BY <1>6, <3>1, OldestIs
  <2>4. Post(s, oldest) \in Records
    BY <2>1, <2>3, RecordsAre
  <2>5. PICK b : b = [view |-> [w EXCEPT ![Post(s, oldest)] = 0],
                      pushed |-> (acc.pushed \ {e.key}) \cup {Post(s, oldest)}]
    OBVIOUS
  <2>6. b \in Accs /\ \A k \in Records : k # Post(s, oldest) => b.view[k] = w[k]
    <3>1. [w EXCEPT ![Post(s, oldest)] = 0] \in Versions
      BY <1>4, <2>4, ServerAssumption DEF Versions
    <3> QED BY <1>1, <1>2, <1>4, <2>4, <2>5, <3>1 DEF Accs, Versions
  <2>7. b.view[Post(s, oldest)] = 0 /\ Post(s, oldest) \in b.pushed /\ acc.pushed \ {e.key} \subseteq b.pushed
    BY <1>4, <2>4, <2>5 DEF Versions
  <2>8. FewShown(b.view)
    <3> SUFFICES ASSUME NEW t \in Talking PROVE Cardinality(ShownIn(b.view, t)) <= MaxShown
      BY DEF FewShown
    <3>1. CASE t # s
      <4>1. ShownIn(w, t) = ShownIn(acc.view, t)
        BY <1>5, <1>8, <3>1
      <4>2. ShownIn(b.view, t) = ShownIn(w, t)
        <5> SUFFICES ASSUME NEW n \in Posts PROVE b.view[Post(t, n)] = w[Post(t, n)]
          BY DEF ShownIn
        <5>1. Post(t, n) # Post(s, oldest) /\ Post(t, n) \in Records
          BY <3>1, RecordsAre DEF Post
        <5> QED BY <5>1, <2>6
      <4> QED BY <4>1, <4>2, <1>2 DEF FewShown
    <3>2. CASE t = s
      <4>1. ShownIn(w, s) = ShownIn(acc.view, s) \cup {m} /\ m \notin ShownIn(acc.view, s)
        <5>1. \A n \in Posts : n # m => w[Post(s, n)] = acc.view[Post(s, n)]
          <6> SUFFICES ASSUME NEW n \in Posts, n # m PROVE w[Post(s, n)] = acc.view[Post(s, n)]
            OBVIOUS
          <6>1. Post(s, n) # e.key /\ Post(s, n) \in Records
            BY <2>1, RecordsAre DEF Post
          <6> QED BY <6>1, <1>4
        <5> QED BY <5>1, <2>1, <2>2, <1>10 DEF ShownIn
      <4>2. ShownIn(b.view, s) = ShownIn(w, s) \ {oldest}
        <5>1. \A n \in Posts : n # oldest => b.view[Post(s, n)] = w[Post(s, n)]
          <6> SUFFICES ASSUME NEW n \in Posts, n # oldest PROVE b.view[Post(s, n)] = w[Post(s, n)]
            OBVIOUS
          <6>1. Post(s, n) # Post(s, oldest) /\ Post(s, n) \in Records
            BY <2>1, RecordsAre DEF Post
          <6> QED BY <6>1, <2>6
        <5> QED BY <5>1, <2>7 DEF ShownIn
      <4>3. Cardinality(ShownIn(w, s)) = Cardinality(ShownIn(acc.view, s)) + 1
        BY <4>1, ShownIsFinite, FS_AddElement
      <4>4. Cardinality(ShownIn(b.view, s)) = Cardinality(ShownIn(w, s)) - 1
        BY <2>3, <4>2, ShownIsFinite, FS_RemoveElement
      <4>5. Cardinality(ShownIn(acc.view, s)) <= MaxShown
        BY <1>2, <2>1 DEF FewShown
      <4> QED BY <3>2, <4>3, <4>4, <4>5, ShownIsFinite
    <3> QED BY <3>1, <3>2
  <2>9. Upsert(acc, e) = b
    BY <1>7, <1>10, <2>5
  <2>10. ASSUME NEW k \in Records
         PROVE  /\ k = e.key => ShownWith(b, k, e.version)
                /\ k # e.key => \A v : ShownWith(acc, k, v) => ShownWith(b, k, v)
    <3>1. CASE k = Post(s, oldest)
      BY <2>7, <3>1 DEF ShownWith
    <3>2. CASE k # Post(s, oldest)
      BY <1>4, <2>6, <2>7, <3>2 DEF ShownWith
    <3> QED BY <3>1, <3>2
  <2> QED BY <2>6, <2>8, <2>9, <2>10 DEF Turns, AccFits
<1> QED BY <1>9, <1>10

(* An event shows its record as it says and changes no other, except the     *)
(* message it pushes out (sync.tsx:97-248).                                  *)
LEMMA ApplyTurns ==
  ASSUME NEW acc, AccFits(acc), NEW e \in StreamEvents
  PROVE  Turns(e, acc, ApplyEvent(acc, e))
<1>1. CASE e \in Updates
  BY <1>1, UpsertTurns DEF ApplyEvent, Updates
<1>2. CASE e = Disposed
  <2>1. ApplyEvent(acc, e) = acc /\ e.key = NoRecord
    BY <1>2 DEF ApplyEvent, Disposed
  <2> QED BY <2>1, RecordIs DEF Turns
<1>3. CASE e \in Removals
  <2>1. e.key \in Records /\ e.version = 0 /\ e.type = "removed"
    BY <1>3 DEF Removals
  <2>2. PICK b : b = [view |-> [acc.view EXCEPT ![e.key] = 0], pushed |-> acc.pushed \ {e.key}]
    OBVIOUS
  <2>3. ApplyEvent(acc, e) = b
    BY <2>1, <2>2 DEF ApplyEvent
  <2>4. acc.view \in Versions /\ acc.pushed \subseteq Records /\ FewShown(acc.view)
    BY DEF AccFits, Accs
  <2>5. b \in Accs /\ b.view[e.key] = 0 /\ \A k \in Records : k # e.key => b.view[k] = acc.view[k]
    <3>1. [acc.view EXCEPT ![e.key] = 0] \in Versions
      BY <2>1, <2>4, ServerAssumption DEF Versions
    <3> QED BY <2>1, <2>2, <2>4, <3>1 DEF Accs, Versions
  <2>6. FewShown(b.view)
    <3> SUFFICES ASSUME NEW t \in Talking PROVE Cardinality(ShownIn(b.view, t)) <= MaxShown
      BY DEF FewShown
    <3>1. ShownIn(b.view, t) \subseteq ShownIn(acc.view, t)
      <4> SUFFICES ASSUME NEW m \in Posts, b.view[Post(t, m)] # 0 PROVE acc.view[Post(t, m)] # 0
        BY DEF ShownIn
      <4>1. Post(t, m) \in Records
        BY RecordsAre
      <4> QED BY <2>5, <4>1
    <3> QED BY <2>4, <3>1, FewerAreFew DEF FewShown
  <2> QED BY <2>1, <2>2, <2>3, <2>5, <2>6 DEF Turns, AccFits, ShownWith
<1> QED BY <1>1, <1>2, <1>3 DEF StreamEvents

-----------------------------------------------------------------------------
(* A batch is applied, one event after the other *)

ScreenUpTo(start, events, k, f) ==
  f = [i \in 0..k |-> IF i = 0 THEN start ELSE ApplyEvent(f[i - 1], events[i])]

(* The recursive function of what is shown after each event exists           *)
(* (sdk.tsx:38-43).                                                          *)
LEMMA ScreenExists ==
  ASSUME NEW start, NEW events, NEW n \in Nat
  PROVE  \E f : ScreenUpTo(start, events, n, f)
<1> DEFINE S == {k \in Nat : ~\E f : ScreenUpTo(start, events, k, f)}
<1>1. SUFFICES ASSUME S # {} PROVE FALSE
  OBVIOUS
<1>2. PICK k \in S : \A m \in S : k <= m
  <2>1. S \in SUBSET Nat
    OBVIOUS
  <2> HIDE DEF S
  <2> QED BY <1>1, <2>1, LeastOf
<1>3. CASE k = 0
  <2> DEFINE f == [i \in 0..0 |-> start]
  <2>1. f = [i \in 0..0 |-> IF i = 0 THEN start ELSE ApplyEvent(f[i - 1], events[i])]
    OBVIOUS
  <2>2. ScreenUpTo(start, events, 0, f)
    BY <2>1 DEF ScreenUpTo
  <2> HIDE DEF f
  <2> QED BY <1>3, <2>2
<1>4. CASE k # 0
  <2>1. k - 1 \in Nat /\ k - 1 \notin S
    BY <1>2, <1>4
  <2>2. PICK f : ScreenUpTo(start, events, k - 1, f)
    BY <2>1
  <2> DEFINE g == [i \in 0..k |-> IF i = k THEN ApplyEvent(f[k - 1], events[k]) ELSE f[i]]
  <2>3. \A i \in 0..(k - 1) : f[i] = IF i = 0 THEN start ELSE ApplyEvent(f[i - 1], events[i])
    BY <2>2 DEF ScreenUpTo
  <2>4. \A i \in 0..k : g[i] = IF i = 0 THEN start ELSE ApplyEvent(g[i - 1], events[i])
    <3> TAKE i \in 0..k
    <3>1. CASE i = k
      BY <3>1, <1>4, <2>1
    <3>2. CASE i # k
      BY <3>2, <2>3, <2>1
    <3> QED BY <3>1, <3>2
  <2>5. g = [i \in 0..k |-> IF i = 0 THEN start ELSE ApplyEvent(g[i - 1], events[i])]
    BY <2>4
  <2>6. ScreenUpTo(start, events, k, g)
    BY <2>5 DEF ScreenUpTo
  <2> HIDE DEF g
  <2> QED BY <1>2, <2>6
<1> QED BY <1>3, <1>4

(* What is shown after each event follows from what was shown before it      *)
(* (sdk.tsx:38-43).                                                          *)
LEMMA ScreenIs ==
  ASSUME NEW start, NEW events \in Seq(StreamEvents)
  PROVE  ScreenUpTo(start, events, Len(events), Screen(start, events))
<1> DEFINE f == CHOOSE after : after = [i \in 0..Len(events) |->
                  IF i = 0 THEN start ELSE ApplyEvent(after[i - 1], events[i])]
<1>1. Screen(start, events) = f
  BY Zenon DEF Screen
<1>2. \E g : g = [i \in 0..Len(events) |-> IF i = 0 THEN start ELSE ApplyEvent(g[i - 1], events[i])]
  <2>1. Len(events) \in Nat
    OBVIOUS
  <2>2. \E g : ScreenUpTo(start, events, Len(events), g)
    BY <2>1, ScreenExists
  <2> QED BY <2>2, Zenon DEF ScreenUpTo
<1>3. ScreenUpTo(start, events, Len(events), f)
  BY <1>2, Zenon DEF ScreenUpTo
<1> HIDE DEF f
<1> QED BY <1>1, <1>3

\* After n events each record is shown as the last of them about it says, or
\* as it was, unless it was pushed out.
ShowsEvents(start, events, n, acc) ==
  /\ AccFits(acc)
  /\ \A k \in Records :
       /\ (\A i \in 1..n : events[i].key # k) => \A v : ShownWith(start, k, v) => ShownWith(acc, k, v)
       /\ \A i \in 1..n :
            events[i].key = k /\ (\A j \in (i + 1)..n : events[j].key # k) => ShownWith(acc, k, events[i].version)

(* After some events, each record is shown as the last of them about it      *)
(* says, or as it was (sdk.tsx:38-43).                                       *)
LEMMA ScreenShows ==
  ASSUME NEW start, AccFits(start), NEW events \in Seq(StreamEvents), NEW n \in 0..Len(events)
  PROVE  ShowsEvents(start, events, n, Screen(start, events)[n])
<1>1. PICK f : f = Screen(start, events)
  OBVIOUS
<1>2. \A i \in 0..Len(events) : f[i] = IF i = 0 THEN start ELSE ApplyEvent(f[i - 1], events[i])
  BY <1>1, ScreenIs DEF ScreenUpTo
<1> DEFINE S == {m \in 0..Len(events) : ~ShowsEvents(start, events, m, f[m])}
<1>3. S = {}
  <2>1. SUFFICES ASSUME S # {} PROVE FALSE
    OBVIOUS
  <2>2. S \in SUBSET Nat
    OBVIOUS
  <2>3. PICK m \in S : \A o \in S : m <= o
    <3> HIDE DEF S
    <3> QED BY <2>1, <2>2, LeastOf
  <2>4. CASE m = 0
    <3>1. f[m] = start
      BY <1>2, <2>4
    <3>2. ShowsEvents(start, events, 0, start)
      BY DEF ShowsEvents
    <3> QED BY <2>3, <2>4, <3>1, <3>2
  <2>5. CASE m # 0
    <3>1. m \in Nat /\ m - 1 \in 0..Len(events) /\ m - 1 \notin S /\ m \in 1..Len(events)
      BY <2>3, <2>5
    <3>2. PICK a : a = f[m - 1]
      OBVIOUS
    <3>3. PICK b : b = f[m]
      OBVIOUS
    <3>4. PICK e \in StreamEvents : e = events[m]
      BY <3>1
    <3>5. b = ApplyEvent(a, e)
      BY <1>2, <2>5, <3>1, <3>2, <3>3, <3>4
    <3>6. ShowsEvents(start, events, m - 1, a)
      BY <3>1, <3>2
    <3>7. Turns(e, a, b)
      BY <3>5, <3>6, ApplyTurns DEF ShowsEvents
    <3>8. ASSUME NEW k \in Records, \A i \in 1..m : events[i].key # k, NEW v, ShownWith(start, k, v)
          PROVE  ShownWith(b, k, v)
      <4>1. k # e.key
        BY <3>1, <3>4, <3>8
      <4>2. \A i \in 1..(m - 1) : events[i].key # k
        BY <3>1, <3>8
      <4>3. ShownWith(a, k, v)
        BY <3>6, <3>8, <4>2 DEF ShowsEvents
      <4> QED BY <3>7, <4>1, <4>3 DEF Turns
    <3>9. ASSUME NEW k \in Records, NEW i \in 1..m, events[i].key = k, \A j \in (i + 1)..m : events[j].key # k
          PROVE  ShownWith(b, k, events[i].version)
      <4>1. CASE i = m
        BY <3>4, <3>7, <3>9, <4>1 DEF Turns
      <4>2. CASE i # m
        <5>1. i \in 1..(m - 1) /\ m \in (i + 1)..m
          BY <3>1, <4>2
        <5>2. \A j \in (i + 1)..(m - 1) : events[j].key # k
          BY <3>1, <3>9
        <5>3. ShownWith(a, k, events[i].version)
          BY <3>6, <3>9, <5>1, <5>2 DEF ShowsEvents
        <5>4. k # e.key
          BY <3>4, <3>9, <5>1
        <5> QED BY <3>7, <5>3, <5>4 DEF Turns
      <4> QED BY <4>1, <4>2
    <3>10. ShowsEvents(start, events, m, b)
      BY <3>7, <3>8, <3>9 DEF ShowsEvents, Turns
    <3> QED BY <2>3, <3>3, <3>10
  <2> QED BY <2>4, <2>5
<1> QED BY <1>1, <1>3

(* Events are applied up to one that throws (sdk.tsx:38-43,                  *)
(* sync.tsx:201-248).                                                        *)
LEMMA AppliedIs ==
  ASSUME NEW events \in Seq(StreamEvents)
  PROVE  Applied(events) \in 0..Len(events)
<1> DEFINE S == {m \in 0..Len(events) : m = Len(events) \/ Throws(events, m + 1)}
<1>1. S \in SUBSET Nat /\ Len(events) \in S
  OBVIOUS
<1>2. PICK n \in S : \A m \in S : n <= m
  <2> HIDE DEF S
  <2> QED BY <1>1, LeastOf
<1>3. ASSUME NEW i \in 1..n PROVE ~Throws(events, i)
  <2>1. i - 1 \in 0..Len(events) /\ ~(n <= i - 1) /\ (i - 1) + 1 = i
    BY <1>2
  <2>2. i - 1 \notin S
    <3> HIDE DEF S
    <3> QED BY <1>2, <2>1
  <2> QED BY <2>1, <2>2
<1>4. \E m \in 0..Len(events) :
        /\ m = Len(events) \/ Throws(events, m + 1)
        /\ \A i \in 1..m : ~Throws(events, i)
  BY <1>2, <1>3
<1> QED BY <1>4, Zenon DEF Applied

-----------------------------------------------------------------------------
(* What a batch leaves right *)

\* The last event about a record among the first n.
LastAt(events, n, k, h) == events[h].key = k /\ \A j \in (h + 1)..n : events[j].key # k

(* Of the events about a record, one is the last (sdk.tsx:38-43).            *)
LEMMA LastIs ==
  ASSUME NEW events \in Seq(StreamEvents), NEW n \in 0..Len(events), NEW k, NEW i \in 1..n, events[i].key = k
  PROVE  \E h \in 1..n : LastAt(events, n, k, h)
<1> DEFINE S == {d \in Nat : \E h \in 1..n : h + d = n /\ events[h].key = k}
<1>1. n - i \in S /\ S \in SUBSET Nat
  <2>1. n - i \in Nat /\ i + (n - i) = n
    OBVIOUS
  <2> QED BY <2>1
<1>2. PICK d \in S : \A m \in S : d <= m
  <2> HIDE DEF S
  <2> QED BY <1>1, LeastOf
<1>3. PICK h \in 1..n : h + d = n /\ events[h].key = k
  BY <1>2
<1>4. ASSUME NEW j \in (h + 1)..n, events[j].key = k PROVE FALSE
  <2>1. n - j \in Nat /\ j + (n - j) = n /\ j \in 1..n /\ n - j < d
    BY <1>3
  <2>2. n - j \in S
    BY <2>1, <1>4
  <2>3. d \in Nat
    BY <1>3
  <2>4. d <= n - j
    <3> HIDE DEF S
    <3> QED BY <1>2, <2>2
  <2> QED BY <2>1, <2>3, <2>4
<1> QED BY <1>3, <1>4 DEF LastAt

TellsRight(events, rest, n, suffix) ==
  \A k \in Records : k \notin Told(events, rest) =>
    /\ k \notin KeysOf(suffix)
    /\ \A i \in 1..n :
         /\ events[i].key = k /\ k \notin KeysOf(rest)
         /\ \A j \in (i + 1)..n : events[j].key # k
         => ~events[i].late /\ (k \in untold => events[i].version = stored[k])
    /\ (\A i \in 1..n : events[i].key # k) \/ k \in KeysOf(rest) => k \notin untold

(* What a batch tells of each record, by the last event of it that no later  *)
(* one waits about (sdk.tsx:32-44).                                          *)
LEMMA ToldAre ==
  ASSUME ServerData, NEW events \in Seq(StreamEvents), NEW rest \in Seq(StreamEvents),
         NEW n, n = Applied(events), NEW suffix, suffix = SubSeq(events, n + 1, Len(events))
  PROVE  Told(events, rest) \subseteq Records /\ TellsRight(events, rest, n, suffix)
<1> DEFINE last == {i \in 1..n : /\ events[i].type # "disposed" /\ events[i].key \notin KeysOf(rest)
                                 /\ \A j \in (i + 1)..n : events[j].key # events[i].key}
           right == {i \in last : ~events[i].late /\ events[i].version = stored[events[i].key]}
           late == {i \in last : events[i].late}
<1>1. Told(events, rest) =
        (untold \ {events[i].key : i \in right}) \cup {events[i].key : i \in late} \cup KeysOf(suffix)
  BY DEF Told
<1>2. n \in 0..Len(events)
  BY AppliedIs
<1>3. \A i \in 1..n : /\ events[i] \in StreamEvents /\ events[i].late \in BOOLEAN
                      /\ events[i].type # "disposed" => events[i].key \in Records
                      /\ events[i].key \in Records => events[i].type # "disposed"
  <2> TAKE i \in 1..n
  <2>1. events[i] \in StreamEvents
    BY <1>2
  <2> QED BY <2>1, EventIs, RecordIs
<1>4. suffix \in Seq(StreamEvents)
  BY <1>2
<1>5. KeysOf(suffix) \subseteq Records
  BY <1>4, KeysAreRecords
<1>6. last \subseteq 1..n /\ right \subseteq last /\ late \subseteq last
      /\ \A i \in last : events[i].key \in Records /\ events[i].key \notin KeysOf(rest)
  BY <1>3
<1>7. Told(events, rest) \subseteq Records
  BY <1>1, <1>5, <1>6 DEF ServerData
<1>8. ASSUME NEW k \in Records, k \notin Told(events, rest), NEW i \in 1..n, events[i].key = k, k \notin KeysOf(rest),
             \A j \in (i + 1)..n : events[j].key # k
      PROVE  ~events[i].late /\ (k \in untold => events[i].version = stored[k])
  <2>1. i \in last
    BY <1>3, <1>8
  <2>2. ~events[i].late
    BY <1>1, <1>8, <2>1
  <2>3. ASSUME k \in untold PROVE events[i].version = stored[k]
    <3>1. PICK h \in right : events[h].key = k
      BY <1>1, <1>8, <2>3
    <3>2. h \in 1..n /\ \A j \in (h + 1)..n : events[j].key # k
      BY <3>1
    <3>3. h = i
      BY <1>2, <1>8, <3>1, <3>2
    <3> QED BY <3>1, <3>3
  <2> QED BY <2>2, <2>3
<1>9. ASSUME NEW k \in Records, k \notin Told(events, rest),
             (\A i \in 1..n : events[i].key # k) \/ k \in KeysOf(rest)
      PROVE  k \notin untold
  <2>1. \A i \in right : events[i].key # k
    BY <1>6, <1>9
  <2> HIDE DEF right, late, last
  <2> QED BY <1>1, <1>9, <2>1
<1>10. \A k \in Records : k \notin Told(events, rest) => k \notin KeysOf(suffix)
  BY <1>1
<1> HIDE DEF right, late, last
<1> QED BY <1>7, <1>8, <1>9, <1>10 DEF TellsRight

(* An event that was not applied is among those left (sdk.tsx:38-43).        *)
LEMMA SuffixHas ==
  ASSUME NEW events \in Seq(StreamEvents), NEW n \in 0..Len(events), NEW j \in (n + 1)..Len(events),
         NEW k \in Records, events[j].key = k
  PROVE  k \in KeysOf(SubSeq(events, n + 1, Len(events)))
<1>1. PICK suffix : suffix = SubSeq(events, n + 1, Len(events))
  OBVIOUS
<1>2. Len(suffix) = Len(events) - n /\ \A i \in 1..(Len(events) - n) : suffix[i] = events[n + i]
  BY <1>1
<1>3. j - n \in 1..(Len(events) - n) /\ n + (j - n) = j
  OBVIOUS
<1>4. j - n \in DOMAIN suffix /\ suffix[j - n].key = k
  BY <1>1, <1>2, <1>3
<1> QED BY <1>1, <1>4, RecordIs DEF KeysOf

(* When what waits is some events and a rest, then after the events are      *)
(* applied the rest is as right as it was, and so is the copy                *)
(* (sdk.tsx:32-65).                                                          *)
LEMMA ApplyKeeps ==
  ASSUME SyncInv, NEW events \in Seq(StreamEvents), NEW rest \in Seq(StreamEvents),
         NEW all, all = Pending, all = events \o rest,
         NEW start, start = [view |-> view, pushed |-> pushed],
         NEW n, n = Applied(events), NEW acc, acc = Screen(start, events)[n],
         NEW excused, \A k \in Records : k \notin excused => k \notin Told(events, rest) /\ k \notin Creating
  PROVE  /\ AccFits(acc)
         /\ WaitsRight(rest, excused, stored)
         /\ ShowsRight(KeysOf(rest), excused, stored, acc)
<1> USE DEF SyncInv
<1>4. PICK suffix : suffix = SubSeq(events, n + 1, Len(events))
  OBVIOUS
<1>5. n \in 0..Len(events)
  BY AppliedIs
<1>6. AccFits(start)
  BY DEF AccFits, Accs, TerminalData
<1>7. ShowsEvents(start, events, n, acc)
  BY <1>5, <1>6, ScreenShows
<1>8. WaitsRight(all, Excused, stored)
  BY DEF EventsRight
<1>9. ShowsRight(KeysOf(all), Excused, stored, start)
  BY DEF CopyRight
<1>10. /\ all \in Seq(StreamEvents) /\ Len(all) = Len(events) + Len(rest)
       /\ Len(events) \in Nat /\ Len(rest) \in Nat
       /\ \A i \in 1..Len(events) : all[i] = events[i]
       /\ \A i \in 1..Len(rest) : all[Len(events) + i] = rest[i]
  OBVIOUS
<1>11. \A k \in Records : k \notin Told(events, rest) =>
         /\ k \notin KeysOf(suffix)
         /\ \A i \in 1..n :
              /\ events[i].key = k /\ k \notin KeysOf(rest)
              /\ \A j \in (i + 1)..n : events[j].key # k
              => ~events[i].late /\ (k \in untold => events[i].version = stored[k])
         /\ (\A i \in 1..n : events[i].key # k) \/ k \in KeysOf(rest) => k \notin untold
  <2>1. TellsRight(events, rest, n, suffix)
    BY <1>4, ToldAre
  <2> QED BY <2>1 DEF TellsRight
<1>12. WaitsRight(rest, excused, stored)
  <2> SUFFICES ASSUME NEW i \in DOMAIN rest, rest[i].type # "disposed", LastIn(rest, i), rest[i].key \notin excused
               PROVE  rest[i].late \/ rest[i].version = stored[rest[i].key]
    BY DEF WaitsRight
  <2>1. i \in 1..Len(rest) /\ rest[i] \in StreamEvents
    OBVIOUS
  <2>2. rest[i].key \in Records /\ rest[i].key \in KeysOf(rest)
    BY <2>1, EventIs DEF KeysOf
  <2>3. rest[i].key \notin Excused
    BY <1>11, <2>2 DEF Excused
  <2>4. PICK h : h = Len(events) + i
    OBVIOUS
  <2>5. h \in DOMAIN all /\ all[h] = rest[i]
    BY <1>10, <2>1, <2>4
  <2>6. LastIn(all, h)
    <3> SUFFICES ASSUME NEW j \in DOMAIN all, j > h PROVE all[j].key # all[h].key
      BY DEF LastIn
    <3>1. j - Len(events) \in 1..Len(rest) /\ j - Len(events) > i /\ j = Len(events) + (j - Len(events))
      BY <1>10, <2>1, <2>4
    <3>2. all[j] = rest[j - Len(events)]
      BY <1>10, <3>1
    <3> QED BY <2>5, <3>1, <3>2 DEF LastIn
  <2> QED BY <1>8, <2>3, <2>5, <2>6 DEF WaitsRight
<1>13. ShowsRight(KeysOf(rest), excused, stored, acc)
  <2> SUFFICES ASSUME NEW k \in Records, k \notin KeysOf(rest), k \notin excused
               PROVE  ShownWith(acc, k, stored[k])
    BY DEF ShowsRight
  <2>1. k \notin Told(events, rest) /\ k \notin Creating
    OBVIOUS
  <2>2. \A j \in (n + 1)..Len(events) : events[j].key # k
    <3> SUFFICES ASSUME NEW j \in (n + 1)..Len(events), events[j].key = k PROVE FALSE
      OBVIOUS
    <3>2. k \in KeysOf(suffix)
      BY <1>4, <1>5, SuffixHas
    <3> QED BY <1>11, <2>1, <3>2
  <2>3. CASE \A i \in 1..n : events[i].key # k
    <3>1. k \notin untold
      BY <1>11, <2>1, <2>3
    <3>2. \A i \in 1..Len(events) : events[i].key # k
      BY <1>5, <1>10, <2>2, <2>3
    <3>3. k \notin KeysOf(events)
      BY <3>2 DEF KeysOf
    <3>4. k \notin KeysOf(all)
      BY <3>3, KeysOfBoth
    <3>5. ShownWith(start, k, stored[k])
      BY <1>9, <2>1, <3>1, <3>4 DEF ShowsRight, Excused
    <3> QED BY <1>7, <2>3, <3>5 DEF ShowsEvents
  <2>4. CASE \E i \in 1..n : events[i].key = k
    <3>0. PICK i \in 1..n : events[i].key = k
      BY <2>4
    <3>9. PICK h \in 1..n : LastAt(events, n, k, h)
      BY <1>5, <3>0, LastIs
    <3>1. events[h].key = k /\ \A j \in (h + 1)..n : events[j].key # k
      BY <3>9 DEF LastAt
    <3>2. ~events[h].late /\ (k \in untold => events[h].version = stored[k])
      BY <1>11, <2>1, <3>1
    <3>3. ShownWith(acc, k, events[h].version)
      BY <1>7, <3>1 DEF ShowsEvents
    <3>4. CASE k \in untold
      BY <3>2, <3>3, <3>4
    <3>5. CASE k \notin untold
      <4>1. h \in DOMAIN all /\ all[h] = events[h] /\ h \in 1..Len(events)
        BY <1>5, <1>10
      <4>2. LastIn(all, h)
        <5> SUFFICES ASSUME NEW j \in DOMAIN all, j > h, all[j].key = k PROVE FALSE
          BY <3>1, <4>1 DEF LastIn
        <5>1. CASE j <= Len(events)
          <6>1. j \in 1..Len(events) /\ all[j] = events[j] /\ (j \in (h + 1)..n \/ j \in (n + 1)..Len(events))
            BY <1>5, <1>10, <5>1
          <6> QED BY <2>2, <3>1, <6>1
        <5>2. CASE j > Len(events)
          <6>1. j - Len(events) \in 1..Len(rest) /\ j = Len(events) + (j - Len(events))
            BY <1>10, <5>2
          <6>2. rest[j - Len(events)].key = k
            BY <1>10, <6>1
          <6> QED BY <6>1, <6>2, RecordIs DEF KeysOf
        <5> QED BY <1>10, <5>1, <5>2
      <4>3. all[h].type # "disposed"
        <5>1. events[h] \in StreamEvents
          BY <4>1
        <5> QED BY <3>1, <4>1, <5>1, EventIs, RecordIs
      <4>4. events[h].version = stored[k]
        BY <1>8, <2>1, <3>1, <3>2, <3>5, <4>1, <4>2, <4>3 DEF WaitsRight, Excused
      <4> QED BY <3>3, <4>4
    <3> QED BY <3>4, <3>5
  <2> QED BY <2>3, <2>4
<1> QED BY <1>7, <1>12, <1>13 DEF ShowsEvents

-----------------------------------------------------------------------------
(* The server's steps *)

(* What waits is events (sdk.tsx:46-58).                                     *)
LEMMA PendingIs ==
  ASSUME SyncInv
  PROVE  Pending \in Seq(StreamEvents)
BY DEF SyncInv, ServerData, TerminalData, Pending

(* One more event is about one more record (bus/index.ts:41-64).             *)
LEMMA KeysOfOneMore ==
  ASSUME NEW q \in Seq(StreamEvents), NEW e \in StreamEvents, NEW k \in Records, NEW all, all = Append(q, e)
  PROVE  k \in KeysOf(all) <=> k \in KeysOf(q) \/ k = e.key
<1>1. PICK one : one = <<e>>
  OBVIOUS
<1>2. one \in Seq(StreamEvents) /\ all = q \o one /\ DOMAIN one = {1} /\ one[1] = e
  BY <1>1
<1>3. k \in KeysOf(one) <=> k = e.key
  BY <1>2, RecordIs DEF KeysOf
<1> QED BY <1>2, <1>3, KeysOfBoth

(* A change that is told, or excused while nobody listens, leaves what waits *)
(* and the copy right (bus/index.ts:41-64).                                  *)
LEMMA ServerTells ==
  ASSUME SyncInv, NEW e \in StreamEvents, e.key \in Records, Publish(<<e>>),
         e.late \/ e.version = stored'[e.key],
         \A r \in Records : r # e.key => stored'[r] = stored[r] /\ (r \in Creating => r \in Creating'),
         UNCHANGED terminalVars
  PROVE  /\ stream' \in Seq(StreamEvents) /\ untold' \subseteq Records
         /\ EventsRight' /\ CopyRight'
<1>1. PICK q \in Seq(StreamEvents) : q = Pending
  BY PendingIs
<1>2. /\ view' = view /\ pushed' = pushed /\ batch' = batch
      /\ stream \in Seq(StreamEvents) /\ batch \in Seq(StreamEvents) /\ untold \subseteq Records
      /\ WaitsRight(q, Excused, stored)
      /\ ShowsRight(KeysOf(q), Excused, stored, [view |-> view, pushed |-> pushed])
  BY <1>1 DEF terminalVars, SyncInv, ServerData, TerminalData, EventsRight, CopyRight
<1>3. CASE subscribed
  <2>1. stream' = stream \o <<e>> /\ untold' = untold
    BY <1>3 DEF Publish
  <2>2. Pending' = Append(q, e)
    BY <1>1, <1>2, <2>1 DEF Pending
  <2>3. \A r \in Records : r # e.key /\ r \notin Excused' => r \notin Excused /\ stored'[r] = stored[r]
    BY <2>1 DEF Excused
  <2>4. WaitsRight(Append(q, e), Excused', stored')
    BY <1>2, <2>3, WaitsAlso
  <2>5. ShowsRight(KeysOf(Append(q, e)), Excused', stored', [view |-> view, pushed |-> pushed])
    <3> SUFFICES ASSUME NEW k \in Records, k \notin KeysOf(Append(q, e)), k \notin Excused'
                 PROVE  ShownWith([view |-> view, pushed |-> pushed], k, stored'[k])
      BY DEF ShowsRight
    <3>1. k # e.key /\ k \notin KeysOf(q)
      BY KeysOfOneMore
    <3> QED BY <1>2, <2>3, <3>1 DEF ShowsRight
  <2> QED BY <1>2, <2>1, <2>2, <2>4, <2>5 DEF EventsRight, CopyRight
<1>4. CASE ~subscribed
  <2>1. stream' = stream /\ untold' = untold \cup {e.key}
    BY <1>4 DEF Publish
  <2>2. Pending' = q
    BY <1>1, <1>2, <2>1 DEF Pending
  <2>3. \A r \in Records : r \notin Excused' => r \notin Excused /\ stored'[r] = stored[r]
    BY <2>1 DEF Excused
  <2>4. WaitsRight(q, Excused', stored')
    BY <1>2, <2>3, WaitsOn
  <2>5. ShowsRight(KeysOf(q), Excused', stored', [view |-> view, pushed |-> pushed])
    BY <1>2, <2>3 DEF ShowsRight
  <2> QED BY <1>2, <2>1, <2>2, <2>4, <2>5 DEF EventsRight, CopyRight
<1> QED BY <1>3, <1>4

(* A change that is not told is excused (session/index.ts:315-320,           *)
(* server.ts:549-570).                                                       *)
LEMMA ServerIsSilent ==
  ASSUME SyncInv, stream' = stream \/ stream' = Append(stream, Disposed),
         \A r \in Records : r \notin untold' /\ r \notin Creating' =>
                              r \notin untold /\ r \notin Creating /\ stored'[r] = stored[r],
         UNCHANGED terminalVars
  PROVE  stream' \in Seq(StreamEvents) /\ EventsRight' /\ CopyRight'
<1>1. PICK q \in Seq(StreamEvents) : q = Pending
  BY PendingIs
<1>2. /\ view' = view /\ pushed' = pushed /\ batch' = batch
      /\ stream \in Seq(StreamEvents) /\ batch \in Seq(StreamEvents)
      /\ WaitsRight(q, Excused, stored)
      /\ ShowsRight(KeysOf(q), Excused, stored, [view |-> view, pushed |-> pushed])
  BY <1>1 DEF terminalVars, SyncInv, ServerData, TerminalData, EventsRight, CopyRight
<1>3. \A r \in Records : r \notin Excused' => r \notin Excused /\ stored'[r] = stored[r]
  BY DEF Excused
<1>4. CASE stream' = stream
  <2>1. Pending' = q
    BY <1>1, <1>2, <1>4 DEF Pending
  <2>2. WaitsRight(q, Excused', stored')
    BY <1>2, <1>3, WaitsOn
  <2>3. ShowsRight(KeysOf(q), Excused', stored', [view |-> view, pushed |-> pushed])
    BY <1>2, <1>3 DEF ShowsRight
  <2> QED BY <1>2, <1>4, <2>1, <2>2, <2>3 DEF EventsRight, CopyRight
<1>5. CASE stream' = Append(stream, Disposed)
  <2>1. Disposed \in StreamEvents /\ Disposed.type = "disposed" /\ Disposed.key = NoRecord
    BY DEF StreamEvents, Disposed
  <2>2. Pending' = Append(q, Disposed) /\ stream' \in Seq(StreamEvents)
    BY <1>1, <1>2, <1>5, <2>1 DEF Pending
  <2>3. WaitsRight(Append(q, Disposed), Excused', stored')
    BY <1>2, <1>3, <2>1, WaitsAlso
  <2>4. ShowsRight(KeysOf(Append(q, Disposed)), Excused', stored', [view |-> view, pushed |-> pushed])
    <3> SUFFICES ASSUME NEW k \in Records, k \notin KeysOf(Append(q, Disposed)), k \notin Excused'
                 PROVE  ShownWith([view |-> view, pushed |-> pushed], k, stored'[k])
      BY DEF ShowsRight
    <3>1. k \notin KeysOf(q)
      BY <2>1, KeysOfOneMore
    <3> QED BY <1>2, <1>3, <3>1 DEF ShowsRight
  <2> QED BY <1>2, <2>2, <2>3, <2>4 DEF EventsRight, CopyRight
<1> QED BY <1>4, <1>5

(* What the server does alone leaves the terminal's data                     *)
(* (server.ts:2531-2586).                                                    *)
LEMMA TerminalDataStays ==
  ASSUME TerminalData, UNCHANGED terminalVars
  PROVE  TerminalData'
BY DEF terminalVars, TerminalData

(* One record is written, and its event (session/index.ts:330-336).          *)
LEMMA WriteKeeps ==
  ASSUME SyncInv, NEW k \in Records, Write(k), UNCHANGED terminalVars
  PROVE  SyncInv'
<1>1. /\ stored[k] < MaxVersion /\ stored' = [stored EXCEPT ![k] = stored[k] + 1]
      /\ Publish(<<Event("updated", k)>>)
      /\ created' = created /\ jobs' = jobs /\ subscribed' = subscribed
  BY DEF Write
<1>2. stored \in Versions /\ created \subseteq Rooms /\ jobs \subseteq JobRecords /\ subscribed \in BOOLEAN
  BY DEF SyncInv, ServerData
<1>3. /\ stored' \in Versions /\ stored'[k] \in 1..MaxVersion
      /\ \A r \in Records : r # k => stored'[r] = stored[r]
  BY <1>1, <1>2, ServerAssumption DEF Versions
<1>4. PICK e : e = Event("updated", k)
  OBVIOUS
<1>5. e \in StreamEvents /\ e.key = k /\ e.version = stored'[k]
  BY <1>3, <1>4 DEF Event, StreamEvents, Updates
<1>6. Creating' = Creating
  BY <1>1 DEF Creating
<1>7. stream' \in Seq(StreamEvents) /\ untold' \subseteq Records /\ EventsRight' /\ CopyRight'
  BY <1>1, <1>3, <1>4, <1>5, <1>6, ServerTells
<1> QED BY <1>1, <1>2, <1>3, <1>7, TerminalDataStays DEF SyncInv, ServerData

(* One record is removed, and its event (session/index.ts:338-368).          *)
LEMMA EraseKeeps ==
  ASSUME SyncInv, NEW k \in Records, Erase(k), UNCHANGED terminalVars
  PROVE  SyncInv'
<1>1. /\ stored' = [stored EXCEPT ![k] = 0]
      /\ Publish(<<Event("removed", k)>>)
      /\ created' = created /\ jobs' = jobs /\ subscribed' = subscribed
  BY DEF Erase
<1>2. stored \in Versions /\ created \subseteq Rooms /\ jobs \subseteq JobRecords /\ subscribed \in BOOLEAN
  BY DEF SyncInv, ServerData
<1>3. /\ stored' \in Versions /\ stored'[k] = 0
      /\ \A r \in Records : r # k => stored'[r] = stored[r]
  BY <1>1, <1>2, ServerAssumption DEF Versions
<1>4. PICK e : e = Event("removed", k)
  OBVIOUS
<1>5. e \in StreamEvents /\ e.key = k /\ e.version = stored'[k]
  BY <1>3, <1>4 DEF Event, StreamEvents, Removals
<1>6. Creating' = Creating
  BY <1>1 DEF Creating
<1>7. stream' \in Seq(StreamEvents) /\ untold' \subseteq Records /\ EventsRight' /\ CopyRight'
  BY <1>1, <1>3, <1>4, <1>5, <1>6, ServerTells
<1> QED BY <1>1, <1>2, <1>3, <1>7, TerminalDataStays DEF SyncInv, ServerData

(* The instance is disposed (server.ts:549-570).                             *)
LEMMA DisposeKeeps ==
  ASSUME SyncInv, DisposeRoute, UNCHANGED terminalVars
  PROVE  SyncInv'
<1>1. /\ stream' = stream \/ stream' = Append(stream, Disposed)
      /\ subscribed' = FALSE /\ created' = created /\ jobs' = jobs
      /\ stored' = [k \in Records |-> IF k \in InMemory THEN 0 ELSE stored[k]]
      /\ untold' = untold \cup {k \in InMemory : Has(k)}
  BY DEF DisposeRoute
<1>2. /\ stored \in Versions /\ created \subseteq Rooms /\ jobs \subseteq JobRecords /\ subscribed \in BOOLEAN
      /\ untold \subseteq Records
  BY DEF SyncInv, ServerData
<1>3. stored' \in Versions
  BY <1>1, <1>2, ServerAssumption DEF Versions
<1>4. untold' \subseteq Records
  BY <1>1, <1>2 DEF Records
<1>5. Creating' = Creating
  BY <1>1 DEF Creating
<1>6. \A r \in Records : r \notin untold' => r \notin untold /\ stored'[r] = stored[r]
  BY <1>1, <1>2 DEF Has
<1>7. stream' \in Seq(StreamEvents) /\ EventsRight' /\ CopyRight'
  BY <1>1, <1>5, <1>6, ServerIsSilent
<1> QED BY <1>1, <1>2, <1>3, <1>4, <1>7, TerminalDataStays DEF SyncInv, ServerData

(* The connection is lost with what was on it, and those records are excused *)
(* (bus/index.ts:84-105).                                                    *)
LEMMA DropKeeps ==
  ASSUME SyncInv, StreamDrops, UNCHANGED terminalVars
  PROVE  SyncInv'
<1>1. /\ subscribed' = FALSE /\ stream' = <<>> /\ created' = created /\ jobs' = jobs /\ stored' = stored
      /\ untold' = untold \cup KeysOf(stream)
  BY DEF StreamDrops, KeysOf
<1>2. /\ stream \in Seq(StreamEvents) /\ batch \in Seq(StreamEvents) /\ untold \subseteq Records
      /\ view' = view /\ pushed' = pushed /\ batch' = batch
  BY DEF SyncInv, ServerData, TerminalData, terminalVars
<1>3. Creating' = Creating
  BY <1>1 DEF Creating
<1>4. Pending' = batch
  BY <1>1, <1>2 DEF Pending
<1>5. PICK all : all = Pending
  OBVIOUS
<1>6. all = batch \o stream /\ all \in Seq(StreamEvents)
  BY <1>2, <1>5 DEF Pending
<1>7. WaitsRight(batch, Excused', stored)
  <2> SUFFICES ASSUME NEW i \in DOMAIN batch, batch[i].type # "disposed", LastIn(batch, i), batch[i].key \notin Excused'
               PROVE  batch[i].late \/ batch[i].version = stored[batch[i].key]
    BY DEF WaitsRight
  <2>1. i \in 1..Len(batch) /\ batch[i] \in StreamEvents
    BY <1>2
  <2>2. batch[i].key \in Records
    BY <2>1, EventIs
  <2>3. batch[i].key \notin KeysOf(stream) /\ batch[i].key \notin Excused
    BY <1>1, <1>3 DEF Excused
  <2>4. i \in DOMAIN all /\ all[i] = batch[i]
    BY <1>2, <1>6, <2>1
  <2>5. LastIn(all, i)
    <3> SUFFICES ASSUME NEW j \in DOMAIN all, j > i, all[j].key = batch[i].key PROVE FALSE
      BY <2>4 DEF LastIn
    <3>1. CASE j \in 1..Len(batch)
      <4>1. all[j] = batch[j] /\ j \in DOMAIN batch
        BY <1>2, <1>6, <3>1
      <4> QED BY <4>1 DEF LastIn
    <3>2. CASE j \notin 1..Len(batch)
      <4>1. Len(all) = Len(batch) + Len(stream) /\ Len(batch) \in Nat /\ Len(stream) \in Nat /\ j \in 1..Len(all)
        BY <1>2, <1>6
      <4>2. j - Len(batch) \in 1..Len(stream) /\ j = Len(batch) + (j - Len(batch))
        BY <3>2, <4>1
      <4>3. all[j] = stream[j - Len(batch)] /\ j - Len(batch) \in DOMAIN stream
        BY <1>2, <1>6, <4>2
      <4> QED BY <2>2, <2>3, <4>3, RecordIs DEF KeysOf
    <3> QED BY <3>1, <3>2
  <2> QED BY <1>5, <2>3, <2>4, <2>5 DEF SyncInv, EventsRight, WaitsRight
<1>8. ShowsRight(KeysOf(batch), Excused', stored, [view |-> view, pushed |-> pushed])
  <2> SUFFICES ASSUME NEW k \in Records, k \notin KeysOf(batch), k \notin Excused'
               PROVE  ShownWith([view |-> view, pushed |-> pushed], k, stored[k])
    BY DEF ShowsRight
  <2>1. k \notin KeysOf(stream) /\ k \notin Excused
    BY <1>1, <1>3 DEF Excused
  <2>2. k \notin KeysOf(all)
    BY <1>2, <1>6, <2>1, KeysOfBoth
  <2> QED BY <1>5, <2>1, <2>2 DEF SyncInv, CopyRight, ShowsRight
<1>9. untold' \subseteq Records
  BY <1>1, <1>2, KeysAreRecords
<1>10. EventsRight' /\ CopyRight'
  BY <1>1, <1>2, <1>4, <1>7, <1>8 DEF EventsRight, CopyRight
<1>11. ServerData'
  <2>1. stored \in Versions /\ created \subseteq Rooms /\ jobs \subseteq JobRecords
    BY DEF SyncInv, ServerData
  <2>2. stream' \in Seq(StreamEvents)
    <3>1. <<>> \in Seq(StreamEvents)
      OBVIOUS
    <3> QED BY <1>1, <3>1
  <2>3. stored' \in Versions /\ created' \subseteq Rooms /\ jobs' \subseteq JobRecords
    BY <1>1, <2>1
  <2>4. subscribed' \in BOOLEAN
    BY <1>1
  <2> QED BY <1>9, <2>2, <2>3, <2>4 DEF ServerData
<1>12. TerminalData'
  BY TerminalDataStays DEF SyncInv
<1> QED BY <1>10, <1>11, <1>12 DEF SyncInv

-----------------------------------------------------------------------------
(* The requests that take several steps *)

(* What a request under way knows (session/index.ts:181-328).                *)
LEMMA JobIs ==
  ASSUME SyncInv, NEW j \in jobs
  PROVE  /\ j.op \in {"create", "update"} => j.session \in Rooms /\ j.value \in 1..MaxVersion
         /\ j.op = "remove" => /\ j.todo \in Seq(Rooms) /\ j.todo # <<>> /\ Head(j.todo) \in Rooms
                               /\ j \in [op : {"remove"}, todo : Seq(Rooms) \ {<<>>},
                                          at : {"get", "messages", "record"}]
<1>1. j \in JobRecords
  BY DEF SyncInv, ServerData
<1> QED BY <1>1 DEF JobRecords

(* An update reads the record (session/index.ts:232-261).                    *)
LEMMA UpdateReadsKeeps ==
  ASSUME SyncInv, NEW s \in Rooms, UpdateReads(s), UNCHANGED terminalVars
  PROVE  SyncInv'
<1>1. PICK j : j = [op |-> "update", session |-> s, value |-> stored[Info(s)] + 1]
  OBVIOUS
<1>2. /\ stored[Info(s)] < MaxVersion /\ jobs' = jobs \cup {j}
      /\ stored' = stored /\ created' = created /\ stream' = stream /\ subscribed' = subscribed /\ untold' = untold
  BY <1>1 DEF UpdateReads
<1>3. stored \in Versions /\ Info(s) \in Records /\ jobs \subseteq JobRecords
  BY RecordsAre DEF SyncInv, ServerData
<1>4. j \in JobRecords
  BY <1>1, <1>2, <1>3, ServerAssumption DEF JobRecords, Versions
<1>5. Creating \subseteq Creating'
  BY <1>2 DEF Creating
<1>6. EventsRight' /\ CopyRight'
  BY <1>2, <1>5, ServerIsSilent
<1>7. ServerData'
  BY <1>2, <1>3, <1>4 DEF SyncInv, ServerData
<1> QED BY <1>6, <1>7, TerminalDataStays DEF SyncInv

(* A removal finds the children (session/index.ts:296-306).                  *)
LEMMA DeleteKeeps ==
  ASSUME SyncInv, NEW s \in Rooms, DeleteRoute(s), UNCHANGED terminalVars
  PROVE  SyncInv'
<1>1. PICK todo \in {<<s>>} \cup {<<c, s>> : c \in Children(s)} : jobs' = jobs \cup {Removal(s, todo)}
  BY DEF DeleteRoute
<1>2. stored' = stored /\ created' = created /\ stream' = stream /\ subscribed' = subscribed /\ untold' = untold
  BY DEF DeleteRoute
<1>3. todo \in Seq(Rooms) \ {<<>>}
  <2>1. CASE todo = <<s>>
    <3>1. <<s>> \in Seq(Rooms) /\ <<s>> # <<>>
      OBVIOUS
    <3> QED BY <2>1, <3>1
  <2>2. CASE todo # <<s>>
    <3>1. PICK c \in Rooms : todo = <<c, s>>
      BY <1>1, <2>2 DEF Children
    <3>2. <<c, s>> \in Seq(Rooms) /\ <<c, s>> # <<>>
      OBVIOUS
    <3> QED BY <3>1, <3>2
  <2> QED BY <2>1, <2>2
<1>4. Removal(s, todo) \in JobRecords
  BY <1>3 DEF Removal, JobRecords
<1>5. Creating \subseteq Creating'
  BY <1>1 DEF Creating
<1>6. EventsRight' /\ CopyRight'
  BY <1>2, <1>5, ServerIsSilent
<1>7. ServerData'
  BY <1>1, <1>2, <1>4 DEF SyncInv, ServerData
<1> QED BY <1>6, <1>7, TerminalDataStays DEF SyncInv

(* A session is written before its event: until then it is excused           *)
(* (session/index.ts:181-221).                                               *)
LEMMA SessionKeeps ==
  ASSUME SyncInv, NEW s \in Rooms, SessionRoute(s), UNCHANGED terminalVars
  PROVE  SyncInv'
<1>1. PICK j : j = [op |-> "create", session |-> s, value |-> 1]
  OBVIOUS
<1>2. /\ created' = created \cup {s} /\ stored' = [stored EXCEPT ![Info(s)] = 1] /\ jobs' = jobs \cup {j}
      /\ stream' = stream /\ subscribed' = subscribed /\ untold' = untold
  BY <1>1 DEF SessionRoute
<1>3. stored \in Versions /\ Info(s) \in Records /\ jobs \subseteq JobRecords
  BY RecordsAre DEF SyncInv, ServerData
<1>4. stored' \in Versions /\ \A r \in Records : r # Info(s) => stored'[r] = stored[r]
  BY <1>2, <1>3, ServerAssumption DEF Versions
<1>5. j \in JobRecords
  BY <1>1, ServerAssumption DEF JobRecords
<1>6. Creating \subseteq Creating' /\ Info(s) \in Creating'
  BY <1>1, <1>2 DEF Creating
<1>7. EventsRight' /\ CopyRight'
  BY <1>2, <1>4, <1>6, ServerIsSilent
<1>8. ServerData'
  BY <1>2, <1>3, <1>4, <1>5 DEF SyncInv, ServerData
<1> QED BY <1>7, <1>8, TerminalDataStays DEF SyncInv

(* An update writes the record and tells it (session/index.ts:256-266).      *)
LEMMA UpdateWritesKeeps ==
  ASSUME SyncInv, NEW j \in jobs, UpdateWrites(j), UNCHANGED terminalVars
  PROVE  SyncInv'
<1>1. PICK k : k = Info(j.session)
  OBVIOUS
<1>2. /\ j.op = "update" /\ stored' = [stored EXCEPT ![k] = j.value]
      /\ Publish(<<Event("updated", k)>>)
      /\ jobs' = jobs \ {j} /\ created' = created /\ subscribed' = subscribed
  BY <1>1 DEF UpdateWrites
<1>3. stored \in Versions /\ k \in Records /\ jobs \subseteq JobRecords /\ j.value \in 1..MaxVersion
  BY <1>1, <1>2, JobIs, RecordsAre DEF SyncInv, ServerData
<1>4. stored' \in Versions /\ stored'[k] = j.value /\ \A r \in Records : r # k => stored'[r] = stored[r]
  BY <1>2, <1>3, ServerAssumption DEF Versions
<1>5. PICK e : e = Event("updated", k)
  OBVIOUS
<1>6. e \in StreamEvents /\ e.key = k /\ e.version = stored'[k]
  BY <1>3, <1>4, <1>5 DEF Event, StreamEvents, Updates
<1>7. Creating \subseteq Creating'
  BY <1>2 DEF Creating
<1>8. stream' \in Seq(StreamEvents) /\ untold' \subseteq Records /\ EventsRight' /\ CopyRight'
  BY <1>2, <1>3, <1>4, <1>5, <1>6, <1>7, ServerTells
<1>9. ServerData'
  BY <1>2, <1>3, <1>4, <1>8 DEF SyncInv, ServerData
<1> QED BY <1>8, <1>9, TerminalDataStays DEF SyncInv

(* The event of a new session tells what was written at first, late when it  *)
(* is no longer so (session/index.ts:206-221).                               *)
LEMMA CreatedKeeps ==
  ASSUME SyncInv, NEW j \in jobs, Created(j), UNCHANGED terminalVars
  PROVE  SyncInv'
<1>1. PICK k : k = Info(j.session)
  OBVIOUS
<1>2. PICK e : e = [type |-> "updated", key |-> k, version |-> j.value, late |-> stored[k] # j.value]
  OBVIOUS
<1>3. /\ j.op = "create" /\ Publish(<<e>>) /\ jobs' = jobs \ {j}
      /\ stored' = stored /\ created' = created /\ subscribed' = subscribed
  BY <1>1, <1>2 DEF Created
<1>4. stored \in Versions /\ k \in Records /\ jobs \subseteq JobRecords /\ j.value \in 1..MaxVersion
  BY <1>1, <1>3, JobIs, RecordsAre DEF SyncInv, ServerData
<1>5. e \in StreamEvents /\ e.key = k
  BY <1>2, <1>4 DEF StreamEvents, Updates
<1>6. e.late \/ e.version = stored'[k]
  <2>1. CASE stored[k] = j.value
    BY <1>2, <1>3, <2>1
  <2>2. CASE stored[k] # j.value
    BY <1>2, <2>2
  <2> QED BY <2>1, <2>2
<1>7. \A r \in Records : r # k => stored'[r] = stored[r] /\ (r \in Creating => r \in Creating')
  BY <1>1, <1>3 DEF Creating
<1>8. stream' \in Seq(StreamEvents) /\ untold' \subseteq Records /\ EventsRight' /\ CopyRight'
  BY <1>3, <1>4, <1>5, <1>6, <1>7, ServerTells
<1>9. ServerData'
  BY <1>3, <1>4, <1>8 DEF SyncInv, ServerData
<1> QED BY <1>8, <1>9, TerminalDataStays DEF SyncInv

(* A removal goes on to its next part, its next session, or ends             *)
(* (session/index.ts:307-328).                                               *)
LEMMA RemovalGoes ==
  ASSUME SyncInv, NEW j \in jobs, j.op = "remove",
         Finishes(j) \/ Goes(j, "messages") \/ Goes(j, "record")
  PROVE  jobs' \subseteq JobRecords /\ Creating \subseteq Creating'
<1>1. j \in [op : {"remove"}, todo : Seq(Rooms) \ {<<>>}, at : {"get", "messages", "record"}]
  BY JobIs
<1>2. jobs \subseteq JobRecords
  BY DEF SyncInv, ServerData
<1>3. CASE Goes(j, "messages") \/ Goes(j, "record")
  <2>1. PICK place \in {"messages", "record"} : jobs' = (jobs \ {j}) \cup {[j EXCEPT !.at = place]}
    BY <1>3 DEF Goes
  <2>2. [j EXCEPT !.at = place] \in JobRecords
    BY <1>1 DEF JobRecords
  <2>3. jobs' \subseteq JobRecords
    BY <1>2, <2>1, <2>2
  <2>4. Creating \subseteq Creating'
    BY <2>1 DEF Creating
  <2> QED BY <2>3, <2>4
<1>4. CASE Finishes(j)
  <2>1. PICK more : jobs' = (jobs \ {j}) \cup more
                    /\ more = IF Len(j.todo) = 1 THEN {} ELSE {[j EXCEPT !.todo = Tail(j.todo), !.at = "get"]}
    BY <1>4 DEF Finishes
  <2>2. more \subseteq JobRecords
    <3>1. CASE Len(j.todo) = 1
      BY <2>1, <3>1
    <3>2. CASE Len(j.todo) # 1
      <4>1. Tail(j.todo) \in Seq(Rooms) /\ Tail(j.todo) # <<>>
        <5>1. PICK td \in Seq(Rooms) : td = j.todo /\ td # <<>>
          BY <1>1
        <5>2. Len(td) # 1 /\ Len(td) \in Nat /\ Len(td) # 0
          BY <3>2, <5>1
        <5>3. Tail(td) \in Seq(Rooms) /\ Len(Tail(td)) = Len(td) - 1
          BY <5>1
        <5>4. Len(Tail(td)) # 0
          BY <5>2, <5>3
        <5>5. Len(<<>>) = 0
          OBVIOUS
        <5>6. Tail(td) # <<>>
          BY <5>4, <5>5, Zenon
        <5> QED BY <5>1, <5>3, <5>6
      <4>2. [j EXCEPT !.todo = Tail(j.todo), !.at = "get"]
              \in [op : {"remove"}, todo : Seq(Rooms) \ {<<>>}, at : {"get", "messages", "record"}]
        BY <1>1, <4>1
      <4> QED BY <2>1, <3>2, <4>2 DEF JobRecords
    <3> QED BY <3>1, <3>2
  <2>3. jobs' \subseteq JobRecords
    BY <1>2, <2>1, <2>2
  <2>4. Creating \subseteq Creating'
    BY <2>1 DEF Creating
  <2> QED BY <2>3, <2>4
<1> QED BY <1>3, <1>4

(* A removal looks at its session and unshares it                            *)
(* (session/index.ts:307-314).                                               *)
LEMMA RemoveUnsharesKeeps ==
  ASSUME SyncInv, NEW j \in jobs, RemoveUnshares(j), UNCHANGED terminalVars
  PROVE  SyncInv'
<1>1. PICK k : k = Info(Head(j.todo))
  OBVIOUS
<1>2. j.op = "remove" /\ created' = created /\ subscribed' = subscribed
  BY DEF RemoveUnshares
<1>3. stored \in Versions /\ k \in Records
  BY <1>1, <1>2, JobIs, RecordsAre DEF SyncInv, ServerData
<1>4. jobs' \subseteq JobRecords /\ Creating \subseteq Creating'
  BY <1>2, RemovalGoes DEF RemoveUnshares
<1>5. CASE stored' = stored /\ stream' = stream /\ untold' = untold
  <2>1. EventsRight' /\ CopyRight'
    BY <1>4, <1>5, ServerIsSilent
  <2>2. ServerData'
    BY <1>2, <1>4, <1>5 DEF SyncInv, ServerData
  <2> QED BY <2>1, <2>2, TerminalDataStays DEF SyncInv
<1>6. CASE /\ stored[k] < MaxVersion /\ stored' = [stored EXCEPT ![k] = stored[k] + 1]
           /\ Publish(<<Event("updated", k)>>)
  <2>1. /\ stored' \in Versions /\ stored'[k] \in 1..MaxVersion
        /\ \A r \in Records : r # k => stored'[r] = stored[r]
    BY <1>3, <1>6, ServerAssumption DEF Versions
  <2>2. PICK e : e = Event("updated", k)
    OBVIOUS
  <2>3. e \in StreamEvents /\ e.key = k /\ e.version = stored'[k]
    BY <1>3, <2>1, <2>2 DEF Event, StreamEvents, Updates
  <2>4. stream' \in Seq(StreamEvents) /\ untold' \subseteq Records /\ EventsRight' /\ CopyRight'
    BY <1>3, <1>4, <1>6, <2>1, <2>2, <2>3, ServerTells
  <2>5. ServerData'
    BY <1>2, <1>4, <2>1, <2>4 DEF SyncInv, ServerData
  <2> QED BY <2>4, <2>5, TerminalDataStays DEF SyncInv
<1> QED BY <1>1, <1>5, <1>6 DEF RemoveUnshares

(* A removal drops the messages without an event (session/index.ts:315-320). *)
LEMMA RemoveMessagesKeeps ==
  ASSUME SyncInv, NEW j \in jobs, RemoveMessages(j), UNCHANGED terminalVars
  PROVE  SyncInv'
<1>1. PICK its : its = {k \in Written(Head(j.todo)) \cap Records : Has(k)}
  OBVIOUS
<1>2. /\ j.op = "remove" /\ created' = created /\ subscribed' = subscribed /\ stream' = stream
      /\ stored' = [k \in Records |-> IF k \in its THEN 0 ELSE stored[k]]
      /\ untold' = untold \cup its
  BY <1>1 DEF RemoveMessages
<1>3. stored \in Versions /\ its \subseteq Records
  BY <1>1 DEF SyncInv, ServerData
<1>4. stored' \in Versions
  BY <1>2, <1>3, ServerAssumption DEF Versions
<1>5. jobs' \subseteq JobRecords /\ Creating \subseteq Creating'
  BY <1>2, RemovalGoes DEF RemoveMessages
<1>6. \A r \in Records : r \notin untold' => r \notin untold /\ stored'[r] = stored[r]
  BY <1>2
<1>7. EventsRight' /\ CopyRight'
  BY <1>2, <1>5, <1>6, ServerIsSilent
<1>8. ServerData'
  BY <1>2, <1>3, <1>4, <1>5 DEF SyncInv, ServerData
<1> QED BY <1>7, <1>8, TerminalDataStays DEF SyncInv

(* A removal drops the session's record and tells it                         *)
(* (session/index.ts:321-328).                                               *)
LEMMA RemoveRecordKeeps ==
  ASSUME SyncInv, NEW j \in jobs, RemoveRecord(j), UNCHANGED terminalVars
  PROVE  SyncInv'
<1>1. PICK k : k = Info(Head(j.todo))
  OBVIOUS
<1>2. /\ j.op = "remove" /\ created' = created /\ subscribed' = subscribed
      /\ stored' = [stored EXCEPT ![k] = 0] /\ Publish(<<Event("removed", k)>>)
  BY <1>1 DEF RemoveRecord
<1>3. stored \in Versions /\ k \in Records
  BY <1>1, <1>2, JobIs, RecordsAre DEF SyncInv, ServerData
<1>4. jobs' \subseteq JobRecords /\ Creating \subseteq Creating'
  BY <1>2, RemovalGoes DEF RemoveRecord
<1>5. stored' \in Versions /\ stored'[k] = 0 /\ \A r \in Records : r # k => stored'[r] = stored[r]
  BY <1>2, <1>3, ServerAssumption DEF Versions
<1>6. PICK e : e = Event("removed", k)
  OBVIOUS
<1>7. e \in StreamEvents /\ e.key = k /\ e.version = stored'[k]
  BY <1>3, <1>5, <1>6 DEF Event, StreamEvents, Removals
<1>8. stream' \in Seq(StreamEvents) /\ untold' \subseteq Records /\ EventsRight' /\ CopyRight'
  BY <1>2, <1>3, <1>4, <1>5, <1>6, <1>7, ServerTells
<1>9. ServerData'
  BY <1>2, <1>4, <1>5, <1>8 DEF SyncInv, ServerData
<1> QED BY <1>8, <1>9, TerminalDataStays DEF SyncInv

(* No step of the server breaks the invariant (server.ts:549-2586).          *)
LEMMA ServerKeeps ==
  ASSUME SyncInv, ServerNext, UNCHANGED terminalVars
  PROVE  SyncInv'
<1>1. CASE DisposeRoute \/ StreamDrops
  BY <1>1, DisposeKeeps, DropKeeps
<1>2. CASE \E s \in Rooms : Request(s)
  <2>1. PICK s \in Rooms : Request(s)
    BY <1>2
  <2>2. CASE SessionRoute(s) \/ DeleteRoute(s)
    BY <2>2, SessionKeeps, DeleteKeeps
  <2>3. CASE UpdateReads(s)
    BY <2>3, UpdateReadsKeeps
  <2>4. CASE /\ s \in Talking
             /\ \/ PromptRoute(s) \/ ReplyParts(s) \/ CleanupMessages(s)
                \/ PatchPartRoute(s) \/ DeletePartRoute(s)
                \/ AskPermission(s) \/ PermissionRoute(s) \/ SetStatus(s)
    <3>1. CASE Newest(s) # 0 /\ Erase(Post(s, Newest(s)))
      <4>1. Newest(s) \in Posts
        <5>1. \E m \in Posts : Has(Post(s, m))
          BY <3>1 DEF Newest
        <5> DEFINE S == {d \in Nat : \E m \in Posts : m + d = MaxPosts /\ Has(Post(s, m))}
        <5>2. S \in SUBSET Nat /\ S # {}
          <6>1. PICK m \in Posts : Has(Post(s, m))
            BY <5>1
          <6>2. MaxPosts - m \in Nat /\ m + (MaxPosts - m) = MaxPosts
            BY ServerAssumption DEF Posts
          <6> QED BY <6>1, <6>2
        <5>3. PICK d \in S : \A o \in S : d <= o
          <6> HIDE DEF S
          <6> QED BY <5>2, LeastOf
        <5>4. PICK m \in Posts : m + d = MaxPosts /\ Has(Post(s, m))
          BY <5>3
        <5>5. ASSUME NEW n \in Posts, Has(Post(s, n)) PROVE n <= m
          <6>1. MaxPosts - n \in Nat /\ n + (MaxPosts - n) = MaxPosts
            BY ServerAssumption DEF Posts
          <6>2. MaxPosts - n \in S
            BY <5>5, <6>1
          <6>3. d <= MaxPosts - n
            <7> HIDE DEF S
            <7> QED BY <5>3, <6>2
          <6> QED BY <5>4, <6>3, ServerAssumption DEF Posts
        <5>6. \E o \in Posts : Has(Post(s, o)) /\ \A n \in Posts : Has(Post(s, n)) => n <= o
          BY <5>4, <5>5
        <5> QED BY <5>1, <5>6 DEF Newest
      <4> QED BY <2>4, <3>1, <4>1, EraseKeeps, RecordsAre
    <3>2. CASE \E k \in Records : Write(k) \/ Erase(k)
      BY <3>2, WriteKeeps, EraseKeeps
    <3>3. CASE PromptRoute(s) \/ ReplyParts(s) \/ PatchPartRoute(s) \/ DeletePartRoute(s)
      BY <2>4, <3>2, <3>3, RecordsAre DEF PromptRoute, ReplyParts, PatchPartRoute, DeletePartRoute
    <3>4. CASE AskPermission(s) \/ PermissionRoute(s) \/ SetStatus(s)
      BY <2>4, <3>2, <3>4, RecordsAre DEF AskPermission, PermissionRoute, SetStatus
    <3> QED BY <2>4, <3>1, <3>3, <3>4 DEF CleanupMessages
  <2> QED BY <2>1, <2>2, <2>3, <2>4
          DEF Request, PatchRoute, ShareRoute, UnshareRoute, RevertRoute, UnrevertRoute
<1>3. CASE \E j \in jobs : JobStep(j)
  BY <1>3, UpdateWritesKeeps, CreatedKeeps, RemoveUnsharesKeeps, RemoveMessagesKeeps, RemoveRecordKeeps DEF JobStep
<1> QED BY <1>1, <1>2, <1>3 DEF ServerNext

-----------------------------------------------------------------------------
(* A batch is applied by the terminal *)

(* Nothing before events changes nothing (sdk.tsx:60-65).                    *)
LEMMA NothingBefore ==
  ASSUME NEW none, none = <<>>, NEW r \in Seq(StreamEvents)
  PROVE  none \o r = r
OBVIOUS

(* A batch is applied, and what follows it waits or is dropped and excused   *)
(* (sdk.tsx:32-65).                                                          *)
LEMMA RenderKeeps ==
  ASSUME SyncInv, NEW events \in Seq(StreamEvents), NEW rest \in Seq(StreamEvents), Pending = events \o rest,
         Render(events),
         \/ stream' = rest /\ untold' = Told(events, rest)
         \/ stream' = <<>> /\ untold' = Told(events, rest) \cup KeysOf(rest),
         stored' = stored, jobs' = jobs
  PROVE  /\ view' \in Versions /\ FewShown(view') /\ pushed' \subseteq Records
         /\ batch' = <<>> /\ due' \subseteq Bootstrap
         /\ stream' \in Seq(StreamEvents) /\ untold' \subseteq Records
         /\ EventsRight' /\ CopyRight'
<1>1. PICK n : n = Applied(events)
  OBVIOUS
<1>2. PICK start : start = [view |-> view, pushed |-> pushed]
  OBVIOUS
<1>3. PICK acc : acc = Screen(start, events)[n]
  OBVIOUS
<1>4. /\ view' = acc.view /\ pushed' = acc.pushed /\ batch' = <<>>
      /\ due' = Bootstrap \/ due' = due
  BY <1>1, <1>2, <1>3 DEF Render
<1>5. Creating' = Creating
  BY DEF Creating
<1>6. \A k \in Records : k \notin Excused' => k \notin Told(events, rest) /\ k \notin Creating
  BY <1>5 DEF Excused
<1>7. PICK excused : excused = Excused'
  OBVIOUS
<1>8. PICK all : all = Pending
  OBVIOUS
<1>9. /\ AccFits(acc) /\ WaitsRight(rest, excused, stored)
      /\ ShowsRight(KeysOf(rest), excused, stored, acc)
  BY <1>1, <1>2, <1>3, <1>6, <1>7, <1>8, ApplyKeeps
<1>10. acc = [view |-> view', pushed |-> pushed']
  BY <1>4, <1>9 DEF AccFits, Accs
<1>11. view' \in Versions /\ FewShown(view') /\ pushed' \subseteq Records
  BY <1>4, <1>9 DEF AccFits, Accs
<1>12. due' \subseteq Bootstrap
  BY <1>4 DEF SyncInv, TerminalData
<1>13. KeysOf(rest) \subseteq Records /\ Told(events, rest) \subseteq Records
  BY KeysAreRecords, ToldAre DEF SyncInv
<1>14. CASE stream' = rest /\ untold' = Told(events, rest)
  <2>1. Pending' = rest
    BY <1>4, <1>14, NothingBefore DEF Pending
  <2>2. EventsRight' /\ CopyRight'
    BY <1>7, <1>9, <1>10, <2>1 DEF EventsRight, CopyRight
  <2> QED BY <1>4, <1>11, <1>12, <1>13, <1>14, <2>2
<1>15. CASE stream' = <<>> /\ untold' = Told(events, rest) \cup KeysOf(rest)
  <2>1. PICK none : none = <<>>
    OBVIOUS
  <2>2. none \in Seq(StreamEvents) /\ DOMAIN none = {} /\ none \o none = none
    BY <2>1
  <2>3. Pending' = none
    BY <1>4, <1>15, <2>1, <2>2 DEF Pending
  <2>4. WaitsRight(none, excused, stored)
    BY <2>2 DEF WaitsRight
  <2>5. ShowsRight(KeysOf(none), excused, stored, acc)
    <3>1. \A k \in Records : k \notin excused => k \notin KeysOf(rest)
      BY <1>7, <1>15 DEF Excused
    <3> QED BY <1>9, <3>1 DEF ShowsRight
  <2>6. EventsRight' /\ CopyRight'
    BY <1>7, <1>10, <2>3, <2>4, <2>5 DEF EventsRight, CopyRight
  <2> QED BY <1>4, <1>11, <1>12, <1>13, <1>15, <2>1, <2>2, <2>6
<1> QED BY <1>14, <1>15

(* A step that applies a batch keeps the invariant (sdk.tsx:32-65).          *)
LEMMA BatchKeeps ==
  ASSUME SyncInv, NEW events \in Seq(StreamEvents), NEW rest \in Seq(StreamEvents), Pending = events \o rest,
         Render(events),
         \/ stream' = rest /\ untold' = Told(events, rest) /\ subscribed' = subscribed
         \/ stream' = <<>> /\ untold' = Told(events, rest) \cup KeysOf(rest) /\ subscribed' = FALSE,
         stored' = stored, jobs' = jobs, created' = created, timer' = FALSE,
         synced' = synced, loads' = loads, loaded' = loaded
  PROVE  SyncInv'
<1>1. /\ view' \in Versions /\ FewShown(view') /\ pushed' \subseteq Records
      /\ batch' = <<>> /\ due' \subseteq Bootstrap
      /\ stream' \in Seq(StreamEvents) /\ untold' \subseteq Records
      /\ EventsRight' /\ CopyRight'
  BY RenderKeeps
<1>2. <<>> \in Seq(StreamEvents)
  OBVIOUS
<1>3. TerminalData'
  BY <1>1, <1>2 DEF SyncInv, TerminalData
<1>4. ServerData'
  BY <1>1 DEF SyncInv, ServerData
<1> QED BY <1>1, <1>3, <1>4 DEF SyncInv

(* One event is a sequence of events (sdk.tsx:46-58).                        *)
LEMMA OneIs ==
  ASSUME NEW S, NEW h \in S
  PROVE  /\ <<h>> \in Seq(S) /\ Len(<<h>>) = 1 /\ <<h>>[1] = h
OBVIOUS

(* One event before others (sdk.tsx:46-58).                                  *)
LEMMA OneBefore ==
  ASSUME NEW S, NEW h \in S, NEW t \in Seq(S)
  PROVE  /\ <<h>> \o t \in Seq(S) /\ Len(<<h>> \o t) = 1 + Len(t) /\ (<<h>> \o t)[1] = h
         /\ \A i \in 1..Len(t) : (<<h>> \o t)[i + 1] = t[i]
<1>1. <<h>> \in Seq(S) /\ Len(<<h>>) = 1 /\ <<h>>[1] = h
  BY OneIs
<1>2. Len(t) \in Nat
  BY LenProperties
<1>3. PICK one : one = <<h>>
  OBVIOUS
<1>4. /\ one \o t \in Seq(S) /\ Len(one \o t) = 1 + Len(t)
      /\ \A i \in 1..(1 + Len(t)) : (one \o t)[i] = IF i <= 1 THEN one[i] ELSE t[i - 1]
  BY <1>1, <1>3, ConcatProperties
<1>5. 1 \in 1..(1 + Len(t)) /\ \A i \in 1..Len(t) : i + 1 \in 1..(1 + Len(t)) /\ ~(i + 1 <= 1) /\ (i + 1) - 1 = i
  BY <1>2
<1>6. (one \o t)[1] = h /\ \A i \in 1..Len(t) : (one \o t)[i + 1] = t[i]
  BY <1>1, <1>3, <1>4, <1>5
<1> QED BY <1>3, <1>4, <1>6

(* Moving the first event of the stream to the end of the queue changes no   *)
(* order (sdk.tsx:46-58).                                                    *)
LEMMA HeadAndTail ==
  ASSUME NEW S, NEW q \in Seq(S), NEW r \in Seq(S), r # <<>>
  PROVE  /\ Head(r) \in S /\ Tail(r) \in Seq(S)
         /\ <<Head(r)>> \in Seq(S) /\ <<Head(r)>> \o Tail(r) = r
         /\ Append(q, Head(r)) \in Seq(S) /\ Append(q, Head(r)) # <<>>
         /\ Append(q, Head(r)) \o Tail(r) = q \o r
<1>1. PICK h \in S : h = Head(r)
  BY HeadTailProperties
<1>2. PICK t \in Seq(S) : t = Tail(r)
  BY HeadTailProperties
<1>3. Len(t) = Len(r) - 1 /\ \A i \in 1..Len(t) : t[i] = r[i + 1]
  BY <1>2, HeadTailProperties
<1>4. Len(r) \in Nat /\ Len(t) \in Nat
  BY LenProperties
<1>5. r[1] = h
  BY <1>1
<1>6. PICK w \in Seq(S) : w = <<h>> \o t
  BY OneBefore
<1>7. Len(w) = 1 + Len(t) /\ w[1] = h /\ \A i \in 1..Len(t) : w[i + 1] = t[i]
  BY <1>6, OneBefore
<1>8. w = r
  <2>1. Len(w) = Len(r)
    BY <1>3, <1>4, <1>7
  <2>2. ASSUME NEW i \in 1..Len(w) PROVE w[i] = r[i]
    <3>1. CASE i = 1
      BY <1>5, <1>7, <3>1
    <3>2. CASE i # 1
      <4>1. i - 1 \in 1..Len(t) /\ (i - 1) + 1 = i
        BY <1>4, <1>7, <3>2
      <4> QED BY <1>3, <1>7, <4>1
    <3> QED BY <3>1, <3>2
  <2> QED BY <2>1, <2>2, SeqEqual
<1>9. <<h>> \in Seq(S)
  BY OneIs
<1>10. Append(q, h) \in Seq(S) /\ Append(q, h) # <<>> /\ Append(q, h) = q \o <<h>>
  BY AppendProperties, AppendIsConcat
<1>11. Append(q, h) \o t = q \o (<<h>> \o t)
  BY <1>9, <1>10, ConcatAssociative
<1> QED BY <1>1, <1>2, <1>6, <1>8, <1>9, <1>10, <1>11

(* An event is received: queued, or applied at once (sdk.tsx:46-58).         *)
LEMMA ReceiveKeeps ==
  ASSUME SyncInv, Receive
  PROVE  SyncInv'
<1>1. stream \in Seq(StreamEvents) /\ stream # <<>> /\ batch \in Seq(StreamEvents)
  BY DEF SyncInv, ServerData, TerminalData, Receive
<1>2. PICK r \in Seq(StreamEvents) : r = stream
  BY <1>1
<1>3. PICK q \in Seq(StreamEvents) : q = batch
  BY <1>1
<1>4. /\ Head(r) \in StreamEvents /\ Tail(r) \in Seq(StreamEvents)
      /\ <<Head(r)>> \in Seq(StreamEvents) /\ <<Head(r)>> \o Tail(r) = r
      /\ Append(q, Head(r)) \in Seq(StreamEvents) /\ Append(q, Head(r)) # <<>>
      /\ Append(q, Head(r)) \o Tail(r) = q \o r
  BY <1>1, <1>2, HeadAndTail
<1>5. /\ stored' = stored /\ created' = created /\ jobs' = jobs
      /\ synced' = synced /\ loads' = loads /\ loaded' = loaded
  BY DEF Receive
<1>6. CASE /\ batch' = Append(batch, Head(stream)) /\ timer' = TRUE /\ stream' = Tail(stream)
           /\ UNCHANGED <<view, pushed, lists, untold, reading, due, subscribed>>
  <2>1. batch' = Append(q, Head(r)) /\ stream' = Tail(r)
    BY <1>2, <1>3, <1>6
  <2>2. Pending' = Pending
    BY <1>2, <1>3, <1>4, <2>1 DEF Pending
  <2>3. Excused' = Excused
    BY <1>5, <1>6 DEF Excused, Creating
  <2>4. EventsRight' /\ CopyRight'
    BY <1>5, <1>6, <2>2, <2>3 DEF SyncInv, EventsRight, CopyRight
  <2>5. TerminalData'
    BY <1>4, <1>5, <1>6, <2>1 DEF SyncInv, TerminalData
  <2>6. ServerData'
    BY <1>4, <1>5, <1>6, <2>1 DEF SyncInv, ServerData
  <2> QED BY <2>4, <2>5, <2>6 DEF SyncInv
<1>7. CASE ~timer /\ Render(<<Head(stream)>>) /\ GoesOn(<<Head(stream)>>, Tail(stream)) /\ UNCHANGED timer
  <2>1. batch = <<>> /\ timer' = FALSE
    BY <1>7 DEF SyncInv, TerminalData
  <2>2. PICK events \in Seq(StreamEvents) : events = <<Head(r)>>
    BY <1>4
  <2>3. PICK rest \in Seq(StreamEvents) : rest = Tail(r)
    BY <1>4
  <2>4. Pending = events \o rest
    BY <1>2, <1>4, <2>1, <2>2, <2>3, NothingBefore DEF Pending
  <2>5. Render(events) /\ GoesOn(events, rest)
    BY <1>2, <1>7, <2>2, <2>3
  <2>6. \/ stream' = rest /\ untold' = Told(events, rest) /\ subscribed' = subscribed
        \/ stream' = <<>> /\ untold' = Told(events, rest) \cup KeysOf(rest) /\ subscribed' = FALSE
    BY <2>5 DEF GoesOn
  <2> QED BY <1>5, <2>1, <2>4, <2>5, <2>6, BatchKeeps
<1> QED BY <1>6, <1>7 DEF Receive

(* The timer applies the batch (sdk.tsx:50-57).                              *)
LEMMA BatchTimerKeeps ==
  ASSUME SyncInv, BatchTimer
  PROVE  SyncInv'
<1>1. stream \in Seq(StreamEvents) /\ batch \in Seq(StreamEvents)
  BY DEF SyncInv, ServerData, TerminalData
<1>2. Pending = batch \o stream
  BY DEF Pending
<1> QED BY <1>1, <1>2, BatchKeeps DEF BatchTimer

(* The stream has ended and the batch is applied (sdk.tsx:60-65).            *)
LEMMA StreamEndsKeeps ==
  ASSUME SyncInv, StreamEnds
  PROVE  SyncInv'
<1>1. batch \in Seq(StreamEvents) /\ stream = <<>>
  BY DEF SyncInv, TerminalData, StreamEnds
<1>2. PICK rest \in Seq(StreamEvents) : rest = <<>>
  BY EmptySeq
<1>3. Pending = batch \o rest
  BY <1>1, <1>2 DEF Pending
<1>4. \/ stream' = rest /\ untold' = Told(batch, rest) /\ subscribed' = subscribed
      \/ stream' = <<>> /\ untold' = Told(batch, rest) \cup KeysOf(rest) /\ subscribed' = FALSE
  BY <1>2 DEF StreamEnds, GoesOn
<1> QED BY <1>1, <1>3, <1>4, BatchKeeps DEF StreamEnds

(* The terminal subscribes again (sdk.tsx:19-30).                            *)
LEMMA ResubscribeKeeps ==
  ASSUME SyncInv, Resubscribe
  PROVE  SyncInv'
<1>1. /\ UNCHANGED <<terminalVars, stored, created, jobs, stream, untold>> /\ subscribed' = TRUE
  BY DEF Resubscribe, EventRoute
<1>2. Excused' = Excused /\ Pending' = Pending
  BY <1>1 DEF Excused, Creating, Pending, terminalVars
<1>3. EventsRight' /\ CopyRight'
  BY <1>1, <1>2 DEF SyncInv, EventsRight, CopyRight, terminalVars
<1>4. ServerData'
  BY <1>1 DEF SyncInv, ServerData
<1> QED BY <1>1, <1>3, <1>4, TerminalDataStays DEF SyncInv

-----------------------------------------------------------------------------
(* Fetches *)

(* What an answer says of a record is a version, and none if it was not      *)
(* asked for it (sync.tsx:349-371).                                          *)
LEMMA GotIs ==
  ASSUME NEW l, NEW k, l.got \subseteq Records \X (0..MaxVersion)
  PROVE  /\ Got(l, k) \in 0..MaxVersion
         /\ Got(l, k) # 0 => \E r \in l.got : r[1] = k
<1>1. CASE \E r \in l.got : r[1] = k
  <2>1. PICK r : r = CHOOSE g \in l.got : g[1] = k
    OBVIOUS
  <2>2. r \in l.got
    BY <1>1, <2>1
  <2>3. Got(l, k) = r[2]
    BY <1>1, <2>1 DEF Got
  <2> QED BY <1>1, <2>2, <2>3
<1>2. CASE ~\E r \in l.got : r[1] = k
  BY <1>2, ServerAssumption DEF Got
<1> QED BY <1>1, <1>2

(* An answer shown over the copy leaves it right: what it has wrong is       *)
(* excused, and what waits is not forgiven (sync.tsx:357-369).               *)
LEMMA ShowsKeeps ==
  ASSUME SyncInv, NEW l, NEW keys \in SUBSET Records, l.got \subseteq Records \X (0..MaxVersion), Shows(l, keys),
         stored' = stored, jobs' = jobs, stream' = stream, batch' = batch
  PROVE  /\ view' \in Versions /\ pushed' \subseteq Records /\ untold' \subseteq Records
         /\ EventsRight' /\ CopyRight'
<1>1. /\ view' = [k \in Records |-> IF k \in keys THEN Got(l, k) ELSE view[k]]
      /\ pushed' = pushed \ keys
      /\ untold' = (untold \ (keys \ OnItsWay)) \cup {k \in keys : Got(l, k) # stored[k]}
  BY DEF Shows
<1>2. /\ view \in Versions /\ pushed \subseteq Records /\ untold \subseteq Records
      /\ batch \in Seq(StreamEvents) /\ stream \in Seq(StreamEvents)
  BY DEF SyncInv, ServerData, TerminalData
<1>3. view' \in Versions
  BY <1>1, <1>2, GotIs DEF Versions
<1>4. pushed' \subseteq Records /\ untold' \subseteq Records
  BY <1>1, <1>2
<1>5. PICK q \in Seq(StreamEvents) : q = Pending
  BY PendingIs
<1>6. /\ Pending' = q /\ Creating' = Creating
      /\ WaitsRight(q, Excused, stored)
      /\ ShowsRight(KeysOf(q), Excused, stored, [view |-> view, pushed |-> pushed])
  BY <1>5 DEF Pending, Creating, SyncInv, EventsRight, CopyRight
<1>7. \A k \in Records : k \in KeysOf(q) => k \in OnItsWay
  BY <1>2, <1>5, KeysOfBoth DEF Pending, OnItsWay
<1>8. ASSUME NEW k \in Records, k \notin Excused', k \in KeysOf(q) \/ k \notin keys
      PROVE  k \notin Excused
  BY <1>1, <1>6, <1>7, <1>8 DEF Excused
<1>9. WaitsRight(q, Excused', stored)
  <2> SUFFICES ASSUME NEW i \in DOMAIN q, q[i].type # "disposed", LastIn(q, i), q[i].key \notin Excused'
               PROVE  q[i].late \/ q[i].version = stored[q[i].key]
    BY DEF WaitsRight
  <2>1. q[i] \in StreamEvents
    OBVIOUS
  <2>2. q[i].key \in Records /\ q[i].key \in KeysOf(q)
    BY <2>1, EventIs DEF KeysOf
  <2>3. q[i].key \notin Excused
    BY <1>8, <2>2
  <2> QED BY <1>6, <2>3 DEF WaitsRight
<1>10. ShowsRight(KeysOf(q), Excused', stored, [view |-> view', pushed |-> pushed'])
  <2> SUFFICES ASSUME NEW k \in Records, k \notin KeysOf(q), k \notin Excused'
               PROVE  ShownWith([view |-> view', pushed |-> pushed'], k, stored[k])
    BY DEF ShowsRight
  <2>1. CASE k \in keys
    <3>1. Got(l, k) = stored[k]
      BY <1>1, <2>1 DEF Excused
    <3> QED BY <1>1, <2>1, <3>1 DEF ShownWith
  <2>2. CASE k \notin keys
    <3>1. view[k] = stored[k] \/ k \in pushed
      BY <1>6, <1>8, <2>2 DEF ShowsRight, ShownWith
    <3> QED BY <1>1, <2>2, <3>1 DEF ShownWith
  <2> QED BY <2>1, <2>2
<1> QED BY <1>3, <1>4, <1>6, <1>9, <1>10 DEF EventsRight, CopyRight

(* The newest messages that a fetch lists are no more than are kept          *)
(* (server.ts:1134-1172).                                                    *)
LEMMA NewestAreFew ==
  ASSUME NEW s, NEW listed,
         listed = {m \in Posts : Has(Post(s, m)) /\ Cardinality(NewerPosts(s, m)) < MaxShown}
  PROVE  IsFiniteSet(listed) /\ Cardinality(listed) <= MaxShown
<1>1. IsFiniteSet(Posts)
  BY FS_Interval, ServerAssumption DEF Posts
<1>2. listed \subseteq Posts /\ IsFiniteSet(listed)
  BY <1>1, FS_Subset
<1>3. CASE listed = {}
  BY <1>2, <1>3, FS_EmptySet, TerminalAssumption
<1>4. CASE listed # {}
  <2>1. listed \in SUBSET Nat
    BY <1>2, ServerAssumption DEF Posts
  <2>2. PICK m \in listed : \A n \in listed : m <= n
    BY <1>4, <2>1, LeastOf
  <2>3. listed \ {m} \subseteq NewerPosts(s, m)
    BY <1>2, <2>1, <2>2 DEF NewerPosts
  <2>4. IsFiniteSet(NewerPosts(s, m))
    <3>1. NewerPosts(s, m) \subseteq Posts
      BY DEF NewerPosts
    <3> QED BY <1>1, <3>1, FS_Subset
  <2>5. Cardinality(listed \ {m}) <= Cardinality(NewerPosts(s, m)) /\ Cardinality(NewerPosts(s, m)) < MaxShown
    BY <2>2, <2>3, <2>4, FS_Subset
  <2>6. Cardinality(listed \ {m}) = Cardinality(listed) - 1
    BY <1>2, <2>2, FS_RemoveElement
  <2>7. Cardinality(listed) \in Nat /\ Cardinality(NewerPosts(s, m)) \in Nat
    BY <1>2, <2>4, FS_CardinalityType
  <2> QED BY <1>2, <2>5, <2>6, <2>7, TerminalAssumption
<1> QED BY <1>3, <1>4

(* A step that changes only fetches keeps the invariant (sync.tsx:265-371).  *)
LEMMA FetchKeeps ==
  ASSUME SyncInv, UNCHANGED <<serverVars, view, pushed, batch, timer, synced>>,
         \A l \in loads' : LoadFits(l), loaded' \in Nat, due' \subseteq Bootstrap
  PROVE  SyncInv'
<1>1. /\ stored' = stored /\ created' = created /\ jobs' = jobs /\ stream' = stream
      /\ subscribed' = subscribed /\ untold' = untold
      /\ view' = view /\ pushed' = pushed /\ batch' = batch /\ timer' = timer /\ synced' = synced
  BY DEF serverVars
<1>2. Excused' = Excused /\ Pending' = Pending
  BY <1>1 DEF Excused, Creating, Pending
<1>3. EventsRight' /\ CopyRight'
  BY <1>1, <1>2 DEF SyncInv, EventsRight, CopyRight
<1>4. ServerData'
  BY <1>1 DEF SyncInv, ServerData
<1>5. TerminalData'
  <2>1. \A l : LoadFits(l)' <=> LoadFits(l)
    BY DEF LoadFits, ListedPosts
  <2> QED BY <1>1, <2>1 DEF SyncInv, TerminalData
<1> QED BY <1>3, <1>4, <1>5 DEF SyncInv

(* A fetch begins (sync.tsx:265-356).                                        *)
LEMMA BeginKeeps ==
  ASSUME SyncInv, NEW l, LoadFits(l), Begin(l), due' \subseteq due
  PROVE  SyncInv'
<1>1. /\ UNCHANGED <<serverVars, view, pushed, batch, timer, synced>>
      /\ loads' = loads \cup {l} /\ loaded' = loaded + 1
  BY DEF Begin
<1>2. /\ \A m \in loads : LoadFits(m)
      /\ loaded \in Nat /\ due \subseteq Bootstrap
  BY DEF SyncInv, TerminalData
<1>3. \A m \in loads' : LoadFits(m)
  BY <1>1, <1>2
<1>4. loaded' \in Nat /\ due' \subseteq Bootstrap
  BY <1>1, <1>2
<1> QED BY <1>1, <1>3, <1>4, FetchKeeps

(* A fetch begins with nothing read (sync.tsx:265-356).                      *)
LEMMA LoadBegins ==
  ASSUME SyncInv, NEW kind \in {"list", "status", "sync"}, NEW s \in Talking \cup {Project}, NEW of \in SUBSET Records,
         kind = "sync" => s \in Talking /\ of = {Info(s)}
  PROVE  LoadFits(Load(kind, s, of))
<1>1. PICK l : l = Load(kind, s, of)
  OBVIOUS
<1>2. loaded \in Nat
  BY DEF SyncInv, TerminalData
<1>3. l \in LoadRecords /\ l.kind = kind /\ l.session = s /\ l.of = of /\ l.got = {} /\ l.listed = FALSE
  BY <1>1, <1>2 DEF Load, LoadRecords
<1>4. ASSUME kind = "sync" PROVE Cardinality(ListedPosts(l)) <= MaxShown
  <2>1. ListedPosts(l) = {}
    BY <1>3, <1>4 DEF ListedPosts, Post, Info
  <2> QED BY <2>1, FS_EmptySet, TerminalAssumption
<1> QED BY <1>1, <1>3, <1>4 DEF LoadFits

(* The bootstrap begins a fetch (sync.tsx:265-317).                          *)
LEMMA BootstrapKeeps ==
  ASSUME SyncInv, BootstrapLoads
  PROVE  SyncInv'
<1>1. PICK kind \in due : /\ Begin(Load(kind, Project, IF kind = "list" THEN Infos ELSE StatusRecords))
                          /\ due' = due \ {kind}
  BY DEF BootstrapLoads
<1>2. kind \in {"list", "status"}
  BY DEF SyncInv, TerminalData, Bootstrap
<1>3. Infos \subseteq Records /\ StatusRecords \subseteq Records
  BY DEF Records, InMemory, StatusRecords
<1>4. LoadFits(Load(kind, Project, IF kind = "list" THEN Infos ELSE StatusRecords))
  BY <1>2, <1>3, LoadBegins
<1> QED BY <1>1, <1>4, BeginKeeps

(* The page of a session begins a fetch (sync.tsx:323-356).                  *)
LEMMA OpenKeeps ==
  ASSUME SyncInv, NEW s \in Talking, OpenSession(s)
  PROVE  SyncInv'
<1>1. {Info(s)} \in SUBSET Records
  BY RecordsAre, ServerAssumption
<1>2. LoadFits(Load("sync", s, {Info(s)}))
  BY <1>1, LoadBegins
<1> QED BY <1>2, BeginKeeps DEF OpenSession

(* A fetch under way goes on (server.ts:634-1172).                           *)
LEMMA GoesOnFetching ==
  ASSUME SyncInv, NEW l \in loads, NEW m, LoadFits(m), Proceeds(l, m), Fetching,
         UNCHANGED <<view, pushed, lists, synced, untold>>
  PROVE  SyncInv'
<1>1. UNCHANGED <<serverVars, view, pushed, batch, timer, synced>> /\ due' = due /\ loaded' = loaded
      /\ loads' = (loads \ {l}) \cup {m}
  <2>1. requests' = requests /\ subscribed' = subscribed
    BY DEF Fetching
  <2> QED BY <2>1 DEF Fetching, Proceeds, serverVars
<1>2. \A n \in loads' : LoadFits(n)
  BY <1>1 DEF SyncInv, TerminalData
<1>3. loaded' \in Nat /\ due' \subseteq Bootstrap
  BY <1>1 DEF SyncInv, TerminalData
<1> QED BY <1>1, <1>2, <1>3, FetchKeeps

(* Lists of sessions and statuses fit any bound on messages                  *)
(* (server.ts:634-683).                                                      *)
LEMMA ListsFit ==
  ASSUME SyncInv, NEW l, LoadFits(l), ~l.listed, NEW of \in SUBSET Records,
         NEW got \in SUBSET (Records \X (0..MaxVersion)), l.kind # "sync"
  PROVE  /\ LoadFits([l EXCEPT !.listed = TRUE, !.of = of])
         /\ LoadFits([l EXCEPT !.listed = TRUE, !.got = got])
<1>1. l \in LoadRecords
  BY DEF LoadFits
<1>2. PICK m : m = [l EXCEPT !.listed = TRUE, !.of = of]
  OBVIOUS
<1>3. PICK n : n = [l EXCEPT !.listed = TRUE, !.got = got]
  OBVIOUS
<1>4. m \in LoadRecords /\ m.kind = l.kind /\ n \in LoadRecords /\ n.kind = l.kind
  BY <1>1, <1>2, <1>3 DEF LoadRecords
<1> QED BY <1>2, <1>3, <1>4 DEF LoadFits

(* A route lists what it will answer (server.ts:634-1172).                   *)
LEMMA ListingKeeps ==
  ASSUME SyncInv, NEW l \in loads, LoadLists(l)
  PROVE  SyncInv'
<1>1. LoadFits(l) /\ ~l.listed /\ Fetching /\ UNCHANGED <<view, pushed, lists, synced, untold>>
  BY DEF SyncInv, TerminalData, LoadLists
<1>2. l \in LoadRecords /\ l.of \subseteq Records /\ stored \in Versions
  BY <1>1 DEF LoadFits, LoadRecords, SyncInv, ServerData
<1>3. CASE l.kind = "list" /\ ListSessionsRoute(l)
  <2>1. PICK of : of = {k \in l.of : Has(k)}
    OBVIOUS
  <2>2. Proceeds(l, [l EXCEPT !.listed = TRUE, !.of = of])
    BY <1>3, <2>1 DEF ListSessionsRoute
  <2>3. LoadFits([l EXCEPT !.listed = TRUE, !.of = of])
    BY <1>1, <1>2, <1>3, <2>1, ListsFit
  <2> QED BY <1>1, <2>2, <2>3, GoesOnFetching
<1>4. CASE l.kind = "status" /\ StatusRoute(l)
  <2>1. PICK got : got = {<<k, stored[k]>> : k \in l.of}
    OBVIOUS
  <2>2. got \subseteq Records \X (0..MaxVersion)
    BY <1>2, <2>1 DEF Versions
  <2>3. Proceeds(l, [l EXCEPT !.listed = TRUE, !.got = got])
    BY <1>4, <2>1 DEF StatusRoute
  <2>4. LoadFits([l EXCEPT !.listed = TRUE, !.got = got])
    BY <1>1, <1>2, <1>4, <2>2, ListsFit
  <2> QED BY <1>1, <2>3, <2>4, GoesOnFetching
<1>5. CASE l.kind = "sync" /\ MessagesRoute(l)
  <2>1. PICK s : s = l.session
    OBVIOUS
  <2>2. PICK listed : listed = {m \in Posts : Has(Post(s, m)) /\ Cardinality(NewerPosts(s, m)) < MaxShown}
    OBVIOUS
  <2>3. PICK of : of = l.of \cup {Post(s, m) : m \in listed}
                            \cup {PartOf(s, m) : m \in {n \in listed : Has(PartOf(s, n))}}
    OBVIOUS
  <2>4. PICK m : m = [l EXCEPT !.listed = TRUE, !.of = of]
    OBVIOUS
  <2>5. Proceeds(l, m)
    BY <1>5, <2>1, <2>2, <2>3, <2>4 DEF MessagesRoute
  <2>6. s \in Talking /\ l.of = {Info(s)} /\ \A r \in l.got : r[1] \in l.of
    BY <1>1, <1>5, <2>1 DEF LoadFits
  <2>7. of \subseteq Records
    BY <1>2, <2>2, <2>3, <2>6, RecordsAre
  <2>8. m \in LoadRecords /\ m.kind = "sync" /\ m.session = s /\ m.listed /\ m.of = of /\ m.got = l.got
    BY <1>2, <1>5, <2>1, <2>4, <2>7 DEF LoadRecords
  <2>9. ListedPosts(m) = listed
    <3>1. ASSUME NEW n \in Posts PROVE Post(s, n) \in of <=> n \in listed
      BY <2>3, <2>6 DEF Post, Info, PartOf
    <3> QED BY <2>2, <2>8, <3>1 DEF ListedPosts
  <2>10. Cardinality(ListedPosts(m)) <= MaxShown
    BY <2>2, <2>9, NewestAreFew
  <2>11. \A r \in m.got : r[1] \in m.of
    BY <2>3, <2>6, <2>8
  <2>12. LoadFits(m)
    BY <2>6, <2>8, <2>10, <2>11 DEF LoadFits
  <2> QED BY <1>1, <2>5, <2>12, GoesOnFetching
<1> QED BY <1>3, <1>4, <1>5 DEF LoadLists

(* A route reads one record (session/index.ts:273-294).                      *)
LEMMA ReadingKeeps ==
  ASSUME SyncInv, NEW l \in loads, LoadReads(l)
  PROVE  SyncInv'
<1>1. LoadFits(l) /\ Fetching /\ UNCHANGED <<view, pushed, lists, synced, untold>>
  BY DEF SyncInv, TerminalData, LoadReads
<1>2. l \in LoadRecords /\ l.of \subseteq Records /\ stored \in Versions
  BY <1>1 DEF LoadFits, LoadRecords, SyncInv, ServerData
<1>3. PICK k : k = CHOOSE u \in Unread(l) : TRUE
  OBVIOUS
<1>4. k \in l.of /\ l.listed
  BY <1>3 DEF LoadReads, Unread
<1>5. PICK m : m = [l EXCEPT !.got = l.got \cup {<<k, stored[k]>>}, !.failed = l.failed \/ ~Has(k)]
  OBVIOUS
<1>6. Proceeds(l, m)
  BY <1>3, <1>5 DEF LoadReads
<1>7. <<k, stored[k]>> \in Records \X (0..MaxVersion)
  BY <1>2, <1>4 DEF Versions
<1>8. PICK got : got = l.got \cup {<<k, stored[k]>>}
  OBVIOUS
<1>9. got \subseteq Records \X (0..MaxVersion)
  BY <1>2, <1>7, <1>8 DEF LoadRecords
<1>10. PICK failed \in BOOLEAN : failed = (l.failed \/ ~Has(k))
  OBVIOUS
<1>11. m = [l EXCEPT !.got = got, !.failed = failed]
  BY <1>5, <1>8, <1>10
<1>12. /\ m \in LoadRecords /\ m.kind = l.kind /\ m.session = l.session
       /\ m.of = l.of /\ m.listed = l.listed /\ m.got = got
  BY <1>2, <1>9, <1>11 DEF LoadRecords
<1>13. ListedPosts(m) = ListedPosts(l)
  BY <1>12 DEF ListedPosts
<1>14. LoadFits(m)
  BY <1>1, <1>4, <1>8, <1>12, <1>13 DEF LoadFits
<1> QED BY <1>1, <1>6, <1>14, GoesOnFetching

(* An answer is shown (sync.tsx:349-371).                                    *)
LEMMA ArrivedKeeps ==
  ASSUME SyncInv, NEW l \in loads, NEW m, NEW keys \in SUBSET Records, m.got \subseteq Records \X (0..MaxVersion),
         Shows(m, keys), Fetching, loads' = loads \ {l}, synced' \subseteq Rooms, FewShown(view')
  PROVE  SyncInv'
<1>1. /\ stored' = stored /\ created' = created /\ jobs' = jobs /\ stream' = stream /\ subscribed' = subscribed
      /\ batch' = batch /\ timer' = timer /\ due' = due /\ loaded' = loaded
  BY DEF Fetching
<1>2. /\ view' \in Versions /\ pushed' \subseteq Records /\ untold' \subseteq Records
      /\ EventsRight' /\ CopyRight'
  BY <1>1, ShowsKeeps
<1>3. ServerData'
  BY <1>1, <1>2 DEF SyncInv, ServerData
<1>4. TerminalData'
  <2>1. \A n : LoadFits(n)' <=> LoadFits(n)
    BY DEF LoadFits, ListedPosts
  <2>2. \A n \in loads' : LoadFits(n)
    BY DEF SyncInv, TerminalData
  <2> QED BY <1>1, <1>2, <2>1, <2>2 DEF SyncInv, TerminalData
<1> QED BY <1>2, <1>3, <1>4 DEF SyncInv

(* An answer about no message leaves the messages (sync.tsx:265-317).        *)
LEMMA PostsStay ==
  ASSUME SyncInv, NEW m, NEW keys, Shows(m, keys), \A s \in Talking, n \in Posts : Post(s, n) \notin keys
  PROVE  FewShown(view')
<1> SUFFICES ASSUME NEW s \in Talking PROVE ShownIn(view', s) = ShownIn(view, s)
  BY DEF FewShown, SyncInv, TerminalData
<1> SUFFICES ASSUME NEW n \in Posts PROVE view'[Post(s, n)] = view[Post(s, n)]
  BY DEF ShownIn
<1> QED BY RecordsAre DEF Shows

(* An answer of any kind arrives, or is rejected (sync.tsx:289-371).         *)
LEMMA ArrivingKeeps ==
  ASSUME SyncInv, NEW l \in loads, LoadArrives(l)
  PROVE  SyncInv'
<1>1. LoadFits(l) /\ Fetching /\ loads' = loads \ {l}
  BY DEF SyncInv, TerminalData, LoadArrives
<1>2. l \in LoadRecords /\ l.got \subseteq Records \X (0..MaxVersion) /\ synced \subseteq Rooms
  BY <1>1 DEF LoadFits, LoadRecords, SyncInv, TerminalData
<1>3. Infos \subseteq Records /\ StatusRecords \subseteq Records
  BY DEF Records, InMemory, StatusRecords
<1>4. CASE l.kind = "list" /\ ListArrives(l)
  <2>1. PICK m : (m = l \/ m = Nothing(l)) /\ Shows(m, Infos)
    BY <1>4 DEF ListArrives
  <2>2. m.got \subseteq Records \X (0..MaxVersion)
    <3>1. Nothing(l).got = {}
      BY <1>2 DEF Nothing, LoadRecords
    <3> QED BY <1>2, <2>1, <3>1
  <2>3. \A s \in Talking, n \in Posts : Post(s, n) \notin Infos
    BY DEF Infos, Info, Post
  <2>4. FewShown(view')
    BY <2>1, <2>3, PostsStay
  <2> QED BY <1>1, <1>2, <1>3, <1>4, <2>1, <2>2, <2>4, ArrivedKeeps DEF ListArrives
<1>5. CASE l.kind = "status" /\ Shows(l, StatusRecords) /\ UNCHANGED <<lists, synced>>
  <2>1. \A s \in Talking, n \in Posts : Post(s, n) \notin StatusRecords
    BY DEF StatusRecords, StatusOf, Post
  <2>2. FewShown(view')
    BY <1>5, <2>1, PostsStay
  <2> QED BY <1>1, <1>2, <1>3, <1>5, <2>2, ArrivedKeeps
<1>6. CASE l.kind = "sync" /\ SyncArrives(l) /\ ~l.failed
  <2>1. PICK s : s = l.session
    OBVIOUS
  <2>2. PICK got : got = {m \in Posts : Post(s, m) \in l.of}
    OBVIOUS
  <2>3. PICK keys : keys = {Info(s)} \cup {Post(s, m) : m \in Posts} \cup {PartOf(s, m) : m \in got}
    OBVIOUS
  <2>4. Shows(l, keys) /\ synced' = synced \cup {s}
    BY <1>6, <2>1, <2>2, <2>3 DEF SyncArrives
  <2>5. /\ s \in Talking /\ Cardinality(got) <= MaxShown
        /\ \A r \in l.got : r[1] \in l.of
    BY <1>1, <1>6, <2>1, <2>2 DEF LoadFits, ListedPosts
  <2>6. keys \subseteq Records /\ s \in Rooms
    BY <2>2, <2>3, <2>5, RecordsAre, ServerAssumption
  <2>7. FewShown(view')
    <3> SUFFICES ASSUME NEW t \in Talking PROVE Cardinality(ShownIn(view', t)) <= MaxShown
      BY DEF FewShown
    <3>1. CASE t = s
      <4>1. ShownIn(view', s) \subseteq got
        <5> SUFFICES ASSUME NEW m \in Posts, view'[Post(s, m)] # 0 PROVE Post(s, m) \in l.of
          BY <2>2 DEF ShownIn
        <5>1. Got(l, Post(s, m)) # 0
          <6>1. Post(s, m) \in keys /\ Post(s, m) \in Records
            BY <2>3, <2>6
          <6> QED BY <2>4, <6>1 DEF Shows
        <5> QED BY <1>2, <2>5, <5>1, GotIs
      <4>2. IsFiniteSet(got)
        <5>1. IsFiniteSet(Posts)
          BY FS_Interval, ServerAssumption DEF Posts
        <5> QED BY <2>2, <5>1, FS_Subset
      <4>3. Cardinality(ShownIn(view', s)) <= Cardinality(got) /\ Cardinality(got) \in Nat
        BY <4>1, <4>2, FS_Subset, FS_CardinalityType
      <4>4. Cardinality(ShownIn(view', s)) \in Nat
        BY <4>1, <4>2, FS_Subset, FS_CardinalityType
      <4> QED BY <2>5, <3>1, <4>3, <4>4, TerminalAssumption
    <3>2. CASE t # s
      <4>1. ASSUME NEW n \in Posts PROVE view'[Post(t, n)] = view[Post(t, n)]
        <5>1. Post(t, n) \in Records /\ Post(t, n) \notin keys
          BY <2>3, <3>2, RecordsAre DEF Post, Info, PartOf
        <5> QED BY <2>4, <5>1 DEF Shows
      <4>2. ShownIn(view', t) = ShownIn(view, t)
        BY <4>1 DEF ShownIn
      <4> QED BY <4>2 DEF FewShown, SyncInv, TerminalData
    <3> QED BY <3>1, <3>2
  <2> QED BY <1>1, <1>2, <2>4, <2>6, <2>7, ArrivedKeeps
<1>7. CASE l.kind = "sync" /\ SyncArrives(l) /\ l.failed
  <2>1. UNCHANGED <<view, pushed, untold, lists, synced>>
    BY <1>7 DEF SyncArrives
  <2>2. UNCHANGED <<serverVars, view, pushed, batch, timer, synced>> /\ due' = due /\ loaded' = loaded
    BY <1>1, <2>1 DEF Fetching, serverVars
  <2>3. \A n \in loads' : LoadFits(n)
    BY <1>1 DEF SyncInv, TerminalData
  <2>4. loaded' \in Nat /\ due' \subseteq Bootstrap
    BY <2>2 DEF SyncInv, TerminalData
  <2> QED BY <2>2, <2>3, <2>4, FetchKeeps
<1> QED BY <1>4, <1>5, <1>6, <1>7 DEF LoadArrives

-----------------------------------------------------------------------------
(* The terminal shows what the server has *)

(* PlacedAt first nothing is shown and nothing was told (sync.tsx:32-94).          *)
LEMMA SyncBegins ==
  ASSUME ServerInit, TerminalInit
  PROVE  SyncInv
<1>1. /\ created = {s \in Rooms : Has(Info(s))} /\ jobs = {} /\ stream = <<>> /\ subscribed = FALSE
      /\ untold = {k \in Records : Has(k)}
      /\ view = [k \in Records |-> 0] /\ pushed = {} /\ batch = <<>> /\ timer = FALSE
      /\ due = Bootstrap /\ loaded = 0 /\ loads = {} /\ synced = {}
  BY DEF ServerInit, TerminalInit
<1>2. stored \in Versions
  <2>1. PICK present : stored = [k \in Records |-> IF k \in present THEN 1 ELSE 0]
    BY DEF ServerInit
  <2> QED BY <2>1, ServerAssumption DEF Versions
<1>3. PICK none : none = <<>>
  OBVIOUS
<1>4. none \in Seq(StreamEvents) /\ DOMAIN none = {} /\ none \o none = none
  BY <1>3
<1>5. Pending = none
  BY <1>1, <1>3, <1>4 DEF Pending
<1>6. FewShown(view)
  <2> SUFFICES ASSUME NEW s \in Talking PROVE Cardinality(ShownIn(view, s)) <= MaxShown
    BY DEF FewShown
  <2>1. ShownIn(view, s) = {}
    BY <1>1, RecordsAre DEF ShownIn
  <2> QED BY <2>1, FS_EmptySet, TerminalAssumption
<1>7. ServerData
  BY <1>1, <1>2, <1>3, <1>4 DEF ServerData
<1>8. TerminalData
  <2>1. view \in Versions
    BY <1>1, ServerAssumption DEF Versions
  <2> QED BY <1>1, <1>3, <1>4, <1>6, <2>1 DEF TerminalData
<1>9. EventsRight
  BY <1>4, <1>5 DEF EventsRight, WaitsRight
<1>10. CopyRight
  BY <1>1, <1>5 DEF CopyRight, ShowsRight, ShownWith, Excused, Has
<1> QED BY <1>7, <1>8, <1>9, <1>10 DEF SyncInv

(* The invariant says that the copy is right (sync.tsx:97-371).              *)
LEMMA SyncShows ==
  ASSUME SyncInv
  PROVE  TerminalAgrees
<1>1. stream \in Seq(StreamEvents) /\ batch \in Seq(StreamEvents)
  BY DEF SyncInv, ServerData, TerminalData
<1>2. PICK q : q = Pending
  OBVIOUS
<1>3. ASSUME NEW k \in Records, k \in KeysOf(q) PROVE k \in OnItsWay
  BY <1>1, <1>2, <1>3, KeysOfBoth DEF OnItsWay, Pending
<1>4. \A k \in Records : k \notin OnItsWay \cup untold => view[k] = stored[k] \/ k \in pushed
  BY <1>2, <1>3 DEF SyncInv, CopyRight, ShowsRight, ShownWith, Excused, Creating, OnItsWay
<1>5. \A j \in jobs : j.op \in {"create", "update", "remove"}
  <2> SUFFICES ASSUME NEW j \in jobs PROVE j.op \in {"create", "update", "remove"}
    OBVIOUS
  <2>1. j \in JobRecords
    BY DEF SyncInv, ServerData
  <2> QED BY <2>1 DEF JobRecords
<1>6. \A i \in DOMAIN stream : stream[i].type \in {"updated", "removed", "disposed"}
  <2> SUFFICES ASSUME NEW i \in DOMAIN stream PROVE stream[i].type \in {"updated", "removed", "disposed"}
    OBVIOUS
  <2>1. stream[i] \in StreamEvents
    BY <1>1
  <2> QED BY <2>1, EventIs
<1>7. TerminalTypeOK
  BY <1>5, <1>6 DEF SyncInv, ServerData, TerminalData, TerminalTypeOK, ServerTypeOK, FewShown, Versions
<1> QED BY <1>4, <1>7 DEF TerminalAgrees

(* Every step keeps the invariant (sdk.tsx:19-65, sync.tsx:97-371,           *)
(* server.ts:549-2586).                                                      *)
LEMMA SyncStays ==
  ASSUME SyncInv, TerminalNext
  PROVE  SyncInv'
<1>1. CASE ServerNext /\ UNCHANGED terminalVars
  BY <1>1, ServerKeeps
<1>2. CASE Receive \/ BatchTimer \/ StreamEnds \/ Resubscribe
  BY <1>2, ReceiveKeeps, BatchTimerKeeps, StreamEndsKeeps, ResubscribeKeeps
<1>3. CASE BootstrapLoads \/ \E s \in Talking : OpenSession(s)
  BY <1>3, BootstrapKeeps, OpenKeeps
<1>4. CASE \E l \in loads : LoadLists(l) \/ LoadReads(l) \/ LoadArrives(l)
  BY <1>4, ListingKeeps, ReadingKeeps, ArrivingKeeps
<1> QED BY <1>1, <1>2, <1>3, <1>4 DEF TerminalNext, TerminalStep

(* A step that changes nothing keeps it (sdk.tsx:19-65).                     *)
LEMMA SyncStutters ==
  ASSUME SyncInv, UNCHANGED <<serverVars, terminalVars>>
  PROVE  SyncInv'
<1>1. /\ UNCHANGED <<serverVars, view, pushed, batch, timer, synced>>
      /\ loads' = loads /\ loaded' = loaded /\ due' = due
  BY DEF terminalVars
<1>2. (\A l \in loads' : LoadFits(l)) /\ loaded' \in Nat /\ due' \subseteq Bootstrap
  BY <1>1 DEF SyncInv, TerminalData
<1> QED BY <1>1, <1>2, FetchKeeps

(* Once no event about a record is on its way, the terminal shows it as the  *)
(* server has it, whatever order fetches and events came in, for any number  *)
(* of sessions, messages, requests and fetches (sync.tsx:97-371,             *)
(* sdk.tsx:19-65).                                                           *)
THEOREM TerminalCopyIsRight == TerminalSpec => []TerminalAgrees
<1>1. ServerInit /\ TerminalInit => SyncInv
  BY SyncBegins
<1>2. SyncInv /\ [TerminalNext]_<<serverVars, terminalVars>> => SyncInv'
  BY SyncStays, SyncStutters
<1>3. SyncInv => TerminalAgrees
  BY SyncShows
<1> QED BY <1>1, <1>2, <1>3, PTL DEF TerminalSpec

-----------------------------------------------------------------------------
(* The quality tool's reports *)

QualitySpec == QualityInit /\ [][QualityNext]_qualityVars

\* A call is a record of these fields.
CallFields == {"at", "update", "gate", "run", "skip", "diff", "stale", "used", "visible", "seen", "compiled",
               "ran", "scanned", "warnings", "failures", "sections", "rows", "outcome"}
IsCall(c) == c = [x \in CallFields |-> c[x]]
FileValues == UNION {Contents[f] : f \in SourceFiles}
Reports == {artifacts.jacoco, artifacts.surefire}
\* The reports are of the tests that this call ran itself.
Rebuilt == call.ran = "success" /\ call.at \in {"scan", "record", "print"}

QualityTypes ==
  /\ IsCall(call)
  /\ call.at \in {"idle", "check", "askWrite", "building", "scan", "record", "print", "gate"}
  /\ call.outcome \in {"none", "rejected", "noArtifacts", "gatesFailed", "reported"}
  /\ call.ran \in {"no", "success", "failed"} /\ call.visible \subseteq SourceFiles
  /\ source \in [SourceFiles -> FileValues]
  /\ newer \subseteq TestFiles
  /\ lapses \subseteq {"failed", "unrecorded", "untested", "sameTime"}
  /\ artifacts = [jacoco |-> artifacts.jacoco, surefire |-> artifacts.surefire]

\* No file was written and no commit made later than now.
ClocksAdvance ==
  /\ edits \in 0..MaxEdits
  /\ written \in [SourceFiles -> Int] /\ \A f \in SourceFiles : written[f] =< edits
  /\ head.id \in 0..edits /\ (source # head.files => head.id < edits)

FingerprintIsOld ==
  /\ fingerprint.commit \in Int /\ fingerprint.commit =< head.id
  /\ DOMAIN fingerprint.tree \subseteq SourceFiles
  /\ \A f \in DOMAIN fingerprint.tree :
       /\ fingerprint.tree[f].hash # {}
       /\ fingerprint.tree[f].written \in Int /\ fingerprint.tree[f].written =< edits

CallKeepsOrder ==
  /\ call.used => fingerprint # NoFingerprint
  /\ call.ran # "no" => call.at \in {"scan", "record", "print", "gate"}
  /\ call.at = "building" => artifacts = NoArtifacts
  /\ Rebuilt => Reports \subseteq {NoReport, call.compiled}

Dirty(s, files) ==
  [f \in {g \in SourceFiles : s[g] # files[g]} |-> IF files[f] = {} THEN {<<"untracked", 0>>} ELSE s[f]]
\* The fingerprint was taken of these sources, over these committed files; its
\* leaves that are still of a file's time are still of its content.
Took(s, files) ==
  /\ s \in [SourceFiles -> FileValues]
  /\ fingerprint.commit = head.id => head.files = files
  /\ fingerprint.dirty = Dirty(s, files)
  /\ \A f \in DOMAIN fingerprint.tree :
       /\ fingerprint.tree[f].hash = s[f]
       /\ fingerprint.tree[f].written = written[f] => source[f] = s[f]
\* The reports are of these sources, and a call that found so has seen them.
SpeaksFor(s) ==
  /\ ~Rebuilt => Reports \subseteq {NoReport, s}
  /\ call.at = "scan" /\ call.used /\ ~call.stale /\ call.ran = "no" => call.seen = s
SpeakerKept == \A s : SpeaksFor(s) => SpeaksFor(s)'
FingerprintSpeaks ==
  fingerprint # NoFingerprint /\ "sameTime" \notin lapses =>
    \E s, files : Took(s, files) /\ (lapses = {} => SpeaksFor(s))

QualityInv == QualityTypes /\ ClocksAdvance /\ FingerprintIsOld /\ CallKeepsOrder /\ FingerprintSpeaks

(* A comparison of fingerprints that finds nothing compares equal sources:   *)
(* a file kept from the stored tree has not changed since, and one outside   *)
(* of both trees is told by git (tool/quality-fingerprint.ts:517-671).       *)
LEMMA SameSources ==
  ASSUME QualityTypes, NEW s, NEW files, Took(s, files),
         ~CompareFingerprints(ComputeFingerprint(fingerprint.tree, Visible), fingerprint)
  PROVE  source = s
<1> DEFINE tree == BuildMerkleTree(fingerprint.tree, Visible)
<1>1. /\ fingerprint.commit = head.id /\ fingerprint.dirty = GitDirtyState
      /\ ~Differs(DiffMerkleTrees(tree, fingerprint.tree))
  BY DEF CompareFingerprints, ComputeFingerprint
<1>2. /\ DOMAIN tree = DOMAIN fingerprint.tree
      /\ \A f \in DOMAIN tree : tree[f].hash = fingerprint.tree[f].hash
  BY <1>1 DEF Differs, DiffMerkleTrees
<1>3. DOMAIN tree = {f \in SourceFiles : source[f] # {}}
  BY DEF BuildMerkleTree, Present, Visible, SourceFiles
<1>4. files = head.files /\ Dirty(s, files) = Dirty(source, files)
  <2>1. files = head.files
    BY <1>1 DEF Took
  <2>2. GitDirtyState = Dirty(source, head.files)
    BY DEF GitDirtyState, Dirty
  <2> QED BY <2>1, <2>2, <1>1 DEF Took
<1>5. ASSUME NEW f \in SourceFiles PROVE source[f] = s[f]
  <2>1. CASE f \in DOMAIN tree
    <3>1. fingerprint.tree[f].hash = s[f] /\ (fingerprint.tree[f].written = written[f] => source[f] = s[f])
      BY <2>1, <1>2 DEF Took
    <3>2. tree[f] = IF f \in DOMAIN fingerprint.tree /\ fingerprint.tree[f].written = written[f]
                    THEN fingerprint.tree[f] ELSE [hash |-> source[f], written |-> written[f]]
      BY <2>1 DEF BuildMerkleTree
    <3>3. tree[f].hash = s[f]
      BY <2>1, <1>2, <3>1
    <3> HIDE DEF tree
    <3> QED BY <3>1, <3>2, <3>3
  <2>2. CASE f \notin DOMAIN tree
    <3>1. source[f] = {}
      BY <2>2, <1>3
    <3> QED
      <4> SUFFICES ASSUME s[f] # {} PROVE FALSE
        BY <3>1
      <4>1. DOMAIN Dirty(s, files) = DOMAIN Dirty(source, files)
        BY <1>4
      <4>2. s[f] # files[f] <=> source[f] # files[f]
        BY <4>1 DEF Dirty
      <4>3. s[f] # files[f] /\ files[f] # {}
        BY <4>2, <3>1
      <4>4. Dirty(s, files)[f] = s[f] /\ Dirty(source, files)[f] = source[f]
        BY <4>2, <4>3 DEF Dirty
      <4> QED BY <4>4, <1>4, <3>1
  <2> QED BY <2>1, <2>2
<1> QED BY <1>5 DEF QualityTypes, Took

(* Before the first call there is no fingerprint to be wrong (tool/quality-  *)
(* fingerprint.ts:481-501).                                                  *)
LEMMA QualityBegins == QualityInit => QualityInv
<1> SUFFICES ASSUME QualityInit PROVE QualityInv
  OBVIOUS
<1> USE DEF QualityInit
<1>1. QualityTypes
  BY DEF QualityTypes, IsCall, Idle, CallFields, FileValues, NoArtifacts
<1>2. ClocksAdvance
  BY MaxEditsAssumption DEF ClocksAdvance
<1>3. FingerprintIsOld
  BY DEF FingerprintIsOld, NoFingerprint
<1>4. CallKeepsOrder
  BY DEF CallKeepsOrder, Rebuilt, Idle
<1> QED BY <1>1, <1>2, <1>3, <1>4 DEF QualityInv, FingerprintSpeaks

(* What the fingerprint was taken of stays, while no file and no             *)
(* fingerprint is written (tool/quality-fingerprint.ts:425-479).             *)
LEMMA SpeakerStays ==
  ASSUME FingerprintSpeaks, UNCHANGED <<source, written, head, fingerprint>>, lapses \subseteq lapses',
         lapses' = {} => SpeakerKept
  PROVE  FingerprintSpeaks'
<1> SUFFICES ASSUME fingerprint' # NoFingerprint, "sameTime" \notin lapses'
             PROVE  \E s, files : Took(s, files)' /\ (lapses' = {} => SpeaksFor(s)')
  BY DEF FingerprintSpeaks
<1>1. PICK s, files : Took(s, files) /\ (lapses = {} => SpeaksFor(s))
  BY DEF FingerprintSpeaks
<1>2. Took(s, files)'
  BY <1>1 DEF Took, Dirty
<1>3. lapses' = {} => SpeaksFor(s)'
  BY <1>1 DEF SpeakerKept
<1> QED BY <1>2, <1>3

(* Times, commits and the stored tree stay while no file is written          *)
(* (tool/quality-fingerprint.ts:216-380).                                    *)
LEMMA OthersStay ==
  ASSUME ClocksAdvance, FingerprintIsOld, UNCHANGED <<projectVars, fingerprint>>
  PROVE  ClocksAdvance' /\ FingerprintIsOld'
  BY DEF ClocksAdvance, FingerprintIsOld, projectVars

(* A call begins with nothing looked at (tool/quality.ts:1206-1240).         *)
LEMMA ExecuteKeeps == QualityInv /\ Execute => QualityInv'
<1> SUFFICES ASSUME QualityInv, Execute PROVE QualityInv'
  OBVIOUS
<1>0. PICK r \in QualityParams : call' = [Idle EXCEPT !.at = "check", !.update = r.update, !.gate = r.gate,
                            !.run = r.run, !.skip = r.skip]
  BY DEF Execute
<1>1. /\ IsCall(call') /\ call'.at = "check"
      /\ call'.outcome = "none" /\ call'.ran = "no" /\ ~call'.used /\ call'.visible = {}
  BY <1>0 DEF IsCall, CallFields, Idle
<1>2. UNCHANGED <<projectVars, storeVars, artifacts, lapses>> /\ At("idle")
  BY DEF Execute
<1>3. QualityTypes'
  BY <1>1, <1>2 DEF QualityInv, QualityTypes, projectVars
<1>4. ClocksAdvance' /\ FingerprintIsOld'
  BY <1>2, OthersStay DEF QualityInv, storeVars
<1>5. CallKeepsOrder'
  BY <1>1 DEF CallKeepsOrder, Rebuilt
<1>6. SpeakerKept
  BY <1>1, <1>2 DEF SpeakerKept, SpeaksFor, Rebuilt, Reports, At
<1>7. FingerprintSpeaks'
  BY <1>2, <1>6, SpeakerStays DEF QualityInv, projectVars, storeVars
<1> QED BY <1>3, <1>4, <1>5, <1>7 DEF QualityInv

(* A call that ends leaves only its outcome (tool/quality.ts:1312-1341).     *)
LEMMA EndsClean ==
  ASSUME NEW outcome, Ends(outcome)
  PROVE  /\ IsCall(call') /\ call'.at = "idle" /\ call'.outcome = outcome
         /\ call'.ran = "no" /\ ~call'.used /\ call'.visible = {}
  BY DEF Ends, IsCall, CallFields, Idle

(* It may end whenever its own tests are not what the reports are of         *)
(* (tool/quality.ts:1312-1341).                                              *)
LEMMA EndingKeeps ==
  ASSUME QualityInv, NEW outcome \in {"rejected", "noArtifacts", "gatesFailed", "reported"}, Ends(outcome),
         UNCHANGED <<projectVars, storeVars, artifacts, lapses>>, Rebuilt => artifacts = NoArtifacts
  PROVE  QualityInv'
<1>1. /\ IsCall(call') /\ call'.at = "idle" /\ call'.outcome = outcome
      /\ call'.ran = "no" /\ ~call'.used /\ call'.visible = {}
  BY EndsClean
<1>3. QualityTypes'
  BY <1>1 DEF QualityInv, QualityTypes, projectVars
<1>4. ClocksAdvance' /\ FingerprintIsOld'
  BY OthersStay DEF QualityInv, storeVars
<1>5. CallKeepsOrder'
  BY <1>1 DEF CallKeepsOrder, Rebuilt
<1>6. SpeakerKept
  BY <1>1 DEF SpeakerKept, SpeaksFor, Reports, NoArtifacts
<1>7. FingerprintSpeaks'
  BY <1>6, SpeakerStays DEF QualityInv, projectVars, storeVars
<1> QED BY <1>3, <1>4, <1>5, <1>7 DEF QualityInv

(* A permission that is refused ends the call before any test ran            *)
(* (tool/quality.ts:1226-1239).                                              *)
LEMMA RejectedKeeps == QualityInv /\ Rejected => QualityInv'
<1> SUFFICES ASSUME QualityInv, Rejected PROVE QualityInv'
  OBVIOUS
<1>1. ~Rebuilt
  BY DEF Rejected, Rebuilt
<1> QED BY <1>1, EndingKeeps DEF Rejected

(* The gates' verdict ends the call after its fingerprint was taken          *)
(* (tool/quality.ts:1696-1788).                                              *)
LEMMA GateCheckKeeps == QualityInv /\ GateCheck => QualityInv'
<1> SUFFICES ASSUME QualityInv, GateCheck PROVE QualityInv'
  OBVIOUS
<1>1. ~Rebuilt
  BY DEF GateCheck, Rebuilt, At
<1>2. PICK outcome \in {"gatesFailed", "reported"} : Ends(outcome)
  BY DEF GateCheck
<1> QED BY <1>1, <1>2, EndingKeeps DEF GateCheck

(* A call that finds the fingerprint good has seen the sources the reports   *)
(* are of (tool/quality.ts:741-935).                                         *)
LEMMA CheckTestStalenessKeeps == QualityInv /\ CheckTestStaleness => QualityInv'
<1> SUFFICES ASSUME QualityInv, CheckTestStaleness PROVE QualityInv'
  OBVIOUS
<1>1. /\ IsCall(call') /\ call'.at \in {"askWrite", "scan"} /\ call'.outcome = call.outcome
      /\ call'.ran = call.ran /\ call'.seen = source /\ call'.visible = Visible
  BY DEF CheckTestStaleness, IsCall, CallFields, QualityInv, QualityTypes
<1>2. UNCHANGED <<projectVars, storeVars, artifacts, lapses>> /\ At("check")
  BY DEF CheckTestStaleness
<1>3. call'.used => fingerprint # NoFingerprint
  BY DEF CheckTestStaleness, IsCall, CallFields, QualityInv, QualityTypes
<1>a. call'.used /\ ~call'.stale
        => ~CompareFingerprints(ComputeFingerprint(fingerprint.tree, Visible), fingerprint)
  BY DEF CheckTestStaleness, IsCall, CallFields, QualityInv, QualityTypes
<1>4. call.ran = "no"
  BY <1>2 DEF QualityInv, CallKeepsOrder, At
<1>5. QualityTypes'
  BY <1>1, <1>2 DEF QualityInv, QualityTypes, projectVars, Visible, SourceFiles
<1>6. ClocksAdvance' /\ FingerprintIsOld'
  BY <1>2, OthersStay DEF QualityInv, storeVars
<1>7. CallKeepsOrder'
  BY <1>1, <1>2, <1>3, <1>4 DEF CallKeepsOrder, Rebuilt, storeVars
<1>8. FingerprintSpeaks'
  <2> SUFFICES ASSUME fingerprint' # NoFingerprint, "sameTime" \notin lapses'
               PROVE  \E s, files : Took(s, files)' /\ (lapses' = {} => SpeaksFor(s)')
    BY DEF FingerprintSpeaks
  <2>1. PICK s, files : Took(s, files) /\ (lapses = {} => SpeaksFor(s))
    BY <1>2 DEF QualityInv, FingerprintSpeaks, storeVars
  <2>2. Took(s, files)'
    BY <2>1, <1>2 DEF Took, Dirty, projectVars, storeVars
  <2>3. call'.used /\ ~call'.stale => source = s
    BY <1>a, <2>1, SameSources DEF QualityInv
  <2>4. lapses' = {} => SpeaksFor(s)'
    BY <2>1, <2>3, <1>1, <1>2, <1>4 DEF SpeaksFor, Rebuilt, Reports
  <2> QED BY <2>2, <2>4
<1> QED BY <1>5, <1>6, <1>7, <1>8 DEF QualityInv

(* Tests that start remove the reports; those that cannot leave them         *)
(* (tool/quality.ts:937-985).                                                *)
LEMMA ExecuteTestsKeeps == QualityInv /\ ExecuteTestsWithCoverage => QualityInv'
<1> SUFFICES ASSUME QualityInv, ExecuteTestsWithCoverage PROVE QualityInv'
  OBVIOUS
<1>1. /\ IsCall(call') /\ call'.outcome = call.outcome
      /\ call'.visible = call.visible /\ call'.seen = call.seen /\ call'.used = call.used
      /\ \/ artifacts' = NoArtifacts /\ call'.at = "building" /\ call'.ran = call.ran
         \/ artifacts' = artifacts /\ call'.at = "scan" /\ call'.ran = "failed"
  BY DEF ExecuteTestsWithCoverage, IsCall, CallFields, QualityInv, QualityTypes
<1>2. UNCHANGED <<projectVars, storeVars, lapses>> /\ At("askWrite")
  BY DEF ExecuteTestsWithCoverage
<1>3. call.ran = "no"
  BY <1>2 DEF QualityInv, CallKeepsOrder, At
<1>4. QualityTypes'
  BY <1>1, <1>2, <1>3 DEF QualityInv, QualityTypes, projectVars, NoArtifacts
<1>5. ClocksAdvance' /\ FingerprintIsOld'
  BY <1>2, OthersStay DEF QualityInv, storeVars
<1>6. CallKeepsOrder'
  BY <1>1, <1>2, <1>3 DEF QualityInv, CallKeepsOrder, Rebuilt, storeVars
<1>7. SpeakerKept
  BY <1>1, <1>2, <1>3 DEF SpeakerKept, SpeaksFor, Rebuilt, Reports, NoArtifacts
<1>8. FingerprintSpeaks'
  BY <1>2, <1>7, SpeakerStays DEF QualityInv, projectVars, storeVars
<1> QED BY <1>4, <1>5, <1>6, <1>8 DEF QualityInv

(* A build that ends makes reports of what it compiled, or is a lapse        *)
(* (tool/quality.ts:985-1065).                                               *)
LEMMA BuildEndsKeeps == QualityInv /\ BuildEnds => QualityInv'
<1> SUFFICES ASSUME QualityInv, BuildEnds PROVE QualityInv'
  OBVIOUS
<1>1. PICK ran \in {"success", "failed"}, surefire \in {call.compiled, NoReport},
           jacoco \in {call.compiled, NoReport} :
        /\ artifacts' = [jacoco |-> jacoco, surefire |-> surefire]
        /\ call' = [call EXCEPT !.at = "scan", !.ran = ran]
        /\ lapses' = lapses \cup When(ran = "failed", "failed")
  BY DEF BuildEnds
<1>2. /\ IsCall(call') /\ call'.outcome = call.outcome
      /\ call'.visible = call.visible /\ call'.compiled = call.compiled
      /\ call'.at = "scan" /\ call'.ran = ran /\ call'.used = call.used
  BY <1>1 DEF IsCall, CallFields, QualityInv, QualityTypes
<1>3. UNCHANGED <<source, written, head, edits, storeVars>> /\ newer' = {}
  BY DEF BuildEnds
<1>4. lapses \subseteq lapses' /\ (lapses' = {} => ran = "success") /\ lapses' \subseteq lapses \cup {"failed"}
  BY <1>1 DEF When
<1>5. QualityTypes'
  BY <1>1, <1>2, <1>3, <1>4 DEF QualityInv, QualityTypes
<1>6. ClocksAdvance' /\ FingerprintIsOld'
  BY <1>3 DEF QualityInv, ClocksAdvance, FingerprintIsOld, storeVars
<1>7. CallKeepsOrder'
  BY <1>1, <1>2, <1>3 DEF QualityInv, CallKeepsOrder, Rebuilt, Reports, storeVars
<1>8. lapses' = {} => SpeakerKept
  BY <1>2, <1>4 DEF SpeakerKept, SpeaksFor, Rebuilt
<1>9. FingerprintSpeaks'
  BY <1>3, <1>4, <1>8, SpeakerStays DEF QualityInv, storeVars
<1> QED BY <1>5, <1>6, <1>7, <1>9 DEF QualityInv

(* Reading the sources changes no report (tool/quality.ts:1288-1489).        *)
LEMMA ScanSourcesKeeps == QualityInv /\ ScanSources => QualityInv'
<1> SUFFICES ASSUME QualityInv, ScanSources PROVE QualityInv'
  OBVIOUS
<1>1. CASE artifacts = NoArtifacts
  <2>1. Ends("noArtifacts") /\ UNCHANGED <<projectVars, storeVars, artifacts, lapses>>
    BY <1>1 DEF ScanSources
  <2> QED BY <1>1, <2>1, EndingKeeps
<1>2. CASE artifacts # NoArtifacts
  <2>1. /\ IsCall(call') /\ call'.outcome = call.outcome
      /\ call'.visible = call.visible /\ call'.compiled = call.compiled
        /\ call'.at = "record" /\ call'.ran = call.ran /\ call'.used = call.used
    BY <1>2 DEF ScanSources, IsCall, CallFields, QualityInv, QualityTypes
  <2>2. UNCHANGED <<projectVars, storeVars, artifacts, lapses>> /\ At("scan")
    BY DEF ScanSources
  <2>3. QualityTypes'
    BY <2>1, <2>2 DEF QualityInv, QualityTypes, projectVars
  <2>4. ClocksAdvance' /\ FingerprintIsOld'
    BY <2>2, OthersStay DEF QualityInv, storeVars
  <2>5. CallKeepsOrder'
    BY <2>1, <2>2 DEF QualityInv, CallKeepsOrder, Rebuilt, Reports, storeVars, At
  <2>6. SpeakerKept
    BY <2>1, <2>2 DEF SpeakerKept, SpeaksFor, Rebuilt, Reports, At
  <2>7. FingerprintSpeaks'
    BY <2>2, <2>6, SpeakerStays DEF QualityInv, projectVars, storeVars
  <2> QED BY <2>3, <2>4, <2>5, <2>7 DEF QualityInv
<1> QED BY <1>1, <1>2

\* What RecordBaseline computes, by name.
Integrity == IF call.diff.known THEN VerifyCoverageIntegrity(call.diff, artifacts.jacoco) ELSE {}
Delta == ComputeDiff(CreateBaseline, baseline, call.diff, Integrity, artifacts.jacoco)
AllWarnings ==
  call.warnings \cup (When(GitDeleted # {}, "TEST_FILES_DELETED_GIT")
                     \cup When(GetDeletedTestMethods # {}, "TEST_METHODS_DELETED_GIT")) \cup Delta.warnings
Failures == EvaluateGates(CreateBaseline, baseline, Delta, AllWarnings, call.diff, artifacts.jacoco)
Sections ==
  RunSections \cup CoverageSections(Delta, Integrity, artifacts.jacoco)
    \cup ChangedCodeSections(AllWarnings, artifacts.jacoco)
    \cup ChangeSections(AllWarnings)
    \cup IssueSections(AllWarnings, artifacts.jacoco)

(* What recording puts into the call: the failures and sections are          *)
(* computed of all warnings (tool/quality.ts:1585-1684).                     *)
LEMMA Recording ==
  ASSUME QualityTypes, RecordBaseline
  PROVE  /\ IsCall(call') /\ call'.outcome = call.outcome /\ call'.visible = call.visible
         /\ call'.compiled = call.compiled
         /\ call'.at = IF ShouldUpdateBaseline THEN "print" ELSE "gate"
         /\ call'.ran = call.ran /\ call'.used = call.used
         /\ call'.failures = Failures /\ call'.sections = Sections
<1>1. call' = [call EXCEPT
             !.at = IF ShouldUpdateBaseline THEN "print" ELSE "gate", !.warnings = AllWarnings,
             !.failures = Failures, !.sections = Sections,
             !.rows = FailingRows(CreateBaseline, Delta, artifacts.jacoco)]
  BY DEF RecordBaseline, Integrity, Delta, AllWarnings, Failures, Sections
<1>2. PICK phase, warnings, failures, sections, rows :
        /\ phase = IF ShouldUpdateBaseline THEN "print" ELSE "gate"
        /\ failures = Failures /\ sections = Sections
        /\ call' = [call EXCEPT !.at = phase, !.warnings = warnings, !.failures = failures,
                               !.sections = sections, !.rows = rows]
  BY <1>1
<1> QED BY <1>2 DEF IsCall, CallFields, QualityTypes

(* A call whose tests ran takes a fingerprint next, or is a lapse            *)
(* (tool/quality.ts:1679-1684).                                              *)
LEMMA RecordBaselineKeeps == QualityInv /\ RecordBaseline => QualityInv'
<1> SUFFICES ASSUME QualityInv, RecordBaseline PROVE QualityInv'
  OBVIOUS
<1>1. /\ IsCall(call') /\ call'.outcome = call.outcome
      /\ call'.visible = call.visible /\ call'.compiled = call.compiled
      /\ call'.at = IF ShouldUpdateBaseline THEN "print" ELSE "gate"
      /\ call'.ran = call.ran /\ call'.used = call.used
  BY Recording DEF QualityInv
<1>2. /\ UNCHANGED <<projectVars, fingerprint, artifacts>> /\ At("record")
      /\ lapses' = lapses \cup When(call.ran = "success" /\ ~ShouldUpdateBaseline, "unrecorded")
  BY DEF RecordBaseline
<1>3. /\ lapses \subseteq lapses' /\ lapses' \subseteq lapses \cup {"unrecorded"}
      /\ lapses' = {} => call.ran # "success" \/ ShouldUpdateBaseline
  BY <1>2 DEF When
<1>4. QualityTypes'
  BY <1>1, <1>2, <1>3 DEF QualityInv, QualityTypes, projectVars
<1>5. ClocksAdvance' /\ FingerprintIsOld'
  BY <1>2, OthersStay DEF QualityInv
<1>6. CallKeepsOrder'
  BY <1>1, <1>2 DEF QualityInv, CallKeepsOrder, Rebuilt, Reports, At
<1>7. lapses' = {} => SpeakerKept
  BY <1>1, <1>2, <1>3 DEF SpeakerKept, SpeaksFor, Rebuilt, Reports, At
<1>8. FingerprintSpeaks'
  BY <1>2, <1>3, <1>7, SpeakerStays DEF QualityInv, projectVars
<1> QED BY <1>4, <1>5, <1>6, <1>8 DEF QualityInv

(* A fingerprint is of the sources as they are, with the leaves of the       *)
(* stored tree that are still true (tool/quality-fingerprint.ts:503-515).    *)
LEMMA SaveFingerprintKeeps == QualityInv /\ SaveFingerprint => QualityInv'
<1> SUFFICES ASSUME QualityInv, SaveFingerprint PROVE QualityInv'
  OBVIOUS
<1>1. /\ IsCall(call') /\ call'.outcome = call.outcome
      /\ call'.visible = call.visible /\ call'.compiled = call.compiled
      /\ call'.at = "gate" /\ call'.ran = call.ran /\ call'.used = call.used
  BY DEF SaveFingerprint, IsCall, CallFields, QualityInv, QualityTypes
<1>2. /\ UNCHANGED <<projectVars, baseline, artifacts>> /\ At("print")
      /\ lapses' = IF call.ran = "success" /\ source = call.compiled THEN lapses \cap {"sameTime"}
                   ELSE lapses \cup {"untested"}
  BY DEF SaveFingerprint
<1>3. /\ fingerprint'.commit = head.id /\ fingerprint'.dirty = GitDirtyState
      /\ fingerprint'.tree = BuildMerkleTree(fingerprint.tree, call.visible)
  BY DEF SaveFingerprint, ComputeFingerprint
<1>4. /\ "sameTime" \notin lapses' => "sameTime" \notin lapses
      /\ lapses' = {} => call.ran = "success" /\ source = call.compiled
      /\ lapses' \subseteq lapses \cup {"untested"}
  BY <1>2
<1>5. QualityTypes'
  BY <1>1, <1>2, <1>4 DEF QualityInv, QualityTypes, projectVars
<1>6. ClocksAdvance'
  BY <1>2 DEF QualityInv, ClocksAdvance, projectVars
<1>7. ASSUME NEW f \in DOMAIN fingerprint'.tree
      PROVE  /\ f \in SourceFiles /\ source[f] # {}
             /\ fingerprint'.tree[f] = IF f \in DOMAIN fingerprint.tree /\ fingerprint.tree[f].written = written[f]
                                       THEN fingerprint.tree[f] ELSE [hash |-> source[f], written |-> written[f]]
  <2>1. f \in call.visible /\ source[f] # {}
    BY <1>3 DEF BuildMerkleTree, Present
  <2>2. f \in SourceFiles
    BY <2>1 DEF QualityInv, QualityTypes
  <2>3. f \in Present(source, call.visible)
    BY <2>1 DEF Present
  <2>4. fingerprint'.tree[f] = IF f \in DOMAIN fingerprint.tree /\ fingerprint.tree[f].written = written[f]
                              THEN fingerprint.tree[f] ELSE [hash |-> source[f], written |-> written[f]]
    BY <2>3, <1>3 DEF BuildMerkleTree
  <2> QED BY <2>1, <2>2, <2>4
<1>11. ASSUME NEW f \in DOMAIN fingerprint'.tree
       PROVE  \/ /\ f \in DOMAIN fingerprint.tree /\ fingerprint.tree[f].written = written[f]
                 /\ fingerprint'.tree[f] = fingerprint.tree[f]
              \/ fingerprint'.tree[f].hash = source[f] /\ fingerprint'.tree[f].written = written[f]
  <2>1. CASE f \in DOMAIN fingerprint.tree /\ fingerprint.tree[f].written = written[f]
    BY <1>7, <2>1
  <2>2. CASE ~(f \in DOMAIN fingerprint.tree /\ fingerprint.tree[f].written = written[f])
    <3>1. fingerprint'.tree[f] = [hash |-> source[f], written |-> written[f]]
      BY <1>7, <2>2
    <3> QED BY <3>1
  <2> QED BY <2>1, <2>2
<1>8. FingerprintIsOld'
  <2>1. UNCHANGED <<head, edits>> /\ fingerprint'.commit \in Int /\ fingerprint'.commit =< head.id
    BY <1>2, <1>3 DEF QualityInv, ClocksAdvance, projectVars
  <2>2. DOMAIN fingerprint'.tree \subseteq SourceFiles
    BY <1>7
  <2>3. ASSUME NEW f \in DOMAIN fingerprint'.tree
        PROVE  /\ fingerprint'.tree[f].hash # {}
               /\ fingerprint'.tree[f].written \in Int /\ fingerprint'.tree[f].written =< edits
    BY <1>7, <1>11 DEF QualityInv, FingerprintIsOld, ClocksAdvance
  <2> QED BY <2>1, <2>2, <2>3 DEF FingerprintIsOld
<1>9. CallKeepsOrder'
  BY <1>1, <1>2, <1>3 DEF QualityInv, CallKeepsOrder, Rebuilt, Reports, At, ClocksAdvance, NoFingerprint
<1>10. FingerprintSpeaks'
  <2> SUFFICES ASSUME fingerprint' # NoFingerprint, "sameTime" \notin lapses'
               PROVE  Took(source, head.files)' /\ (lapses' = {} => SpeaksFor(source)')
    BY DEF FingerprintSpeaks
  <2>1. GitDirtyState = Dirty(source, head.files)
    BY DEF GitDirtyState, Dirty
  <2>2. UNCHANGED <<source, head, written>>
    BY <1>2 DEF projectVars
  <2>3. Dirty(source, head.files)' = Dirty(source, head.files)
    BY <2>2 DEF Dirty
  <2>4. ASSUME NEW f \in DOMAIN fingerprint'.tree
        PROVE  fingerprint'.tree[f].hash = source[f]
    <3>1. CASE fingerprint # NoFingerprint
      <4>1. PICK s, files : Took(s, files)
        BY <1>4, <3>1 DEF QualityInv, FingerprintSpeaks
      <4> QED BY <1>11, <4>1 DEF Took
    <3>2. CASE fingerprint = NoFingerprint
      BY <1>11, <3>2 DEF NoFingerprint
    <3> QED BY <3>1, <3>2
  <2>5. Took(source, head.files)'
    <3>1. Took(source, head.files)' <=>
            /\ source \in [SourceFiles -> FileValues]
            /\ fingerprint'.commit = head.id => head.files = head.files
            /\ fingerprint'.dirty = Dirty(source, head.files)
            /\ \A f \in DOMAIN fingerprint'.tree :
                 /\ fingerprint'.tree[f].hash = source[f]
                 /\ fingerprint'.tree[f].written = written[f] => source[f] = source[f]
      BY <2>2, <2>3 DEF Took
    <3> QED BY <3>1, <2>1, <2>4, <1>3 DEF QualityInv, QualityTypes
  <2>6. lapses' = {} => SpeaksFor(source)'
    BY <1>1, <1>2, <1>4, <2>2 DEF SpeaksFor, QualityInv, CallKeepsOrder, Rebuilt, Reports, At
  <2> QED BY <2>5, <2>6
<1> QED BY <1>5, <1>6, <1>8, <1>9, <1>10 DEF QualityInv

(* An edit gives a file a time later than any leaf's, or is a lapse          *)
(* (tool/quality-fingerprint.ts:216-380).                                    *)
LEMMA EditKeeps == QualityInv /\ Edit => QualityInv'
<1> SUFFICES ASSUME QualityInv, Edit PROVE QualityInv'
  OBVIOUS
<1>1. PICK g \in SourceFiles, same \in BOOLEAN : \E new \in Contents[g] \ {source[g]} :
       /\ source' = [source EXCEPT ![g] = new]
       /\ written' = IF same THEN written ELSE [written EXCEPT ![g] = edits + 1]
       /\ newer' = IF same \/ g \notin TestFiles THEN newer
                   ELSE IF new = {} THEN newer \ {g} ELSE newer \cup {g}
       /\ lapses' = lapses \cup When(same, "sameTime")
  BY DEF Edit
<1>2. PICK new \in Contents[g] \ {source[g]} :
       /\ source' = [source EXCEPT ![g] = new]
       /\ newer' \subseteq newer \cup (TestFiles \cap {g})
  BY <1>1
<1>3. /\ written' = IF same THEN written ELSE [written EXCEPT ![g] = edits + 1]
      /\ lapses' = lapses \cup (IF same THEN {"sameTime"} ELSE {})
  BY <1>1 DEF When
<1>4. edits' = edits + 1 /\ edits < MaxEdits /\ UNCHANGED <<head, storeVars, artifacts, call>>
  BY DEF Edit
<1>5. new \in FileValues
  BY <1>2 DEF FileValues
<1>6. QualityTypes'
  BY <1>2, <1>3, <1>4, <1>5 DEF QualityInv, QualityTypes
<1>7. ClocksAdvance'
  BY <1>3, <1>4, MaxEditsAssumption DEF QualityInv, ClocksAdvance
<1>8. FingerprintIsOld'
  BY <1>4 DEF QualityInv, FingerprintIsOld, ClocksAdvance, storeVars
<1>9. CallKeepsOrder'
  BY <1>4 DEF QualityInv, CallKeepsOrder, Rebuilt, Reports, storeVars
<1>10. FingerprintSpeaks'
  <2> SUFFICES ASSUME fingerprint' # NoFingerprint, "sameTime" \notin lapses'
               PROVE  \E s, files : Took(s, files)' /\ (lapses' = {} => SpeaksFor(s)')
    BY DEF FingerprintSpeaks
  <2>1. ~same /\ lapses' = lapses
    BY <1>3
  <2>2. PICK s, files : Took(s, files) /\ (lapses = {} => SpeaksFor(s))
    BY <1>4, <2>1 DEF QualityInv, FingerprintSpeaks, storeVars
  <2>3. ASSUME NEW f \in DOMAIN fingerprint.tree
        PROVE  fingerprint.tree[f].written = written'[f] => source'[f] = s[f]
    <3>1. f \in SourceFiles /\ fingerprint.tree[f].written \in Int /\ fingerprint.tree[f].written =< edits
      BY DEF QualityInv, FingerprintIsOld
    <3>2. f # g => written'[f] = written[f] /\ source'[f] = source[f]
      BY <1>2, <1>3, <3>1 DEF QualityInv, ClocksAdvance, QualityTypes
    <3>3. f = g => written'[f] = edits + 1
      BY <1>3, <2>1, <3>1 DEF QualityInv, ClocksAdvance
    <3> QED BY <3>1, <3>2, <3>3, <2>2 DEF Took, QualityInv, ClocksAdvance
  <2>4. Took(s, files)'
    BY <2>2, <2>3, <1>4 DEF Took, Dirty, storeVars
  <2>5. lapses' = {} => SpeaksFor(s)'
    BY <2>1, <2>2, <1>4 DEF SpeaksFor, Rebuilt, Reports
  <2> QED BY <2>4, <2>5
<1> QED BY <1>6, <1>7, <1>8, <1>9, <1>10 DEF QualityInv

(* A commit is new: no fingerprint names it (tool/quality-                   *)
(* fingerprint.ts:425-479).                                                  *)
LEMMA CommitKeeps == QualityInv /\ Commit => QualityInv'
<1> SUFFICES ASSUME QualityInv, Commit PROVE QualityInv'
  OBVIOUS
<1>1. /\ source # head.files /\ head' = [id |-> head.id + 1, files |-> source]
      /\ UNCHANGED <<source, written, newer, edits, storeVars, artifacts, call, lapses>>
  BY DEF Commit
<1>2. QualityTypes'
  BY <1>1 DEF QualityInv, QualityTypes
<1>3. ClocksAdvance'
  BY <1>1 DEF QualityInv, ClocksAdvance
<1>4. FingerprintIsOld'
  BY <1>1 DEF QualityInv, FingerprintIsOld, ClocksAdvance, storeVars
<1>5. CallKeepsOrder'
  BY <1>1 DEF QualityInv, CallKeepsOrder, Rebuilt, Reports, storeVars
<1>6. FingerprintSpeaks'
  <2> SUFFICES ASSUME fingerprint' # NoFingerprint, "sameTime" \notin lapses'
               PROVE  \E s, files : Took(s, files)' /\ (lapses' = {} => SpeaksFor(s)')
    BY DEF FingerprintSpeaks
  <2>1. PICK s, files : Took(s, files) /\ (lapses = {} => SpeaksFor(s))
    BY <1>1 DEF QualityInv, FingerprintSpeaks, storeVars
  <2>2. fingerprint.commit # head'.id
    BY <1>1 DEF QualityInv, FingerprintIsOld, ClocksAdvance
  <2>3. Took(s, files)'
    BY <2>1, <2>2, <1>1 DEF Took, Dirty, storeVars
  <2>4. lapses' = {} => SpeaksFor(s)'
    BY <2>1, <1>1 DEF SpeaksFor, Rebuilt, Reports
  <2> QED BY <2>3, <2>4
<1> QED BY <1>2, <1>3, <1>4, <1>5, <1>6 DEF QualityInv

(* Every step keeps the invariant (tool/quality.ts:1206-1788).               *)
LEMMA QualityStepKeeps == QualityInv /\ [QualityNext]_qualityVars => QualityInv'
<1> SUFFICES ASSUME QualityInv, [QualityNext]_qualityVars PROVE QualityInv'
  OBVIOUS
<1>1. CASE UNCHANGED qualityVars
  <2>1. UNCHANGED <<source, written, head, newer, edits, fingerprint, artifacts, call, lapses>>
    BY <1>1 DEF qualityVars, projectVars, storeVars
  <2>2. SpeakerKept
    BY <2>1 DEF SpeakerKept, SpeaksFor, Rebuilt, Reports
  <2>3. QualityTypes' /\ ClocksAdvance' /\ FingerprintIsOld'
    BY <2>1 DEF QualityInv, QualityTypes, ClocksAdvance, FingerprintIsOld
  <2>4. CallKeepsOrder'
    BY <2>1 DEF QualityInv, CallKeepsOrder, Rebuilt, Reports
  <2>5. FingerprintSpeaks'
    BY <2>1, <2>2, SpeakerStays DEF QualityInv
  <2> QED BY <2>3, <2>4, <2>5 DEF QualityInv
<1>2. CASE QualityNext
  BY <1>2, ExecuteKeeps, RejectedKeeps, CheckTestStalenessKeeps, ExecuteTestsKeeps, BuildEndsKeeps,
     ScanSourcesKeeps, RecordBaselineKeeps, SaveFingerprintKeeps, GateCheckKeeps, EditKeeps, CommitKeeps
     DEF QualityNext
<1> QED BY <1>1, <1>2

(* From the invariant, a report found current is of the sources seen         *)
(* (tool/quality.ts:741-935).                                                *)
LEMMA SpeakingIsCurrent == QualityInv => ReportIsCurrent
<1> SUFFICES ASSUME QualityInv PROVE ReportIsCurrent
  OBVIOUS
<1>1. QualityTypeOK
  <2>1. head.id \in 0..MaxEdits
    BY MaxEditsAssumption DEF QualityInv, ClocksAdvance
  <2>2. \A f \in DOMAIN fingerprint.tree : fingerprint.tree[f].hash # {}
    BY DEF QualityInv, FingerprintIsOld
  <2> QED BY <2>1, <2>2 DEF QualityInv, QualityTypes, QualityTypeOK, FileValues
<1>2. ASSUME At("scan"), call.used, ~call.stale, call.ran = "no", lapses = {}
      PROVE  Reports \subseteq {NoReport, call.seen}
  <2>1. PICK s, files : Took(s, files) /\ SpeaksFor(s)
    BY <1>2 DEF QualityInv, FingerprintSpeaks, CallKeepsOrder
  <2> QED BY <1>2, <2>1 DEF SpeaksFor, Rebuilt, At
<1> QED BY <1>1, <1>2 DEF ReportIsCurrent, Reports

\* What the test sources lack is among the warnings before it is recorded.
ScannedIsTold ==
  At("record") /\ baseline # NoBaseline /\ TestFiles \subseteq call.visible =>
    LET d == ComputeSourceDiff(call.scanned, baseline)
    IN When(d.filesRemoved # {}, "TEST_FILES_DELETED")
         \cup When(d.methodsRemoved # {}, "TEST_METHODS_DELETED") \subseteq call.warnings

(* A call that has read the test sources warns of what they lack, until it   *)
(* records (tool/quality.ts:1494-1530).                                      *)
LEMMA ScannedIsToldAlways == QualityInv /\ ScannedIsTold /\ [QualityNext]_qualityVars => ScannedIsTold'
<1> SUFFICES ASSUME QualityInv, ScannedIsTold, [QualityNext]_qualityVars, call'.at = "record"
             PROVE  ScannedIsTold'
  BY DEF ScannedIsTold, At
<1>1. CASE UNCHANGED <<call, baseline>>
  BY <1>1 DEF ScannedIsTold, ComputeSourceDiff, At
<1>2. CASE ScanSources
  <2>1. UNCHANGED baseline /\ artifacts # NoArtifacts
    BY <1>2, EndsClean DEF ScanSources, storeVars
  <2>2. /\ call' = [call EXCEPT !.at = "record", !.scanned = ScanTestSourceFiles,
                               !.warnings = SourceWarnings \cup ProductionWarnings]
    BY <1>2, <2>1 DEF ScanSources
  <2>3. /\ call'.scanned = ScanTestSourceFiles /\ call'.visible = call.visible
        /\ SourceWarnings \subseteq call'.warnings
    BY <2>2 DEF QualityInv, QualityTypes, IsCall, CallFields
  <2> QED BY <2>1, <2>3 DEF ScannedIsTold, SourceWarnings, ComputeSourceDiff, At
<1>3. CASE QualityNext /\ ~ScanSources
  <2>1. CASE Execute
    BY <2>1 DEF Execute, Idle
  <2>2. CASE Rejected \/ GateCheck
    BY <2>2, EndsClean DEF Rejected, GateCheck
  <2>3. CASE CheckTestStaleness
    BY <2>3 DEF CheckTestStaleness, QualityInv, QualityTypes, IsCall, CallFields
  <2>4. CASE ExecuteTestsWithCoverage
    BY <2>4 DEF ExecuteTestsWithCoverage, QualityInv, QualityTypes, IsCall, CallFields
  <2>5. CASE BuildEnds
    BY <2>5 DEF BuildEnds, QualityInv, QualityTypes, IsCall, CallFields
  <2>6. CASE RecordBaseline
    BY <2>6, Recording DEF QualityInv
  <2>7. CASE SaveFingerprint
    BY <2>7 DEF SaveFingerprint, QualityInv, QualityTypes, IsCall, CallFields
  <2>8. CASE Edit \/ Commit
    BY <2>8, <1>1 DEF Edit, Commit, storeVars
  <2> QED BY <1>3, <2>1, <2>2, <2>3, <2>4, <2>5, <2>6, <2>7, <2>8 DEF QualityNext
<1> QED BY <1>1, <1>2, <1>3 DEF qualityVars, storeVars

(* A baseline that loses a test of the one before comes with a failed gate   *)
(* and the Issues section (tool/quality-baseline.ts:883-953).                *)
LEMMA DropsAreTold ==
  ASSUME QualityInv, ScannedIsTold, [QualityNext]_qualityVars,
         baseline # NoBaseline, baseline' # baseline,
         call.scanned = baseline'.tests, TestFiles \subseteq call.visible, Loses(baseline', baseline)
  PROVE  call'.failures # {} /\ "Issues" \in call'.sections
<1>1. RecordBaseline
  BY DEF QualityNext, qualityVars, storeVars, Execute, Rejected, CheckTestStaleness, ExecuteTestsWithCoverage,
         BuildEnds, ScanSources, SaveFingerprint, GateCheck, Edit, Commit
<1>2. At("record") /\ call'.failures = Failures /\ call'.sections = Sections
  BY <1>1, Recording DEF RecordBaseline, QualityInv
<1>3. PICK code \in {"TEST_FILES_DELETED", "TEST_METHODS_DELETED"} : code \in call.warnings
  <2>1. PICK f \in DOMAIN baseline.tests :
          f \notin DOMAIN call.scanned \/ ~(baseline.tests[f] \subseteq call.scanned[f])
    BY DEF Loses
  <2>2. CASE f \notin DOMAIN call.scanned
    <3>1. f \in ComputeSourceDiff(call.scanned, baseline).filesRemoved
      BY <2>2 DEF ComputeSourceDiff
    <3> QED BY <3>1, <1>2 DEF ScannedIsTold, When
  <2>3. CASE f \in DOMAIN call.scanned
    <3>1. f \in ComputeSourceDiff(call.scanned, baseline).methodsRemoved
      BY <2>1, <2>3 DEF ComputeSourceDiff
    <3> QED BY <3>1, <1>2 DEF ScannedIsTold, When
  <2> QED BY <2>2, <2>3
<1>4. code \in AllWarnings /\ code \in Critical
  BY <1>3 DEF AllWarnings, Critical
<1>5. code \in Failures
  BY <1>4 DEF Failures, EvaluateGates
<1>6. "Issues" \in IssueSections(AllWarnings, artifacts.jacoco)
  BY <1>4 DEF IssueSections, When
<1> QED BY <1>2, <1>5, <1>6 DEF Sections

(* A call that finds its fingerprint good and runs no tests reports on the   *)
(* sources it saw, and no baseline loses a test without a failed gate: for   *)
(* any project, edits, commits, calls and parameters, and whatever the       *)
(* builds do (tool/quality.ts:741-935, tool/quality-                         *)
(* fingerprint.ts:517-671).                                                  *)
THEOREM ReportsAreTrue == QualitySpec => QualityReportsAreTrue
<1>1. QualityInit => QualityInv /\ ScannedIsTold
  BY QualityBegins DEF QualityInit, Idle, ScannedIsTold, At
<1>2. QualityInv /\ ScannedIsTold /\ [QualityNext]_qualityVars => QualityInv' /\ ScannedIsTold'
  BY QualityStepKeeps, ScannedIsToldAlways
<1>3. QualityInv => ReportIsCurrent
  BY SpeakingIsCurrent
<1>4. QualityInv /\ ScannedIsTold /\ [QualityNext]_qualityVars =>
        [/\ baseline # NoBaseline /\ baseline' # baseline
         /\ call.scanned = baseline'.tests /\ TestFiles \subseteq call.visible
         /\ Loses(baseline', baseline)
         => call'.failures # {} /\ "Issues" \in call'.sections]_qualityVars
  BY DropsAreTold
<1> QED BY <1>1, <1>2, <1>3, <1>4, PTL DEF QualitySpec, QualityReportsAreTrue, DropsAreReported
=============================================================================
