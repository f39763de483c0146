------------------------------- MODULE Storage -------------------------------
(* The readers-writer lock of one key (util/lock.ts), and the record of       *)
(* storage/storage.ts with that key: read, update and write under the lock,   *)
(* remove without it.  A granted promise and the continuation that uses it    *)
(* are one: holding is being in readers or being the writer.  The lock's map  *)
(* entry, created on first use and deleted when empty, has no effect on later *)
(* users, which find an equal fresh one.  A write empties the file before it  *)
(* fills it; Bun.write does not rename.                                       *)
EXTENDS Naturals, Sequences, FiniteSets, SequencesExt

CONSTANTS Procs, NoProc

ASSUME NoProcAssumption == NoProc \notin Procs

VARIABLES
  readers,         \* who holds the lock for reading
  writer,          \* who holds it for writing
  waitingReaders,
  waitingWriters

lockVars == <<readers, writer, waitingReaders, waitingWriters>>

LockInit ==
  /\ readers = {}
  /\ writer = NoProc
  /\ waitingReaders = <<>>
  /\ waitingWriters = <<>>

\* Lock.read: a reader never overtakes a waiting writer.
AcquireRead(p) ==
  IF writer = NoProc /\ waitingWriters = <<>>
  THEN readers' = readers \cup {p} /\ UNCHANGED <<writer, waitingReaders, waitingWriters>>
  ELSE waitingReaders' = Append(waitingReaders, p) /\ UNCHANGED <<readers, writer, waitingWriters>>

\* Lock.write
AcquireWrite(p) ==
  IF writer = NoProc /\ readers = {}
  THEN writer' = p /\ UNCHANGED <<readers, waitingReaders, waitingWriters>>
  ELSE waitingWriters' = Append(waitingWriters, p) /\ UNCHANGED <<readers, writer, waitingReaders>>

\* process: the free lock goes to the first waiting writer, else to all readers.
HandOver ==
  IF waitingWriters # <<>>
  THEN /\ writer' = Head(waitingWriters)
       /\ waitingWriters' = Tail(waitingWriters)
       /\ readers' = {}
       /\ UNCHANGED waitingReaders
  ELSE /\ readers' = ToSet(waitingReaders)
       /\ waitingReaders' = <<>>
       /\ writer' = NoProc
       /\ UNCHANGED waitingWriters

ReleaseRead(p) ==
  /\ p \in readers
  /\ IF readers = {p} THEN HandOver
     ELSE readers' = readers \ {p} /\ UNCHANGED <<writer, waitingReaders, waitingWriters>>

ReleaseWrite(p) ==
  /\ p = writer
  /\ HandOver

LockTypeOK ==
  /\ readers \in SUBSET Procs
  /\ writer \in Procs \cup {NoProc}
  /\ waitingReaders \in Seq(Procs)
  /\ waitingWriters \in Seq(Procs)

(* A writer has the lock alone, and nobody waits for a lock that is free:    *)
(* every release hands it over (util/lock.ts:24-45).                         *)
LockExclusive == writer # NoProc => readers = {}
LockNeverIdle ==
  writer = NoProc /\ readers = {} => waitingReaders = <<>> /\ waitingWriters = <<>>

-----------------------------------------------------------------------------
(* The record. *)

CONSTANTS
  Ops,    \* the possible assignments of an operation to each process
  Absent

ASSUME OpsAssumption == Ops \subseteq [Procs -> {"read", "update", "write", "remove"}]
ASSUME AbsentAssumption == \A S \in SUBSET Procs : S # Absent

VARIABLES
  op,       \* "read", "update", "write" or "remove"
  at,       \* where each operation is
  file,     \* the file: its value, and whether a write has emptied it
  draft,    \* what an update read
  answer,   \* what each operation returned
  removed   \* history: the value the last removal removed

storageVars == <<lockVars, op, at, file, draft, answer, removed>>

Missing == [value |-> Absent, torn |-> FALSE, was |-> Absent]
File(v) == [value |-> v, torn |-> FALSE, was |-> v]

StorageInit ==
  /\ LockInit
  /\ op \in Ops
  /\ at = [p \in Procs |-> "start"]
  /\ file \in {Missing, File({})}
  /\ draft = [p \in Procs |-> {}]
  /\ answer = [p \in Procs |-> "none"]
  /\ removed = Absent

Holds(p) == p \in readers \/ p = writer
MoveTo(p, place) == at' = [at EXCEPT ![p] = place]
Returns(p, what) == answer' = [answer EXCEPT ![p] = what]

Acquire(p) ==
  /\ at[p] = "start"
  /\ op[p] # "remove"
  /\ IF op[p] = "read" THEN AcquireRead(p) ELSE AcquireWrite(p)
  /\ MoveTo(p, "locked")
  /\ UNCHANGED <<op, file, draft, answer, removed>>

\* read: the file's JSON, NotFoundError without a file; the lock is released.
ReadFile(p) ==
  /\ op[p] = "read" /\ at[p] = "locked" /\ Holds(p)
  /\ Returns(p, IF file.torn THEN "torn" ELSE IF file.value = Absent THEN "notFound" ELSE "value")
  /\ MoveTo(p, "end")
  /\ ReleaseRead(p)
  /\ UNCHANGED <<op, file, draft, removed>>

(* Mutant: an update reads before it has the lock.                           *)
LoadFileEarly(p) ==
  /\ op[p] = "update" /\ at[p] = "locked" /\ file.value # Absent
  /\ draft' = [draft EXCEPT ![p] = file.value]
  /\ MoveTo(p, "loaded")
  /\ UNCHANGED <<lockVars, op, file, answer, removed>>

\* update: read the content first, and give up when there is none.
LoadFile(p) ==
  /\ op[p] = "update" /\ at[p] = "locked" /\ Holds(p)
  /\ IF file.value = Absent
     THEN Returns(p, "notFound") /\ MoveTo(p, "end") /\ ReleaseWrite(p) /\ UNCHANGED draft
     ELSE /\ draft' = [draft EXCEPT ![p] = file.value]
          /\ MoveTo(p, "loaded")
          /\ UNCHANGED <<answer, lockVars>>
  /\ UNCHANGED <<op, file, removed>>

BeginWrite(p) ==
  /\ at[p] = IF op[p] = "write" THEN "locked" ELSE "loaded"
  /\ op[p] \in {"update", "write"} /\ Holds(p)
  /\ file' = [value |-> {}, torn |-> TRUE, was |-> file.value]
  /\ MoveTo(p, "writing")
  /\ UNCHANGED <<lockVars, op, draft, answer, removed>>

\* The write fills the file it opened, which a removal may have unlinked.
EndWrite(p) ==
  /\ at[p] = "writing"
  /\ file' = IF file = Missing THEN Missing
             ELSE File(IF op[p] = "write" THEN {p} ELSE draft[p] \cup {p})
  /\ Returns(p, "value")
  /\ MoveTo(p, "end")
  /\ ReleaseWrite(p)
  /\ UNCHANGED <<op, draft, removed>>

\* What the record holds as far as anyone with the lock can tell.
Record == IF file.torn THEN file.was ELSE file.value

\* remove: the file is unlinked, if it is there.
Unlink(p) ==
  /\ op[p] = "remove" /\ at[p] = "start"
  /\ removed' = IF Record = Absent THEN removed ELSE Record
  /\ file' = Missing
  /\ Returns(p, "value")
  /\ MoveTo(p, "end")
  /\ UNCHANGED <<lockVars, op, draft>>

StorageStep(p) ==
  \/ Acquire(p) \/ ReadFile(p) \/ LoadFile(p) \/ BeginWrite(p) \/ EndWrite(p) \/ Unlink(p)

StorageTypeOK ==
  /\ LockTypeOK
  /\ at \in [Procs -> {"start", "locked", "loaded", "writing", "end"}]
  /\ file.torn \in BOOLEAN
  /\ answer \in [Procs -> {"none", "value", "notFound", "torn"}]

Abstract == INSTANCE RecordStore WITH record <- Record

(* No reader sees a half-written file (storage.ts:172, 194), and a lock that *)
(* is free has nobody waiting for it (util/lock.ts:24-45).                   *)
ReadsAreWhole == StorageTypeOK /\ LockExclusive /\ LockNeverIdle /\ \A p \in Procs : answer[p] # "torn"

(* Storage is a record store: reads, writes and updates of one record take   *)
(* effect one at a time, what is read is whole, no update is lost to         *)
(* another, and the only removal that does not last is one an update         *)
(* overlapped (storage.ts:160-197).                                          *)
IsRecordStore == Abstract!Spec /\ []ReadsAreWhole
=============================================================================
