------------------------------- MODULE Instances -------------------------------
(* The instances a process keeps of the directories of a worktree            *)
(* (project/instance.ts), the states they hold (project/state.ts) and the    *)
(* project they open (project/project.ts), which takes over the sessions     *)
(* that were kept without one.  Making an instance looks the project up,     *)
(* moves sessions if it is new, records it, and sets the instance up, which  *)
(* subscribes to the events of the directory's state.  Disposals go on while *)
(* others use the instance.                                                  *)
EXTENDS Integers, Sequences, FiniteSets

CONSTANTS
  InstanceUsers,         \* calls that use an instance
  Dirs,          \* directories of one worktree
  Worktree,      \* the directory at its root
  DirOf,         \* user -> the directory it names
  SessionDir,    \* session of no project -> its directory, NoDir if it has none
  NoDir,
  MaxInstances   \* bound of the instances made

ASSUME InstancesAssumption == DirOf \in [InstanceUsers -> Dirs]

VARIABLES
  cache,         \* directory -> its instance, or None
  instances,     \* instances: directory, what is done next, sessions to move
  states,        \* directory -> its state, or None
  made,          \* states so far: subscriptions, disposals
  user,          \* user -> what it does, in which instance
  recorded,      \* the project has a record
  records,       \* session -> where it has a record, "global" or "project"
  mishaps        \* "overlap": a disposal during another, or while an instance
                 \* is made; "failed": an instance could not be set up;
                 \* "unmoved": a session could not be written; "killed"

recordVars == <<recorded, records>>
placeVars == <<cache, instances, states, made, user, mishaps>>
instanceVars == <<placeVars, recordVars>>

None == 0
Stray == DOMAIN SessionDir
Made == 1..Len(made)
All == 1..Len(instances)

InstancesInit ==
  /\ cache = [d \in Dirs |-> None] /\ instances = <<>>
  /\ states = [d \in Dirs |-> None] /\ made = <<>>
  /\ user = [u \in InstanceUsers |-> [does |-> "idle", in |-> None]]
  /\ recorded = FALSE /\ mishaps = {}
  /\ records = [s \in Stray |-> {"global"}]

\* Bound: one write fails, or the process is killed once.
Unhurt == mishaps \cap {"unmoved", "killed"} = {}

Does(u, what) == [user EXCEPT ![u].does = what]
Now(n, does) == instances' = [instances EXCEPT ![n].does = does]
Doing(n, what) == n \in All /\ instances[n].does = what
Making(d) == \E n \in All : instances[n].dir = d /\ instances[n].does \notin {"ready", "failed", "killed"}
Disposing(d) == \E u \in InstanceUsers : user[u].does = "disposing" /\ DirOf[u] = d

-----------------------------------------------------------------------------
(* provide: the instance in the cache, or a new one; all that ask for it     *)
(* wait for the same promise, and are rejected when it is.                   *)
Provide(u) ==
  /\ user[u].does = "idle"
  /\ IF cache[DirOf[u]] # None
     THEN /\ user' = [user EXCEPT ![u] = [does |-> "awaiting", in |-> cache[DirOf[u]]]]
          /\ UNCHANGED <<cache, instances, mishaps>>
     ELSE LET n == Len(instances) + 1 IN
          /\ n <= MaxInstances
          /\ instances' = Append(instances, [dir |-> DirOf[u], does |-> "looking", left |-> [s \in {} |-> "read"]])
          /\ cache' = [cache EXCEPT ![DirOf[u]] = n]
          /\ user' = [user EXCEPT ![u] = [does |-> "awaiting", in |-> n]]
          /\ mishaps' = IF Disposing(DirOf[u]) THEN mishaps \cup {"overlap"} ELSE mishaps
  /\ UNCHANGED <<states, made, recordVars>>

Enter(u) ==
  /\ user[u].does = "awaiting"
  /\ \/ Doing(user[u].in, "ready") /\ user' = Does(u, "inside")
     \/ Doing(user[u].in, "failed") /\ user' = Does(u, "over")
  /\ UNCHANGED <<cache, instances, states, made, mishaps, recordVars>>

-----------------------------------------------------------------------------
(* fromDirectory *)

\* A project that has no record takes over the sessions that are listed now.
Look(n) ==
  /\ Doing(n, "looking")
  /\ instances' = [instances EXCEPT
       ![n].does = "moving",
       ![n].left = [s \in {t \in Stray : ~recorded /\ "global" \in records[t]} |-> "read"]]
  /\ UNCHANGED <<cache, states, made, user, mishaps, recordVars>>

\* Those of other directories stay.
Moves(s) == SessionDir[s] \in {Worktree, NoDir}

Left(n) == instances[n].left
AtTask(n, s, at) == instances[n].does # "killed" /\ s \in DOMAIN Left(n) /\ Left(n)[s] = at
Sets(n, left) == instances' = [instances EXCEPT ![n].left = left]
Without(left, s) == [t \in DOMAIN left \ {s} |-> left[t]]

\* A session is read, written to the project, and removed where it was; the
\* sessions are moved at the same time.
ReadSession(n, s) ==
  /\ AtTask(n, s, "read")
  /\ IF "global" \in records[s] /\ Moves(s)
     THEN Sets(n, [Left(n) EXCEPT ![s] = "write"])
     ELSE Sets(n, Without(Left(n), s))
  /\ UNCHANGED <<cache, states, made, user, mishaps, recordVars>>
WriteSession(n, s) ==
  /\ AtTask(n, s, "write") /\ Sets(n, [Left(n) EXCEPT ![s] = "remove"])
  /\ records' = [records EXCEPT ![s] = @ \cup {"project"}]
  /\ UNCHANGED <<cache, states, made, user, mishaps, recorded>>
RemoveSession(n, s) ==
  /\ AtTask(n, s, "remove") /\ Sets(n, Without(Left(n), s))
  /\ records' = [records EXCEPT ![s] = @ \ {"global"}]
  /\ UNCHANGED <<cache, states, made, user, mishaps, recorded>>

\* A write that fails is logged, and the project recorded while the others are
\* still being moved.
WriteFails(n, s) ==
  /\ AtTask(n, s, "write") /\ Unhurt /\ mishaps' = mishaps \cup {"unmoved"}
  /\ instances' = [instances EXCEPT ![n].left = Without(@, s), ![n].does = IF @ = "moving" THEN "moved" ELSE @]
  /\ UNCHANGED <<cache, states, made, user, recordVars>>

RecordProject(n) ==
  /\ Doing(n, "moved") \/ (Doing(n, "moving") /\ DOMAIN Left(n) = {})
  /\ Now(n, "setting up") /\ recorded' = TRUE
  /\ UNCHANGED <<cache, states, made, user, mishaps, records>>

\* The process is killed, and started again.
Killed ==
  /\ Unhurt /\ mishaps' = mishaps \cup {"killed"}
  /\ cache' = [d \in Dirs |-> None]
  /\ instances' = [n \in All |-> [instances[n] EXCEPT !.does = "killed"]]
  /\ states' = [d \in Dirs |-> None]
  /\ user' = [u \in InstanceUsers |-> IF user[u].does = "over" THEN user[u] ELSE [does |-> "idle", in |-> None]]
  /\ UNCHANGED <<made, recordVars>>

-----------------------------------------------------------------------------
(* State.create and State.dispose *)

\* A state is made for whoever asks first, and shared.
Using(d, subscribes) ==
  LET i == IF states[d] # None THEN states[d] ELSE Len(made) + 1
      all == IF states[d] # None THEN made ELSE Append(made, [subs |-> 0, disposals |-> 0]) IN
  /\ states' = [states EXCEPT ![d] = i]
  /\ made' = [all EXCEPT ![i].subs = @ + subscribes]

\* Setting up subscribes to the events of the state; what fails after that, or
\* before, rejects all that wait, and the promise stays in the cache.
SetUp(n) ==
  /\ Doing(n, "setting up") /\ Now(n, "ready") /\ Using(instances[n].dir, 1)
  /\ UNCHANGED <<cache, user, mishaps, recordVars>>
SetUpFails(n) ==
  /\ Doing(n, "setting up") /\ Now(n, "failed") /\ mishaps' = mishaps \cup {"failed"}
  /\ \/ Using(instances[n].dir, 1)
     \/ UNCHANGED <<states, made>>
  /\ UNCHANGED <<cache, user, recordVars>>

\* A call inside of an instance uses the state of its directory, whatever has
\* become of the instance, for as long as it likes.
Use(u) ==
  /\ user[u].does = "inside" /\ Using(DirOf[u], 0)
  /\ UNCHANGED <<cache, instances, user, mishaps, recordVars>>

\* Mutant: the states are forgotten when all of them are disposed.
KeptMeanwhile(d) == states

\* States that are disposed are forgotten at once, and disposed in their time.
Forgotten(d) == [states EXCEPT ![d] = None]

DisposeInstance(u) ==
  LET d == DirOf[u] IN
  /\ user[u].does = "inside" /\ user' = Does(u, "disposing")
  /\ mishaps' = IF Making(d) \/ Disposing(d) THEN mishaps \cup {"overlap"} ELSE mishaps
  /\ states' = Forgotten(d)
  /\ made' = IF states[d] = None THEN made ELSE [made EXCEPT ![states[d]].disposals = @ + 1]
  /\ UNCHANGED <<cache, instances, recordVars>>

\* Then the directory has no instance in the cache, whichever it was.
DisposedOf(u) ==
  /\ user[u].does = "disposing" /\ user' = Does(u, "over")
  /\ cache' = [cache EXCEPT ![DirOf[u]] = None]
  /\ UNCHANGED <<states, instances, made, mishaps, recordVars>>

\* Disposing all instances passes over one that failed, and forgets it.
SkipFailed(d) ==
  /\ cache[d] # None /\ Doing(cache[d], "failed") /\ cache' = [cache EXCEPT ![d] = None]
  /\ UNCHANGED <<instances, states, made, user, mishaps, recordVars>>

InstancesNext ==
  \/ \E u \in InstanceUsers : Provide(u) \/ Enter(u) \/ Use(u) \/ DisposeInstance(u) \/ DisposedOf(u)
  \/ \E n \in All : Look(n) \/ RecordProject(n) \/ SetUp(n) \/ SetUpFails(n)
  \/ \E n \in All, s \in Stray : ReadSession(n, s) \/ WriteSession(n, s) \/ WriteFails(n, s) \/ RemoveSession(n, s)
  \/ Killed \/ \E d \in Dirs : SkipFailed(d)

-----------------------------------------------------------------------------
\* No state is disposed twice, and none that is being disposed is given to a
\* call.
StatesAreLive ==
  /\ \A i \in Made : made[i].disposals <= 1
  /\ \A d \in Dirs : states[d] # None => made[states[d]].disposals = 0

\* Nothing subscribes twice to the events of one state, which would format,
\* share and report everything twice: unless a disposal overlapped another, or
\* the making of an instance, or an instance could not be set up.
SubscribedOnce ==
  mishaps \cap {"overlap", "failed"} = {} => \A d \in Dirs : states[d] # None => made[states[d]].subs <= 1

\* No session is lost when a project takes it over, wherever the process is
\* killed and however many instances do it at once; no project takes one of
\* another directory; and when the project has its record, and no write failed,
\* each session is kept in one place.
SessionsSurvive ==
  /\ \A s \in Stray : records[s] # {}
  /\ \A s \in Stray : "project" \in records[s] => SessionDir[s] \in {Worktree, NoDir}
  /\ recorded /\ "unmoved" \notin mishaps => \A s \in Stray : Cardinality(records[s]) = 1

\* The instances of a worktree keep their states apart and its sessions whole.
InstancesHold == StatesAreLive /\ SubscribedOnce /\ SessionsSurvive
=============================================================================
