------------------------------ MODULE FileEdits ------------------------------
(* The tools that overwrite one file, and the read times and the lock chain  *)
(* of file/time.ts: tool/edit.ts inside withLock, tool/write.ts and          *)
(* tool/patch.ts outside of it, tool/read.ts, and changes by other programs. *)
(* The content is the set of tools whose text is in the file.                *)
EXTENDS Naturals, Sequences, FiniteSets, SequencesExt

CONSTANTS
  Tools,       \* the calls of tools
  Jobs,        \* the assignments of a tool to each call
  SessionFor   \* call -> session

JobKinds == {"edit", "create", "write", "patch", "read", "external"}
ASSUME JobsAssumption == Jobs \subseteq [Tools -> JobKinds]

VARIABLES
  job,      \* "edit", "create", "write", "patch", "read" or "external"
  step,     \* where each call is
  chain,    \* the calls holding and waiting for the file's lock, in order
  content,
  exists,
  base,     \* the content a call's new text was computed from
  stamp     \* session -> whether its read time is missing, current or overtaken

editVars == <<job, step, chain, content, exists, base, stamp>>

Sessions == {SessionFor[t] : t \in Tools}
Locked == {"edit", "create"}
Unlocked == {"write", "patch"}

EditInit ==
  /\ job \in Jobs
  /\ step = [t \in Tools |-> "start"]
  /\ chain = <<>>
  /\ content = {}
  /\ exists \in BOOLEAN
  /\ base = [t \in Tools |-> {}]
  /\ stamp = [s \in Sessions |-> "none"]

Steps(t, next) == step' = [step EXCEPT ![t] = next]
Fresh(t) == stamp[SessionFor[t]] = "fresh"
Overtake == [s \in Sessions |-> IF stamp[s] = "none" THEN "none" ELSE "stale"]
Stamped(t) == [stamp EXCEPT ![SessionFor[t]] = "fresh"]

(* Mutant: a call waits for nobody.                                          *)
JoinFirst(t) ==
  /\ job[t] \in Locked /\ step[t] = "start"
  /\ chain' = <<t>> \o chain
  /\ Steps(t, "queued")
  /\ UNCHANGED <<job, content, exists, base, stamp>>

\* withLock: join the chain; a call runs when those before it have released.
Join(t) ==
  /\ job[t] \in Locked /\ step[t] = "start"
  /\ chain' = Append(chain, t)
  /\ Steps(t, "queued")
  /\ UNCHANGED <<job, content, exists, base, stamp>>

\* The end of a call, with or without an error, passes on the lock it has.
Released(t) == IF job[t] \in Locked THEN Tail(chain) ELSE chain
Stop(t) == Steps(t, "end") /\ chain' = Released(t)

\* A new file is not compared with anything: straight to the question.
AskToCreate(t) ==
  /\ job[t] = "create" /\ step[t] = "queued" /\ Head(chain) = t
  /\ Steps(t, "asking")
  /\ UNCHANGED <<job, chain, content, exists, base, stamp>>

\* The file must exist, and must not be newer than the session's read time.
AssertFresh(t) ==
  /\ \/ job[t] = "edit" /\ step[t] = "queued" /\ Head(chain) = t
     \/ job[t] = "patch" /\ step[t] = "start"
  /\ IF exists /\ Fresh(t) THEN Steps(t, "asserted") /\ UNCHANGED chain ELSE Stop(t)
  /\ UNCHANGED <<job, content, exists, base, stamp>>

ReadOld(t) ==
  /\ job[t] \in {"edit", "patch"} /\ step[t] = "asserted"
  /\ base' = [base EXCEPT ![t] = content]
  /\ Steps(t, "asking")
  /\ UNCHANGED <<job, chain, content, exists, stamp>>

\* The write tool reads first, and asserts only on a file that was there.
WriteReads(t) ==
  /\ job[t] = "write" /\ step[t] = "start"
  /\ base' = [base EXCEPT ![t] = content]
  /\ Steps(t, IF exists THEN "found" ELSE "asking")
  /\ UNCHANGED <<job, chain, content, exists, stamp>>

WriteAsserts(t) ==
  /\ step[t] = "found"
  /\ Steps(t, IF Fresh(t) THEN "asking" ELSE "end")
  /\ UNCHANGED <<job, chain, content, exists, base, stamp>>

\* The client answers the question about the edit.
Answered(t) ==
  /\ step[t] = "asking"
  /\ \/ Steps(t, "granted") /\ UNCHANGED chain
     \/ Stop(t)
  /\ UNCHANGED <<job, content, exists, base, stamp>>

NewText(t) == IF job[t] \in {"edit", "patch"} THEN base[t] \cup {t} ELSE {t}

Overwrite(t) ==
  /\ step[t] = "granted"
  /\ content' = NewText(t)
  /\ exists' = TRUE
  /\ stamp' = Overtake
  /\ Steps(t, "written")
  /\ UNCHANGED <<job, chain, base>>

\* edit and write publish the change, and its formatters run to their end.
Format(t) ==
  /\ step[t] = "written"
  /\ job[t] # "patch"
  /\ stamp' = Overtake
  /\ Steps(t, "formatted")
  /\ UNCHANGED <<job, chain, content, exists, base>>

Stamp(t) ==
  /\ step[t] = IF job[t] = "patch" THEN "written" ELSE "formatted"
  /\ stamp' = Stamped(t)
  /\ Stop(t)
  /\ UNCHANGED <<job, content, exists, base>>

\* The read tool takes its read time after the text.
ReadText(t) ==
  /\ job[t] = "read" /\ step[t] = "start"
  /\ Steps(t, IF exists THEN "read" ELSE "end")
  /\ UNCHANGED <<job, chain, content, exists, base, stamp>>

ReadStamp(t) ==
  /\ step[t] = "read"
  /\ stamp' = Stamped(t)
  /\ Steps(t, "end")
  /\ UNCHANGED <<job, chain, content, exists, base>>

\* Another program writes the file.
External(t) ==
  /\ job[t] = "external" /\ step[t] = "start"
  /\ content' = {t}
  /\ exists' = TRUE
  /\ stamp' = Overtake
  /\ Steps(t, "end")
  /\ UNCHANGED <<job, chain, base>>

EditStep(t) ==
  \/ Join(t) \/ AskToCreate(t) \/ AssertFresh(t) \/ ReadOld(t) \/ WriteReads(t) \/ WriteAsserts(t)
  \/ Answered(t) \/ Overwrite(t) \/ Format(t) \/ Stamp(t) \/ ReadText(t) \/ ReadStamp(t)
  \/ External(t)

EditNext == \E t \in Tools : EditStep(t)

EditTypeOK ==
  /\ step \in [Tools -> {"start", "queued", "found", "asserted", "asking", "granted", "written",
                         "formatted", "read", "end"}]
  /\ chain \in Seq(Tools)
  /\ content \in SUBSET Tools
  /\ exists \in BOOLEAN
  /\ base \in [Tools -> SUBSET Tools]
  /\ stamp \in [Sessions -> {"none", "fresh", "stale"}]

(* Edits keep each other's changes: where every writer goes through withLock, *)
(* the text an edit is about to replace is the text it was computed from,    *)
(* however long the client takes to answer, and the lock passes on when a    *)
(* call fails (tool/edit.ts:59-110, file/time.ts:34-52).                     *)
EditsKeepEdits ==
  /\ EditTypeOK
  /\ (\A t \in Tools : job[t] \notin Unlocked \cup {"external"}) =>
       \A t \in Tools : job[t] = "edit" /\ step[t] \in {"asking", "granted"} => base[t] = content
  /\ \A t \in Tools : step[t] = "end" => t \notin ToSet(chain)
=============================================================================
