------------------------------- MODULE Revert -------------------------------
(* Undo and redo of a session (session/revert.ts) over the snapshots of the  *)
(* worktree (snapshot/index.ts).  A turn is a user message and an answer of  *)
(* steps; a step keeps the worktree it began with and the files it changed   *)
(* (its patch part).  A file is the number of the write it holds, 0 if it    *)
(* does not exist.                                                           *)
EXTENDS Naturals, Sequences, FiniteSets, SequencesExt

CONSTANTS
  Files,
  MaxUndoTurns, \* bound: turns prompted
  MaxSteps,     \* bound: steps of a turn
  MaxWrites,    \* bound: writes of the agent and of the user
  MaxReverts    \* bound: undos and redos

ASSUME RevertAssumption == MaxWrites \in Nat \ {0}

VARIABLES
  worktree,
  turns,      \* the stored turns
  begun,      \* history: the worktree each stored turn began with
  latest,     \* history: the worktree the newest turn or step left
  reverted,   \* the session's revert, or none
  apart,      \* history: whether the worktree is not what the stored patches lead to
  forward,    \* history: whether the revert is one that moved forward again
  writes, userWrites, reverts

revertVars == <<worktree, turns, begun, latest, reverted, apart, forward, writes, userWrites, reverts>>

NoRevert == [turn |-> 0, step |-> 0, snapshot |-> <<>>]

RevertInit ==
  /\ worktree \in [Files -> {0, 1}]
  /\ turns = <<>>
  /\ begun = <<>>
  /\ latest = worktree
  /\ reverted = NoRevert
  /\ apart = FALSE
  /\ forward = FALSE
  /\ writes = 1 /\ userWrites = 0 /\ reverts = 0

\* cleanup, before the next message: the messages from the reverted one on are
\* removed, which for a revert inside an answer is the whole answer.
Kept ==
  IF reverted = NoRevert THEN turns
  ELSE IF reverted.step = 0 THEN SubSeq(turns, 1, reverted.turn - 1)
  ELSE Append(SubSeq(turns, 1, reverted.turn - 1), <<>>)

NewTurn ==
  /\ Len(Kept) < MaxUndoTurns
  /\ turns' = Append(Kept, <<>>)
  /\ begun' = Append(SubSeq(begun, 1, Len(Kept)), worktree)
  /\ latest' = worktree
  /\ apart' = (apart \/ reverted.step # 0 \/ forward)
  /\ reverted' = NoRevert
  /\ forward' = FALSE
  /\ UNCHANGED <<worktree, writes, userWrites, reverts>>

\* A step tracks the worktree and stores a patch with what it changed.
AgentStep ==
  /\ reverted = NoRevert
  /\ turns # <<>> /\ Len(Last(turns)) < MaxSteps
  /\ writes < MaxWrites
  /\ \E changed \in SUBSET Files \ {{}} :
       \E after \in [changed -> {0, writes + 1}] :
         /\ \A f \in changed : after[f] # worktree[f]
         /\ worktree' = [f \in Files |-> IF f \in changed THEN after[f] ELSE worktree[f]]
         /\ turns' = [turns EXCEPT ![Len(turns)] =
                        Append(@, [hash |-> worktree, files |-> changed])]
  /\ latest' = worktree'
  /\ writes' = writes + 1
  /\ UNCHANGED <<begun, reverted, apart, forward, userWrites, reverts>>

UserWrites(f) ==
  /\ writes < MaxWrites
  /\ writes' = writes + 1
  /\ userWrites' = userWrites + 1
  /\ worktree' = [worktree EXCEPT ![f] = writes + 1]
  /\ UNCHANGED <<turns, begun, latest, reverted, apart, forward, reverts>>

\* The patches of the turns from a point of the conversation on.
PatchesFrom(list, turn, step) ==
  LET places == {p \in UNION {{t} \X DOMAIN list[t] : t \in turn..Len(list)} : p[1] = turn => p[2] >= step}
  IN {[turn |-> p[1], step |-> p[2], hash |-> list[p[1]][p[2]].hash, files |-> list[p[1]][p[2]].files] : p \in places}

Having(f, patches) == {p \in patches : f \in p.files}
Before(p, q) == p.turn < q.turn \/ (p.turn = q.turn /\ p.step <= q.step)
First(patches) == CHOOSE p \in patches : \A q \in patches : Before(p, q)

(* Mutant: a later patch of a file overrides an earlier one.                 *)
CheckOutLast(patches, tree) ==
  [f \in Files |->
     LET having == Having(f, patches)
     IN IF having = {} THEN tree[f] ELSE (CHOOSE p \in having : \A q \in having : Before(q, p)).hash[f]]

\* Snapshot.revert: each file as the first patch that has it found it.
CheckOut(patches, tree) ==
  [f \in Files |-> IF Having(f, patches) = {} THEN tree[f] ELSE First(Having(f, patches)).hash[f]]

\* revert to a message, or to a step of an answer that has others before it.
RevertTo(turn, step) ==
  /\ reverts < MaxReverts
  /\ reverts' = reverts + 1
  /\ worktree' = CheckOut(PatchesFrom(turns, turn, step), worktree)
  /\ reverted' = [turn |-> turn, step |-> step,
                  snapshot |-> IF reverted = NoRevert THEN worktree ELSE reverted.snapshot]
  /\ forward' = (forward \/ (reverted # NoRevert /\ turn > reverted.turn))
  /\ UNCHANGED <<turns, begun, latest, apart, writes, userWrites>>

\* Snapshot.restore writes the files of the snapshot and removes none.
CheckOutAll(snapshot, tree) == [f \in Files |-> IF snapshot[f] = 0 THEN tree[f] ELSE snapshot[f]]

Unrevert ==
  /\ reverted # NoRevert
  /\ worktree' = CheckOutAll(reverted.snapshot, worktree)
  /\ apart' = (apart \/ worktree' # latest)
  /\ reverted' = NoRevert
  /\ forward' = FALSE
  /\ UNCHANGED <<turns, begun, latest, writes, userWrites, reverts>>

\* The terminal interface: undo the newest turn not undone, redo the next one.
Undo ==
  \E turn \in DOMAIN turns :
    /\ turn = IF reverted = NoRevert THEN Len(turns)
              ELSE IF reverted.step = 0 THEN reverted.turn - 1 ELSE reverted.turn
    /\ RevertTo(turn, 0)

Redo ==
  /\ reverted # NoRevert
  /\ IF reverted.turn < Len(turns) THEN RevertTo(reverted.turn + 1, 0) ELSE Unrevert

\* Other clients revert to a part.
RevertToPart ==
  \E turn \in DOMAIN turns : \E step \in 2..Len(turns[turn]) : RevertTo(turn, step)

RevertNext ==
  \/ NewTurn \/ AgentStep \/ Undo \/ Redo \/ RevertToPart \/ \E f \in Files : UserWrites(f)

RevertTypeOK ==
  /\ worktree \in [Files -> 0..MaxWrites]
  /\ Len(turns) = Len(begun)
  /\ reverted.turn \in 0..Len(turns)
  /\ apart \in BOOLEAN /\ forward \in BOOLEAN

(* Undo takes the worktree back to what it was when the undone message was   *)
(* sent, over several undos and whatever the steps created, changed and      *)
(* removed, when nobody else wrote to it, no cleanup lost a step's patch and  *)
(* no redo left a file behind that a new turn then built on                  *)
(* (revert.ts:22-65).                                                        *)
UndoRestores ==
  reverted # NoRevert /\ reverted.step = 0 /\ userWrites = 0 /\ ~apart /\ ~forward
    => worktree = begun[reverted.turn]

(* A revert taken back brings back what the agent had written: however often *)
(* the user went back and forth, every file the newest step left is there,   *)
(* with its content (revert.ts:57, 67-77).                                   *)
UnrevertRestores ==
  reverted = NoRevert /\ userWrites = 0 =>
    \A f \in Files : latest[f] # 0 => worktree[f] = latest[f]

(* Neither the way back nor the way forward loses a file of the agent's.     *)
UndoAndRedoRestore == RevertTypeOK /\ UndoRestores /\ UnrevertRestores
=============================================================================
