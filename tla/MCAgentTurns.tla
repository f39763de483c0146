----------------------------- MODULE MCAgentTurns -----------------------------
(* What runs a turn and what runs beside it: calls on one session, a batch   *)
(* of tool calls with subtasks, a prompt from the command line, and the      *)
(* instances all of these are part of.  The four share no variable, so each  *)
(* is explored by itself: a behaviour is one of the part that focus names,   *)
(* and the others stay as they began.                                        *)
EXTENDS HarnessTurns, Subtasks, RunCommand, Instances, TLC

CONSTANTS c1, c2

VARIABLE focus

turnsVars == <<focus, vars, taskVars, runVars, instanceVars>>

\* Two turns of a harness process or, in an HTTP server's process, a prompt
\* with a shell command, a command or another prompt, or a summary asked for
\* while a message is stored.
MCCallers == {c1, c2}
MCKinds ==
  {c1 :> k[1] @@ c2 :> k[2] :
     k \in {<<"turn", "turn">>, <<"prompt", "shell">>, <<"prompt", "command">>,
            <<"summarize", "noReply">>}}

\* Batches of one call more than is allowed and of subtasks: in a session of
\* their own, in one they share, and in the turn's own.
MCBatches ==
  {<<ToolCall("throws"), ToolCall("plain"), ToolCall("missing")>>,
   <<ToolCall("missing"), Task(NewSession)>>,
   <<Task(GivenSession), Task(GivenSession), ToolCall("plain")>>,
   <<Task(OwnSession), ToolCall("plain")>>}

\* Prompts of a new session, the last one, one that is named and one that does
\* not exist; commands that are known and not.
Typed(says, command, session, attach, agent) ==
  [files |-> TRUE, says |-> says, command |-> command, session |-> session, attach |-> attach, agent |-> agent]
MCCommandLines ==
  {Typed(TRUE, "none", "new", FALSE, "none"), Typed(FALSE, "known", "continue", TRUE, "primary"),
   Typed(TRUE, "unknown", "absent", TRUE, "subagent"), Typed(TRUE, "unknown", "new", FALSE, "none"),
   Typed(FALSE, "none", "named", FALSE, "none"),
   [Typed(TRUE, "none", "new", FALSE, "none") EXCEPT !.files = FALSE]}
MCListings == {<<>>, <<TRUE, FALSE>>}

\* Two calls of a worktree and one of a directory in it, and sessions of the
\* worktree and of elsewhere.
MCDirOf == [u1 |-> "w", u2 |-> "w", u3 |-> "sub"]
MCSessionDir == [s1 |-> "w", s2 |-> "other"]

Parked(name, state0) == focus = name \/ state0
AgentInit ==
  /\ focus \in {"turns", "batch", "command", "instances"}
  /\ Init /\ Parked("turns", kind = [c \in MCCallers |-> "turn"])
  /\ SubtasksInit /\ Parked("batch", calls = <<ToolCall("missing"), Task(NewSession)>>)
  /\ RunInit /\ Parked("command", line = Typed(TRUE, "none", "new", FALSE, "none"))
  /\ InstancesInit

Turning == focus = "turns" /\ Next /\ UNCHANGED <<focus, taskVars, runVars, instanceVars>>
Batching(act) == focus = "batch" /\ act /\ UNCHANGED <<focus, vars, runVars, instanceVars>>
Prompting(act) == focus = "command" /\ act /\ UNCHANGED <<focus, vars, taskVars, instanceVars>>
Opening == focus = "instances" /\ InstancesNext /\ UNCHANGED <<focus, vars, taskVars, runVars>>

AgentNext == Turning \/ Batching(SubtasksNext) \/ Prompting(RunNext) \/ Opening

\* Calls that began go on, tools return and aborted loops end; the command line
\* and its user go on, and so do the loop it waits for and the server.
AgentFairness ==
  /\ Fairness
  /\ WF_turnsVars(Batching(BatchStep)) /\ WF_turnsVars(Batching(ReaderOfTurn))
  /\ \A i \in 1..(MaxCalls + 1) :
       WF_turnsVars(Batching(i \in BatchCalls /\ (CallStep(i) \/ AbortedLoopEnds(i))))
  /\ WF_turnsVars(Prompting(CommandStep)) /\ WF_turnsVars(Prompting(ViewerStep))
  /\ WF_turnsVars(Prompting(Accepts)) /\ WF_turnsVars(Prompting(Idles))

AgentSpec == AgentInit /\ [][AgentNext]_turnsVars /\ AgentFairness
=============================================================================
