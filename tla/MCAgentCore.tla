----------------------------- MODULE MCAgentCore -----------------------------
(* The parts of the agent's process that keep its files, permissions,        *)
(* timelines and terminals, and the reports on a project's quality.  They    *)
(* share no variable, so each is explored by itself: a behaviour is one of   *)
(* the part that focus names, and the others stay as they began.             *)
EXTENDS Storage, Processor, FileEdits, DesktopClient, Revert, Quality,
        TerminalSync, Terminals, TLC

CONSTANTS p1, p2, p3, c1, c2, doom, t1, t2, t3, x1, q1, k1, f1, f2

VARIABLE focus

sessionVars == <<serverVars, terminalVars>>
coreVars == <<focus, storageVars, permissionVars, processorVars, editVars, desktopVars, revertVars,
              qualityVars, sessionVars, ptyVars>>

\* One record and three operations of any kind.
MCProcs == {p1, p2, p3}
MCOps == [MCProcs -> {"read", "update", "write", "remove"}]

\* Two calls of one tool with one input, for two patterns of which one is
\* denied, and their doom loop's question.
MCCalls == {c1, c2}
MCRequests == {c1, c2, doom}
MCSessionOf == [r \in MCRequests |-> "session"]
MCNeedOf == [r \in MCRequests |-> IF r = doom THEN "doom_loop" ELSE "bash"]
MCPatternsOf == [r \in MCRequests |-> IF r = doom THEN <<"ls">> ELSE <<"ls", "rm">>]
MCAlwaysOf == [r \in MCRequests |-> IF r = c2 THEN {"*"} ELSE {"ls"}]
MCRuleset == <<[permission |-> "bash", pattern |-> "rm", action |-> "deny"],
               [permission |-> "doom_loop", pattern |-> "*", action |-> "ask"]>>
MCCovers ==
  {<<"*", n>> : n \in {"bash", "doom_loop", "ls", "rm"}}
    \cup {<<n, n>> : n \in {"bash", "doom_loop", "ls", "rm"}}
MCSameCall == [c \in MCCalls |-> 1]

\* Two tools of one session and one of another.
MCTools == {t1, t2, t3}
MCJobs == [MCTools -> {"edit", "create", "write", "patch", "read", "external"}]
MCSessionFor == [t \in MCTools |-> IF t = t3 THEN "s2" ELSE "s1"]

\* An answer with a text, a tool call or a permission request.
MCTextParts == {x1}
MCToolParts == {k1}
MCApprovalParts == {q1}
MCPartSets == {{x1}, {k1}, {q1}}

MCFiles == {f1, f2}

\* Two classes, the tests of each, and what an edit may leave of them; calls
\* that only check, and calls that record a baseline without running tests.
MCStart == [ATest |-> {<<"a1", 0>>, <<"a2", 0>>}, BTest |-> {<<"b1", 0>>},
            A |-> {<<"f", 0>>}, B |-> {<<"h", 0>>}]
MCContents == [ATest |-> {{<<"a1", 0>>}, MCStart.ATest}, BTest |-> {{}, MCStart.BTest},
               A |-> {MCStart.A, {<<"f", 1>>}}, B |-> {MCStart.B}]
MCExercises == [a1 |-> {"A"}, a2 |-> {"A", "B"}, b1 |-> {"B"}]
MCImports == [ATest |-> {"A"}, BTest |-> {"B"}]
MCTargetOf == [ATest |-> "A", BTest |-> "B"]
MCQualityParams ==
  {[update |-> "unset", gate |-> TRUE, run |-> FALSE, skip |-> FALSE],
   [update |-> "yes", gate |-> FALSE, run |-> FALSE, skip |-> TRUE]}

\* A session with a child.
MCParentOf == [s1 |-> "s1", s2 |-> "s1"]

Parked(name, state) == focus = name \/ state
Init ==
  /\ focus \in {"storage", "processor", "edits", "desktop", "revert", "quality", "sessions", "pty"}
  /\ StorageInit /\ Parked("storage", op = [p \in Procs |-> "read"] /\ file = Missing)
  /\ EditInit /\ Parked("edits", job = [t \in Tools |-> "read"] /\ exists)
  /\ DesktopInit
  /\ RevertInit /\ Parked("revert", worktree = [f \in Files |-> 0])
  /\ source = MCStart /\ QualityInit
  /\ ServerInit /\ Parked("sessions", created = Rooms) /\ TerminalInit
  /\ TerminalsInit /\ ProcessorInit

AgentVars == <<storageVars, permissionVars, processorVars>>
FileVars == <<editVars, desktopVars, revertVars, qualityVars>>
ClientVars == <<sessionVars, ptyVars>>

Storing(p) ==
  /\ focus = "storage" /\ StorageStep(p)
  /\ UNCHANGED <<focus, permissionVars, processorVars, FileVars, ClientVars>>
ReaderOf(step1) ==
  /\ focus = "processor" /\ step1
  /\ UNCHANGED <<focus, storageVars, FileVars, ClientVars>>
Editing ==
  /\ focus = "edits" /\ EditNext
  /\ UNCHANGED <<focus, AgentVars, desktopVars, revertVars, qualityVars, ClientVars>>
Showing ==
  /\ focus = "desktop" /\ DesktopNext
  /\ UNCHANGED <<focus, AgentVars, editVars, revertVars, qualityVars, ClientVars>>
Undoing ==
  /\ focus = "revert" /\ RevertNext
  /\ UNCHANGED <<focus, AgentVars, editVars, desktopVars, qualityVars, ClientVars>>
Judging ==
  /\ focus = "quality" /\ QualityNext
  /\ UNCHANGED <<focus, AgentVars, editVars, desktopVars, revertVars, ClientVars>>
Serving ==
  /\ focus = "sessions" /\ TerminalNext
  /\ UNCHANGED <<focus, AgentVars, FileVars, ptyVars>>
Printing ==
  /\ focus = "pty" /\ TerminalsNext
  /\ UNCHANGED <<focus, AgentVars, FileVars, sessionVars>>

Next ==
  \/ \E p \in Procs : Storing(p)
  \/ ReaderOf(ProcessorNext)
  \/ Editing \/ Showing \/ Undoing \/ Judging \/ Serving \/ Printing

\* The reader's awaits return.
Fairness == WF_coreVars(ReaderOf(ReaderStep))

Spec == Init /\ [][Next]_coreVars /\ Fairness
=============================================================================
