---------------------------- MODULE ShellCommands ----------------------------
(* One call of the bash tool (tool/bash.ts): the questions it asks, the      *)
(* process group it starts, and the race of its end with the time-out, an    *)
(* abort and the two steps of killTree (shell/shell.ts).  Output is counted  *)
(* in chunks.  The command may trap SIGTERM, and run for ever.               *)
EXTENDS Integers, Sequences, FiniteSets

CONSTANTS
  MAX_OUTPUT_LENGTH,  \* in chunks
  MaxPrinted          \* bound of what a command prints

VARIABLES
  bash,      \* the call: where it waits, its flags, the signal of its turn
  command,   \* the process group: its leader, the last signal, its output
  killer,    \* the killTree calls: of an early abort, an abort, the time-out
  exitSeen   \* the exit event: to come, "heard", or "lost" without a listener

shellVars == <<bash, command, killer, exitSeen>>

Reasons == {"early", "abort", "timeout"}

ShellInit ==
  /\ \E outside, asks \in BOOLEAN :
       bash = [at |-> "parsing", outside |-> outside, asks |-> asks, signal |-> FALSE,
               aborted |-> FALSE, timer |-> "off", output |-> 0, result |-> "none"]
  /\ \E traps \in BOOLEAN : command = [leader |-> "none", sent |-> "none", traps |-> traps, printed |-> 0]
  /\ killer = [r \in Reasons |-> "idle"] /\ exitSeen = "no"

exited == exitSeen = "heard"

\* Directories outside of the project are asked for first, then the commands
\* that are not cd; each answer may be a rejection, which fails the call.
AsksNext(from) == IF from = "parsing" /\ bash.outside THEN "directories"
                  ELSE IF from # "commands" /\ bash.asks THEN "commands" ELSE "spawning"
Ask ==
  /\ bash.at \in {"parsing", "directories", "commands"}
  /\ bash' = [bash EXCEPT !.at = AsksNext(@)]
  /\ UNCHANGED <<command, killer, exitSeen>>
Rejected ==
  /\ bash.at \in {"directories", "commands"}
  /\ bash' = [bash EXCEPT !.at = "failed"]
  /\ UNCHANGED <<command, killer, exitSeen>>

\* killTree, up to its pause: nothing once the exit was heard.
Killing(r) ==
  IF exited THEN UNCHANGED <<command, killer>>
  ELSE /\ killer' = [killer EXCEPT ![r] = "pausing"]
       /\ command' = [command EXCEPT !.sent = IF @ = "kill" THEN @ ELSE "term",
                                     !.leader = IF @ = "none" THEN "running" ELSE @]

\* When the turn is aborted already, the tool waits for the kill before it
\* listens to the process, sets its timer, or looks out for an abort.
Spawn ==
  /\ bash.at = "spawning"
  /\ IF bash.signal
     THEN bash' = [bash EXCEPT !.at = "killing", !.aborted = TRUE] /\ Killing("early")
     ELSE /\ bash' = [bash EXCEPT !.at = "waiting", !.timer = "set"]
          /\ command' = [command EXCEPT !.leader = "running"] /\ UNCHANGED killer
  /\ UNCHANGED exitSeen
SpawnFails ==
  /\ bash.at = "spawning" /\ ~bash.signal
  /\ bash' = [bash EXCEPT !.at = "failed"]
  /\ UNCHANGED <<command, killer, exitSeen>>

\* Mutant: killTree asks once.
NeverForced(r) ==
  /\ killer[r] = "pausing"
  /\ killer' = [killer EXCEPT ![r] = "done"]
  /\ bash' = IF r = "early" THEN [bash EXCEPT !.at = "waiting", !.timer = "set"] ELSE bash
  /\ UNCHANGED <<command, exitSeen>>

\* After the pause the group is killed, unless the exit was heard meanwhile.
Force(r) ==
  /\ killer[r] = "pausing"
  /\ killer' = [killer EXCEPT ![r] = "done"]
  /\ command' = IF exited THEN command ELSE [command EXCEPT !.sent = "kill"]
  /\ bash' = IF r = "early" THEN [bash EXCEPT !.at = "waiting", !.timer = "set"] ELSE bash
  /\ UNCHANGED exitSeen

Abort ==
  /\ ~bash.signal /\ bash.at \notin {"returned", "failed"}
  /\ IF bash.at = "waiting"
     THEN bash' = [bash EXCEPT !.signal = TRUE, !.aborted = TRUE] /\ Killing("abort")
     ELSE bash' = [bash EXCEPT !.signal = TRUE] /\ UNCHANGED <<command, killer>>
  /\ UNCHANGED exitSeen
TimeoutFires ==
  /\ bash.timer = "set"
  /\ bash' = [bash EXCEPT !.timer = "fired"] /\ Killing("timeout")
  /\ UNCHANGED exitSeen

\* The command: it prints, and ends by itself or by a signal.
Prints ==
  /\ command.leader = "running" /\ command.printed < MaxPrinted
  /\ command' = [command EXCEPT !.printed = @ + 1]
  /\ UNCHANGED <<bash, killer, exitSeen>>
Leaves == command.leader = "running" /\ command' = [command EXCEPT !.leader = "gone"]
EndsItself == Leaves /\ UNCHANGED <<bash, killer, exitSeen>>
Signalled ==
  /\ command.sent = "kill" \/ (command.sent = "term" /\ ~command.traps)
  /\ Leaves /\ UNCHANGED <<bash, killer, exitSeen>>

\* Output over the limit is dropped, one chunk above it is cut off later.
append ==
  /\ bash.output < command.printed /\ bash.at \in {"killing", "waiting"}
  /\ bash' = [bash EXCEPT !.output = IF @ <= MAX_OUTPUT_LENGTH THEN @ + 1 ELSE @]
  /\ UNCHANGED <<command, killer, exitSeen>>

\* The exit event: heard by the tool, which returns at once, with the output
\* that came so far; or lost, when the tool still waits for its first kill.
Least(a, b) == IF a < b THEN a ELSE b
Returned ==
  [bash EXCEPT !.at = "returned",
               !.output = Least(@, MAX_OUTPUT_LENGTH),
               !.timer = IF @ = "set" THEN "cleared" ELSE @,
               !.result = [truncated |-> bash.output > MAX_OUTPUT_LENGTH, timedOut |-> bash.timer = "fired",
                           aborted |-> bash.aborted]]
ExitEvent ==
  /\ command.leader = "gone" /\ exitSeen = "no"
  /\ IF bash.at = "waiting" THEN exitSeen' = "heard" /\ bash' = Returned
     ELSE exitSeen' = "lost" /\ UNCHANGED bash
  /\ UNCHANGED <<command, killer>>

ShellStep == TimeoutFires \/ Signalled \/ ExitEvent \/ \E r \in Reasons : Force(r)
ShellNext ==
  \/ Ask \/ Rejected \/ Spawn \/ SpawnFails \/ Abort \/ Prints \/ EndsItself \/ append
  \/ TimeoutFires \/ Signalled \/ ExitEvent \/ \E r \in Reasons : Force(r)

-----------------------------------------------------------------------------
\* A command that runs while the tool listens ends, though it never would by
\* itself and traps SIGTERM: the call returns with its leader gone, and says
\* that it was aborted or timed out when that is how the end was brought
\* about.  Not so when the turn was aborted before the command was started:
\* its exit may be lost, and then the call never returns.
CommandsEnd ==
  bash.at = "waiting" /\ exitSeen # "lost" ~>
    /\ bash.at = "returned" /\ command.leader = "gone"
    /\ command.sent # "none" => bash.result.timedOut \/ bash.result.aborted
=============================================================================
