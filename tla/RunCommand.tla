------------------------------ MODULE RunCommand ------------------------------
(* A prompt from the command line (cli/cmd/run.ts): the command chooses a    *)
(* session, subscribes to the server's events, sends the prompt, and prints  *)
(* what the session's loop answers until the session is idle.  The server    *)
(* and its loop are seen through the requests and the events; the client of  *)
(* the server is taken to be subscribed when its prompt arrives.  Formats,   *)
(* steps and titles are left out.                                            *)
EXTENDS Integers, Sequences, SequencesExt

CONSTANTS
  CommandLines,  \* what the user may have typed
  Listings,      \* the sessions the server may list: for each, whether it is a child
  MaxEvents      \* bound of what the loops tell

VARIABLES
  line,          \* [files, says, command, session, attach, agent], as typed
  phase,         \* what the command does next
  target,        \* the session and the agent it prompts
  viewer,        \* the processor of events: "off", "reading", "selecting", "done"
  shown,         \* what it printed
  errors,        \* the errors it was told
  code,          \* exit code
  stream,        \* events on their way to it
  post,          \* its prompt: "unsent", "sent", "refused", "accepted", "returned"
  serving,       \* the session's loop
  told,          \* what loops told of the session since the prompt
  events,        \* events of loops so far
  disturbed      \* somebody else prompted or aborted the session

lineVars == <<line, phase, target>>
viewVars == <<viewer, shown, errors, code>>
serverVars == <<stream, post, serving, told, events, disturbed>>
runVars == <<lineVars, viewVars, serverVars>>

Event(type, own) == [type |-> type, own |-> own]
AtWork == {"running", "asking", "child asks"}

RunInit ==
  /\ line \in CommandLines /\ phase = "files" /\ target = [session |-> "none", agent |-> "default"]
  /\ viewer = "off" /\ shown = <<>> /\ errors = 0 /\ code = -1
  /\ stream = <<>> /\ post = "unsent" /\ told = <<>> /\ events = 0
  /\ serving \in (IF line.session = "new" THEN {"idle"} ELSE {"idle", "running"})
  /\ disturbed = (serving = "running")

Goes(from, to) == phase = from /\ phase' = to
Fails(from) == Goes(from, "exited") /\ code' = 1 /\ UNCHANGED <<line, target, viewer, shown, errors, serverVars>>
Quiet == UNCHANGED <<viewVars, serverVars>>

-----------------------------------------------------------------------------
(* Up to the prompt. *)

\* The files to attach are looked up; there must be something to say.
Reads ==
  \/ line.files /\ (line.says \/ line.command # "none") /\ Goes("files", "command")
     /\ UNCHANGED <<line, target>> /\ Quiet
  \/ (~line.files \/ (~line.says /\ line.command = "none")) /\ Fails("files")

\* Only a server of its own is asked whether it knows the command.
FindsCommand ==
  \/ (line.attach \/ line.command # "unknown") /\ Goes("command", "session")
     /\ UNCHANGED <<line, target>> /\ Quiet
  \/ ~line.attach /\ line.command = "unknown" /\ Fails("command")

\* The last session is the first in the server's list that is no child; a
\* session that is named is not looked up; a new one may not be created.
FirstRoot(listing) ==
  IF \E k \in DOMAIN listing : ~listing[k] THEN "listed" ELSE "none"
Found ==
  CASE line.session = "continue" -> {FirstRoot(listing) : listing \in Listings}
    [] line.session = "new" -> {"created", "none"}
    [] OTHER -> {line.session}
ChoosesSession ==
  \/ \E s \in Found \ {"none"} :
       /\ target' = [target EXCEPT !.session = s]
       /\ Goes("session", "share") /\ UNCHANGED line /\ Quiet
  \/ "none" \in Found /\ Fails("session")

\* Whether sharing succeeds or not the command goes on.
Shares == Goes("share", "agent") /\ UNCHANGED <<line, target>> /\ Quiet

\* The events are subscribed to, and their processor started; an agent that is
\* unknown, or for subtasks, is replaced by the default.
Subscribes ==
  /\ Goes("agent", "prompt") /\ viewer' = "reading"
  /\ target' = [target EXCEPT !.agent = IF line.agent = "primary" THEN "primary" ELSE "default"]
  /\ UNCHANGED <<line, shown, errors, code, serverVars>>

Prompts ==
  /\ Goes("prompt", "awaiting") /\ post' = "sent"
  /\ UNCHANGED <<line, target, viewVars, stream, serving, told, events, disturbed>>

\* The request has returned, with an error or not, and the session is idle.
Exits ==
  /\ post \in {"refused", "returned"} /\ viewer = "done" /\ Goes("awaiting", "exited")
  /\ code' = IF errors > 0 THEN 1 ELSE 0
  /\ UNCHANGED <<line, target, viewer, shown, errors, serverVars>>

-----------------------------------------------------------------------------
(* The processor of events. *)

\* Mutant: the processor goes on once it heard an error.
EndsWell(e) == e.type = "idle" /\ e.own /\ errors = 0

Ends(e) == e.type = "idle" /\ e.own
Prints(e) == e.own /\ e.type \in {"text", "tool"}

Views ==
  /\ viewer = "reading" /\ stream # <<>>
  /\ LET e == Head(stream) IN
     /\ shown' = IF Prints(e) THEN Append(shown, e.type) ELSE shown
     /\ errors' = IF e.type = "error" /\ e.own THEN errors + 1 ELSE errors
     /\ viewer' = CASE Ends(e) -> "done"
                    [] e.type = "ask" /\ e.own -> "selecting"
                    [] OTHER -> "reading"
  /\ stream' = Tail(stream)
  /\ UNCHANGED <<lineVars, code, post, serving, told, events, disturbed>>

\* The user chooses, or leaves the choice, which rejects; the events wait.  An
\* answer to a question that is no longer asked changes nothing.
Responds ==
  /\ viewer = "selecting" /\ viewer' = "reading"
  /\ serving' = IF serving = "asking" THEN "running" ELSE serving
  /\ UNCHANGED <<lineVars, shown, errors, code, stream, post, told, events, disturbed>>

-----------------------------------------------------------------------------
(* The server, as far as this command sees it. *)

\* Events reach whoever is subscribed; what is told of the session after the
\* prompt was accepted is this command's to print.
Tell(es) ==
  /\ stream' = IF viewer \in {"reading", "selecting"} THEN stream \o es ELSE stream
  /\ told' = IF post = "accepted" THEN told \o SelectSeq(es, LAMBDA e : e.own) ELSE told

\* A prompt of a session that does not exist, or that cannot be stored, starts
\* no loop; a file that cannot be read is told and prompted nevertheless.
Refuses ==
  /\ post = "sent" /\ post' = "refused"
  /\ UNCHANGED <<lineVars, viewVars, stream, serving, told, events, disturbed>>
Accepts ==
  /\ post = "sent" /\ target.session # "absent" /\ post' = "accepted"
  /\ serving' = IF serving \in AtWork THEN serving ELSE "running"
  /\ UNCHANGED <<lineVars, viewVars, stream, told, events, disturbed>>

Makes == events < MaxEvents /\ events' = events + 1
Answers ==
  /\ serving = "running" /\ Makes
  /\ \E e \in {Event(t, TRUE) : t \in {"text", "tool", "error"}} \cup {Event(t, FALSE) : t \in {"text", "idle"}} :
       Tell(<<e>>)
  /\ UNCHANGED <<lineVars, viewVars, post, serving, disturbed>>

\* A tool of the session, or of a subtask's session, asks for permission.
Asks ==
  /\ serving = "running" /\ Makes
  /\ \E own \in BOOLEAN :
       Tell(<<Event("ask", own)>>) /\ serving' = IF own THEN "asking" ELSE "child asks"
  /\ UNCHANGED <<lineVars, viewVars, post, disturbed>>

\* The loop ends; before the session is idle outputs of old tools may have been
\* cleared, and their parts told again.
Idles ==
  /\ serving = "running"
  /\ \E es \in {<<Event("idle", TRUE)>>, <<Event("tool", TRUE), Event("idle", TRUE)>>} : Tell(es)
  /\ serving' = "idle"
  /\ post' = IF post = "accepted" THEN "returned" ELSE post
  /\ UNCHANGED <<lineVars, viewVars, events, disturbed>>

\* Another client answers a question, or aborts the session: it is idle at
\* once, and its loop tells the error and returns.
OtherResponds ==
  /\ serving \in {"asking", "child asks"} /\ serving' = "running"
  /\ UNCHANGED <<lineVars, viewVars, stream, post, told, events, disturbed>>
OtherAborts ==
  /\ serving \in AtWork /\ ~disturbed /\ disturbed' = TRUE
  /\ Tell(<<Event("idle", TRUE), Event("error", TRUE)>>) /\ serving' = "idle"
  /\ post' = IF post = "accepted" THEN "returned" ELSE post
  /\ UNCHANGED <<lineVars, viewVars, events>>

CommandStep == Reads \/ FindsCommand \/ ChoosesSession \/ Shares \/ Subscribes \/ Prompts \/ Exits
ViewerStep == Views \/ Responds
RunNext ==
  \/ CommandStep \/ ViewerStep
  \/ Refuses \/ Accepts \/ Answers \/ Asks \/ Idles \/ OtherResponds \/ OtherAborts

-----------------------------------------------------------------------------
Of(type, s) == SelectSeq(s, LAMBDA t : t = type)
ToldTypes == [k \in DOMAIN told |-> told[k].type]

\* What is printed is what was answered: an accepted prompt that nobody else
\* interfered with ends with every text and tool of its session's loop on the
\* terminal, in order, none of its subtasks', and fails exactly when the loop
\* told an error.
PrintsTheAnswer ==
  phase = "exited" /\ post = "returned" /\ ~disturbed =>
    /\ shown = SelectSeq(ToldTypes, LAMBDA t : t \in {"text", "tool"})
    /\ code = IF Of("error", ToldTypes) = <<>> THEN 0 ELSE 1

\* And a prompt that is accepted by a session nobody else runs ends, were it
\* aborted then, unless a subtask asks for a permission, which this command
\* passes over.
AcceptedEnds == post = "accepted" /\ ~disturbed ~> phase = "exited" \/ serving = "child asks"
CommandTellsTheTruth == []PrintsTheAnswer /\ AcceptedEnds
=============================================================================
