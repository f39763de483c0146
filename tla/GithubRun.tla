------------------------------ MODULE GithubRun ------------------------------
(* One run of the agent in a GitHub workflow (cli/cmd/github.ts): what set   *)
(* it off, the branch it works on, what the model leaves in the work tree,   *)
(* and what of it reaches the repository, in order, with an error at any     *)
(* call of git, of GitHub or of the model.  Texts and prompts are left out.  *)
(* The model works in its first turn alone: the turns that ask it for a      *)
(* summary change no file, and it stays on its branch.                       *)
EXTENDS Integers, Sequences

CONSTANT MaxCommits  \* bound: the commits that the model makes itself

VARIABLES
  trigger,    \* the event; a pull request from a fork; the actor may write;
              \* reactions are listed under the agent's own name
  place,      \* the next call
  tree,       \* commits on the branch, files not committed, as last looked at
  hub,        \* commits pushed, pull request, comments, reaction
  ending      \* how the process ended

githubVars == <<trigger, place, tree, hub, ending>>

UserEvents == {"issue_comment", "pull_comment", "review_comment", "issues", "pull_request"}
RepoEvents == {"schedule", "workflow_dispatch"}
PullEvents == {"pull_comment", "review_comment", "pull_request"}
IsUser == trigger.event \in UserEvents
OnPull == trigger.event \in PullEvents

GithubInit ==
  /\ trigger \in [event : UserEvents \cup RepoEvents, fork : BOOLEAN, mayWrite : BOOLEAN, ownName : BOOLEAN]
  /\ place = "token"
  /\ tree = [commits |-> 0, edited |-> FALSE, dirty |-> FALSE, uncommitted |-> FALSE]
  /\ hub = [pushed |-> 0, pull |-> FALSE, comments |-> <<>>, reaction |-> FALSE]
  /\ ending = "none"

\* The call at one place returns, and the next one is made.
Goes(from, to) == place = from /\ place' = to /\ UNCHANGED <<trigger, ending>>
Nothing == UNCHANGED <<tree, hub>>

\* What is thrown is caught at the end, and told where the run came from.
Caught(from) == Goes(from, "catch")

\* Without a token there is no client, and the handler throws as well.
Token == Goes("token", "prompt") /\ Nothing
NoToken ==
  /\ place = "token"
  /\ ending' = IF IsUser THEN "crashed" ELSE "failed"
  /\ place' = "exit"
  /\ UNCHANGED <<trigger, tree, hub>>

\* The prompt of the workflow or of the comment, which must mention the
\* agent; images that cannot be loaded are left as they are.
GetUserPrompt == (Goes("prompt", "git") \/ Caught("prompt")) /\ Nothing
ConfigureGit == (Goes("git", IF IsUser THEN "permission" ELSE "repo") \/ Caught("git")) /\ Nothing

MayWrite(may) == may
AssertPermissions ==
  /\ (MayWrite(trigger.mayWrite) /\ Goes("permission", "reaction")) \/ Caught("permission")
  /\ Nothing

AddReaction ==
  \/ Goes("reaction", "repo") /\ hub' = [hub EXCEPT !.reaction = TRUE] /\ UNCHANGED tree
  \/ Caught("reaction") /\ Nothing
FetchRepo ==
  (Goes("repo", IF OnPull THEN "fetch pull" ELSE "new branch") \/ Caught("repo")) /\ Nothing

CheckoutNewBranch ==
  (Goes("new branch", IF IsUser THEN "fetch issue" ELSE "chat") \/ Caught("new branch")) /\ Nothing
FetchIssue == (Goes("fetch issue", "chat") \/ Caught("fetch issue")) /\ Nothing
FetchPR ==
  (Goes("fetch pull", IF trigger.fork THEN "fork branch" ELSE "local branch") \/ Caught("fetch pull"))
  /\ Nothing
CheckoutLocalBranch == (Goes("local branch", "chat") \/ Caught("local branch")) /\ Nothing
CheckoutForkBranch == (Goes("fork branch", "chat") \/ Caught("fork branch")) /\ Nothing

\* The model edits files and commits some of them; its turn may fail after
\* that, and so may the turn that asks for a summary when it said nothing.
Chat ==
  \E n \in 0..MaxCommits, edited \in BOOLEAN :
    /\ Goes("chat", "look") \/ Caught("chat")
    /\ tree' = [tree EXCEPT !.commits = n, !.edited = edited]
    /\ UNCHANGED hub

\* Mutant: commits that the model made itself are not looked for.
EditsAlone(t) == t.edited

ChangedFrom(t) == t.edited \/ t.commits # 0
BranchIsDirty ==
  \/ /\ Goes("look", IF ChangedFrom(tree) THEN "summarize" ELSE IF IsUser THEN "comment" ELSE "exit 0")
     /\ tree' = [tree EXCEPT !.dirty = ChangedFrom(tree), !.uncommitted = tree.edited] /\ UNCHANGED hub
  \/ Caught("look") /\ Nothing

\* A summary that fails is made of the title of the issue or pull request,
\* which throws where there is none.
HasTitle == trigger.event \in {"issue_comment"} \cup PullEvents
Summarize == (Goes("summarize", "commit") \/ (~HasTitle /\ Caught("summarize"))) /\ Nothing

Commit ==
  \/ /\ Goes("commit", "push")
     /\ tree' = IF tree.uncommitted THEN [tree EXCEPT !.commits = @ + 1, !.edited = FALSE] ELSE tree
     /\ UNCHANGED hub
  \/ tree.uncommitted /\ Caught("commit") /\ Nothing

Pushes(next) ==
  \/ Goes("push", next) /\ hub' = [hub EXCEPT !.pushed = tree.commits] /\ UNCHANGED tree
  \/ Caught("push") /\ Nothing
PushToNewBranch == ~OnPull /\ Pushes("pull")
PushToLocalBranch == OnPull /\ ~trigger.fork /\ Pushes("comment")
PushToForkBranch == OnPull /\ trigger.fork /\ Pushes("comment")

CreatePR ==
  \/ /\ Goes("pull", IF IsUser THEN "comment" ELSE "exit 0")
     /\ hub' = [hub EXCEPT !.pull = TRUE] /\ UNCHANGED tree
  \/ Caught("pull") /\ Nothing

CreateComment ==
  \/ /\ Goes("comment", "unreact")
     /\ hub' = [hub EXCEPT !.comments = Append(@, IF hub.pull THEN "created" ELSE "answer")]
     /\ UNCHANGED tree
  \/ Caught("comment") /\ Nothing

\* Reactions under another name than the agent's are not found.
Unreacted(h) == IF trigger.ownName THEN [h EXCEPT !.reaction = FALSE] ELSE h
RemoveReaction ==
  \/ Goes("unreact", "exit 0") /\ hub' = Unreacted(hub) /\ UNCHANGED tree
  \/ Caught("unreact") /\ Nothing

ExitProcess ==
  /\ place = "exit 0" /\ ending = "none"
  /\ ending' = "passed"
  /\ UNCHANGED <<trigger, place, tree, hub>>

\* The error is told in a comment and the reaction removed, when there is
\* somebody to tell; each of the two may fail, which ends the process.
Ends(how) == place' = "exit" /\ ending' = how /\ UNCHANGED <<trigger, tree>>
Handled ==
  /\ place = "catch"
  /\ LET told == [hub EXCEPT !.comments = Append(@, "error")] IN
     \/ ~IsUser /\ Ends("failed") /\ UNCHANGED hub
     \/ IsUser /\ Ends("failed") /\ hub' = Unreacted(told)
     \/ IsUser /\ Ends("crashed") /\ hub' \in {hub, told}

GithubNext ==
  \/ Token \/ NoToken \/ GetUserPrompt \/ ConfigureGit \/ AssertPermissions \/ AddReaction \/ FetchRepo
  \/ CheckoutNewBranch \/ FetchIssue \/ FetchPR \/ CheckoutLocalBranch \/ CheckoutForkBranch
  \/ Chat \/ BranchIsDirty \/ Summarize \/ Commit \/ PushToNewBranch \/ PushToLocalBranch
  \/ PushToForkBranch \/ CreatePR \/ CreateComment \/ RemoveReaction \/ ExitProcess \/ Handled

-----------------------------------------------------------------------------
LastComment == IF hub.comments = <<>> THEN "none" ELSE hub.comments[Len(hub.comments)]

\* A run that passes has lost nothing of what the model did: all of it is
\* pushed, in a pull request if the branch is new, the answer is the last
\* comment, and the agent's reaction is gone.  Whoever set it off, nothing is
\* pushed for a user who may not write.  A run that fails and could say so
\* said so last, and no comment ever tells of work that is not pushed.
RunsTellTheTruth ==
  /\ ending = "passed" =>
       /\ hub.pushed = tree.commits /\ ~tree.edited
       /\ tree.commits > 0 /\ ~OnPull => hub.pull
       /\ IsUser => LastComment \in {"answer", "created"} /\ (trigger.ownName => ~hub.reaction)
  /\ hub.pushed > 0 /\ IsUser => trigger.mayWrite
  /\ ending = "failed" /\ IsUser => LastComment = "error" /\ (trigger.ownName => ~hub.reaction)
  /\ LastComment \in {"answer", "created"} => hub.pushed = tree.commits /\ ~tree.edited
=============================================================================
