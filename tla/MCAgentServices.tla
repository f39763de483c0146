--------------------------- MODULE MCAgentServices ---------------------------
(* The parts of the agent's process that work with programs and services     *)
(* outside of it.  They share no variable, so each is explored by itself: a  *)
(* behaviour is one of the part that focus names, and the others stay as     *)
(* they began.                                                               *)
EXTENDS TLC, LspClients, Share, AcpAgent, McpClients, Conversation, ResponsesStream,
        ShellCommands, Providers, ModelRequests, Patches, TextEdits, GithubRun

VARIABLE focus

toolVars == <<shellVars, patchVars, textVars>>
modelVars == <<convVars, streamVars, providerVars, requestVars>>
servicesVars ==
  <<focus, lspVars, shareVars, acpVars, mcpVars, githubVars, toolVars, modelVars>>

\* Responses of one item of each kind and of some pairs.
MCOutputs ==
  {<<k>> : k \in Kinds}
    \cup {<<"message", "function_call">>, <<"reasoning", "message">>}

\* Two providers of the catalogue, one with two models, and what a user may
\* configure: an address, hidden models, a model made from another, a provider
\* of his own, and which providers are allowed.
None0 == [x \in {} |-> "none"]
ModelOf(api, npm, headers, alpha) == [api |-> api, npm |-> npm, headers |-> headers, alpha |-> alpha]
MCCatalogue ==
  ("acme" :> [vars |-> {"K"}, url |-> "u1",
              models |-> ("a1" :> ModelOf("a1", "x", None0, FALSE)) @@ ("a2" :> ModelOf("a2", "x", "beta" :> "1", FALSE))])
  @@ ("other" :> [vars |-> {"L", "N"}, url |-> "u2",
                  models |-> ("b1" :> ModelOf("b1", "y", None0, TRUE)) @@ ("b2" :> ModelOf("b2", "y", None0, FALSE))])
Every == {"acme", "other", "mine", "a1", "a2", "a3", "b1", "b2", "c1"}
Given(options, black, only, models) == [options |-> options, black |-> black, only |-> only, models |-> models]
Setting(disabled, enabled, experimental, given) ==
  [disabled |-> disabled, enabled |-> enabled, experimental |-> experimental, given |-> given]
MCSettings ==
  {Setting({}, Every, FALSE, None0), Setting({"acme"}, {"other"}, TRUE, None0),
   Setting({}, Every, FALSE,
           "acme" :> Given("baseURL" :> "u3", {"a1"}, Every, "a3" :> [from |-> "a1", headers |-> "beta" :> "2"])),
   Setting({"other"}, {"acme", "mine"}, FALSE,
           ("mine" :> Given(None0, {}, Every, "c1" :> [from |-> "itself", headers |-> None0]))
             @@ ("acme" :> Given(None0, {}, {"a2"}, None0)))}
MCLoaders ==
  ("other" :> [autoload |-> TRUE, options |-> "region" :> "r", getModel |-> TRUE])
    @@ ("acme" :> [autoload |-> FALSE, options |-> "beta" :> "0", getModel |-> FALSE])

\* Answers with every kind of part, in one step and in two, and a model of
\* every family.
Tool(status, id, attached) == [type |-> "tool", status |-> status, id |-> id, attached |-> attached]
Simple(type) == <<[type |-> type]>>
Step == Simple("step-start")
MCQuestions == {<<"text">>, <<"image", "pdf", "plain">>}
MCAnswers ==
  {<<>>, Step, Step \o Simple("reasoning"),
   Step \o Simple("reasoning") \o <<Tool("completed", "i1", TRUE)>> \o Step \o Simple("text"),
   Step \o <<Tool("completed", "i1", FALSE), Tool("error", "i2", FALSE)>>,
   Step \o Simple("reasoning") \o <<Tool("running", "i1", FALSE)>>,
   Step \o <<Tool("completed", "i2", TRUE)>> \o Step \o <<Tool("completed", "i1", FALSE), Tool("pending", "i2", FALSE)>>}
ModelLike(family, npm, id, anthropic, input, cap) ==
  [family |-> family, npm |-> npm, id |-> id, anthropic |-> anthropic, input |-> input, output |-> cap, reasoning |-> TRUE]
MCModels ==
  {ModelLike("claude", "anthropic", "sonnet", TRUE, {"image"}, 64000),
   ModelLike("claude", "openrouter", "claude", FALSE, {"image", "pdf"}, 32000),
   ModelLike("mistral", "mistral", "mistral", FALSE, {}, 0),
   ModelLike("interleaved", "openai-compatible", "kimi", FALSE, {"pdf"}, 8000)}
Param(variant, small, effort, plugin, same) ==
  [variant |-> variant, small |-> small, agentEffort |-> effort, plugin |-> plugin, sameHeader |-> same]
MCParams ==
  {Param("none", FALSE, "none", 0, TRUE), Param("max", TRUE, "high", 3, TRUE)}
MCNormalId == [f \in {"claude", "mistral"} |-> [i \in {"i1", "i2"} |-> IF i = "i1" THEN "n1" ELSE "n2"]]

\* Patches of one and two hunks over two files, with chunks that replace, add
\* at the end, are anchored, or drop a blank line.
U(p) == <<"update", p>>
MCContents == {<<"a", "b", "a", "b">>, <<"a", "b", "a", "c", "">>, <<"b", "", "">>, <<"", "b", "">>}
MCChunks ==
  {<<<<"chunk", "">>, <<"keep", "a">>, <<"drop", "b">>, <<"plus", "x">>, <<"plus", "y">>>>,
   <<<<"chunk", "a">>, <<"drop", "b">>, <<"eof", "">>>>,
   <<<<"chunk", "">>, <<"plus", "z">>>>,
   <<<<"chunk", "">>, <<"drop", "a">>, <<"drop", "">>>>}
Updates(p) == {<<U(p)>> \o c : c \in MCChunks} \cup {<<U(p)>> \o c \o d : c, d \in MCChunks}
DropB(p) == <<U(p), <<"chunk", "">>, <<"drop", "b">>>>
Hunks(p, q) ==
  Updates(p) \cup {<<U(p), <<"move", q>>>> \o c : c \in MCChunks}
    \cup {<<<<"delete", p>>>>, <<<<"add", p>>, <<"plus", "n">>, <<"keep", "q">>>>}
MCPatchTexts ==
  {<<>>, <<<<"keep", "a">>>>, <<U("f"), <<"keep", "a">>, <<"move", "g">>, <<"chunk", "">>, <<"drop", "a">>>>}
    \cup Hunks("f", "g")
    \cup {h \o k : h \in Hunks("f", "f"), k \in {<<<<"delete", "g">>>>, DropB("g"), DropB("f")}}

\* Texts of two to four lines, and oldStrings that occur in them never, once
\* and more than once, as they are or nearly.
MCLines == {<<"a">>, <<SP, "a">>, <<"b">>, <<"a", SP, "b">>}
Two == {x \o <<NL>> \o y : x, y \in MCLines}
Three == {x \o <<NL>> \o y : x \in {t \in Two : Len(t) < 5}, y \in {<<"a">>, <<"b">>, <<>>}}
MCSourceTexts == Two \cup Three \cup {x \o <<NL, "b">> : x \in {t \in Three : t[1] = "a" /\ Len(t) = 5}}
MCFinds ==
  {<<>>, <<"a">>, <<"b", SP>>, <<"a", SP, SP, "b">>, <<"a", NL, "b", NL>>, <<"a", ESC, "b">>,
   <<"a", NL, "c", NL, "b">>, <<"a", NL, "c", NL, "b", NL, "b">>, <<"c">>}
MCReplacements == {<<"n">>}

Parked(name, state0) == focus = name \/ state0
Init ==
  /\ focus \in {"lsp", "share", "acp", "mcp", "conversation", "stream",
                "shell", "providers", "requests", "patches", "texts", "github"}
  /\ LspInit /\ ShareInit /\ AcpInit /\ McpInit /\ ConversationInit /\ StreamInit
  /\ has \in {{}, Runtimes}
  /\ install = [s \in Asked |-> "absent"]
  /\ Parked("lsp", onPath = {} /\ has = {} /\ noDownload)
  /\ Parked("stream", output = <<"message">>)
  /\ ShellInit /\ Parked("shell", bash.outside /\ bash.asks /\ command.traps)
  /\ ProvidersInit /\ Parked("providers", settings = Setting({}, Every, FALSE, None0) /\ registry = state(settings, {}))
  /\ RequestsInit /\ Parked("requests", model.family = "mistral" /\ ~params.small /\ params.plugin = 0)
  /\ PatchInit /\ Parked("patches", patch = <<>> /\ \A p \in Paths : disk[p] = Gone)
  /\ TextInit /\ Parked("texts", source = <<"a", NL, "a">>)
  /\ GithubInit
  /\ Parked("github", trigger = [event |-> "schedule", fork |-> FALSE, mayWrite |-> FALSE, ownName |-> FALSE])

Lsp(act) == focus = "lsp" /\ act /\ UNCHANGED <<focus, shareVars, acpVars, mcpVars, githubVars, toolVars, modelVars>>
Sharing(act) == focus = "share" /\ act /\ UNCHANGED <<focus, lspVars, acpVars, mcpVars, githubVars, toolVars, modelVars>>
Editor(act) == focus = "acp" /\ act /\ UNCHANGED <<focus, lspVars, shareVars, mcpVars, githubVars, toolVars, modelVars>>
Others == UNCHANGED <<focus, lspVars, shareVars, acpVars>>
Mcp == focus = "mcp" /\ McpNext /\ Others /\ UNCHANGED <<githubVars, toolVars, modelVars>>
Workflow == focus = "github" /\ GithubNext /\ Others /\ UNCHANGED <<mcpVars, toolVars, modelVars>>
Outer == Others /\ UNCHANGED <<mcpVars, githubVars>>
Conversing ==
  focus = "conversation" /\ ConversationNext /\ Outer /\ UNCHANGED <<toolVars, streamVars, providerVars, requestVars>>
Streaming ==
  focus = "stream" /\ StreamNext /\ Outer /\ UNCHANGED <<toolVars, convVars, providerVars, requestVars>>
Providing ==
  focus = "providers" /\ ProvidersNext /\ Outer /\ UNCHANGED <<toolVars, convVars, streamVars, requestVars>>
Requesting ==
  focus = "requests" /\ RequestsNext /\ Outer /\ UNCHANGED <<toolVars, convVars, streamVars, providerVars>>
Shell(act) == focus = "shell" /\ act /\ Outer /\ UNCHANGED <<patchVars, textVars, modelVars>>
Patching == focus = "patches" /\ PatchNext /\ Outer /\ UNCHANGED <<shellVars, textVars, modelVars>>
Editing == focus = "texts" /\ TextNext /\ Outer /\ UNCHANGED <<shellVars, patchVars, modelVars>>

Next ==
  \/ Lsp(LspNext) \/ Sharing(ShareNext) \/ Editor(AcpNext) \/ Shell(ShellNext)
  \/ Mcp \/ Workflow \/ Conversing \/ Streaming \/ Providing \/ Requesting \/ Patching \/ Editing

\* Timers fire, servers answer or time out, and handlers that began go on.
Fairness ==
  /\ \A c \in Touchers : WF_servicesVars(Lsp(TouchStep(c)))
  /\ \A k \in Keys : WF_servicesVars(Lsp(PoolStep(k))) /\ WF_servicesVars(Lsp(SpawnStep(k) /\ UNCHANGED poolVars))
  /\ WF_servicesVars(Sharing(TimerFires)) /\ WF_servicesVars(Sharing(Stored))
  /\ WF_servicesVars(Sharing(FullSyncReads)) /\ WF_servicesVars(Sharing(FullSyncQueues))
  /\ WF_servicesVars(Sharing(Deleted))
  /\ \A b \in SUBSET (0..MaxChanges) : WF_servicesVars(Sharing(b \in batches /\ Sync(b)))
  /\ \A i \in 1..MaxStreams : WF_servicesVars(Editor(StreamStep(i)))
  /\ WF_servicesVars(Shell(TimeoutFires)) /\ WF_servicesVars(Shell(Signalled)) /\ WF_servicesVars(Shell(ExitEvent))
  /\ \A r \in Reasons : WF_servicesVars(Shell(Force(r)))

Spec == Init /\ [][Next]_servicesVars /\ Fairness

\* Nothing waits for ever on a program outside of the process: a tool call
\* that touches a file is let go by its language servers, whatever a server
\* does not answer, and a command the bash tool started ends after its
\* time-out or its abort, whatever signal it traps.
ProgramsLetGo == TouchesEnd /\ CommandsEnd
=============================================================================
