---------------------------- MODULE ModelRequests ----------------------------
(* What of a conversation is sent to a model (session/llm.ts): the messages  *)
(* it is turned into (toModelMessage of session/message-v2.ts), what is      *)
(* changed for one provider or another (provider/transform.ts), the system   *)
(* prompt, the effort and the limit of the answer.  A part is its type, and  *)
(* for a tool its status, call id and whether it returned an attachment;     *)
(* texts are left out.                                                       *)
EXTENDS Integers, SequencesExt, FiniteSetsExt

CONSTANTS
  Questions,   \* sequences of types of user parts
  Answers,     \* sequences of assistant parts
  Models,      \* [family, npm, id, anthropic, input: set of modalities, output: cap, reasoning]
  Params,      \* [variant, small, agentEffort, plugin: system messages a plugin leaves,
               \*   sameHeader: the first one is as it was]
  NormalId,    \* family -> call id -> the id that is sent
  MaxSaid      \* bound

\* Parts of questions are types alone, those of answers of four types.
AnswerPart ==
  [type : {"step-start", "reasoning", "text"}]
    \cup [type : {"tool"}, status : {"pending", "running", "completed", "error"}, id : STRING, attached : BOOLEAN]
ASSUME RequestsAssumption ==
  /\ \A q \in Questions : q \in Seq(STRING)
  /\ \A a \in Answers : a \in Seq(AnswerPart)
  /\ \A m \in Models : m.output \in Nat
  /\ \A p \in Params : p.plugin \in Nat
  /\ DOMAIN NormalId \subseteq {"claude", "mistral"}

VARIABLES
  said,        \* the messages of the session
  model,
  params,
  request      \* the last request

requestVars == <<said, model, params, request>>

-----------------------------------------------------------------------------
(* Errors of a request *)

\* What an error of the stream is stored as.
fromError(e) ==
  CASE e = "AbortError" -> "MessageAbortedError"
    [] e = "OutputLength" -> "MessageOutputLengthError"
    [] e = "LoadAPIKey" -> "ProviderAuthError"
    [] e \in {"ECONNRESET", "APICall"} -> "APIError"
    [] OTHER -> "UnknownError"
Errors == {"AbortError", "APICall"}

-----------------------------------------------------------------------------
(* toModelMessage *)

When(condition, x) == IF condition THEN <<x>> ELSE <<>>
HasResult(part) == part.type = "tool" /\ part.status \in {"completed", "error"}
UserPart(type) == When(type \notin {"ignored", "plain"},
                       [type |-> IF type \in {"image", "pdf"} THEN "file" ELSE "text", of |-> type])
AssistantPart(part) == When(part.type = "tool" => HasResult(part), part)

\* An answer that failed is left out, but one that was aborted counts once it
\* has more than reasoning.
LeftOut(m) ==
  m.error # "none" /\ ~(m.error = "MessageAbortedError" /\ \E i \in DOMAIN m.parts : m.parts[i].type \notin {"step-start", "reasoning"})

Attached == [role |-> "user", parts |-> <<[type |-> "text", of |-> "attachment"], [type |-> "file", of |-> "image"]>>]

\* What a tool attached is a user message of its own, behind the answer.
UIMessages(m) ==
  IF m.parts = <<>> THEN <<>>
  ELSE IF m.role = "user" THEN <<[role |-> "user", parts |-> FlattenSeq([i \in DOMAIN m.parts |-> UserPart(m.parts[i])])]>>
  ELSE IF LeftOut(m) THEN <<>>
  ELSE <<[role |-> "assistant", parts |-> FlattenSeq([i \in DOMAIN m.parts |-> AssistantPart(m.parts[i])])]>>
         \o FlattenSeq([i \in DOMAIN m.parts |->
              When(m.parts[i].type = "tool" /\ m.parts[i].status = "completed" /\ m.parts[i].attached, Attached)])

\* Of the AI SDK: an answer is cut where a step starts; the results of the
\* calls of a step follow it in a message of their own.
Steps(parts) ==
  LET cut[k \in 0..Len(parts)] ==
        IF k = 0 THEN <<<<>>>>
        ELSE IF parts[k].type = "step-start" THEN Append(cut[k - 1], <<>>)
        ELSE ReplaceAt(cut[k - 1], Len(cut[k - 1]), Append(Last(cut[k - 1]), parts[k]))
  IN cut[Len(parts)]
ToolsOf(parts) == FlattenSeq([i \in DOMAIN parts |-> When(parts[i].type = "tool", parts[i])])
Call(p) == IF p.type = "tool" THEN [id |-> p.id, type |-> "tool-call"] ELSE [type |-> p.type]
StepMessages(step) ==
  LET calls == ToolsOf(step)
      content == [i \in DOMAIN step |-> Call(step[i])]
      results == [i \in DOMAIN calls |-> [id |-> calls[i].id, type |-> "tool-result"]]
  IN When(step # <<>>, [role |-> "assistant", content |-> content])
       \o When(calls # <<>>, [role |-> "tool", content |-> results])
convertToModelMessages(m) ==
  IF m.role = "user" THEN <<[role |-> "user", content |-> m.parts]>>
  ELSE FlattenSeq([i \in DOMAIN Steps(m.parts) |-> StepMessages(Steps(m.parts)[i])])
Converted(m) ==
  IF \E i \in DOMAIN m.parts : m.parts[i].type # "step-start" THEN convertToModelMessages(m) ELSE <<>>

toModelMessage(list) ==
  LET result == FlattenSeq([i \in DOMAIN list |-> UIMessages(list[i])])
  IN FlattenSeq([i \in DOMAIN result |-> Converted(result[i])])

-----------------------------------------------------------------------------
(* ProviderTransform *)

EachPart(msgs, Change(_)) ==
  [i \in DOMAIN msgs |-> [msgs[i] EXCEPT !.content = [j \in DOMAIN @ |-> Change(@[j])]]]

unsupportedParts(msgs) ==
  EachPart(msgs, LAMBDA p : IF p.type = "file" /\ p.of \notin model.input
                            THEN [type |-> "text", of |-> "error"] ELSE p)

SentId(id) == IF model.family \in DOMAIN NormalId THEN NormalId[model.family][id] ELSE id
Renamed(msgs) ==
  EachPart(msgs, LAMBDA p : IF p.type \in {"tool-call", "tool-result"} THEN [p EXCEPT !.id = SentId(@)] ELSE p)
Done == [role |-> "assistant", content |-> <<[type |-> "text"]>>]

\* Mutant: the answer is looked for behind the last message only.
SeparatedAtEnd(msgs) ==
  IF msgs # <<>> /\ Last(msgs).role = "tool" THEN Append(msgs, Done) ELSE msgs

\* Between results and a question an answer is put.
Separated(msgs) ==
  FlattenSeq([i \in DOMAIN msgs |->
    <<msgs[i]>> \o When(msgs[i].role = "tool" /\ i < Len(msgs) /\ msgs[i + 1].role = "user", Done)])
WithoutReasoning(msgs) ==
  [i \in DOMAIN msgs |->
    IF msgs[i].role # "assistant" THEN msgs[i]
    ELSE LET content == msgs[i].content IN
         [msgs[i] EXCEPT !.content = FlattenSeq([j \in DOMAIN content |-> When(content[j].type # "reasoning", content[j])])]]

normalizeMessages(msgs) ==
  CASE model.family = "claude" -> Renamed(msgs)
    [] model.family = "mistral" -> Separated(Renamed(msgs))
    [] model.family = "interleaved" -> WithoutReasoning(msgs)
    [] OTHER -> msgs

\* The first two system messages and the last two others.
applyCaching(msgs) ==
  LET system == {i \in DOMAIN msgs : msgs[i].role = "system"}
      others == DOMAIN msgs \ system
  IN {i \in system : Cardinality({j \in system : j < i}) < 2}
       \cup {i \in others : Cardinality({j \in others : j > i}) < 2}

message(msgs) ==
  LET sent == normalizeMessages(unsupportedParts(msgs)) IN
  [messages |-> sent,
   marked |-> IF model.anthropic \/ model.family = "claude" THEN applyCaching(sent) ELSE {}]

Widely == {"low", "medium", "high"}
OpenAI == {"none", "minimal", "xhigh"} \cup Widely
variants ==
  CASE ~model.reasoning \/ model.id \in {"deepseek", "minimax", "glm", "mistral"} -> {}
    [] model.npm = "openrouter" -> IF model.id \in {"gpt", "gpt-5", "gemini-3", "grok-4"} THEN OpenAI ELSE {}
    [] model.npm = "gateway" -> OpenAI
    [] model.npm \in {"cerebras", "togetherai", "xai", "deepinfra", "openai-compatible", "bedrock"} -> Widely
    [] model.npm = "azure" -> IF model.id = "o1-mini" THEN {} ELSE IF model.id = "gpt-5" THEN Widely \cup {"minimal"} ELSE Widely
    [] model.npm = "openai" -> IF model.id = "gpt-5-pro" THEN {} ELSE IF model.id = "codex" THEN Widely ELSE OpenAI
    [] model.npm = "anthropic" -> {"high", "max"}
    [] model.npm = "google" -> IF model.id = "2.5" THEN {"high", "max"} ELSE {"low", "high"}
    [] model.npm = "groq" -> {"none"} \cup Widely
    [] OTHER -> {}

\* Options are merged: those of the package, of a small call, of the agent,
\* of the variant of the question, the later ones over the others.
Effort ==
  IF params.variant \in variants THEN params.variant
  ELSE IF params.agentEffort # "none" THEN params.agentEffort
  ELSE IF params.small THEN "small" ELSE "default"
budgetTokens == CASE model.npm # "anthropic" -> 0 [] Effort = "high" -> 16000 [] Effort = "max" -> 31999 [] OTHER -> 0

OUTPUT_TOKEN_MAX == 32000
maxOutputTokens ==
  LET modelCap == IF model.output = 0 THEN OUTPUT_TOKEN_MAX ELSE model.output
      standardLimit == Min({modelCap, OUTPUT_TOKEN_MAX})
  IN IF budgetTokens > 0 /\ budgetTokens + standardLimit > modelCap THEN modelCap - budgetTokens ELSE standardLimit

-----------------------------------------------------------------------------
(* Requests *)

\* A header for anthropic, and the rest in one; a plugin may change the list,
\* which is put together again while the header is the same.
system ==
  LET original == IF model.anthropic THEN 2 ELSE 1
      left == IF params.plugin = 0 THEN original ELSE params.plugin
  IN [i \in 1..(IF left > 2 /\ params.sameHeader THEN 2 ELSE left) |-> [role |-> "system", content |-> <<>>]]

stream ==
  LET sent == message(system \o toModelMessage(said)) IN
  [messages |-> sent.messages, marked |-> sent.marked, limit |-> maxOutputTokens, effort |-> Effort]

NoRequest == [messages |-> <<>>, marked |-> {}, limit |-> 1, effort |-> "default"]
RequestsInit ==
  /\ said = <<>> /\ model \in Models /\ params \in Params /\ request = NoRequest

Say(m) ==
  /\ Len(said) < MaxSaid
  /\ said' = Append(said, m) /\ request' = NoRequest
  /\ UNCHANGED <<model, params>>
UserSays == \E q \in Questions : Say([role |-> "user", parts |-> q, error |-> "none"])
AssistantSays ==
  /\ said # <<>>
  /\ \E a \in Answers, e \in {"none"} \cup {fromError(x) : x \in Errors} :
       Say([role |-> "assistant", parts |-> a, error |-> e])
Send ==
  /\ said # <<>> /\ (Last(said).role = "user" \/ Len(said) = MaxSaid)
  /\ request' = stream
  /\ UNCHANGED <<said, model, params>>

RequestsNext == UserSays \/ AssistantSays \/ Send

-----------------------------------------------------------------------------
ResultIds(m) == [i \in DOMAIN m.content |-> m.content[i].id]
Calls(m) == FlattenSeq([i \in DOMAIN m.content |-> When(m.content[i].type = "tool-call", m.content[i])])
FinishedCalls(m) ==
  IF m.role = "user" \/ LeftOut(m) THEN <<>>
  ELSE FlattenSeq([i \in DOMAIN m.parts |-> When(HasResult(m.parts[i]), m.parts[i])])

\* A provider is sent what it takes: the calls of an answer, all of them that
\* finished and no other, are answered one by one in the message right behind
\* it; Mistral sees no question right behind results; no file is of a kind
\* the model cannot read.  At most four messages are marked for the cache,
\* the last one among them; thinking and answer together stay within what the
\* model can write.
RequestsAreSound ==
  request # NoRequest =>
    LET sent == request.messages
        cap == IF model.output = 0 THEN OUTPUT_TOKEN_MAX ELSE model.output
    IN /\ \A i \in DOMAIN sent :
            /\ sent[i].role = "assistant" /\ Calls(sent[i]) # <<>> =>
                 /\ i < Len(sent) /\ sent[i + 1].role = "tool"
                 /\ ResultIds(sent[i + 1]) = [j \in DOMAIN Calls(sent[i]) |-> Calls(sent[i])[j].id]
            /\ sent[i].role = "tool" => i > 1 /\ sent[i - 1].role = "assistant" /\ Len(Calls(sent[i - 1])) = Len(sent[i].content)
            /\ model.family = "mistral" /\ sent[i].role = "tool" /\ i < Len(sent) => sent[i + 1].role # "user"
            /\ \A j \in DOMAIN sent[i].content : sent[i].content[j].type = "file" => sent[i].content[j].of \in model.input
       /\ LET finished == FlattenSeq([i \in DOMAIN said |-> FinishedCalls(said[i])])
          IN FlattenSeq([i \in DOMAIN sent |-> IF sent[i].role = "tool" THEN ResultIds(sent[i]) ELSE <<>>])
               = [i \in DOMAIN finished |-> SentId(finished[i].id)]
       /\ Cardinality(request.marked) <= 4
       /\ model.anthropic /\ Last(sent).role # "system" => Len(sent) \in request.marked
       /\ request.limit <= cap /\ (budgetTokens > 0 => request.limit + budgetTokens <= cap)
=============================================================================
