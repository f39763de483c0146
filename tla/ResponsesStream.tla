--------------------------- MODULE ResponsesStream ---------------------------
(* A response of the Responses API turned into the parts of a language-model  *)
(* stream (provider/sdk/openai-compatible/src/responses/                      *)
(* openai-responses-language-model.ts doStream), beside what doGenerate makes *)
(* of the same response. A part is its type and the item it is about.         *)
EXTENDS Naturals, Sequences, SequencesExt

CONSTANTS Outputs,    \* responses: sequences of item kinds
          Incomplete, \* reasons a response may be incomplete for
          MaxDeltas   \* bound: deltas of an item

Kinds == {"function_call", "web_search_call", "computer_call", "file_search_call",
          "code_interpreter_call", "image_generation_call", "local_shell_call",
          "message", "reasoning"}

ASSUME StreamAssumption == Outputs \subseteq Seq(Kinds) /\ MaxDeltas \in Nat

VARIABLES output,   \* the response's items
          item,     \* how far each item has been streamed
          deltas,   \* deltas of each item so far
          parts,    \* parts enqueued
          ongoing,  \* ongoingToolCalls
          text,     \* currentTextId: an item, none
          active,   \* activeReasoning: the summary parts of an item
          finish    \* finishReason, and whether the stream was flushed

streamVars == <<output, item, deltas, parts, ongoing, text, active, finish>>

Items == DOMAIN output
PartTypes == {"text-start", "text-delta", "text-end", "reasoning-start", "reasoning-delta",
              "reasoning-end", "tool-input-start", "tool-input-delta", "tool-input-end",
              "tool-call", "tool-result", "error", "finish"}
FinishReasons == {"unknown", "stop", "tool-calls", "length", "content-filter", "error"}
P(type, i) == <<type, i>>

StreamTypeOK ==
    /\ output \in Outputs
    /\ item \in [Items -> {"new", "added", "coded", "done"}]
    /\ deltas \in [Items -> 0..MaxDeltas]
    /\ parts \in Seq(PartTypes \X (Items \cup {0}))
    /\ ongoing \subseteq Items /\ text \in Items \cup {0}
    /\ active \in [Items -> Seq({0, 1})]
    /\ finish \in [reason : FinishReasons, calls : BOOLEAN, said : BOOLEAN, flushed : BOOLEAN]

StreamInit ==
    /\ output \in Outputs
    /\ item = [i \in Items |-> "new"]
    /\ deltas = [i \in Items |-> 0]
    /\ parts = <<>> /\ ongoing = {} /\ text = 0
    /\ active = [i \in Items |-> <<>>]
    /\ finish = [reason |-> "unknown", calls |-> FALSE, said |-> FALSE, flushed |-> FALSE]

Enqueue(new) == parts' = parts \o new
Moves(i, at) == item' = [item EXCEPT ![i] = at]

(* response.output_item.added: one message at a time, in order.               *)
AddedParts(i) ==
    CASE output[i] \in {"function_call", "web_search_call", "computer_call"} ->
             <<P("tool-input-start", i)>>
      [] output[i] = "code_interpreter_call" ->
             <<P("tool-input-start", i), P("tool-input-delta", i)>>
      [] output[i] \in {"file_search_call", "image_generation_call"} -> <<P("tool-call", i)>>
      [] output[i] = "message"   -> <<P("text-start", i)>>
      [] output[i] = "reasoning" -> <<P("reasoning-start", i)>>
      [] OTHER -> <<>>

ItemAdded(i) ==
    /\ ~finish.said /\ item[i] = "new" /\ \A j \in 1..(i - 1) : item[j] # "new"
    /\ output[i] = "message" => \A j \in Items : output[j] = "message" => item[j] # "added"
    /\ Moves(i, "added")
    /\ Enqueue(AddedParts(i))
    /\ text' = IF output[i] = "message" THEN i ELSE text
    /\ active' = [active EXCEPT ![i] = IF output[i] = "reasoning" THEN <<0>> ELSE @]
    /\ ongoing' = IF output[i] \in {"function_call", "web_search_call", "computer_call",
                                    "code_interpreter_call"} THEN ongoing \cup {i} ELSE ongoing
    /\ UNCHANGED <<output, deltas, finish>>

(* A text delta without its item announced: a stable id is made from it.      *)
TextDelta(i) ==
    /\ ~finish.said /\ output[i] = "message" /\ item[i] \in {"new", "added"}
    /\ item[i] = "new" => text = 0 /\ \A j \in 1..(i - 1) : item[j] = "done"
    /\ deltas[i] < MaxDeltas
    /\ deltas' = [deltas EXCEPT ![i] = @ + 1]
    /\ Moves(i, "added")
    /\ text' = IF text = 0 THEN i ELSE text
    /\ Enqueue((IF text = 0 THEN <<P("text-start", i)>> ELSE <<>>) \o <<P("text-delta", text')>>)
    /\ UNCHANGED <<output, ongoing, active, finish>>

(* Arguments, code and summaries; a summary part after the first is announced.*)
InputDelta(i) ==
    /\ ~finish.said /\ item[i] = "added" /\ i \in ongoing /\ deltas[i] < MaxDeltas
    /\ output[i] \in {"function_call", "code_interpreter_call"}
    /\ deltas' = [deltas EXCEPT ![i] = @ + 1]
    /\ Enqueue(<<P("tool-input-delta", i)>>)
    /\ UNCHANGED <<output, item, ongoing, text, active, finish>>

CodeDone(i) ==
    /\ ~finish.said /\ item[i] = "added" /\ output[i] = "code_interpreter_call"
    /\ Moves(i, "coded")
    /\ Enqueue(<<P("tool-input-delta", i), P("tool-input-end", i), P("tool-call", i)>>)
    /\ UNCHANGED <<output, deltas, ongoing, text, active, finish>>

PartialImage(i) ==
    /\ ~finish.said /\ item[i] = "added" /\ output[i] = "image_generation_call"
    /\ deltas[i] < MaxDeltas
    /\ deltas' = [deltas EXCEPT ![i] = @ + 1]
    /\ Enqueue(<<P("tool-result", i)>>)
    /\ UNCHANGED <<output, item, ongoing, text, active, finish>>

SummaryPartAdded(i) ==
    /\ ~finish.said /\ item[i] = "added" /\ active[i] = <<0>>
    /\ active' = [active EXCEPT ![i] = <<0, 1>>]
    /\ Enqueue(<<P("reasoning-start", i)>>)
    /\ UNCHANGED <<output, item, deltas, ongoing, text, finish>>

SummaryDelta(i) ==
    /\ ~finish.said /\ item[i] = "added" /\ active[i] # <<>> /\ deltas[i] < MaxDeltas
    /\ deltas' = [deltas EXCEPT ![i] = @ + 1]
    /\ Enqueue(<<P("reasoning-delta", i)>>)
    /\ UNCHANGED <<output, item, ongoing, text, active, finish>>

(* response.output_item.done.                                                 *)
DoneParts(i) ==
    CASE output[i] = "function_call" -> <<P("tool-input-end", i), P("tool-call", i)>>
      [] output[i] \in {"web_search_call", "computer_call"} ->
             <<P("tool-input-end", i), P("tool-call", i), P("tool-result", i)>>
      [] output[i] \in {"file_search_call", "code_interpreter_call", "image_generation_call"} ->
             <<P("tool-result", i)>>
      [] output[i] = "local_shell_call" -> <<P("tool-call", i)>>
      [] output[i] = "message" -> IF text # 0 THEN <<P("text-end", text)>> ELSE <<>>
      [] OTHER -> [n \in DOMAIN active[i] |-> P("reasoning-end", i)]

ItemDone(i) ==
    /\ ~finish.said
    /\ item[i] = (IF output[i] = "code_interpreter_call" THEN "coded" ELSE "added")
    /\ Moves(i, "done")
    /\ Enqueue(DoneParts(i))
    /\ text' = IF output[i] = "message" THEN 0 ELSE text
    /\ active' = [active EXCEPT ![i] = <<>>]
    /\ ongoing' = ongoing \ {i}
    /\ finish' = [finish EXCEPT !.calls = @ \/ output[i] = "function_call"]
    /\ UNCHANGED <<output, deltas>>

FinishReason(reason, calls) ==
    CASE reason = "none"              -> IF calls THEN "tool-calls" ELSE "stop"
      [] reason = "max_output_tokens" -> "length"
      [] reason = "content_filter"    -> "content-filter"
      [] OTHER                        -> IF calls THEN "tool-calls" ELSE "unknown"

(* response.completed or response.incomplete; a chunk that does not parse.    *)
Finished ==
    /\ ~finish.said
    /\ \E reason \in Incomplete \cup {"none"} :
         /\ reason = "none" => \A i \in Items : item[i] = "done"
         /\ finish' = [finish EXCEPT !.said = TRUE, !.reason = FinishReason(reason, finish.calls)]
    /\ UNCHANGED <<output, item, deltas, parts, ongoing, text, active>>

BadChunk ==
    /\ ~finish.said /\ finish.reason # "error"
    /\ finish' = [finish EXCEPT !.reason = "error"]
    /\ Enqueue(<<P("error", 0)>>)
    /\ UNCHANGED <<output, item, deltas, ongoing, text, active>>

(* Mutant: a dangling text part is left open.                                 *)
FlushFinishOnly ==
    /\ ~finish.flushed
    /\ finish' = [finish EXCEPT !.flushed = TRUE, !.said = TRUE]
    /\ Enqueue(<<P("finish", 0)>>)
    /\ text' = 0
    /\ UNCHANGED <<output, item, deltas, ongoing, active>>

(* The end of the stream, announced or not: a dangling text part is closed.   *)
Flush ==
    /\ ~finish.flushed
    /\ finish' = [finish EXCEPT !.flushed = TRUE, !.said = TRUE]
    /\ Enqueue((IF text # 0 THEN <<P("text-end", text)>> ELSE <<>>) \o <<P("finish", 0)>>)
    /\ text' = 0
    /\ UNCHANGED <<output, item, deltas, ongoing, active>>

StreamNext ==
    \/ \E i \in Items : \/ ItemAdded(i) \/ TextDelta(i) \/ InputDelta(i) \/ CodeDone(i)
                        \/ PartialImage(i) \/ SummaryPartAdded(i) \/ SummaryDelta(i)
                        \/ ItemDone(i)
    \/ Finished \/ BadChunk \/ Flush

(* What doGenerate makes of the same response: a tool the provider ran comes  *)
(* with its result.                                                           *)
ProviderContent(i) == {P("tool-call", i), P("tool-result", i)}

Content(i) ==
    CASE output[i] \in {"function_call", "local_shell_call"} -> {P("tool-call", i)}
      [] output[i] = "message"   -> {P("text-start", i)}
      [] output[i] = "reasoning" -> {P("reasoning-start", i)}
      [] OTHER -> ProviderContent(i)

Contents == {"tool-call", "tool-result", "text-start", "reasoning-start"}

Said(p) == p \in ToSet(parts)
SaidOnce(p) == \A m, n \in DOMAIN parts : parts[m] = p /\ parts[n] = p => m = n
TextIsPaired(i) ==
    /\ SaidOnce(P("text-start", i)) /\ SaidOnce(P("text-end", i))
    /\ finish.flushed => (Said(P("text-end", i)) <=> Said(P("text-start", i)))
    /\ \A n \in DOMAIN parts : parts[n] = P("text-delta", i) =>
         /\ \E m \in 1..(n - 1) : parts[m] = P("text-start", i)
         /\ ~\E m \in 1..(n - 1) : parts[m] = P("text-end", i)

(* A complete response gives the same calls, results, texts and reasoning     *)
(* whether it is streamed or not, and the same finish reason.  Every text     *)
(* part is started once, ended once before finish, and no delta lies outside  *)
(* of it, whichever of its chunks the provider leaves out.                    *)
StreamAgreesWithGenerate ==
    /\ StreamTypeOK
    /\ \A i \in Items : output[i] = "message" => TextIsPaired(i)
    /\ (finish.flushed /\ \A i \in Items : item[i] = "done") =>
         /\ {p \in ToSet(parts) : p[1] \in Contents} = UNION {Content(i) : i \in Items}
         /\ finish.reason = "stop" => "function_call" \notin ToSet(output)
=============================================================================
