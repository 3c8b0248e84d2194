------------------------------- MODULE LlmWire -------------------------------
(***************************************************************************)
(* What the two clients of the language models put on the wire and read    *)
(* from it: the bodies of their requests, the responses and the events of  *)
(* a stream.  A text is the sequence of its pieces, a body the function    *)
(* from the keys that are present to their values.                         *)
(***************************************************************************)
EXTENDS Options, Naturals, Sequences, SequencesExt, TLC

(* A body with one key, and one over another, whose keys it replaces.      *)
Only(key, value) == [k \in {key} |-> value]
f ++ g == [key \in DOMAIN f \cup DOMAIN g |-> IF key \in DOMAIN f THEN f[key] ELSE g[key]]

(* A key that is left out when its value is None.                          *)
Key(key, value) == IF value = None THEN <<>> ELSE Only(key, value)

LLMRequest ==
  [system |-> None, messages |-> <<>>, temperature |-> 7, max_tokens |-> None, model |-> None,
   response_format |-> None, tools |-> None, reasoning |-> None, verbosity |-> None,
   extra_body |-> <<>>, observability |-> None]

(* What LLMRequestBuilder makes when only its caller's settings are given. *)
Request(settings) == settings @@ LLMRequest

Message(role, content) == [role |-> role, content |-> content]

OpenAiMessages(request) ==
  (IF request.system = None THEN <<>> ELSE <<Message("system", request.system)>>) \o request.messages

AnthropicMessages(request) == request.messages

(* Tools are dropped when there are none; text is the provider's default.  *)
Tools(request) == IF request.tools = <<>> THEN None ELSE request.tools

OpenAiResponseFormat(format) == IF format = "text" THEN None ELSE format

ReasoningConfig == [effort |-> None, enabled |-> None, summary |-> None]

OpenAiReasoning(config) ==
  LET cfg == Or(config, ReasoningConfig)
      obj == Key("enabled", cfg.enabled) ++ Key("summary", cfg.summary)
  IN Key("reasoning_effort", cfg.effort) ++ (IF obj = <<>> THEN <<>> ELSE Only("reasoning", obj))

AnthropicOutputConfig(format, config) ==
  LET obj == Key("format", IF format = "json_schema" THEN format ELSE None)
             ++ Key("effort", Or(config, ReasoningConfig).effort)
  IN IF obj = <<>> THEN <<>> ELSE Only("output_config", obj)

BodyWithExtra(body, extra) == extra ++ body

OpenAiCompleteBody(request, own) ==
  BodyWithExtra(
    Only("model", Or(request.model, own)) ++ Only("messages", OpenAiMessages(request))
      ++ Only("temperature", Or(request.temperature, 7)) ++ Key("max_tokens", request.max_tokens)
      ++ Key("tools", Tools(request)) ++ Key("response_format", OpenAiResponseFormat(request.response_format))
      ++ OpenAiReasoning(request.reasoning) ++ Key("verbosity", request.verbosity),
    request.extra_body)

OpenAiStreamBody(request, own) ==
  BodyWithExtra(
    Only("model", Or(request.model, own)) ++ Only("messages", OpenAiMessages(request))
      ++ Only("temperature", Or(request.temperature, 7)) ++ Key("max_tokens", request.max_tokens)
      ++ Only("stream", TRUE)
      ++ OpenAiReasoning(request.reasoning) ++ Key("verbosity", request.verbosity),
    request.extra_body)

AnthropicCompleteBody(request, own) ==
  BodyWithExtra(
    Only("model", Or(request.model, own)) ++ Only("max_tokens", Or(request.max_tokens, 4096))
      ++ Key("temperature", request.temperature) ++ Key("system", request.system)
      ++ Only("messages", AnthropicMessages(request)) ++ Key("tools", Tools(request))
      ++ AnthropicOutputConfig(request.response_format, request.reasoning),
    request.extra_body)

AnthropicStreamBody(request, own) ==
  BodyWithExtra(
    Only("model", Or(request.model, own)) ++ Only("max_tokens", Or(request.max_tokens, 4096))
      ++ Key("temperature", request.temperature) ++ Key("system", request.system)
      ++ Only("messages", AnthropicMessages(request)) ++ Only("stream", TRUE)
      ++ AnthropicOutputConfig(None, request.reasoning),
    request.extra_body)

----------------------------------------------------------------------------
(* Responses.  quality says of a JSON text whether it is "strict", holds   *)
(* raw "control" characters within strings, or is "broken".                *)

Parses(json) == json.quality = "strict"
ParsesLeniently(json) == json.quality \in {"strict", "control"}

NoUsage == [prompt |-> 0, completion |-> 0, total |-> 0, reasoning |-> None]

PromoteReasoning(content, reasoning) == IF content = <<>> THEN Or(reasoning, <<>>) ELSE content

OpenAiResponse(json) ==
  LET first == IF json.choices = <<>> THEN [content |-> None, reasoning |-> None, tools |-> <<>>, finish |-> None]
               ELSE json.choices[1]
      usage == Or(json.usage, NoUsage)
  IN [content |-> PromoteReasoning(Or(first.content, <<>>), first.reasoning),
      reasoning |-> first.reasoning, model |-> json.model, tool_calls |-> first.tools,
      usage |-> [prompt |-> Or(usage.prompt, 0), completion |-> Or(usage.completion, 0),
                 total |-> Or(usage.total, 0), reasoning |-> usage.reasoning],
      finish_reason |-> first.finish]

Joined(blocks, type) ==
  FoldLeft(LAMBDA text, block : IF block.type = type THEN text \o block.text ELSE text, <<>>, blocks)

AnthropicResponse(json) ==
  LET reasoning == Joined(json.content, "thinking")
      calls == SelectSeq(json.content, LAMBDA block : block.type = "tool_use")
  IN [content |-> Joined(json.content, "text"),
      reasoning |-> IF reasoning = <<>> THEN None ELSE reasoning,
      model |-> json.model, tool_calls |-> [i \in DOMAIN calls |-> calls[i].text],
      usage |-> [prompt |-> json.usage.prompt, completion |-> json.usage.completion,
                 total |-> json.usage.prompt + json.usage.completion, reasoning |-> None],
      finish_reason |-> json.stop]

----------------------------------------------------------------------------
(* Streams.  A line is cut in two halves, so that a chunk may end in it.   *)

Halves(line) == <<[line |-> line, end |-> FALSE], [line |-> line, end |-> TRUE]>>
Garbled == [type |-> "garbled"]

(* A line is whole if both halves of it are there.                         *)
Ended(halves) == IF Len(halves) = 2 THEN halves[2].line ELSE Garbled

TakeHalf(drained, half) ==
  IF half.end
  THEN [lines |-> Append(drained.lines, Ended(Append(drained.buffer, half))), buffer |-> <<>>]
  ELSE [drained EXCEPT !.buffer = Append(@, half)]

DrainEagerly(buffer, chunk) == FoldLeft(TakeHalf, [lines |-> <<>>, buffer |-> <<>>], chunk)

(* The lines that end in buffer and chunk, and what stays in the buffer.   *)
DrainSseLines(buffer, chunk) == FoldLeft(TakeHalf, [lines |-> <<>>, buffer |-> buffer], chunk)

Text(type, text) == [type |-> type, text |-> text]
Usage(usage) == [type |-> "usage", usage |-> usage]
Stopped(reason) == [type |-> "stopped", reason |-> reason]
Done == [type |-> "done"]
StreamError == [type |-> "error"]

Missing(text) == text \in {None, <<>>}

(* One event at most of a chunk: the first thing found in this order.      *)
ParseOpenAiSse(json) ==
  IF ~ParsesLeniently(json) \/ json.delta = None THEN <<>>
  ELSE IF ~Missing(json.delta.reasoning) THEN <<Text("reasoning", json.delta.reasoning)>>
  ELSE IF ~Missing(json.delta.content) THEN <<Text("delta", json.delta.content)>>
  ELSE IF json.usage # None /\ None \notin {json.usage.prompt, json.usage.completion, json.usage.total}
    THEN <<Usage(json.usage)>>
  ELSE IF json.finish # None THEN <<Done>>
  ELSE <<>>

AnthropicUsage(usage) ==
  Usage([prompt |-> Or(usage.prompt, 0), completion |-> Or(usage.completion, 0),
         total |-> Or(usage.prompt, 0) + Or(usage.completion, 0), reasoning |-> None])

(* A message_delta is the end of the stream only when it has no usage.     *)
MessageDelta(json) ==
  (IF json.stop = None THEN <<>> ELSE <<Stopped(json.stop)>>)
  \o (IF json.usage = None \/ json.usage.completion = None THEN <<Done>> ELSE <<AnthropicUsage(json.usage)>>)

ParseAnthropicSse(event, json) ==
  CASE ~Parses(json) -> <<>>
    [] event = "message_start" -> IF json.usage = None THEN <<>> ELSE <<AnthropicUsage(json.usage)>>
    [] event = "content_block_delta" ->
         IF json.delta = None \/ Missing(json.delta.text) THEN <<>>
         ELSE <<Text(IF json.delta.type = "thinking_delta" THEN "reasoning" ELSE "delta", json.delta.text)>>
    [] event = "message_delta" -> MessageDelta(json)
    [] event = "message_stop" -> <<Done>>
    [] OTHER -> <<>>

(* The event that the next data is of, and the events of a line.           *)
OpenAiLine(event, line) ==
  [event |-> event, events |-> IF line.type = "data" THEN ParseOpenAiSse(line.json) ELSE <<>>]

AnthropicLine(event, line) ==
  CASE line.type = "event" -> [event |-> line.name, events |-> <<>>]
    [] line.type = "done" -> [event |-> event, events |-> <<Done>>]
    [] line.type = "data" -> [event |-> None, events |-> ParseAnthropicSse(event, line.json)]
    [] OTHER -> [event |-> event, events |-> <<>>]
=============================================================================
