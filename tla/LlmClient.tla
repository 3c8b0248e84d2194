------------------------------ MODULE LlmClient ------------------------------
(***************************************************************************)
(* Calls of complete and stream_complete to a provider.  complete goes     *)
(* through MiddlewareClient and is reported to Langfuse; the events of a   *)
(* stream are read from the connection by a task of their own, which hands *)
(* them to the caller over a bounded channel.  The connection may cut a    *)
(* line anywhere, end early or break, and the caller may drop a call or a  *)
(* stream at any moment.                                                   *)
(***************************************************************************)
EXTENDS Langfuse

CONSTANTS
  Requests, Answers,   (* What is asked, and what providers answer.        *)
  Settings,            (* The configuration of Langfuse.                   *)
  Capacity,            (* Of the channel: 16 in the code.                  *)
  MaxLlmCalls,         (* Bound: the number of calls,                      *)
  MaxChunk             (* and the half lines of a chunk.                   *)

VARIABLES
  llm,        (* The call under way; open is a history: whether the        *)
              (* exporter still was when the call was reported.            *)
  llmLog,     (* History: the calls of complete that ended.                *)
  exporter,
  wire,       (* The half lines the server still sends.                    *)
  reader,     (* The task that reads them,                                 *)
  channel,    (* what it handed over                                       *)
  received    (* and what the caller took.                                 *)

llmVars == <<llm, llmLog, exporter, wire, reader, channel, received>>
streamVars == <<wire, reader, channel, received>>

NoCall == [at |-> "idle", call |-> 0, method |-> None, request |-> None, answer |-> None, result |-> None, open |-> FALSE]
NoReader == [at |-> "gone", why |-> None, provider |-> None, buffer |-> <<>>, event |-> None, lines |-> <<>>, events |-> <<>>]

ClientInit ==
  /\ llm = NoCall /\ llmLog = <<>>
  /\ exporter = NewExporter
  /\ wire = <<>> /\ reader = NoReader /\ channel = <<>> /\ received = <<>>

Body(provider, method, request) ==
  CASE provider = "openai" /\ method = "complete" -> OpenAiCompleteBody(request, "own")
    [] provider = "openai" /\ method = "stream" -> OpenAiStreamBody(request, "own")
    [] provider = "anthropic" /\ method = "complete" -> AnthropicCompleteBody(request, "own")
    [] provider = "anthropic" /\ method = "stream" -> AnthropicStreamBody(request, "own")

Response(provider, json) ==
  IF provider = "openai" THEN OpenAiResponse(json) ELSE AnthropicResponse(json)

Line(provider, event, line) ==
  IF provider = "openai" THEN OpenAiLine(event, line) ELSE AnthropicLine(event, line)

(* Why a call fails: the errors of the provider and of the connection, and *)
(* a body that is not what the client reads.                               *)
Failure(kind) == [kind |-> kind, secret |-> kind = "Http"]
RateLimited == Failure("RateLimited")
Failures == {RateLimited, Failure("Http"), Failure("LlmApi")}

Readable(answer) ==
  IF answer.provider = "openai" THEN ParsesLeniently(answer.json) ELSE Parses(answer.json)

CompleteResult(answer) ==
  IF Readable(answer) THEN [ok |-> TRUE, response |-> Response(answer.provider, answer.json)]
  ELSE [ok |-> FALSE, error |-> Failure("LlmApi")]

----------------------------------------------------------------------------
(* complete, through MiddlewareClient.                                     *)

Begin(method, request, answer) ==
  /\ llm.at = "idle" /\ llm.call < MaxLlmCalls /\ reader.at = "gone"
  /\ llm' = [at |-> "sent", call |-> llm.call + 1, method |-> method, request |-> request,
             answer |-> answer, result |-> None, open |-> FALSE]
  /\ channel' = <<>> /\ received' = <<>>
  /\ UNCHANGED <<llmLog, exporter, wire, reader>>

Answered(result) ==
  /\ llm.at = "sent" /\ llm.method = "complete"
  /\ llm' = [llm EXCEPT !.at = "answered", !.result = result]
  /\ UNCHANGED <<llmLog, exporter, streamVars>>

ReportSuccess ==
  /\ llm.at = "answered"
  /\ exporter' = IF llm.result.ok
                 THEN OnResponse(exporter, Settings, llm.call, llm.request, llm.result.response)
                 ELSE exporter
  /\ llm' = [llm EXCEPT !.at = "reported", !.open = exporter.open]
  /\ UNCHANGED <<llmLog, streamVars>>

(* on_response or on_error, which emit the span at once.                   *)
Report ==
  /\ llm.at = "answered"
  /\ exporter' = IF llm.result.ok
                 THEN OnResponse(exporter, Settings, llm.call, llm.request, llm.result.response)
                 ELSE OnError(exporter, Settings, llm.call, llm.request, llm.result.error)
  /\ llm' = [llm EXCEPT !.at = "reported", !.open = exporter.open]
  /\ UNCHANGED <<llmLog, streamVars>>

Idle == [NoCall EXCEPT !.call = llm.call]

(* What had come of a call when it returned or was dropped.                *)
Came ==
  IF llm.at = "sent" THEN "nothing" ELSE IF llm.result.ok THEN "ok" ELSE "error"

Logged(outcome) ==
  llmLog' = Append(llmLog,
    [call |-> llm.call, outcome |-> outcome, came |-> Came,
     open |-> IF llm.at = "reported" THEN llm.open ELSE exporter.open])

ReturnResult ==
  /\ llm.at = "reported"
  /\ Logged("returned")
  /\ llm' = Idle
  /\ UNCHANGED <<exporter, streamVars>>

(* The caller drops the future.                                            *)
Cancel ==
  /\ llm.at \in {"sent", "answered", "reported"}
  /\ IF llm.method = "complete" THEN Logged("dropped") ELSE UNCHANGED llmLog
  /\ llm' = Idle
  /\ UNCHANGED <<exporter, streamVars>>

ExportBatch ==
  /\ exporter.queue # <<>>
  /\ exporter' = Flush(exporter)
  /\ UNCHANGED <<llm, llmLog, streamVars>>

ShutdownExporter ==
  /\ exporter.open
  /\ exporter' = Shutdown(exporter)
  /\ UNCHANGED <<llm, llmLog, streamVars>>

----------------------------------------------------------------------------
(* stream_complete: MiddlewareClient hands it on unreported.               *)

StreamFails ==
  /\ llm.at = "sent" /\ llm.method = "stream"
  /\ llm' = Idle
  /\ UNCHANGED <<llmLog, exporter, streamVars>>

OpenStream ==
  /\ llm.at = "sent" /\ llm.method = "stream"
  /\ llm' = [llm EXCEPT !.at = "streaming"]
  /\ wire' = FlattenSeq([i \in DOMAIN llm.answer.lines |-> Halves(llm.answer.lines[i])])
  /\ reader' = [NoReader EXCEPT !.at = "reading", !.provider = llm.answer.provider]
  /\ UNCHANGED <<llmLog, exporter, channel, received>>

(* The reader waits for a chunk once all lines of the last are handled.    *)
Waiting == reader.at = "reading" /\ reader.lines = <<>> /\ reader.events = <<>>

ReadChunk(n) ==
  LET drained == DrainSseLines(reader.buffer, SubSeq(wire, 1, n))
  IN /\ Waiting /\ n <= Len(wire)
     /\ wire' = SubSeq(wire, n + 1, Len(wire))
     /\ reader' = [reader EXCEPT !.buffer = drained.buffer, !.lines = drained.lines]
     /\ UNCHANGED <<llm, llmLog, exporter, channel, received>>

ParseLine ==
  LET parsed == Line(reader.provider, reader.event, Head(reader.lines))
  IN /\ reader.at = "reading" /\ reader.lines # <<>> /\ reader.events = <<>>
     /\ reader' = [reader EXCEPT !.lines = Tail(@), !.event = parsed.event, !.events = parsed.events]
     /\ UNCHANGED <<llm, llmLog, exporter, wire, channel, received>>

Gone(why) == [NoReader EXCEPT !.why = why]

(* The stream the caller holds is the other end of the channel.            *)
Held == llm.at = "streaming"

Send ==
  /\ reader.at = "reading" /\ reader.events # <<>>
  /\ IF Held
     THEN /\ Len(channel) < Capacity
          /\ channel' = Append(channel, Head(reader.events))
          /\ reader' = IF Head(reader.events) = Done THEN Gone("done")
                       ELSE [reader EXCEPT !.events = Tail(@)]
     ELSE channel' = channel /\ reader' = Gone("closed")
  /\ UNCHANGED <<llm, llmLog, exporter, wire, received>>

(* The connection ends, at its end or before, or breaks (the client's      *)
(* timeout included); what is in the buffer is lost.                       *)
Ending(event, why) ==
  /\ Waiting
  /\ IF Held
     THEN Len(channel) < Capacity /\ channel' = Append(channel, event)
     ELSE channel' = channel
  /\ reader' = Gone(why)
  /\ UNCHANGED <<llm, llmLog, exporter, wire, received>>

Eof == Ending(Done, IF wire = <<>> THEN "done" ELSE "cut")
Break == Ending(StreamError, "broken")

Take ==
  /\ Held /\ channel # <<>>
  /\ received' = Append(received, Head(channel))
  /\ channel' = Tail(channel)
  /\ UNCHANGED <<llm, llmLog, exporter, wire, reader>>

(* The caller drops the stream, at its end or before.                      *)
DropStream ==
  /\ Held
  /\ llm' = Idle /\ channel' = <<>>
  /\ UNCHANGED <<llmLog, exporter, wire, reader, received>>

Reading ==
  \/ \E n \in 1..MaxChunk : ReadChunk(n)
  \/ ParseLine \/ Send \/ Eof \/ Break

ClientNext ==
  \/ \E method \in {"complete", "stream"}, request \in Requests, answer \in Answers : Begin(method, request, answer)
  \/ llm.at = "sent" /\ Answered(CompleteResult(llm.answer))
  \/ \E error \in Failures : Answered([ok |-> FALSE, error |-> error])
  \/ Report \/ ReturnResult \/ Cancel \/ ExportBatch \/ ShutdownExporter
  \/ StreamFails \/ OpenStream \/ Reading \/ Take \/ DropStream

ClientSpec == ClientInit /\ [][ClientNext]_llmVars

----------------------------------------------------------------------------

Texts(events, type) == FlattenSeq([i \in DOMAIN events |-> IF events[i].type = type THEN events[i].text ELSE <<>>])

Greater(a, b) == IF a > b THEN a ELSE b

(* Usage events are merged field by field, as their comment asks of those  *)
(* who read a stream.                                                      *)
MergedUsage(events) ==
  FoldLeft(LAMBDA u, e : IF e.type # "usage" THEN u
                         ELSE LET p == Greater(u.prompt, e.usage.prompt)
                                  c == Greater(u.completion, e.usage.completion)
                              IN [prompt |-> p, completion |-> c, total |-> p + c, reasoning |-> e.usage.reasoning],
           NoUsage, events)

(* The answer a caller puts together from events.                          *)
Rebuilt(events) ==
  [content |-> PromoteReasoning(Texts(events, "delta"), Texts(events, "reasoning")),
   reasoning |-> Texts(events, "reasoning"), usage |-> MergedUsage(events)]

Whole(answer) ==
  LET response == Response(answer.provider, answer.json)
  IN [content |-> response.content, reasoning |-> Or(response.reasoning, <<>>), usage |-> response.usage]

(* What each line of an answer is read as, in the state the lines before   *)
(* it leave, the events they tell together, and these up to the first end  *)
(* or the end of the connection.                                           *)
LinesRead(answer) ==
  LET read[k \in 0..Len(answer.lines)] ==
        IF k = 0 THEN [event |-> None, events |-> <<>>]
        ELSE Line(answer.provider, read[k - 1].event, answer.lines[k])
  IN read

EventsOf(answer) == FlattenSeq([k \in DOMAIN answer.lines |-> LinesRead(answer)[k].events])

UntilDone(events) ==
  LET ended == Append(events, Done)
  IN SubSeq(ended, 1, SelectInSeq(ended, LAMBDA e : e = Done))

(* No caller overrides that a stream is asked for, and a provider streams, *)
(* line after line, the answer it would have given.                        *)
ASSUME StreamAssumption ==
  /\ \A request \in Requests : "stream" \notin DOMAIN request.extra_body
  /\ \A answer \in Answers :
       /\ answer.provider \in {"openai", "anthropic"} /\ answer.lines \in Seq(ToSet(answer.lines))
       /\ Readable(answer) =>
          LET events == UntilDone(EventsOf(answer))
          IN /\ \A i \in DOMAIN events : events[i].type \in {"delta", "reasoning"} => events[i].text \in Seq(STRING)
             /\ Texts(events, "delta") = answer.content /\ Texts(events, "reasoning") = answer.reasoning
             /\ Rebuilt(events) = Whole(answer)

Unstreamed == {"tools", "response_format", "output_config"}

Effort(body) ==
  IF "output_config" \in DOMAIN body /\ "effort" \in DOMAIN body["output_config"]
  THEN body["output_config"]["effort"] ELSE None

(* What a caller receives from stream_complete is what complete would have *)
(* answered: the two bodies ask the same but for what a stream leaves out, *)
(* texts come in order wherever chunks are cut, an end or an error is the  *)
(* last event, and a stream that ends as the server ended it is whole,     *)
(* promoted reasoning and merged usage included.                           *)
StreamMatchesComplete ==
  (llm.at \in {"sent", "streaming"} /\ llm.method = "stream" /\ Readable(llm.answer)) =>
    LET provider == llm.answer.provider
        asked == Body(provider, "stream", llm.request)
        complete == Body(provider, "complete", llm.request)
        events == received \o channel
        kept == DOMAIN complete \ Unstreamed
    IN /\ asked["stream"] /\ kept \subseteq DOMAIN asked
       /\ \A key \in kept : asked[key] = complete[key]
       /\ Effort(asked) = Effort(complete)
       /\ \A i \in DOMAIN events : events[i] \in {Done, StreamError} => i = Len(events)
       /\ IsPrefix(Texts(events, "delta"), llm.answer.content)
       /\ IsPrefix(Texts(events, "reasoning"), llm.answer.reasoning)
       /\ (reader.at = "gone" /\ reader.why = "done" /\ llm.at = "streaming") => Rebuilt(events) = Whole(llm.answer)

(* The spans that reach Langfuse: a closed exporter exports no more.       *)
Spans == exporter.exported \cup (IF exporter.open THEN ToSet(exporter.queue) ELSE {})

Level(came) == IF came = "ok" THEN "DEFAULT" ELSE "ERROR"

Reported(r) == \E s \in Spans : s.call = r.call /\ s.attributes["level"] = Level(r.came)

(* A call of complete that returns is reported with what came of it, even  *)
(* a failure, and the span is exported by the shutdown at the latest; one  *)
(* that its caller drops may not be reported, whatever the crate says of   *)
(* "each" call, but never as what it did not come to; and none is reported *)
(* twice.                                                                  *)
CallsReported ==
  /\ \A k \in DOMAIN llmLog : llmLog[k].outcome = "returned" /\ llmLog[k].open => Reported(llmLog[k])
  /\ \A s \in Spans, k \in DOMAIN llmLog :
       s.call = llmLog[k].call => llmLog[k].came # "nothing" /\ s.attributes["level"] = Level(llmLog[k].came)
  /\ \A s, t \in Spans : s.call = t.call => s = t
=============================================================================
