------------------------------ MODULE Langfuse ------------------------------
(***************************************************************************)
(* The middleware that reports every completion to Langfuse as a span.     *)
(* The exporter of the OpenTelemetry library is external: it takes spans   *)
(* in batches until it is shut down, which flushes it.                     *)
(***************************************************************************)
EXTENDS LlmWire

(* What the environment configures: nothing without both keys.             *)
Given(env, name) == IF name \in DOMAIN env /\ env[name] # "" THEN env[name] ELSE None

LangfuseConfig(public, secret) ==
  [public_key |-> public, secret_key |-> secret, host |-> "cloud", capture_io |-> TRUE,
   session_id |-> None, environment |-> None, release |-> None, tags |-> <<>>]

FromEnv(env) ==
  LET public == Given(env, "LANGFUSE_PUBLIC_KEY")
      secret == Given(env, "LANGFUSE_SECRET_KEY")
  IN IF None \in {public, secret} THEN None
     ELSE [LangfuseConfig(public, secret) EXCEPT
             !.host = Or(Given(env, "LANGFUSE_HOST"), "cloud"),
             !.environment = Given(env, "LANGFUSE_TRACING_ENVIRONMENT"),
             !.release = Given(env, "LANGFUSE_RELEASE")]

NoContext == [name |-> None, session_id |-> None, traceparent |-> None, tags |-> <<>>, metadata |-> <<>>]

ObservationName(request) == Or(Or(request.observability, NoContext).name, "llm-kernel.complete")

PushSession(config, request) ==
  LET context == Or(request.observability, NoContext)
      tags == config.tags \o context.tags
  IN Key("session.id", Or(context.session_id, config.session_id))
     @@ Key("environment", config.environment) @@ Key("release", config.release)
     @@ (IF tags = <<>> THEN <<>> ELSE "trace.tags" :> tags) @@ context.metadata

ConversationInput(request) == OpenAiMessages(request)

RenderedOutput(response) ==
  IF response.tool_calls = <<>> THEN response.content
  ELSE [role |-> "assistant", content |-> response.content, tool_calls |-> response.tool_calls]

Io(config, key, value) == IF config.capture_io THEN key :> value ELSE <<>>

(* The attributes every span has, and others.                              *)
With(own, rest) == [key \in DOMAIN own \cup DOMAIN rest |-> IF key \in DOMAIN own THEN own[key] ELSE rest[key]]

GenerationAttributes(request, response, config) ==
  With([level |-> "DEFAULT", success |-> TRUE],
    "trace.name" :> ObservationName(request) @@ "model.name" :> response.model
    @@ "usage_details" :> response.usage
    @@ "model.parameters" :> <<request.temperature, request.max_tokens>>
    @@ Io(config, "input", ConversationInput(request)) @@ Io(config, "output", RenderedOutput(response))
    @@ Key("finishReason", response.finish_reason) @@ Key("reasoningTokens", response.usage.reasoning)
    @@ PushSession(config, request))

(* Credentials a provider echoes in its error are masked.                  *)
MaskSecrets(error) == [error EXCEPT !.secret = FALSE]

ErrorAttributes(request, error, config) ==
  With([level |-> "ERROR", success |-> FALSE, status_message |-> MaskSecrets(error)],
    "trace.name" :> ObservationName(request) @@ "model.name" :> Or(request.model, "unknown")
    @@ Io(config, "input", ConversationInput(request))
    @@ PushSession(config, request))

(* A span hangs below the caller's when the request carries its context.   *)
Span(call, request, attributes) ==
  [call |-> call, name |-> ObservationName(request),
   parent |-> Or(request.observability, NoContext).traceparent, attributes |-> attributes]

----------------------------------------------------------------------------

NewExporter == [open |-> TRUE, queue |-> <<>>, exported |-> {}]

Emit(exporter, span) == IF exporter.open THEN [exporter EXCEPT !.queue = Append(@, span)] ELSE exporter

Flush(exporter) == [exporter EXCEPT !.queue = <<>>, !.exported = @ \cup ToSet(exporter.queue)]

(* The mutant closes the exporter with its last batch in the queue.        *)
ShutdownUnflushed(exporter) == [exporter EXCEPT !.open = FALSE]

Shutdown(exporter) == [Flush(exporter) EXCEPT !.open = FALSE]

OnResponse(exporter, config, call, request, response) ==
  Emit(exporter, Span(call, request, GenerationAttributes(request, response, config)))

OnError(exporter, config, call, request, error) ==
  Emit(exporter, Span(call, request, ErrorAttributes(request, error, config)))
=============================================================================
