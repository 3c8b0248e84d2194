----------------------------- MODULE McpTransport -----------------------------
(***************************************************************************)
(* JsonRpcDispatcher of src/src/mcp/transport.rs: the synchronous and the  *)
(* asynchronous dispatcher, and the lifecycle gate of the stdio loops.     *)
(* What a line gets is a form and the messages in it.                      *)
(***************************************************************************)
EXTENDS McpServer

(* A JSON value: a request, or anything else, which has no members.        *)
Value(kind, id, method, meta) ==
  [kind |-> kind, id |-> id, method |-> method, meta |-> meta,
   asks |-> Absent, name |-> Absent, args |-> "null"]

IsRequest(req) == req.kind = "object" /\ req.id # Absent

(* The version in params._meta, and the era it selects.                    *)
RequestProtocolVersion(req) == req.meta

Era(req) == IF req.method = "initialize" THEN Absent ELSE RequestProtocolVersion(req)

Silence == [form |-> "none", items |-> <<>>]
Single(message) == [form |-> "single", items |-> <<message>>]

----------------------------------------------------------------------------
(* dispatch: one value, or a batch of them.                                *)

HandleToolCall(req, modern, outcome) ==
  IF ~HasTool(req.name) \/ RefusesArguments(req.name, req.args) THEN Error("invalid params")
  ELSE Shape(modern, "tools/call", outcome)

HandlePromptGet(req) == GetPrompt(req.name)

HandleResourceRead(req) == ReadResource(req.name)

Handle(req) ==
  CASE req.method = "initialize" -> InitializeResponse(req.asks)
    [] req.method = "ping" -> Result("pong")
    [] req.method \in {"tools/list", "resources/list", "resources/templates/list", "prompts/list"} ->
         Result("list")
    [] req.method = "prompts/get" -> HandlePromptGet(req)
    [] req.method = "resources/read" -> HandleResourceRead(req)
    [] OTHER -> Error("method not found")

Acknowledged == Message("notification", "acknowledged")

SubscriptionClose(id) == <<Acknowledged, Reply(id, Closing)>>

(* The lines one value is answered with: none, one, or the two of a        *)
(* subscription.                                                           *)
AnswerModern(req, modern) ==
  CASE req.method = "server/discover" -> <<Reply(req.id, Shape(modern, req.method, Result("discovered")))>>
    [] req.method = "subscriptions/listen" -> SubscriptionClose(req.id)
    [] req.method = "ping" -> <<Reply(req.id, Error("method not found"))>>
    [] req.method = "tools/call" -> <<Reply(req.id, HandleToolCall(req, modern, CallTool(req.name)))>>
    [] OTHER -> <<Reply(req.id, Shape(modern, req.method, Handle(req)))>>

AnswerLegacy(req) ==
  IF req.method = "tools/call" THEN <<Reply(req.id, HandleToolCall(req, Absent, CallTool(req.name)))>>
  ELSE <<Reply(req.id, Handle(req))>>

Unsupported(req) == <<Reply(req.id, Error("unsupported version"))>>

DispatchSingle(req) ==
  IF req.kind # "object" THEN <<Reply(NullId, Error("invalid request"))>>
  ELSE IF req.id = Absent THEN <<>>
  ELSE IF Era(req) = Absent THEN AnswerLegacy(req)
  ELSE IF Era(req) \notin Supported THEN Unsupported(req)
  ELSE AnswerModern(req, Era(req))

(* Only a call of a tool differs.                                          *)
DispatchSingleAsync(req) ==
  IF req.method # "tools/call" THEN DispatchSingle(req)
  ELSE IF req.id = Absent THEN <<>>
  ELSE IF req.meta # Absent /\ req.meta \notin Supported THEN Unsupported(req)
  ELSE <<Reply(req.id, HandleToolCall(req, req.meta, CallToolAsync(req.name)))>>

(* The responses joined in brackets; a response of two lines in there is   *)
(* no JSON any more.                                                       *)
Joined(answers) ==
  IF \E i \in DOMAIN answers : Len(answers[i]) > 1 THEN [form |-> "garbled", items |-> FlattenSeq(answers)]
  ELSE IF FlattenSeq(answers) = <<>> THEN Silence
  ELSE [form |-> "batch", items |-> FlattenSeq(answers)]

Plain(answer) == IF answer = <<>> THEN Silence ELSE [form |-> "single", items |-> answer]

Refused(id, what) == Single(Reply(id, Error(what)))

HasModern(items) == \E i \in DOMAIN items : RequestProtocolVersion(items[i]) # Absent

Dispatch(line) ==
  CASE line.form = "batch" ->
         IF HasModern(line.items) THEN Refused(NullId, "invalid request")
         ELSE Joined([i \in DOMAIN line.items |-> DispatchSingle(line.items[i])])
    [] line.form = "single" -> Plain(DispatchSingle(line.items[1]))
    [] OTHER -> Refused(NullId, "parse error")

DispatchAsync(line) ==
  CASE line.form = "batch" -> Joined([i \in DOMAIN line.items |-> DispatchSingleAsync(line.items[i])])
    [] line.form = "single" -> Plain(DispatchSingleAsync(line.items[1]))
    [] OTHER -> Refused(NullId, "parse error")

(* An unauthorized line is answered under its id, where it has one.        *)
IdOf(line) ==
  IF line.form = "single" /\ IsRequest(line.items[1]) THEN line.items[1].id ELSE NullId

DispatchAuthenticated(line, credential) ==
  IF CheckAuth(credential) THEN Dispatch(line) ELSE Refused(IdOf(line), "unauthorized")

DispatchAuthenticatedAsync(line, credential) ==
  IF CheckAuth(credential) THEN DispatchAsync(line) ELSE Refused(IdOf(line), "unauthorized")

----------------------------------------------------------------------------
(* check_initialized: a single request that must wait for the handshake.   *)
TooEarly(line, initialized) ==
  /\ ~initialized
  /\ line.form = "single"
  /\ IsRequest(line.items[1])
  /\ RequestProtocolVersion(line.items[1]) = Absent
  /\ line.items[1].method # "initialize"

(* A line that starts the session, answered or not.                        *)
Initializes(line) == line.form = "single" /\ line.items[1].method = "initialize"
=============================================================================
