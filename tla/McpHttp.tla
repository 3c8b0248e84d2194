-------------------------------- MODULE McpHttp --------------------------------
(***************************************************************************)
(* The Streamable HTTP transport of src/src/mcp/http.rs, whose dispatcher  *)
(* repeats that of the stdio transport.  A response is a status, a form    *)
(* and the messages in it; a request comes with the headers the handler    *)
(* looks at.                                                               *)
(***************************************************************************)
EXTENDS McpTransport

(* "faulty" is the standard header that is missing or differs from the     *)
(* body, if one is.                                                        *)
Headers == [origin : {"none", "loopback", "foreign"}, credential : Credentials,
            faulty : {"none", "version", "method", "name"}]

ModernMethods == {"server/discover", "tools/list", "tools/call", "resources/list",
                  "resources/templates/list", "resources/read", "prompts/list", "prompts/get",
                  "subscriptions/listen"}

OriginAllowed(headers) == headers.origin \in {"none", "loopback"}

Http(status, response) == [status |-> status, form |-> response.form, items |-> response.items]

(* tools/call awaits the asynchronous handler first.                       *)
HttpToolCall(req) ==
  IF HasTool(req.name) /\ ~RefusesArguments(req.name, req.args) THEN CallToolAsync(req.name)
  ELSE Error("invalid params")

HttpTable(req) ==
  CASE req.method = "initialize" -> InitializeResponse(req.asks)
    [] req.method = "ping" -> Result("pong")
    [] req.method \in {"tools/list", "resources/list", "resources/templates/list", "prompts/list"} ->
         Result("list")
    [] req.method = "prompts/get" -> GetPrompt(req.name)
    [] req.method = "resources/read" -> ReadResource(req.name)
    [] req.method = "tools/call" -> HttpToolCall(req)
    [] OTHER -> Error("method not found")

HttpModernTable(req, modern) ==
  CASE modern \notin Supported -> Error("unsupported version")
    [] modern \in Supported /\ req.method = "server/discover" -> Shape(modern, req.method, Result("discovered"))
    [] modern \in Supported /\ req.method = "ping" -> Error("method not found")
    [] modern \in Supported /\ req.method = "subscriptions/listen" -> Closing
    [] OTHER -> Shape(modern, req.method, HttpTable(req))

(* dispatch_async: whatever has no id is not answered.  The mutants answer *)
(* it under the null id, and leave modern results as the table makes them. *)
HttpDispatchAll(req) ==
  <<Reply(IF req.id = Absent THEN NullId ELSE req.id,
          IF Era(req) = Absent THEN HttpTable(req) ELSE HttpModernTable(req, Era(req)))>>

HttpDispatchUnshaped(req) ==
  IF req.id = Absent THEN <<>>
  ELSE <<Reply(req.id, IF Era(req) \in {Absent} \cup Supported THEN HttpTable(req)
                       ELSE HttpModernTable(req, Era(req)))>>

HttpDispatch(req) ==
  IF req.id = Absent THEN <<>>
  ELSE <<Reply(req.id, IF Era(req) = Absent THEN HttpTable(req)
                       ELSE HttpModernTable(req, Era(req)))>>

DispatchAny(line) ==
  IF line.form = "batch" THEN Joined([i \in DOMAIN line.items |-> HttpDispatch(line.items[i])])
  ELSE Plain(HttpDispatch(line.items[1]))

(* validate_modern_headers: an unknown version first; then the version and *)
(* the method, and the name where the method carries one.                  *)
CarriesName(req) ==
  req.method \in {"tools/call", "prompts/get", "resources/read"} /\ req.name # Absent

HeaderMismatch(req, headers) ==
  \/ headers.faulty \in {"version", "method"}
  \/ headers.faulty = "name" /\ CarriesName(req)

SubscriptionResponse(req) == [form |-> "stream", items |-> <<Acknowledged, Reply(req.id, Closing)>>]

(* A modern request by itself: its headers, its method, its stream.        *)
HandleModern(line, req, headers) ==
  IF Era(req) \notin Supported THEN Http(400, Refused(req.id, "unsupported version"))
  ELSE IF HeaderMismatch(req, headers) THEN Http(400, Refused(req.id, "header mismatch"))
  ELSE IF req.method \notin ModernMethods THEN Http(404, Refused(req.id, "method not found"))
  ELSE IF req.method = "subscriptions/listen" THEN Http(200, SubscriptionResponse(req))
  ELSE Http(200, DispatchAny(line))

(* The JSON extractor of the web framework answers a body that is no JSON. *)
RejectedBody == Http(400, Silence)

Answered(response) == Http(IF response.form = "none" THEN 202 ELSE 200, response)

RpcHandler(line, headers) ==
  IF line.form \notin {"single", "batch"} THEN RejectedBody
  ELSE IF ~OriginAllowed(headers) THEN Http(403, Refused(IdOf(line), "forbidden"))
  ELSE IF ~CheckAuth(headers.credential) THEN Http(401, Refused(IdOf(line), "unauthorized"))
  ELSE IF line.form = "batch" THEN
    IF HasModern(line.items) THEN Http(400, Refused(NullId, "invalid request"))
    ELSE Answered(DispatchAny(line))
  ELSE IF Era(line.items[1]) # Absent /\ IsRequest(line.items[1])
    THEN HandleModern(line, line.items[1], headers)
  ELSE Answered(DispatchAny(line))
=============================================================================
