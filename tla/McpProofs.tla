------------------------------ MODULE McpProofs ------------------------------
(***************************************************************************)
(* Proofs about the front ends of the MCP server, for any tools, resources *)
(* and prompts, any handlers and versions, and lines of any length.        *)
(***************************************************************************)
EXTENDS McpSessions, DataLemmas, TLAPS

----------------------------------------------------------------------------
(* Messages.                                                               *)

IsMessage(m) ==
  m = [id |-> m.id, status |-> m.status, what |-> m.what, stamp |-> m.stamp, by |-> m.by]

(* A result is a message without stamp that nobody ran for,                 *)
LEMMA Made ==
  ASSUME NEW what
  PROVE  /\ IsMessage(Result(what)) /\ Result(what).status = "result" /\ Result(what).what = what
         /\ Result(what).stamp = "no" /\ Result(what).by = "none"
  BY DEF IsMessage, Result, Message

(* and so is an error.                                                      *)
LEMMA Failed ==
  ASSUME NEW what
  PROVE  /\ IsMessage(Error(what)) /\ Error(what).status = "error" /\ Error(what).what = what
         /\ Error(what).stamp = "no" /\ Error(what).by = "none"
  BY DEF IsMessage, Error, Message

(* A reply differs from its message in the id alone,                       *)
LEMMA Replied ==
  ASSUME NEW m, IsMessage(m), NEW id
  PROVE  /\ IsMessage(Reply(id, m)) /\ Reply(id, m).id = id /\ Reply(id, m).status = m.status
         /\ Reply(id, m).what = m.what /\ Reply(id, m).stamp = m.stamp /\ Reply(id, m).by = m.by
<1>1. \A i, s, w, st, b :
        [[id |-> i, status |-> s, what |-> w, stamp |-> st, by |-> b] EXCEPT !.id = id]
          = [id |-> id, status |-> s, what |-> w, stamp |-> st, by |-> b]
  OBVIOUS
<1> QED
  BY <1>1 DEF IsMessage, Reply

(* and shaping it for a version changes its stamp alone.                   *)
LEMMA Shaped ==
  ASSUME NEW m, IsMessage(m), NEW version, NEW method
  PROVE  LET r == Shape(version, method, m) IN
         /\ IsMessage(r) /\ r.id = m.id /\ r.status = m.status /\ r.what = m.what /\ r.by = m.by
         /\ r.stamp = IF version # Latest \/ m.status = "error" THEN m.stamp
                      ELSE IF method \in Cacheable THEN "cacheable" ELSE "complete"
<1>1. \A i, s, w, st, b, x :
        [[id |-> i, status |-> s, what |-> w, stamp |-> st, by |-> b] EXCEPT !.stamp = x]
          = [id |-> i, status |-> s, what |-> w, stamp |-> x, by |-> b]
  OBVIOUS
<1> QED
  BY <1>1 DEF IsMessage, Shape

(* Naming who ran changes that alone.                                       *)
LEMMA RanBy ==
  ASSUME NEW m, IsMessage(m), NEW by
  PROVE  LET r == [m EXCEPT !.by = by] IN
         IsMessage(r) /\ r.id = m.id /\ r.status = m.status /\ r.what = m.what /\ r.stamp = m.stamp /\ r.by = by
<1>1. \A i, s, w, st, b :
        [[id |-> i, status |-> s, what |-> w, stamp |-> st, by |-> b] EXCEPT !.by = by]
          = [id |-> i, status |-> s, what |-> w, stamp |-> st, by |-> by]
  OBVIOUS
<1> QED
  BY <1>1 DEF IsMessage

(* What the server answers is a message without a stamp.                   *)
IsPlain(m) == IsMessage(m) /\ m.stamp = "no" /\ m.status \in {"result", "error"}

(* What calling a tool gives, by either handler,                            *)
LEMMA Called ==
  ASSUME NEW t
  PROVE  /\ IsPlain(CallTool(t)) /\ IsPlain(CallToolAsync(t))
         /\ CallTool(t).status = "result" /\ CallTool(t).what \in {"content", "isError"}
         /\ CallToolAsync(t).status = "result" /\ CallToolAsync(t).what \in {"content", "isError"}
<1>1. ASSUME NEW by PROVE IsPlain(Content(t, by)) /\ Content(t, by).status = "result"
                          /\ Content(t, by).what \in {"content", "isError"}
  BY Made, RanBy DEF Content, IsPlain
<1>2. IsPlain(Result("isError")) /\ Result("isError").status = "result" /\ Result("isError").what = "isError"
  BY Made DEF IsPlain
<1> QED
  BY <1>1, <1>2 DEF CallTool, CallToolAsync

(* and what reading a resource or rendering a prompt gives.                 *)
LEMMA HandledPlain ==
  ASSUME NEW name, NEW handlers, NEW what
  PROVE  /\ IsPlain(Handled(name, handlers, what))
         /\ Handled(name, handlers, what).status = "result" => Handled(name, handlers, what).what = what
<1>1. CASE name \notin handlers
  BY <1>1, Failed DEF Handled, IsPlain
<1>2. CASE name \in handlers /\ name \in Failing
  <2>1. PICK text : Handled(name, handlers, what) = [Error(text) EXCEPT !.by = "sync"]
    BY <1>2 DEF Handled
  <2>2. IsPlain(Error(text)) /\ Error(text).status = "error"
    BY Failed DEF IsPlain
  <2>3. IsPlain(Handled(name, handlers, what)) /\ Handled(name, handlers, what).status = "error"
    BY <2>1, <2>2, RanBy DEF IsPlain
  <2> QED
    BY <2>3
<1>3. CASE name \in handlers /\ name \notin Failing
  <2>1. Handled(name, handlers, what) = [Result(what) EXCEPT !.by = "sync"]
    BY <1>3 DEF Handled
  <2> QED
    BY <2>1, Made, RanBy DEF IsPlain
<1> QED
  BY <1>1, <1>2, <1>3

----------------------------------------------------------------------------
(* What a request is answered with.                                        *)

ToolsTyped == sync \subseteq Tools /\ async \subseteq Tools

(* A handler runs for the request it answers, if that may run one.         *)
RunsFor(m, req) ==
  m.by # "none" =>
    /\ m.id = req.id
    /\ req.method \in {"tools/call", "resources/read", "prompts/get"}
    /\ req.method = "tools/call" =>
         /\ schema[req.name] = "required" => req.args = "complete"
         /\ schema[req.name] = "object" => req.args # "scalar"

(* A result has the fields of the era of its request.                      *)
InEra(m, req) ==
  m.status = "result" =>
    /\ Era(req) = Latest => m.stamp # "no"
    /\ m.stamp # "no" => Era(req) = Latest \/ m.what = "closed"
    /\ m.stamp = "cacheable" => req.method \in Cacheable
    /\ req.method = "initialize" => m.what \in Range(Legacy)
    /\ m.what \in {"discovered", "closed"} => Era(req) \in Supported

Fitting(m, req) == IsMessage(m) /\ RunsFor(m, req) /\ InEra(m, req)

(* An error that no handler produced fits any request.                     *)
Inert(m) == IsMessage(m) /\ m.status # "result" /\ m.by = "none"

(* A message that ran nothing and reports no result fits any request,       *)
LEMMA InertFits == ASSUME NEW m, Inert(m), NEW req PROVE Fitting(m, req)
  BY DEF Inert, Fitting, RunsFor, InEra

(* and every error is one.                                                  *)
LEMMA InertErrors == ASSUME NEW what, NEW id PROVE Inert(Reply(id, Error(what)))
  BY Failed, Replied DEF Inert

(* A handshake hands out a legacy version, whatever is asked for.           *)
LEMMA Negotiates == ASSUME NEW asks PROVE Negotiated(asks) \in Range(Legacy)
<1>1. 1 \in DOMAIN Legacy
  BY ServerAssumption
<1> QED
  BY <1>1 DEF Negotiated, Range

(* The methods that the legacy and the modern era share.                   *)
SharedTable(r, req) ==
  /\ IsPlain(r)
  /\ r.by # "none" => req.method \in {"resources/read", "prompts/get"}
  /\ r.status = "result" => /\ req.method = "initialize" => r.what \in Range(Legacy)
                            /\ r.what \notin {"discovered", "closed"}

(* The table of the stdio dispatchers answers as the one of HTTP.           *)
LEMMA HandleShared == ASSUME NEW req PROVE SharedTable(Handle(req), req)
<1>1. CASE req.method = "initialize"
  <2>1. Handle(req) = Result(Negotiated(req.asks))
    BY <1>1 DEF Handle, InitializeResponse
  <2>2. Negotiated(req.asks) \in Range(Legacy) /\ Negotiated(req.asks) \notin {"discovered", "closed"}
    BY Negotiates, ServerAssumption
  <2> QED
    BY <1>1, <2>1, <2>2, Made DEF SharedTable, IsPlain
<1>2. CASE req.method = "ping"
  <2>1. Handle(req) = Result("pong")
    BY <1>2 DEF Handle
  <2> QED
    BY <1>2, <2>1, Made DEF SharedTable, IsPlain
<1>3. CASE req.method \in {"tools/list", "resources/list", "resources/templates/list", "prompts/list"}
  <2>1. Handle(req) = Result("list")
    BY <1>3 DEF Handle
  <2> QED
    BY <1>3, <2>1, Made DEF SharedTable, IsPlain
<1>4. CASE req.method = "prompts/get"
  <2>1. Handle(req) = Handled(req.name, renderable, "messages")
    BY <1>4 DEF Handle, HandlePromptGet, GetPrompt
  <2> QED
    BY <1>4, <2>1, HandledPlain DEF SharedTable
<1>5. CASE req.method = "resources/read"
  <2>1. Handle(req) = Handled(req.name, readable, "contents")
    BY <1>5 DEF Handle, HandleResourceRead, ReadResource
  <2> QED
    BY <1>5, <2>1, HandledPlain DEF SharedTable
<1>6. CASE req.method \notin {"initialize", "ping", "tools/list", "resources/list", "resources/templates/list",
                              "prompts/list", "prompts/get", "resources/read"}
  <2>1. PICK text : Handle(req) = Error(text)
    BY <1>6 DEF Handle
  <2>2. IsMessage(Handle(req)) /\ Handle(req).stamp = "no" /\ Handle(req).status = "error" /\ Handle(req).by = "none"
    BY <2>1, Failed
  <2> QED
    BY <2>2 DEF SharedTable, IsPlain
<1> QED
  BY <1>1, <1>2, <1>3, <1>4, <1>5, <1>6

(* A tool runs only with arguments that its description accepts.           *)
LEMMA ToolCallFits ==
  ASSUME ToolsTyped, NEW req, req.method = "tools/call",
         NEW outcome, IsPlain(outcome), outcome.status = "result", outcome.what \in {"content", "isError"}
  PROVE  Fitting(Reply(req.id, HandleToolCall(req, Era(req), outcome)), req)
<1> DEFINE r == HandleToolCall(req, Era(req), outcome)
<1>1. CASE ~HasTool(req.name) \/ RefusesArguments(req.name, req.args)
  <2>1. r = Error("invalid params")
    BY <1>1 DEF HandleToolCall
  <2> QED
    BY <2>1, InertErrors, InertFits
<1>2. CASE HasTool(req.name) /\ ~RefusesArguments(req.name, req.args)
  <2>1. r = Shape(Era(req), "tools/call", outcome)
    BY <1>2 DEF HandleToolCall
  <2>2. /\ IsMessage(r) /\ r.status = "result" /\ r.what \in {"content", "isError"}
        /\ r.stamp = IF Era(req) # Latest THEN "no" ELSE "complete"
    <3>1. "tools/call" \notin Cacheable
      BY DEF Cacheable
    <3> QED
      BY <2>1, <3>1, Shaped DEF IsPlain
  <2>3. /\ schema[req.name] = "required" => req.args = "complete"
        /\ schema[req.name] = "object" => req.args # "scalar"
    BY <1>2 DEF HasTool, RefusesArguments, ToolsTyped
  <2> HIDE DEF r
  <2> DEFINE m == Reply(req.id, r)
  <2>4. /\ IsMessage(m) /\ m.id = req.id /\ m.status = "result" /\ m.what \in {"content", "isError"}
        /\ m.stamp = IF Era(req) # Latest THEN "no" ELSE "complete"
    BY <2>2, Replied
  <2> HIDE DEF m
  <2>5. RunsFor(m, req)
    BY <2>3, <2>4 DEF RunsFor
  <2>6. InEra(m, req)
    BY <2>4 DEF InEra
  <2>7. Fitting(m, req)
    BY <2>4, <2>5, <2>6 DEF Fitting
  <2> QED
    BY <2>7 DEF m, r
<1> QED
  BY <1>1, <1>2

(* A modern answer of the shared table is shaped, a legacy one is not.     *)
LEMMA SharedFits ==
  ASSUME NEW req, NEW r, SharedTable(r, req), req.method # "tools/call",
         Era(req) \in {Absent} \cup Supported
  PROVE  Fitting(Reply(req.id, Shape(Era(req), req.method, r)), req)
<1> DEFINE sh == Shape(Era(req), req.method, r)
<1>1. /\ IsMessage(sh) /\ sh.status = r.status /\ sh.what = r.what /\ sh.by = r.by
      /\ sh.stamp = IF Era(req) # Latest \/ r.status = "error" THEN r.stamp
                    ELSE IF req.method \in Cacheable THEN "cacheable" ELSE "complete"
  BY Shaped DEF SharedTable, IsPlain
<1> HIDE DEF sh
<1> DEFINE m == Reply(req.id, sh)
<1>2. /\ IsMessage(m) /\ m.id = req.id /\ m.status = r.status /\ m.what = r.what /\ m.by = r.by
      /\ m.stamp = IF Era(req) # Latest \/ r.status = "error" THEN "no"
                   ELSE IF req.method \in Cacheable THEN "cacheable" ELSE "complete"
  BY <1>1, Replied DEF SharedTable, IsPlain
<1> HIDE DEF m
<1>3. RunsFor(m, req)
  BY <1>2 DEF RunsFor, SharedTable
<1>4. InEra(m, req)
  BY <1>2 DEF InEra, SharedTable
<1>5. Fitting(m, req)
  BY <1>2, <1>3, <1>4 DEF Fitting
<1> QED
  BY <1>5 DEF m, sh

(* A legacy answer is left as it is.                                        *)
LEMMA LegacyUnshaped ==
  ASSUME NEW method, NEW r PROVE Shape(Absent, method, r) = r
  BY ServerAssumption DEF Shape

(* A subscription that closes at once.                                     *)
LEMMA ClosingFits ==
  ASSUME NEW req, Era(req) \in Supported, req.method = "subscriptions/listen"
  PROVE  Inert(Acknowledged) /\ Fitting(Reply(req.id, Closing), req)
<1>1. Inert(Acknowledged)
  BY DEF Inert, Acknowledged, Message, IsMessage
<1>2. IsMessage(Closing) /\ Closing.by = "none" /\ Closing.what = "closed" /\ Closing.stamp = "complete"
  BY Made, Shaped DEF Closing, Cacheable
<1>3. Fitting(Reply(req.id, Closing), req)
  BY <1>2, Replied DEF Fitting, RunsFor, InEra
<1> QED
  BY <1>1, <1>3

----------------------------------------------------------------------------
(* The dispatchers.                                                        *)

FitsAll(answer, req) ==
  answer \in Seq(Range(answer)) /\ \A i \in DOMAIN answer : Fitting(answer[i], req)

(* No answer fits,                                                          *)
LEMMA NoneFits == ASSUME NEW req PROVE FitsAll(<<>>, req)
  BY DEF FitsAll

(* and one that fits,                                                       *)
LEMMA OneFits == ASSUME NEW req, NEW m, Fitting(m, req) PROVE FitsAll(<<m>>, req)
  BY DEF FitsAll, Range

(* and two that do.                                                         *)
LEMMA TwoFit ==
  ASSUME NEW req, NEW m, NEW l, Fitting(m, req), Fitting(l, req) PROVE FitsAll(<<m, l>>, req)
<1> DEFINE pair == <<m, l>>
<1>1. pair \in Seq({m, l}) /\ DOMAIN pair = {1, 2} /\ pair[1] = m /\ pair[2] = l
  OBVIOUS
<1>2. Range(pair) = {m, l}
  BY <1>1 DEF Range
<1> QED
  BY <1>1, <1>2 DEF FitsAll

(* Who calls a tool sends an object, and its version is what its members    *)
(* say.                                                                     *)
LEMMA ToolOnly ==
  ASSUME NEW req, IsValue(req), req.method = "tools/call"
  PROVE  req.kind = "object" /\ Era(req) = req.meta
<1>1. \A kind : Value(kind, Absent, "", Absent).method = ""
  BY DEF Value
<1> QED
  BY <1>1 DEF IsValue, Era, RequestProtocolVersion

(* What the synchronous dispatcher answers fits the request.               *)
LEMMA SyncFits ==
  ASSUME ToolsTyped, NEW req, IsValue(req) PROVE FitsAll(DispatchSingle(req), req)
<1> DEFINE answer == DispatchSingle(req)
<1>1. CASE req.kind # "object"
  <2>1. PICK text : answer = <<Reply(NullId, Error(text))>>
    BY <1>1 DEF DispatchSingle
  <2> HIDE DEF answer
  <2> QED
    BY <2>1, InertErrors, InertFits, OneFits DEF answer
<1>2. CASE req.kind = "object" /\ req.id = Absent
  BY <1>2, NoneFits DEF DispatchSingle
<1>3. CASE req.kind = "object" /\ req.id # Absent /\ Era(req) = Absent
  <2>1. answer = AnswerLegacy(req)
    BY <1>3 DEF DispatchSingle
  <2>2. CASE req.method = "tools/call"
    <3>1. answer = <<Reply(req.id, HandleToolCall(req, Era(req), CallTool(req.name)))>>
      BY <1>3, <2>1, <2>2 DEF AnswerLegacy
    <3>2. Fitting(Reply(req.id, HandleToolCall(req, Era(req), CallTool(req.name))), req)
      BY <2>2, ToolCallFits, Called
    <3> QED
      BY <3>1, <3>2, OneFits
  <2>3. CASE req.method # "tools/call"
    <3>1. answer = <<Reply(req.id, Shape(Era(req), req.method, Handle(req)))>>
      BY <1>3, <2>1, <2>3, LegacyUnshaped DEF AnswerLegacy
    <3>2. Fitting(Reply(req.id, Shape(Era(req), req.method, Handle(req))), req)
      BY <1>3, <2>3, HandleShared, SharedFits
    <3> QED
      BY <3>1, <3>2, OneFits
  <2> QED
    BY <2>2, <2>3
<1>4. CASE req.kind = "object" /\ req.id # Absent /\ Era(req) # Absent /\ Era(req) \notin Supported
  <2>1. PICK text : answer = <<Reply(req.id, Error(text))>>
    BY <1>4 DEF DispatchSingle, Unsupported
  <2> HIDE DEF answer
  <2> QED
    BY <2>1, InertErrors, InertFits, OneFits DEF answer
<1>5. CASE req.kind = "object" /\ req.id # Absent /\ Era(req) # Absent /\ Era(req) \in Supported
  <2>1. answer = AnswerModern(req, Era(req))
    BY <1>5 DEF DispatchSingle
  <2>2. CASE req.method = "server/discover"
    <3>1. answer = <<Reply(req.id, Shape(Era(req), req.method, Result("discovered")))>>
      BY <2>1, <2>2 DEF AnswerModern
    <3> DEFINE r == Shape(Era(req), req.method, Result("discovered"))
    <3>2. /\ IsMessage(r) /\ r.status = "result" /\ r.what = "discovered" /\ r.by = "none"
          /\ r.stamp = IF Era(req) # Latest THEN "no" ELSE "cacheable"
      BY <2>2, Made, Shaped DEF Cacheable
    <3> HIDE DEF r
    <3>3. Fitting(Reply(req.id, r), req)
      BY <1>5, <2>2, <3>2, Replied DEF Fitting, RunsFor, InEra, Cacheable
    <3> QED
      BY <3>1, <3>3, OneFits DEF r
  <2>3. CASE req.method = "subscriptions/listen"
    <3>1. answer = <<Acknowledged, Reply(req.id, Closing)>>
      BY <2>1, <2>3 DEF AnswerModern, SubscriptionClose
    <3> QED
      BY <1>5, <2>3, <3>1, ClosingFits, InertFits, TwoFit
  <2>4. CASE req.method = "ping"
    <3>1. PICK text : answer = <<Reply(req.id, Error(text))>>
      BY <2>1, <2>4 DEF AnswerModern
    <3> HIDE DEF answer
    <3> QED
      BY <3>1, InertErrors, InertFits, OneFits DEF answer
  <2>5. CASE req.method = "tools/call"
    <3>1. answer = <<Reply(req.id, HandleToolCall(req, Era(req), CallTool(req.name)))>>
      BY <2>1, <2>5 DEF AnswerModern
    <3>2. Fitting(Reply(req.id, HandleToolCall(req, Era(req), CallTool(req.name))), req)
      BY <2>5, ToolCallFits, Called
    <3> QED
      BY <3>1, <3>2, OneFits
  <2>6. CASE req.method \notin {"server/discover", "subscriptions/listen", "ping", "tools/call"}
    <3>1. answer = <<Reply(req.id, Shape(Era(req), req.method, Handle(req)))>>
      BY <2>1, <2>6 DEF AnswerModern
    <3>2. Fitting(Reply(req.id, Shape(Era(req), req.method, Handle(req))), req)
      BY <1>5, <2>6, HandleShared, SharedFits
    <3> QED
      BY <3>1, <3>2, OneFits
  <2> QED
    BY <2>2, <2>3, <2>4, <2>5, <2>6
<1> QED
  BY <1>1, <1>2, <1>3, <1>4, <1>5

(* So does what the asynchronous one answers,                              *)
LEMMA AsyncFits ==
  ASSUME ToolsTyped, NEW req, IsValue(req) PROVE FitsAll(DispatchSingleAsync(req), req)
<1>1. CASE req.method # "tools/call"
  BY <1>1, SyncFits DEF DispatchSingleAsync
<1>2. CASE req.method = "tools/call" /\ req.id = Absent
  BY <1>2, NoneFits DEF DispatchSingleAsync
<1>3. CASE req.method = "tools/call" /\ req.id # Absent /\ req.meta # Absent /\ req.meta \notin Supported
  <2>1. PICK text : DispatchSingleAsync(req) = <<Reply(req.id, Error(text))>>
    BY <1>3 DEF DispatchSingleAsync, Unsupported
  <2> QED
    BY <2>1, InertErrors, InertFits, OneFits
<1>4. CASE req.method = "tools/call" /\ req.id # Absent /\ ~(req.meta # Absent /\ req.meta \notin Supported)
  <2>1. DispatchSingleAsync(req) = <<Reply(req.id, HandleToolCall(req, Era(req), CallToolAsync(req.name)))>>
    BY <1>4, ToolOnly DEF DispatchSingleAsync
  <2>2. Fitting(Reply(req.id, HandleToolCall(req, Era(req), CallToolAsync(req.name))), req)
    BY <1>4, ToolCallFits, Called
  <2> QED
    BY <2>1, <2>2, OneFits
<1> QED
  BY <1>1, <1>2, <1>3, <1>4

(* which is the same, except where it can call what the other cannot.      *)
LEMMA AsyncAgrees ==
  ASSUME NEW req, IsValue(req), ~(req.method = "tools/call" /\ req.name \in async)
  PROVE  DispatchSingleAsync(req) = DispatchSingle(req)
<1>1. CASE req.method # "tools/call"
  BY <1>1 DEF DispatchSingleAsync
<1>2. CASE req.method = "tools/call"
  <2>1. CallToolAsync(req.name) = CallTool(req.name)
    BY <1>2 DEF CallTool, CallToolAsync
  <2>2. req.kind = "object" /\ Era(req) = req.meta
    BY <1>2, ToolOnly
  <2>3. AnswerModern(req, Era(req)) = <<Reply(req.id, HandleToolCall(req, Era(req), CallTool(req.name)))>>
    BY <1>2 DEF AnswerModern
  <2>4. Era(req) = Absent => AnswerLegacy(req) = <<Reply(req.id, HandleToolCall(req, Era(req), CallTool(req.name)))>>
    BY <1>2 DEF AnswerLegacy
  <2> QED
    BY <1>2, <2>1, <2>2, <2>3, <2>4 DEF DispatchSingle, DispatchSingleAsync
<1> QED
  BY <1>1, <1>2

(* HTTP has the table of the other transports,                             *)
LEMMA HttpTableShared ==
  ASSUME NEW req, req.method # "tools/call" PROVE HttpTable(req) = Handle(req)
<1>1. CASE req.method = "initialize"
  BY <1>1 DEF HttpTable, Handle
<1>2. CASE req.method = "ping"
  BY <1>2 DEF HttpTable, Handle
<1>3. CASE req.method \in {"tools/list", "resources/list", "resources/templates/list", "prompts/list"}
  BY <1>3 DEF HttpTable, Handle
<1>4. CASE req.method = "prompts/get"
  BY <1>4 DEF HttpTable, Handle, HandlePromptGet
<1>5. CASE req.method = "resources/read"
  BY <1>5 DEF HttpTable, Handle, HandleResourceRead
<1>6. CASE req.method \notin {"initialize", "ping", "tools/list", "resources/list", "resources/templates/list",
                              "prompts/list", "prompts/get", "resources/read"}
  BY <1>6 DEF HttpTable, Handle
<1> QED
  BY <1>1, <1>2, <1>3, <1>4, <1>5, <1>6

(* and calls tools as the asynchronous dispatcher does.                    *)
LEMMA HttpToolShared ==
  ASSUME NEW req, NEW modern, req.method = "tools/call"
  PROVE  Shape(modern, req.method, HttpTable(req)) = HandleToolCall(req, modern, CallToolAsync(req.name))
<1>0. HttpTable(req) = HttpToolCall(req)
  BY DEF HttpTable
<1>1. CASE HasTool(req.name) /\ ~RefusesArguments(req.name, req.args)
  BY <1>0, <1>1 DEF HttpToolCall, HandleToolCall
<1>2. CASE ~HasTool(req.name) \/ RefusesArguments(req.name, req.args)
  <2>1. PICK text : HttpToolCall(req) = Error(text) /\ HandleToolCall(req, modern, CallToolAsync(req.name)) = Error(text)
    BY <1>2 DEF HttpToolCall, HandleToolCall
  <2>2. Error(text).status = "error"
    BY Failed
  <2> QED
    BY <1>0, <2>1, <2>2 DEF Shape
<1> QED
  BY <1>1, <1>2

(* HTTP answers an object, legacy or of a supported version, as the         *)
(* asynchronous dispatcher: a stream apart, which it handles elsewhere.     *)
LEMMA HttpAgrees ==
  ASSUME NEW req, IsValue(req), req.kind = "object", Era(req) \in {Absent} \cup Supported,
         Era(req) # Absent => req.method # "subscriptions/listen"
  PROVE  HttpDispatch(req) = DispatchSingleAsync(req)
<1>1. CASE req.id = Absent
  BY <1>1 DEF HttpDispatch, DispatchSingleAsync, DispatchSingle
<1>2. CASE req.id # Absent /\ Era(req) = Absent
  <2>1. HttpDispatch(req) = <<Reply(req.id, HttpTable(req))>>
    BY <1>2 DEF HttpDispatch
  <2>2. CASE req.method = "tools/call"
    <3>1. HttpTable(req) = HandleToolCall(req, Absent, CallToolAsync(req.name))
      BY <2>2, HttpToolShared, LegacyUnshaped
    <3>2. req.meta = Absent
      BY <1>2, <2>2, ToolOnly
    <3> QED
      BY <1>2, <2>1, <2>2, <3>1, <3>2 DEF DispatchSingleAsync
  <2>3. CASE req.method # "tools/call"
    BY <1>2, <2>1, <2>3, HttpTableShared DEF DispatchSingleAsync, DispatchSingle, AnswerLegacy
  <2> QED
    BY <2>2, <2>3
<1>3. CASE req.id # Absent /\ Era(req) # Absent
  <2>1. HttpDispatch(req) = <<Reply(req.id, HttpModernTable(req, Era(req)))>> /\ Era(req) \in Supported
    BY <1>3 DEF HttpDispatch
  <2>2. CASE req.method = "tools/call"
    <3>1. HttpModernTable(req, Era(req)) = HandleToolCall(req, Era(req), CallToolAsync(req.name))
      BY <2>1, <2>2, HttpToolShared DEF HttpModernTable
    <3>2. req.meta = Era(req)
      BY <2>2, ToolOnly
    <3> QED
      BY <1>3, <2>1, <2>2, <3>1, <3>2 DEF DispatchSingleAsync
  <2>3. CASE req.method # "tools/call"
    <3>1. DispatchSingleAsync(req) = AnswerModern(req, Era(req))
      BY <1>3, <2>1, <2>3 DEF DispatchSingleAsync, DispatchSingle
    <3>2. CASE req.method = "server/discover"
      BY <2>1, <3>1, <3>2 DEF AnswerModern, HttpModernTable
    <3>3. CASE req.method = "ping"
      BY <2>1, <3>1, <3>3 DEF AnswerModern, HttpModernTable
    <3>4. CASE req.method \notin {"server/discover", "ping"}
      <4>1. HttpModernTable(req, Era(req)) = Shape(Era(req), req.method, HttpTable(req))
        BY <1>3, <2>1, <3>4 DEF HttpModernTable
      <4>2. AnswerModern(req, Era(req)) = <<Reply(req.id, Shape(Era(req), req.method, Handle(req)))>>
        BY <1>3, <2>3, <3>4 DEF AnswerModern
      <4> QED
        BY <2>1, <2>3, <3>1, <4>1, <4>2, HttpTableShared
    <3> QED
      BY <3>2, <3>3, <3>4
  <2> QED
    BY <2>2, <2>3
<1> QED
  BY <1>2, <1>3, <1>1

----------------------------------------------------------------------------
(* Responses to a line.                                                    *)

ResponseFits(r, l) ==
  \A i \in DOMAIN r.items : Inert(r.items[i]) \/ \E k \in DOMAIN l.items : Fitting(r.items[i], l.items[k])

(* Silence fits a line,                                                     *)
LEMMA SilenceFits == ASSUME NEW l PROVE ResponseFits(Silence, l)
  BY DEF ResponseFits, Silence

(* a refusal of the line as a whole fits it and runs nothing,               *)
LEMMA RefusalFits ==
  ASSUME NEW l, NEW id, NEW what
  PROVE  ResponseFits(Refused(id, what), l) /\ \A i \in DOMAIN Refused(id, what).items : Inert(Refused(id, what).items[i])
<1> DEFINE m == Reply(id, Error(what))
<1>1. Inert(m)
  BY InertErrors
<1>2. Refused(id, what).items = <<m>>
  BY DEF Refused, Single
<1> HIDE DEF m
<1> QED
  BY <1>1, <1>2 DEF ResponseFits

(* and so does an answer that fits one of its values.                       *)
LEMMA PlainFits ==
  ASSUME NEW l, NEW k \in DOMAIN l.items, NEW answer, FitsAll(answer, l.items[k])
  PROVE  ResponseFits(Plain(answer), l)
  BY SilenceFits DEF Plain, FitsAll, ResponseFits

(* The answers of a batch, put one after another, answer its requests.     *)
LEMMA JoinedFits ==
  ASSUME NEW l, IsLine(l), NEW answers, DOMAIN answers = DOMAIN l.items,
         answers = [i \in DOMAIN answers |-> answers[i]],
         \A i \in DOMAIN answers : FitsAll(answers[i], l.items[i])
  PROVE  ResponseFits(Joined(answers), l)
<1>1. PICK S : S = UNION {Range(answers[i]) : i \in DOMAIN answers}
  OBVIOUS
<1>2. answers \in Seq(Seq(S))
  <2>1. DOMAIN answers = 1..Len(l.items) /\ Len(l.items) \in Nat
    BY DEF IsLine
  <2>2. ASSUME NEW i \in DOMAIN answers PROVE answers[i] \in Seq(S)
    <3>1. answers[i] \in Seq(Range(answers[i])) /\ Range(answers[i]) \subseteq S
      BY <1>1 DEF FitsAll
    <3> QED
      BY <3>1
  <2> QED
    BY <2>1, <2>2
<1>3. /\ FlattenSeq(answers) \in Seq(S)
      /\ \A m \in Range(FlattenSeq(answers)) : \E i \in DOMAIN answers : m \in Range(answers[i])
  BY <1>2, FlattenedElements
<1>4. ASSUME NEW m \in Range(FlattenSeq(answers)) PROVE \E k \in DOMAIN l.items : Fitting(m, l.items[k])
  <2>1. PICK i \in DOMAIN answers : m \in Range(answers[i])
    BY <1>3
  <2>2. PICK j \in DOMAIN answers[i] : m = answers[i][j]
    BY <2>1 DEF Range
  <2> QED
    BY <2>2 DEF FitsAll
<1>5. Joined(answers).items \in {FlattenSeq(answers), <<>>}
  BY DEF Joined, Silence
<1> QED
  BY <1>4, <1>5 DEF ResponseFits, Range

(* A line that is no batch has one value.                                   *)
LEMMA TheValue ==
  ASSUME NEW l, IsLine(l), l.form = "single"
  PROVE  DOMAIN l.items = {1} /\ 1 \in DOMAIN l.items /\ IsValue(l.items[1])
<1>1. DOMAIN l.items = 1..1
  BY DEF IsLine
<1> QED
  BY <1>1 DEF IsLine

(* What the synchronous dispatcher answers fits the line,                   *)
LEMMA DispatchFits ==
  ASSUME ToolsTyped, NEW l, IsLine(l) PROVE ResponseFits(Dispatch(l), l)
<1>1. CASE l.form = "single"
  BY <1>1, TheValue, SyncFits, PlainFits DEF Dispatch
<1>2. CASE l.form = "batch" /\ HasModern(l.items)
  <2>1. PICK text : Dispatch(l) = Refused(NullId, text)
    BY <1>2 DEF Dispatch
  <2> QED
    BY <2>1, RefusalFits
<1>3. CASE l.form = "batch" /\ ~HasModern(l.items)
  <2> DEFINE answers == [i \in DOMAIN l.items |-> DispatchSingle(l.items[i])]
  <2>1. Dispatch(l) = Joined(answers)
    BY <1>3 DEF Dispatch
  <2>2. \A i \in DOMAIN answers : FitsAll(answers[i], l.items[i])
    BY SyncFits DEF IsLine
  <2>3. DOMAIN answers = DOMAIN l.items /\ answers = [i \in DOMAIN answers |-> answers[i]]
    OBVIOUS
  <2> HIDE DEF answers
  <2> QED
    BY <2>1, <2>2, <2>3, JoinedFits
<1>4. CASE l.form \notin {"single", "batch"}
  <2>1. PICK text : Dispatch(l) = Refused(NullId, text)
    BY <1>4 DEF Dispatch
  <2> QED
    BY <2>1, RefusalFits
<1> QED
  BY <1>1, <1>2, <1>3, <1>4

(* and what the asynchronous one does.                                      *)
LEMMA DispatchAsyncFits ==
  ASSUME ToolsTyped, NEW l, IsLine(l) PROVE ResponseFits(DispatchAsync(l), l)
<1>1. CASE l.form = "single"
  BY <1>1, TheValue, AsyncFits, PlainFits DEF DispatchAsync
<1>2. CASE l.form = "batch"
  <2> DEFINE answers == [i \in DOMAIN l.items |-> DispatchSingleAsync(l.items[i])]
  <2>1. DispatchAsync(l) = Joined(answers)
    BY <1>2 DEF DispatchAsync
  <2>2. \A i \in DOMAIN answers : FitsAll(answers[i], l.items[i])
    BY AsyncFits DEF IsLine
  <2>3. DOMAIN answers = DOMAIN l.items /\ answers = [i \in DOMAIN answers |-> answers[i]]
    OBVIOUS
  <2> HIDE DEF answers
  <2> QED
    BY <2>1, <2>2, <2>3, JoinedFits
<1>3. CASE l.form \notin {"single", "batch"}
  <2>1. PICK text : DispatchAsync(l) = Refused(NullId, text)
    BY <1>3 DEF DispatchAsync
  <2> QED
    BY <2>1, RefusalFits
<1> QED
  BY <1>1, <1>2, <1>3

(* HTTP dispatches a line when no header keeps it from it, and a modern    *)
(* one has nothing to stream.                                              *)
LEMMA HttpFits ==
  ASSUME ToolsTyped, NEW req, IsValue(req), Era(req) \in {Absent} \cup Supported,
         Era(req) # Absent => req.method # "subscriptions/listen"
  PROVE  FitsAll(HttpDispatch(req), req)
<1>1. CASE req.kind = "object"
  BY <1>1, HttpAgrees, AsyncFits
<1>2. CASE req.kind # "object"
  <2>1. \A kind : Value(kind, Absent, "", Absent).id = Absent
    BY DEF Value
  <2>2. req.id = Absent
    BY <1>2, <2>1 DEF IsValue
  <2> QED
    BY <2>2, NoneFits DEF HttpDispatch
<1> QED
  BY <1>1, <1>2

(* The parts of an HTTP response.                                           *)
LEMMA HttpMade ==
  ASSUME NEW status, NEW r
  PROVE  Http(status, r).items = r.items /\ Http(status, r).status = status /\ Http(status, r).form = r.form
  BY DEF Http

(* What the dispatcher of HTTP answers to what it is given fits the line.   *)
LEMMA DispatchAnyFits ==
  ASSUME ToolsTyped, NEW l, IsLine(l), l.form \in {"single", "batch"},
         l.form = "batch" => ~HasModern(l.items),
         l.form = "single" => \/ Era(l.items[1]) \in {Absent} \cup Supported /\ l.items[1].method # "subscriptions/listen"
                              \/ Era(l.items[1]) = Absent \/ ~IsRequest(l.items[1])
  PROVE  ResponseFits(DispatchAny(l), l) /\ (DispatchAny(l).form = "none" => DispatchAny(l).items = <<>>)
<1>1. CASE l.form = "single"
  <2>1. DispatchAny(l) = Plain(HttpDispatch(l.items[1]))
    BY <1>1 DEF DispatchAny
  <2>2. FitsAll(HttpDispatch(l.items[1]), l.items[1])
    <3>1. CASE IsRequest(l.items[1])
      BY <1>1, <3>1, TheValue, HttpFits
    <3>2. CASE ~IsRequest(l.items[1])
      <4>1. \A kind : Value(kind, Absent, "", Absent).id = Absent
        BY DEF Value
      <4>2. l.items[1].id = Absent
        BY <1>1, <3>2, <4>1, TheValue DEF IsValue, IsRequest
      <4> QED
        BY <4>2, NoneFits DEF HttpDispatch
    <3> QED
      BY <3>1, <3>2
  <2>3. ResponseFits(DispatchAny(l), l)
    BY <1>1, <2>1, <2>2, TheValue, PlainFits
  <2> QED
    BY <2>1, <2>3 DEF Plain, Silence
<1>2. CASE l.form = "batch"
  <2> DEFINE answers == [i \in DOMAIN l.items |-> HttpDispatch(l.items[i])]
  <2>1. DispatchAny(l) = Joined(answers)
    BY <1>2 DEF DispatchAny
  <2>2. ASSUME NEW i \in DOMAIN l.items PROVE FitsAll(HttpDispatch(l.items[i]), l.items[i])
    <3>1. IsValue(l.items[i]) /\ Era(l.items[i]) = Absent
      BY <1>2 DEF IsLine, HasModern, Era
    <3> QED
      BY <3>1, HttpFits
  <2>3. /\ DOMAIN answers = DOMAIN l.items /\ answers = [i \in DOMAIN answers |-> answers[i]]
        /\ \A i \in DOMAIN answers : FitsAll(answers[i], l.items[i])
    BY <2>2
  <2> HIDE DEF answers
  <2>4. ResponseFits(DispatchAny(l), l)
    BY <2>1, <2>3, JoinedFits
  <2> QED
    BY <2>1, <2>4 DEF Joined, Silence
<1> QED
  BY <1>1, <1>2

(* What HTTP answers fits the line; and it runs a handler only for a       *)
(* caller from here with the right credential, and answers with 200.       *)
Guarded(r, h) ==
  \/ OriginAllowed(h) /\ CheckAuth(h.credential) /\ r.status = 200
  \/ \A i \in DOMAIN r.items : Inert(r.items[i])

(* A response that is sent as it is came from an allowed caller,            *)
LEMMA AnsweredGuarded ==
  ASSUME NEW l, NEW h, NEW r, ResponseFits(r, l), r.form = "none" => r.items = <<>>,
         OriginAllowed(h), CheckAuth(h.credential)
  PROVE  ResponseFits(Answered(r), l) /\ Guarded(Answered(r), h)
<1>1. CASE r.form = "none"
  <2>1. Answered(r) = Http(202, r)
    BY <1>1 DEF Answered
  <2>2. Answered(r).items = <<>>
    BY <1>1, <2>1, HttpMade
  <2> QED
    BY <2>2 DEF ResponseFits, Guarded
<1>2. CASE r.form # "none"
  <2>1. Answered(r) = Http(200, r)
    BY <1>2 DEF Answered
  <2>2. Answered(r).items = r.items /\ Answered(r).status = 200
    BY <2>1, HttpMade
  <2> QED
    BY <2>2 DEF ResponseFits, Guarded
<1> QED
  BY <1>1, <1>2

(* one that refuses ran nothing,                                            *)
LEMMA RefusedGuarded ==
  ASSUME NEW l, NEW h, NEW status, NEW id, NEW what
  PROVE  LET r == Http(status, Refused(id, what)) IN ResponseFits(r, l) /\ Guarded(r, h)
<1>1. /\ ResponseFits(Refused(id, what), l)
      /\ \A i \in DOMAIN Refused(id, what).items : Inert(Refused(id, what).items[i])
  BY RefusalFits
<1>2. Http(status, Refused(id, what)).items = Refused(id, what).items
  BY HttpMade
<1> QED
  BY <1>1, <1>2 DEF ResponseFits, Guarded

(* and so the handler of HTTP fits and is guarded, whatever it is sent.     *)
LEMMA RpcFits ==
  ASSUME ToolsTyped, NEW l, IsLine(l), NEW h
  PROVE  ResponseFits(RpcHandler(l, h), l) /\ Guarded(RpcHandler(l, h), h)
<1> DEFINE r == RpcHandler(l, h)
<1>1. CASE l.form \notin {"single", "batch"}
  <2>1. r = Http(400, Silence)
    BY <1>1 DEF RpcHandler, RejectedBody
  <2>2. r.items = <<>>
    BY <2>1, HttpMade DEF Silence
  <2> QED
    BY <2>2 DEF ResponseFits, Guarded
<1>2. CASE l.form \in {"single", "batch"} /\ (~OriginAllowed(h) \/ ~CheckAuth(h.credential))
  <2>1. PICK status, text : r = Http(status, Refused(IdOf(l), text))
    BY <1>2 DEF RpcHandler
  <2> QED
    BY <2>1, RefusedGuarded
<1>3. CASE l.form = "batch" /\ OriginAllowed(h) /\ CheckAuth(h.credential)
  <2>1. CASE HasModern(l.items)
    <3>1. PICK text : r = Http(400, Refused(NullId, text))
      BY <1>3, <2>1 DEF RpcHandler
    <3> QED
      BY <3>1, RefusedGuarded
  <2>2. CASE ~HasModern(l.items)
    <3>1. r = Answered(DispatchAny(l))
      BY <1>3, <2>2 DEF RpcHandler
    <3> QED
      BY <1>3, <2>2, <3>1, DispatchAnyFits, AnsweredGuarded
  <2> QED
    BY <2>1, <2>2
<1>4. CASE /\ l.form = "single" /\ OriginAllowed(h) /\ CheckAuth(h.credential)
           /\ ~(Era(l.items[1]) # Absent /\ IsRequest(l.items[1]))
  <2>1. r = Answered(DispatchAny(l))
    BY <1>4 DEF RpcHandler
  <2> QED
    BY <1>4, <2>1, DispatchAnyFits, AnsweredGuarded
<1>5. CASE /\ l.form = "single" /\ OriginAllowed(h) /\ CheckAuth(h.credential)
           /\ Era(l.items[1]) # Absent /\ IsRequest(l.items[1])
  <2> DEFINE req == l.items[1]
  <2>1. r = HandleModern(l, req, h)
    BY <1>5 DEF RpcHandler
  <2>2. CASE Era(req) \notin Supported \/ HeaderMismatch(req, h) \/ req.method \notin ModernMethods
    <3>1. PICK status, text : r = Http(status, Refused(req.id, text))
      BY <2>1, <2>2 DEF HandleModern
    <3> QED
      BY <3>1, RefusedGuarded
  <2>3. CASE /\ Era(req) \in Supported /\ ~HeaderMismatch(req, h) /\ req.method \in ModernMethods
             /\ req.method = "subscriptions/listen"
    <3>1. r = Http(200, SubscriptionResponse(req))
      BY <2>1, <2>3 DEF HandleModern
    <3>2. r.status = 200 /\ r.items = <<Acknowledged, Reply(req.id, Closing)>>
      BY <3>1, HttpMade DEF SubscriptionResponse
    <3>3. Inert(Acknowledged) /\ Fitting(Reply(req.id, Closing), req)
      BY <2>3, ClosingFits
    <3>4. FitsAll(r.items, req)
      BY <3>2, <3>3, InertFits, TwoFit
    <3>5. ResponseFits(r, l)
      BY <1>5, <3>4, TheValue DEF FitsAll, ResponseFits
    <3> QED
      BY <1>5, <3>2, <3>5 DEF Guarded
  <2>4. CASE /\ Era(req) \in Supported /\ ~HeaderMismatch(req, h) /\ req.method \in ModernMethods
             /\ req.method # "subscriptions/listen"
    <3>1. r = Http(200, DispatchAny(l))
      BY <2>1, <2>4 DEF HandleModern
    <3>2. ResponseFits(DispatchAny(l), l)
      BY <1>5, <2>4, DispatchAnyFits
    <3>3. r.items = DispatchAny(l).items /\ r.status = 200
      BY <3>1, HttpMade
    <3> QED
      BY <1>5, <3>2, <3>3 DEF ResponseFits, Guarded
  <2> QED
    BY <2>2, <2>3, <2>4
<1> QED
  BY <1>1, <1>2, <1>3, <1>4, <1>5

----------------------------------------------------------------------------
(* Sessions.                                                               *)

(* The properties relate the last answers to the handlers that are set:    *)
(* while these may still change, nothing has been answered.                *)
SessionInv ==
  /\ ToolsTyped
  /\ line \in Lines \cup {NoLine}
  /\ loop \in [Loops -> {"idle", "refused", "reading", "ended"}]
  /\ initialized \in [Loops -> BOOLEAN]
  /\ loop["async"] = "idle" => line = NoLine /\ said = [f \in FrontEnds |-> Silence]

(* Before the first line nothing has been said.                             *)
LEMMA InitSession == Init => SessionInv
  BY DEF Init, ServerInit, SessionInv, ToolsTyped, Loops

(* The absent line is one.                                                  *)
LEMMA NoLineIsLine == IsLine(NoLine)
<1>1. NoLine.items = <<>> /\ NoLine.form = "blank"
  BY DEF NoLine
<1> QED
  BY <1>1 DEF IsLine, Range

(* Every step of a session keeps the invariant.                             *)
LEMMA StepSession == SessionInv /\ [Next]_vars => SessionInv'
<1> SUFFICES ASSUME SessionInv, [Next]_vars PROVE SessionInv'
  OBVIOUS
<1> USE DEF SessionInv, Loops
<1>1. CASE SetUp
  <2>1. UNCHANGED sessionVars
    BY <1>1 DEF SetUp
  <2>2. ToolsTyped'
    BY <1>1 DEF SetUp, Register, WithBearerAuth, SetHandler, SetAsyncHandler, RegisterTool, SetResourceHandler,
                SetPromptHandler, ToolsTyped
  <2> QED
    BY <2>1, <2>2 DEF sessionVars
<1>2. CASE Serve
  BY <1>2 DEF Serve, serverVars, ToolsTyped
<1>3. ASSUME NEW new \in Lines, NEW context \in Contexts, loop["async"] # "idle", Receive(new, context)
      PROVE  SessionInv'
  BY <1>3 DEF Receive, serverVars, ToolsTyped
<1>4. CASE TakeAnswers
  BY <1>4 DEF TakeAnswers, serverVars, ToolsTyped
<1>5. CASE CloseInput
  BY <1>5 DEF CloseInput, serverVars, ToolsTyped
<1>6. CASE UNCHANGED vars
  BY <1>6 DEF vars, serverVars, sessionVars, ToolsTyped
<1> QED
  BY <1>1, <1>2, <1>3, <1>4, <1>5, <1>6 DEF Next

(* What each front end answers to a line.                                  *)
LEMMA Responses ==
  ASSUME SessionInv, NEW new \in Lines, NEW context \in Contexts, Receive(new, context)
  PROVE  /\ IsLine(new) /\ line' = new /\ headers' = context /\ UNCHANGED serverVars
         /\ \A f \in FrontEnds : ResponseFits(said'[f], new)
         /\ said'["sync"] = LoopSays("sync", new) /\ said'["async"] = LoopSays("async", new)
         /\ said'["authenticated"] = DispatchAuthenticated(new, context.credential)
         /\ said'["authenticated_async"] = DispatchAuthenticatedAsync(new, context.credential)
         /\ said'["http"] = RpcHandler(new, context)
<1>1. IsLine(new) /\ ToolsTyped
  BY SessionAssumption DEF SessionInv
<1>2. line' = new /\ headers' = context /\ UNCHANGED serverVars
  BY DEF Receive
<1>3. /\ said'["sync"] = LoopSays("sync", new) /\ said'["async"] = LoopSays("async", new)
      /\ said'["authenticated"] = DispatchAuthenticated(new, context.credential)
      /\ said'["authenticated_async"] = DispatchAuthenticatedAsync(new, context.credential)
      /\ said'["http"] = RpcHandler(new, context)
  BY DEF Receive, FrontEnds, Loops, Direct
<1>4. ASSUME NEW l \in Loops PROVE ResponseFits(LoopSays(l, new), new)
  <2>1. CASE LoopSays(l, new) \in {Silence, Dispatch(new), DispatchAsync(new)}
    BY <1>1, <2>1, SilenceFits, DispatchFits, DispatchAsyncFits
  <2>2. CASE \E text : LoopSays(l, new) = Refused(IdOf(new), text)
    BY <2>2, RefusalFits
  <2> QED
    BY <2>1, <2>2 DEF LoopSays
<1>5. ResponseFits(DispatchAuthenticated(new, context.credential), new)
  <2>1. \E text : DispatchAuthenticated(new, context.credential) \in {Dispatch(new), Refused(IdOf(new), text)}
    BY DEF DispatchAuthenticated
  <2> QED
    BY <1>1, <2>1, DispatchFits, RefusalFits
<1>6. ResponseFits(DispatchAuthenticatedAsync(new, context.credential), new)
  <2>1. \E text : DispatchAuthenticatedAsync(new, context.credential) \in {DispatchAsync(new), Refused(IdOf(new), text)}
    BY DEF DispatchAuthenticatedAsync
  <2> QED
    BY <1>1, <2>1, DispatchAsyncFits, RefusalFits
<1>7. ResponseFits(RpcHandler(new, context), new)
  BY <1>1, RpcFits
<1> QED
  BY <1>1, <1>2, <1>3, <1>4, <1>5, <1>6, <1>7 DEF FrontEnds, Loops, Direct

(* Without a request in it a line runs nothing.                            *)
LEMMA NoRequestInert ==
  ASSUME NEW l, IsLine(l), l.form = "single", ~IsRequest(l.items[1])
  PROVE  /\ \A i \in DOMAIN Dispatch(l).items : Inert(Dispatch(l).items[i])
         /\ \A i \in DOMAIN DispatchAsync(l).items : Inert(DispatchAsync(l).items[i])
<1> DEFINE req == l.items[1]
<1>0. IsValue(req) /\ (req.kind # "object" \/ req.id = Absent)
  BY TheValue DEF IsRequest
<1>1. DispatchSingle(req) = <<>> \/ \E text : DispatchSingle(req) = <<Reply(NullId, Error(text))>>
  BY <1>0 DEF DispatchSingle
<1>2. DispatchSingleAsync(req) = <<>> \/ \E text : DispatchSingleAsync(req) = <<Reply(NullId, Error(text))>>
  <2>1. CASE req.method = "tools/call"
    BY <1>0, <2>1, ToolOnly DEF DispatchSingleAsync
  <2>2. CASE req.method # "tools/call"
    BY <1>1, <2>2 DEF DispatchSingleAsync
  <2> QED
    BY <2>1, <2>2
<1>3. ASSUME NEW answer, answer = <<>> \/ \E text : answer = <<Reply(NullId, Error(text))>>
      PROVE  \A i \in DOMAIN Plain(answer).items : Inert(Plain(answer).items[i])
  <2>1. CASE answer = <<>>
    BY <2>1 DEF Plain, Silence
  <2>2. CASE answer # <<>>
    <3>1. PICK text : answer = <<Reply(NullId, Error(text))>>
      BY <1>3, <2>2
    <3>2. Inert(Reply(NullId, Error(text)))
      BY InertErrors
    <3>3. Plain(answer).items = answer
      BY <2>2 DEF Plain
    <3> QED
      BY <3>1, <3>2, <3>3
  <2> QED
    BY <2>1, <2>2
<1>4. Dispatch(l) = Plain(DispatchSingle(req)) /\ DispatchAsync(l) = Plain(DispatchSingleAsync(req))
  BY DEF Dispatch, DispatchAsync
<1> QED
  BY <1>1, <1>2, <1>3, <1>4

(* A loop runs a handler only for a line that may come when it comes.      *)
LEMMA LoopGuarded ==
  ASSUME NEW l \in Loops, NEW new, IsLine(new), initialized[l] \in BOOLEAN,
         NEW i \in DOMAIN LoopSays(l, new).items, ~Inert(LoopSays(l, new).items[i])
  PROVE  \/ new.form = "batch" \/ HasModern(new.items)
         \/ initialized[l] \/ (loop[l] = "reading" /\ Initializes(new))
<1>1. loop[l] = "reading" /\ new.form # "blank" /\ ~TooEarly(new, initialized[l])
  <2>1. LoopSays(l, new) # Silence
    BY DEF Silence
  <2>2. \A text : LoopSays(l, new) # Refused(IdOf(new), text)
    BY RefusalFits
  <2> QED
    BY <2>1, <2>2 DEF LoopSays
<1>2. LoopSays(l, new) \in {Dispatch(new), DispatchAsync(new)}
  BY <1>1 DEF LoopSays
<1>3. CASE new.form = "garbage"
  <2>1. \E text : Dispatch(new) = Refused(NullId, text) /\ DispatchAsync(new) = Refused(NullId, text)
    BY <1>3 DEF Dispatch, DispatchAsync
  <2> QED
    BY <1>2, <2>1, RefusalFits
<1>4. CASE new.form = "single"
  <2>1. IsRequest(new.items[1])
    BY <1>2, <1>4, NoRequestInert
  <2>2. CASE RequestProtocolVersion(new.items[1]) # Absent
    BY <1>4, <2>2, TheValue DEF HasModern
  <2>3. CASE RequestProtocolVersion(new.items[1]) = Absent
    BY <1>1, <1>4, <2>1, <2>3 DEF TooEarly, Initializes
  <2> QED
    BY <2>2, <2>3
<1> QED
  BY <1>1, <1>3, <1>4 DEF IsLine

(* A server that says nothing has said nothing.                             *)
LEMMA SaysNothing ==
  ASSUME said = [f \in FrontEnds |-> Silence] PROVE \A f \in FrontEnds : Items(f) = {} /\ said[f] = Silence
  BY DEF Items, Silence

(* Only a step that receives a line, or leaves everything that a property  *)
(* of the last answers looks at alone, matters.                            *)
LEMMA StepsOfASession ==
  ASSUME SessionInv, [Next]_vars
  PROVE  \/ said' = [f \in FrontEnds |-> Silence]
         \/ UNCHANGED <<serverVars, initialized, line, headers, said>> /\ (loop' = loop \/ line = NoLine)
         \/ \E new \in Lines, context \in Contexts : loop["async"] # "idle" /\ Receive(new, context)
<1>1. CASE SetUp \/ Serve
  BY <1>1 DEF SetUp, Serve, SessionInv, sessionVars
<1>2. CASE TakeAnswers
  BY <1>2 DEF TakeAnswers
<1>3. CASE CloseInput
  BY <1>3 DEF CloseInput
<1>4. CASE UNCHANGED vars
  BY <1>4 DEF vars, sessionVars
<1> QED
  BY <1>1, <1>2, <1>3, <1>4 DEF Next

(* A handler runs only for a caller that may call it and with arguments    *)
(* its description accepts, whichever front end the line came through.     *)
THEOREM HandlersGuarded == Spec => []GuardedRuns
<1>1. Init => GuardedRuns
  BY SaysNothing DEF Init, GuardedRuns
<1>2. SessionInv /\ GuardedRuns /\ [Next]_vars => GuardedRuns'
  <2> SUFFICES ASSUME SessionInv, GuardedRuns, [Next]_vars PROVE GuardedRuns'
    OBVIOUS
  <2>1. CASE said' = [f \in FrontEnds |-> Silence]
    <3>1. \A f \in FrontEnds : Items(f)' = {}
      BY <2>1 DEF Items, Silence
    <3> QED
      BY <3>1 DEF GuardedRuns
  <2>2. CASE UNCHANGED <<serverVars, initialized, line, headers, said>>
    BY <2>2 DEF GuardedRuns, Items, serverVars, CheckAuth, OriginAllowed, HasModern, RequestProtocolVersion
  <2>3. ASSUME NEW new \in Lines, NEW context \in Contexts, Receive(new, context) PROVE GuardedRuns'
    <3>1. /\ IsLine(new) /\ line' = new /\ headers' = context /\ UNCHANGED serverVars
          /\ \A f \in FrontEnds : ResponseFits(said'[f], new)
          /\ said'["sync"] = LoopSays("sync", new) /\ said'["async"] = LoopSays("async", new)
          /\ said'["authenticated"] = DispatchAuthenticated(new, context.credential)
          /\ said'["authenticated_async"] = DispatchAuthenticatedAsync(new, context.credential)
          /\ said'["http"] = RpcHandler(new, context)
      BY <2>3, Responses
    <3>2. ASSUME NEW f \in FrontEnds, NEW m \in Items(f)', m.by # "none"
          PROVE  /\ f \in Loops => initialized'[f] \/ new.form = "batch" \/ HasModern(new.items)
                 /\ f \notin Loops => CheckAuth(context.credential)
                 /\ f = "http" => OriginAllowed(context) /\ said'[f].status = 200
                 /\ \E k \in DOMAIN new.items : RunsFor(m, new.items[k])
      <4>1. PICK i \in DOMAIN said'[f].items : m = said'[f].items[i]
        BY <3>2 DEF Items
      <4>2. ~Inert(m)
        BY <3>2 DEF Inert
      <4>3. \E k \in DOMAIN new.items : RunsFor(m, new.items[k])
        BY <3>1, <4>1, <4>2 DEF ResponseFits, Fitting
      <4>4. CASE f \in Loops
        <5>1. said'[f] = LoopSays(f, new) /\ initialized[f] \in BOOLEAN
          BY <3>1, <4>4 DEF Loops, SessionInv
        <5>2. initialized'[f] = (initialized[f] \/ (loop[f] = "reading" /\ Initializes(new)))
          BY <2>3, <4>4 DEF Receive
        <5> QED
          BY <3>1, <4>1, <4>2, <4>3, <4>4, <5>1, <5>2, LoopGuarded DEF Loops
      <4>5. CASE f = "authenticated"
        <5>1. CheckAuth(context.credential)
          <6> SUFFICES ASSUME ~CheckAuth(context.credential) PROVE FALSE
            OBVIOUS
          <6>1. PICK text : said'[f] = Refused(IdOf(new), text)
            BY <3>1, <4>5 DEF DispatchAuthenticated
          <6> QED
            BY <4>1, <4>2, <6>1, RefusalFits
        <5> QED
          BY <4>3, <4>5, <5>1 DEF Loops
      <4>6. CASE f = "authenticated_async"
        <5>1. CheckAuth(context.credential)
          <6> SUFFICES ASSUME ~CheckAuth(context.credential) PROVE FALSE
            OBVIOUS
          <6>1. PICK text : said'[f] = Refused(IdOf(new), text)
            BY <3>1, <4>6 DEF DispatchAuthenticatedAsync
          <6> QED
            BY <4>1, <4>2, <6>1, RefusalFits
        <5> QED
          BY <4>3, <4>6, <5>1 DEF Loops
      <4>7. CASE f = "http"
        <5>1. Guarded(said'[f], context)
          BY <3>1, <4>7, RpcFits DEF SessionInv
        <5> QED
          BY <4>1, <4>2, <4>3, <4>7, <5>1 DEF Guarded, Loops
      <4> QED
        BY <4>4, <4>5, <4>6, <4>7 DEF FrontEnds, Loops, Direct
    <3>3. schema' = schema /\ secured' = secured
      BY <3>1 DEF serverVars
    <3> QED
      BY <3>1, <3>2, <3>3 DEF GuardedRuns, RunsFor, CheckAuth, OriginAllowed, HasModern, RequestProtocolVersion
  <2> QED
    BY <2>1, <2>2, <2>3, StepsOfASession
<1> QED
  BY <1>1, <1>2, InitSession, StepSession, PTL DEF Spec

(* The eras are kept apart: only results to the latest version carry its   *)
(* fields, all of them do, and a handshake never hands that version out.   *)
THEOREM ErasApart == Spec => []EraRespected
<1>1. Init => EraRespected
  BY SaysNothing DEF Init, EraRespected
<1>2. SessionInv /\ EraRespected /\ [Next]_vars => EraRespected'
  <2> SUFFICES ASSUME SessionInv, EraRespected, [Next]_vars PROVE EraRespected'
    OBVIOUS
  <2>1. CASE said' = [f \in FrontEnds |-> Silence]
    BY <2>1 DEF EraRespected
  <2>2. CASE UNCHANGED <<serverVars, initialized, line, headers, said>>
    BY <2>2 DEF EraRespected, Items
  <2>3. ASSUME NEW new \in Lines, NEW context \in Contexts, Receive(new, context) PROVE EraRespected'
    <3>1. IsLine(new) /\ line' = new /\ \A f \in FrontEnds : ResponseFits(said'[f], new)
      BY <2>3, Responses
    <3>2. ASSUME NEW f \in FrontEnds, new.form = "single", NEW m \in Items(f)' PROVE InEra(m, new.items[1])
      <4>1. PICK i \in DOMAIN said'[f].items : m = said'[f].items[i]
        BY <3>2 DEF Items
      <4>2. CASE Inert(m)
        BY <4>2, InertFits DEF Fitting
      <4>3. CASE ~Inert(m)
        <5>1. PICK k \in DOMAIN new.items : Fitting(m, new.items[k])
          BY <3>1, <4>1, <4>3 DEF ResponseFits
        <5> QED
          BY <3>1, <3>2, <5>1, TheValue DEF Fitting
      <4> QED
        BY <4>2, <4>3
    <3> QED
      BY <3>1, <3>2 DEF EraRespected, InEra
  <2> QED
    BY <2>1, <2>2, <2>3, StepsOfASession
<1> QED
  BY <1>1, <1>2, InitSession, StepSession, PTL DEF Spec

(* The dispatchers agree on a line that keeps the two apart in no request. *)
LEMMA SyncIsAsync ==
  ASSUME NEW l, IsLine(l), ~(l.form = "batch" /\ HasModern(l.items)),
         \A i \in DOMAIN l.items : ~(l.items[i].method = "tools/call" /\ l.items[i].name \in async)
  PROVE  Dispatch(l) = DispatchAsync(l)
<1>1. CASE l.form = "single"
  <2>1. DispatchSingleAsync(l.items[1]) = DispatchSingle(l.items[1])
    BY <1>1, TheValue, AsyncAgrees
  <2> QED
    BY <1>1, <2>1 DEF Dispatch, DispatchAsync
<1>2. CASE l.form = "batch"
  <2>1. \A i \in DOMAIN l.items : DispatchSingleAsync(l.items[i]) = DispatchSingle(l.items[i])
    BY AsyncAgrees DEF IsLine
  <2>2. [i \in DOMAIN l.items |-> DispatchSingleAsync(l.items[i])] = [i \in DOMAIN l.items |-> DispatchSingle(l.items[i])]
    BY <2>1
  <2>3. Dispatch(l) = Joined([i \in DOMAIN l.items |-> DispatchSingle(l.items[i])])
    BY <1>2 DEF Dispatch
  <2>4. DispatchAsync(l) = Joined([i \in DOMAIN l.items |-> DispatchSingleAsync(l.items[i])])
    BY <1>2 DEF DispatchAsync
  <2> QED
    BY <2>2, <2>3, <2>4
<1>3. CASE l.form \notin {"single", "batch"}
  BY <1>3 DEF Dispatch, DispatchAsync
<1> QED
  BY <1>1, <1>2, <1>3

(* What HTTP does not refuse it answers as the asynchronous dispatcher.    *)
LEMMA HttpIsAsync ==
  ASSUME NEW l, IsLine(l), \A i \in DOMAIN l.items : l.items[i].kind = "object", NEW h,
         RpcHandler(l, h).status \in {200, 202, 404}
  PROVE  RpcHandler(l, h).items = DispatchAuthenticatedAsync(l, h.credential).items
<1> DEFINE r == RpcHandler(l, h)
<1>0. \A status, answer : ~(status \in {200, 202, 404}) => ~(r = Http(status, answer))
  BY HttpMade
<1>1. l.form \in {"single", "batch"} /\ OriginAllowed(h) /\ CheckAuth(h.credential)
  <2>1. \A answer : r # Http(400, answer) /\ r # Http(401, answer) /\ r # Http(403, answer)
    BY <1>0
  <2> HIDE DEF r
  <2>2. l.form \in {"single", "batch"}
    BY <2>1 DEF RpcHandler, RejectedBody, r
  <2>3. OriginAllowed(h)
    <3> SUFFICES ASSUME ~OriginAllowed(h) PROVE FALSE
      OBVIOUS
    <3>1. r = Http(403, Refused(IdOf(l), "forbidden"))
      BY <2>2 DEF RpcHandler, r
    <3> QED
      BY <2>1, <3>1
  <2>4. CheckAuth(h.credential)
    <3> SUFFICES ASSUME ~CheckAuth(h.credential) PROVE FALSE
      OBVIOUS
    <3>1. r = Http(401, Refused(IdOf(l), "unauthorized"))
      BY <2>2, <2>3 DEF RpcHandler, r
    <3> QED
      BY <2>1, <3>1
  <2> QED
    BY <2>2, <2>3, <2>4
<1>2. DispatchAuthenticatedAsync(l, h.credential) = DispatchAsync(l)
  BY <1>1 DEF DispatchAuthenticatedAsync
<1>3. \A answer : Answered(answer).items = answer.items
  BY HttpMade DEF Answered
<1>4. CASE l.form = "batch"
  <2>1. ~HasModern(l.items) /\ r = Answered(DispatchAny(l))
    <3>1. \A answer : r # Http(400, answer)
      BY <1>0
    <3>2. /\ HasModern(l.items) => r = Http(400, Refused(NullId, "invalid request"))
          /\ ~HasModern(l.items) => r = Answered(DispatchAny(l))
      <4>1. ~(l.form \notin {"single", "batch"})
        BY <1>1
      <4> QED
        BY Zenon, <1>1, <1>4, <4>1 DEF RpcHandler
    <3> HIDE DEF r
    <3> QED
      BY Zenon, <3>1, <3>2
  <2>2. ASSUME NEW i \in DOMAIN l.items PROVE HttpDispatch(l.items[i]) = DispatchSingleAsync(l.items[i])
    <3>1. IsValue(l.items[i]) /\ Era(l.items[i]) = Absent
      BY <2>1 DEF IsLine, HasModern, Era
    <3> QED
      BY <3>1, HttpAgrees
  <2>3. [i \in DOMAIN l.items |-> HttpDispatch(l.items[i])] = [i \in DOMAIN l.items |-> DispatchSingleAsync(l.items[i])]
    BY <2>2
  <2>4. DispatchAny(l) = DispatchAsync(l)
    BY <1>4, <2>3 DEF DispatchAny, DispatchAsync
  <2> QED
    BY <1>2, <1>3, <2>1, <2>4
<1>5. CASE l.form = "single" /\ ~(Era(l.items[1]) # Absent /\ IsRequest(l.items[1]))
  <2>1. r = Answered(DispatchAny(l))
    BY <1>1, <1>5 DEF RpcHandler
  <2>2. HttpDispatch(l.items[1]) = DispatchSingleAsync(l.items[1])
    <3>1. IsValue(l.items[1]) /\ l.items[1].kind = "object"
      BY <1>5, TheValue
    <3>2. CASE Era(l.items[1]) = Absent
      BY <3>1, <3>2, HttpAgrees
    <3>3. CASE l.items[1].id = Absent
      BY <3>1, <3>3 DEF HttpDispatch, DispatchSingleAsync, DispatchSingle
    <3> QED
      BY <1>5, <3>1, <3>2, <3>3 DEF IsRequest
  <2>3. DispatchAny(l) = DispatchAsync(l)
    BY <1>5, <2>2 DEF DispatchAny, DispatchAsync
  <2> QED
    BY <1>2, <1>3, <2>1, <2>3
<1>6. CASE l.form = "single" /\ Era(l.items[1]) # Absent /\ IsRequest(l.items[1])
  <2> DEFINE req == l.items[1]
  <2>1. r = HandleModern(l, req, h)
    BY <1>1, <1>6 DEF RpcHandler
  <2>2. Era(req) \in Supported /\ ~HeaderMismatch(req, h)
    <3>1. \A answer : r # Http(400, answer)
      BY <1>0
    <3> QED
      BY <2>1, <3>1 DEF HandleModern
  <2>3. IsValue(req) /\ req.kind = "object" /\ req.id # Absent
    BY <1>6, TheValue DEF IsRequest
  <2>4. DispatchAsync(l) = Plain(DispatchSingleAsync(req))
    BY <1>6 DEF DispatchAsync
  <2>5. ASSUME req.method # "tools/call"
        PROVE  DispatchSingleAsync(req) = AnswerModern(req, Era(req))
    BY <1>6, <2>2, <2>3, <2>5 DEF DispatchSingleAsync, DispatchSingle
  <2>6. CASE req.method \notin ModernMethods
    <3>1. PICK text : /\ r = Http(404, Refused(req.id, text))
                      /\ text = "method not found"
      BY <2>1, <2>2, <2>6 DEF HandleModern
    <3>2. r.items = <<Reply(req.id, Error(text))>>
      <4>1. Refused(req.id, text).items = <<Reply(req.id, Error(text))>>
        BY DEF Refused, Single
      <4>2. Http(404, Refused(req.id, text)).items = Refused(req.id, text).items
        BY HttpMade
      <4>3. r = Http(404, Refused(req.id, text))
        BY <3>1
      <4> HIDE DEF r
      <4> QED
        BY <4>1, <4>2, <4>3
    <3>3. req.method # "tools/call" /\ req.method # "initialize"
      BY <1>6, <2>6 DEF ModernMethods, Era
    <3>4. AnswerModern(req, Era(req)) = <<Reply(req.id, Error(text))>>
      <4>1. CASE req.method = "ping"
        BY <3>1, <4>1 DEF AnswerModern
      <4>2. CASE req.method # "ping"
        <5>1. Handle(req) = Error(text)
          BY <2>6, <3>1, <3>3, <4>2 DEF Handle, ModernMethods
        <5>2. Shape(Era(req), req.method, Error(text)) = Error(text)
          <6>1. Error(text).status = "error"
            BY Failed
          <6> QED
            BY <6>1 DEF Shape
        <5>3. AnswerModern(req, Era(req)) = <<Reply(req.id, Shape(Era(req), req.method, Handle(req)))>>
          BY <2>6, <4>2 DEF AnswerModern, ModernMethods
        <5> QED
          BY <5>1, <5>2, <5>3
      <4> QED
        BY <4>1, <4>2
    <3>5. Plain(<<Reply(req.id, Error(text))>>).items = <<Reply(req.id, Error(text))>>
      BY DEF Plain
    <3> QED
      BY <1>2, <2>4, <2>5, <3>2, <3>3, <3>4, <3>5
  <2>7. CASE req.method \in ModernMethods /\ req.method = "subscriptions/listen"
    <3>1. r = Http(200, SubscriptionResponse(req))
      BY <2>1, <2>2, <2>7 DEF HandleModern
    <3>2. r.items = <<Acknowledged, Reply(req.id, Closing)>>
      BY <3>1, HttpMade DEF SubscriptionResponse
    <3>3. AnswerModern(req, Era(req)) = <<Acknowledged, Reply(req.id, Closing)>>
      BY <2>7 DEF AnswerModern, SubscriptionClose
    <3>4. Plain(<<Acknowledged, Reply(req.id, Closing)>>).items = <<Acknowledged, Reply(req.id, Closing)>>
      BY DEF Plain
    <3> QED
      BY <1>2, <2>4, <2>5, <2>7, <3>2, <3>3, <3>4
  <2>8. CASE req.method \in ModernMethods /\ req.method # "subscriptions/listen"
    <3>1. r = Http(200, DispatchAny(l))
      BY <2>1, <2>2, <2>8 DEF HandleModern
    <3>2. HttpDispatch(req) = DispatchSingleAsync(req)
      BY <2>2, <2>3, <2>8, HttpAgrees
    <3>3. DispatchAny(l) = DispatchAsync(l)
      BY <1>6, <3>2 DEF DispatchAny, DispatchAsync
    <3> QED
      BY <1>2, <3>1, <3>3, HttpMade
  <2> QED
    BY <2>6, <2>7, <2>8
<1> QED
  BY <1>1, <1>4, <1>5, <1>6

(* The front ends, each written out by hand, answer alike.                 *)
THEOREM FrontEndsAgree == Spec => []TransportsAgree
<1>1. Init => TransportsAgree
  BY SaysNothing DEF Init, TransportsAgree, FrontEnds, Loops, Direct, NoLine
<1>2. SessionInv /\ TransportsAgree /\ [Next]_vars => TransportsAgree'
  <2> SUFFICES ASSUME SessionInv, TransportsAgree, [Next]_vars PROVE TransportsAgree'
    OBVIOUS
  <2>1. CASE said' = [f \in FrontEnds |-> Silence]
    BY <2>1 DEF TransportsAgree, FrontEnds, Loops, Direct
  <2>2. CASE UNCHANGED <<serverVars, initialized, line, headers, said>> /\ (loop' = loop \/ line = NoLine)
    BY <2>2 DEF TransportsAgree, CallsAsyncTool, HasScalar, ModernBatch, HasModern, RequestProtocolVersion, serverVars, NoLine
  <2>3. ASSUME NEW new \in Lines, NEW context \in Contexts, Receive(new, context) PROVE TransportsAgree'
    <3>1. /\ IsLine(new) /\ line' = new /\ headers' = context /\ UNCHANGED serverVars
          /\ said'["sync"] = LoopSays("sync", new) /\ said'["async"] = LoopSays("async", new)
          /\ said'["authenticated"] = DispatchAuthenticated(new, context.credential)
          /\ said'["authenticated_async"] = DispatchAuthenticatedAsync(new, context.credential)
          /\ said'["http"] = RpcHandler(new, context)
      BY <2>3, Responses
    <3>2. loop' = loop /\ async' = async /\ secured' = secured
      BY <2>3 DEF Receive, serverVars
    <3>3. ASSUME ~CallsAsyncTool', ~ModernBatch'
          PROVE  said'["authenticated"] = said'["authenticated_async"]
      <4>1. Dispatch(new) = DispatchAsync(new)
        BY <3>1, <3>2, <3>3, SyncIsAsync DEF CallsAsyncTool, ModernBatch, HasModern, RequestProtocolVersion
      <4> QED
        BY <3>1, <4>1 DEF DispatchAuthenticated, DispatchAuthenticatedAsync
    <3>4. ASSUME said'["http"].status \in {200, 202, 404}, ~HasScalar'
          PROVE  said'["http"].items = said'["authenticated_async"].items
      BY <3>1, <3>4, HttpIsAsync DEF HasScalar
    <3>5. ASSUME secured' = FALSE, new.form = "single", HasModern(new.items), NEW l \in Loops, loop[l] = "reading"
          PROVE  said'[l] = said'[IF l = "sync" THEN "authenticated" ELSE "authenticated_async"]
      <4>1. CheckAuth(context.credential)
        BY <3>2, <3>5 DEF CheckAuth
      <4>2. ~TooEarly(new, initialized[l])
        BY <3>1, <3>5, TheValue DEF HasModern, TooEarly
      <4> QED
        BY <3>1, <3>5, <4>1, <4>2 DEF LoopSays, DispatchAuthenticated, DispatchAuthenticatedAsync, Loops
    <3> QED
      BY <3>1, <3>2, <3>3, <3>4, <3>5 DEF TransportsAgree, HasModern, RequestProtocolVersion, Loops
  <2> QED
    BY <2>1, <2>2, <2>3, StepsOfASession
<1> QED
  BY <1>1, <1>2, InitSession, StepSession, PTL DEF Spec

----------------------------------------------------------------------------
(* Who is answered.                                                        *)

(* The ids that messages answer,                                           *)
IdsOf(items) ==
  FlattenSeq([i \in DOMAIN items |-> IF items[i].status = "notification" THEN <<>> ELSE <<items[i].id>>])

(* those a value is owed, and those of a line.                             *)
Owes(req, nulls) ==
  IF req.kind # "object" THEN nulls ELSE IF IsRequest(req) THEN <<req.id>> ELSE <<>>

LineOwes(l, nulls) == FlattenSeq([i \in DOMAIN l.items |-> Owes(l.items[i], nulls)])

(* One answer, to an id, with what may be announced before it.             *)
Replies(answer, id) ==
  \E m : m.id = id /\ m.status # "notification" /\ (answer = <<m>> \/ answer = <<Acknowledged, m>>)

Settles(answer, req, nulls) == answer \in Seq(Range(answer)) /\ IdsOf(answer) = Owes(req, nulls)

(* A reply answers its id once.                                            *)
LEMMA RepliesOnce ==
  ASSUME NEW answer, NEW id, Replies(answer, id)
  PROVE  answer \in Seq(Range(answer)) /\ IdsOf(answer) = <<id>>
<1>1. PICK m : m.id = id /\ m.status # "notification" /\ (answer = <<m>> \/ answer = <<Acknowledged, m>>)
  BY DEF Replies
<1>2. <<id>> \in Seq({id}) /\ <<>> \in Seq({id}) /\ <<>> \o <<id>> = <<id>>
  OBVIOUS
<1>3. FlattenSeq(<<<<id>>>>) = <<id>> /\ FlattenSeq(<<<<>>, <<id>>>>) = <<id>>
  BY <1>2, FlattenShort
<1>4. CASE answer = <<m>>
  <2>1. [i \in DOMAIN answer |-> IF answer[i].status = "notification" THEN <<>> ELSE <<answer[i].id>>] = <<<<id>>>>
    BY <1>1, <1>4
  <2> QED
    BY <1>3, <1>4, <2>1 DEF IdsOf, Range
<1>5. CASE answer = <<Acknowledged, m>>
  <2>1. Acknowledged.status = "notification"
    BY DEF Acknowledged, Message
  <2>2. [i \in DOMAIN answer |-> IF answer[i].status = "notification" THEN <<>> ELSE <<answer[i].id>>] = <<<<>>, <<id>>>>
    BY <1>1, <1>5, <2>1
  <2>3. answer \in Seq({Acknowledged, m}) /\ Range(answer) = {Acknowledged, m}
    <3>1. DOMAIN answer = {1, 2} /\ answer[1] = Acknowledged /\ answer[2] = m /\ answer \in Seq({Acknowledged, m})
      BY <1>5
    <3> QED
      BY <3>1 DEF Range
  <2> QED
    BY <1>3, <2>2, <2>3 DEF IdsOf
<1> QED
  BY <1>1, <1>4, <1>5

(* No message answers nobody.                                              *)
LEMMA NoneAnswers == <<>> \in Seq(Range(<<>>)) /\ IdsOf(<<>>) = <<>>
<1>1. [i \in DOMAIN <<>> |-> IF <<>>[i].status = "notification" THEN <<>> ELSE <<<<>>[i].id>>] = <<>>
  OBVIOUS
<1> QED
  BY <1>1 DEF IdsOf, FlattenSeq

(* A reply by itself,                                                      *)
LEMMA ReplyReplies ==
  ASSUME NEW m, IsMessage(m), m.status \in {"result", "error"}, NEW id PROVE Replies(<<Reply(id, m)>>, id)
  BY Replied DEF Replies

(* an error,                                                               *)
LEMMA ErrorReplies == ASSUME NEW id, NEW what PROVE Replies(<<Reply(id, Error(what))>>, id)
  BY Failed, ReplyReplies

(* what a call of a tool gives,                                            *)
LEMMA ToolCallReplies ==
  ASSUME NEW req, NEW modern, NEW outcome, IsPlain(outcome)
  PROVE  Replies(<<Reply(req.id, HandleToolCall(req, modern, outcome))>>, req.id)
<1>1. PICK text : HandleToolCall(req, modern, outcome) \in {Error(text), Shape(modern, "tools/call", outcome)}
  BY DEF HandleToolCall
<1>2. IsMessage(Shape(modern, "tools/call", outcome)) /\ Shape(modern, "tools/call", outcome).status \in {"result", "error"}
  BY Shaped DEF IsPlain
<1> QED
  BY <1>1, <1>2, ErrorReplies, ReplyReplies

(* and what the table does.                                                *)
LEMMA TableReplies ==
  ASSUME NEW req, NEW modern
  PROVE  Replies(<<Reply(req.id, Handle(req))>>, req.id) /\ Replies(<<Reply(req.id, Shape(modern, req.method, Handle(req)))>>, req.id)
<1>1. IsPlain(Handle(req))
  BY HandleShared DEF SharedTable
<1>2. LET r == Shape(modern, req.method, Handle(req)) IN IsMessage(r) /\ r.status \in {"result", "error"}
  BY <1>1, Shaped DEF IsPlain
<1> QED
  BY <1>1, <1>2, ReplyReplies DEF IsPlain

(* The synchronous dispatcher answers what it owes,                        *)
LEMMA SyncSettles ==
  ASSUME NEW req
  PROVE  /\ Settles(DispatchSingle(req), req, <<NullId>>)
         /\ Era(req) = Absent => Len(DispatchSingle(req)) <= 1
<1> DEFINE answer == DispatchSingle(req)
<1>0. \A m : Len(<<m>>) <= 1
  OBVIOUS
<1>1. CASE req.kind # "object"
  <2>1. PICK text : answer = <<Reply(NullId, Error(text))>>
    BY <1>1 DEF DispatchSingle
  <2>2. Replies(answer, NullId)
    BY <2>1, ErrorReplies
  <2> HIDE DEF answer
  <2>3. Settles(answer, req, <<NullId>>) /\ Len(answer) <= 1
    BY <1>0, <1>1, <2>1, <2>2, RepliesOnce DEF Settles, Owes
  <2> QED
    BY <2>3 DEF answer
<1>2. CASE req.kind = "object" /\ req.id = Absent
  <2>1. answer = <<>> /\ Owes(req, <<NullId>>) = <<>>
    BY <1>2 DEF DispatchSingle, Owes, IsRequest
  <2> QED
    BY <2>1, NoneAnswers DEF Settles
<1>3. CASE IsRequest(req)
  <2>1. CASE Era(req) = Absent
    <3>1. answer = AnswerLegacy(req)
      BY <1>3, <2>1 DEF DispatchSingle, IsRequest
    <3>2. Replies(answer, req.id) /\ Len(answer) <= 1
      BY <1>0, <3>1, ToolCallReplies, TableReplies, Called DEF AnswerLegacy
    <3> HIDE DEF answer
    <3>3. Settles(answer, req, <<NullId>>) /\ Len(answer) <= 1
      BY <1>3, <3>2, RepliesOnce DEF Settles, Owes, IsRequest
    <3> QED
      BY <3>3 DEF answer
  <2>2. CASE Era(req) # Absent
    <3>1. CASE Era(req) \notin Supported
      <4>1. PICK text : answer = <<Reply(req.id, Error(text))>>
        BY <1>3, <2>2, <3>1 DEF DispatchSingle, IsRequest, Unsupported
      <4>2. Replies(answer, req.id)
        BY <4>1, ErrorReplies
      <4> QED
        BY <1>3, <2>2, <4>2, RepliesOnce DEF Settles, Owes, IsRequest
    <3>2. CASE Era(req) \in Supported
      <4>1. answer = AnswerModern(req, Era(req))
        BY <1>3, <2>2, <3>2 DEF DispatchSingle, IsRequest
      <4>2. Replies(AnswerModern(req, Era(req)), req.id)
        <5>1. CASE req.method = "server/discover"
          <6>1. LET r == Shape(Era(req), req.method, Result("discovered")) IN IsMessage(r) /\ r.status \in {"result", "error"}
            BY Made, Shaped
          <6> QED
            BY <5>1, <6>1, ReplyReplies DEF AnswerModern
        <5>2. CASE req.method = "subscriptions/listen"
          <6>1. IsMessage(Closing) /\ Closing.status = "result"
            BY Made, Shaped DEF Closing
          <6>2. Reply(req.id, Closing).id = req.id /\ Reply(req.id, Closing).status # "notification"
            BY <6>1, Replied
          <6>3. AnswerModern(req, Era(req)) = <<Acknowledged, Reply(req.id, Closing)>>
            BY <5>2 DEF AnswerModern, SubscriptionClose
          <6> QED
            BY <6>2, <6>3 DEF Replies
        <5>3. CASE req.method = "ping"
          <6>1. PICK text : AnswerModern(req, Era(req)) = <<Reply(req.id, Error(text))>>
            BY <5>3 DEF AnswerModern
          <6> QED
            BY <6>1, ErrorReplies
        <5>4. CASE req.method = "tools/call"
          BY <5>4, ToolCallReplies, Called DEF AnswerModern
        <5>5. CASE req.method \notin {"server/discover", "subscriptions/listen", "ping", "tools/call"}
          <6>1. AnswerModern(req, Era(req)) = <<Reply(req.id, Shape(Era(req), req.method, Handle(req)))>>
            BY <5>5 DEF AnswerModern
          <6> QED
            BY <6>1, TableReplies
        <5> QED
          BY <5>1, <5>2, <5>3, <5>4, <5>5
      <4> QED
        BY <1>3, <2>2, <4>1, <4>2, RepliesOnce DEF Settles, Owes, IsRequest
    <3> QED
      BY <3>1, <3>2
  <2> QED
    BY <2>1, <2>2
<1> QED
  BY <1>1, <1>2, <1>3 DEF IsRequest

(* the asynchronous one too,                                               *)
LEMMA AsyncSettles ==
  ASSUME NEW req, IsValue(req)
  PROVE  /\ Settles(DispatchSingleAsync(req), req, <<NullId>>)
         /\ req.meta = Absent => Len(DispatchSingleAsync(req)) <= 1
<1> DEFINE answer == DispatchSingleAsync(req)
<1>0. \A m : Len(<<m>>) <= 1
  OBVIOUS
<1>1. CASE req.method # "tools/call"
  <2>1. answer = DispatchSingle(req)
    BY <1>1 DEF DispatchSingleAsync
  <2>2. req.meta = Absent => Era(req) = Absent
    BY DEF Era, RequestProtocolVersion
  <2> QED
    BY <2>1, <2>2, SyncSettles
<1>2. CASE req.method = "tools/call" /\ req.id = Absent
  <2>1. answer = <<>> /\ Owes(req, <<NullId>>) = <<>>
    BY <1>2, ToolOnly DEF DispatchSingleAsync, Owes, IsRequest
  <2>2. Len(<<>>) <= 1
    OBVIOUS
  <2> QED
    BY <2>1, <2>2, NoneAnswers DEF Settles
<1>3. CASE req.method = "tools/call" /\ req.id # Absent
  <2>1. \/ \E text : answer = <<Reply(req.id, Error(text))>>
        \/ answer = <<Reply(req.id, HandleToolCall(req, req.meta, CallToolAsync(req.name)))>>
    BY <1>3 DEF DispatchSingleAsync, Unsupported
  <2>2. Replies(answer, req.id) /\ Len(answer) <= 1
    BY <1>0, <2>1, ErrorReplies, ToolCallReplies, Called
  <2>3. Owes(req, <<NullId>>) = <<req.id>>
    BY <1>3, ToolOnly DEF Owes, IsRequest
  <2> QED
    BY <2>2, <2>3, RepliesOnce DEF Settles
<1> QED
  BY <1>1, <1>2, <1>3

(* and HTTP, which owes nothing to a value that is no object.              *)
LEMMA HttpSettles ==
  ASSUME NEW req, IsValue(req)
  PROVE  Settles(HttpDispatch(req), req, <<>>) /\ Len(HttpDispatch(req)) <= 1
<1>1. CASE req.id = Absent
  <2>1. HttpDispatch(req) = <<>> /\ Owes(req, <<>>) = <<>> /\ Len(<<>>) <= 1
    BY <1>1 DEF HttpDispatch, Owes, IsRequest
  <2> QED
    BY <2>1, NoneAnswers DEF Settles
<1>2. CASE req.id # Absent
  <2> DEFINE m == IF Era(req) = Absent THEN HttpTable(req) ELSE HttpModernTable(req, Era(req))
  <2>1. HttpDispatch(req) = <<Reply(req.id, m)>>
    BY <1>2 DEF HttpDispatch
  <2>2. IsPlain(HttpTable(req))
    <3>1. CASE req.method = "tools/call"
      <4>1. PICK text : HttpTable(req) \in {Error(text), CallToolAsync(req.name)}
        BY <3>1 DEF HttpTable, HttpToolCall
      <4> QED
        BY <4>1, Failed, Called DEF IsPlain
    <3>2. CASE req.method # "tools/call"
      BY <3>2, HttpTableShared, HandleShared DEF SharedTable
    <3> QED
      BY <3>1, <3>2
  <2>3. IsMessage(m) /\ m.status \in {"result", "error"}
    <3>1. \A version, r : IsPlain(r) => LET sh == Shape(version, req.method, r) IN IsMessage(sh) /\ sh.status \in {"result", "error"}
      BY Shaped DEF IsPlain
    <3>2. /\ IsMessage(Closing) /\ Closing.status = "result"
          /\ IsPlain(Result("discovered"))
      BY Made, Shaped DEF Closing, IsPlain
    <3>3. \A modern : \/ \E text : HttpModernTable(req, modern) = Error(text)
                      \/ HttpModernTable(req, modern) \in {Closing, Shape(modern, req.method, Result("discovered")),
                                                           Shape(modern, req.method, HttpTable(req))}
      BY DEF HttpModernTable
    <3>4. \A text : IsMessage(Error(text)) /\ Error(text).status = "error"
      BY Failed
    <3>5. IsMessage(HttpModernTable(req, Era(req))) /\ HttpModernTable(req, Era(req)).status \in {"result", "error"}
      BY <2>2, <3>1, <3>2, <3>3, <3>4
    <3> QED
      BY <2>2, <3>5 DEF IsPlain
  <2> HIDE DEF m
  <2>4. Replies(HttpDispatch(req), req.id) /\ Len(HttpDispatch(req)) <= 1
    <3>1. \A x : Len(<<x>>) <= 1
      OBVIOUS
    <3> QED
      BY <2>1, <2>3, <3>1, ReplyReplies
  <2>5. Owes(req, <<>>) = <<req.id>>
    <3>1. \A kind : Value(kind, Absent, "", Absent).id = Absent
      BY DEF Value
    <3> QED
      BY <1>2, <3>1 DEF Owes, IsRequest, IsValue
  <2> QED
    BY <2>4, <2>5, RepliesOnce DEF Settles
<1> QED
  BY <1>1, <1>2

(* A value is owed a sequence of ids.                                      *)
LEMMA OwedIds ==
  ASSUME NEW req, NEW nulls \in Seq({NullId})
  PROVE  Owes(req, nulls) \in Seq({NullId, req.id})
<1>1. <<req.id>> \in Seq({NullId, req.id}) /\ <<>> \in Seq({NullId, req.id}) /\ nulls \in Seq({NullId, req.id})
  OBVIOUS
<1> QED
  BY <1>1 DEF Owes

(* What is owed to the values of a line is what its answers settle,        *)
LEMMA AnswersSettle ==
  ASSUME NEW l, IsLine(l), NEW nulls, NEW answers, DOMAIN answers = DOMAIN l.items,
         answers = [i \in DOMAIN answers |-> answers[i]],
         \A i \in DOMAIN answers : Settles(answers[i], l.items[i], nulls)
  PROVE  IdsOf(FlattenSeq(answers)) = LineOwes(l, nulls)
<1>1. PICK S : S = UNION {Range(answers[i]) : i \in DOMAIN answers}
  OBVIOUS
<1>2. answers \in Seq(Seq(S)) /\ \A i \in DOMAIN answers : answers[i] \in Seq(S)
  <2>1. DOMAIN answers = 1..Len(l.items) /\ Len(l.items) \in Nat
    BY DEF IsLine
  <2>2. ASSUME NEW i \in DOMAIN answers PROVE answers[i] \in Seq(S)
    <3>1. answers[i] \in Seq(Range(answers[i])) /\ Range(answers[i]) \subseteq S
      BY <1>1 DEF Settles
    <3> QED
      BY <3>1
  <2> QED
    BY <2>1, <2>2
<1> DEFINE T == {m.id : m \in S}
           g == [m \in S |-> IF m.status = "notification" THEN <<>> ELSE <<m.id>>]
<1>3. Expands(g, S, T)
  <2>1. ASSUME NEW m \in S PROVE <<>> \in Seq(T) /\ <<m.id>> \in Seq(T)
    <3>1. m.id \in T
      OBVIOUS
    <3> HIDE DEF T
    <3> QED
      BY <3>1
  <2> HIDE DEF T
  <2> QED
    BY <2>1 DEF Expands
<1>4. ASSUME NEW u \in Seq(S) PROVE IdsOf(u) = Expanded(g, u)
  <2>1. \A k \in DOMAIN u : u[k] \in S
    OBVIOUS
  <2>2. [i \in DOMAIN u |-> IF u[i].status = "notification" THEN <<>> ELSE <<u[i].id>>] = [k \in DOMAIN u |-> g[u[k]]]
    BY <2>1
  <2> QED
    BY <2>2 DEF IdsOf, Expanded
<1> HIDE DEF T, g
<1>5. FlattenSeq(answers) \in Seq(S)
  BY <1>2, FlattenedElements
<1>6. Expanded(g, FlattenSeq(answers)) = FlattenSeq([i \in DOMAIN answers |-> Expanded(g, answers[i])])
  BY <1>2, <1>3, ExpandedFlat
<1>7. \A i \in DOMAIN answers : Expanded(g, answers[i]) = Owes(l.items[i], nulls)
  BY <1>2, <1>4 DEF Settles
<1>8. [i \in DOMAIN answers |-> Expanded(g, answers[i])] = [i \in DOMAIN l.items |-> Owes(l.items[i], nulls)]
  BY <1>7
<1> QED
  BY <1>4, <1>5, <1>6, <1>8 DEF LineOwes

(* for a batch                                                             *)
LEMMA JoinedSettles ==
  ASSUME NEW l, IsLine(l), NEW nulls, NEW answers, DOMAIN answers = DOMAIN l.items,
         answers = [i \in DOMAIN answers |-> answers[i]],
         \A i \in DOMAIN answers : Settles(answers[i], l.items[i], nulls)
  PROVE  /\ IdsOf(Joined(answers).items) = LineOwes(l, nulls)
         /\ Joined(answers).form = "garbled" => \E i \in DOMAIN answers : Len(answers[i]) > 1
<1>1. Joined(answers).items = FlattenSeq(answers)
  BY DEF Joined, Silence
<1>2. Joined(answers).form = "garbled" => \E i \in DOMAIN answers : Len(answers[i]) > 1
  BY DEF Joined, Silence
<1> QED
  BY <1>1, <1>2, AnswersSettle

(* and for a line of one value.                                            *)
LEMMA OneSettles ==
  ASSUME NEW l, IsLine(l), l.form = "single", NEW nulls \in Seq({NullId})
  PROVE  LineOwes(l, nulls) = Owes(l.items[1], nulls)
<1> DEFINE owed == Owes(l.items[1], nulls)
<1>1. owed \in Seq({NullId, l.items[1].id})
  BY OwedIds
<1>2. [i \in DOMAIN l.items |-> Owes(l.items[i], nulls)] = [i \in {1} |-> owed]
  BY TheValue
<1> HIDE DEF owed
<1>3. [i \in {1} |-> owed] = <<owed>>
  OBVIOUS
<1>4. FlattenSeq(<<owed>>) = owed
  BY <1>1, FlattenShort
<1> QED
  BY <1>2, <1>3, <1>4 DEF LineOwes, owed

(* A response of a line that is no batch has what its value is answered.   *)
LEMMA PlainSettles ==
  ASSUME NEW l, IsLine(l), l.form = "single", NEW nulls \in Seq({NullId}), NEW answer,
         Settles(answer, l.items[1], nulls)
  PROVE  IdsOf(Plain(answer).items) = LineOwes(l, nulls) /\ Plain(answer).form # "garbled"
<1>1. Plain(answer).items = answer /\ Plain(answer).form # "garbled"
  BY DEF Plain, Silence
<1> QED
  BY <1>1, OneSettles DEF Settles

(* A line is answered what it is owed, and in one piece.                   *)
AnsweredWhole(r, l, nulls) == IdsOf(r.items) = LineOwes(l, nulls) /\ r.form # "garbled"

(* The empty sequence and the one of the null id are sequences of it.      *)
LEMMA Nulls == <<>> \in Seq({NullId}) /\ <<NullId>> \in Seq({NullId})
  OBVIOUS

(* The synchronous dispatcher answers all of a line that it takes,         *)
LEMMA DispatchSettles ==
  ASSUME NEW l, IsLine(l), l.form = "single" \/ (l.form = "batch" /\ ~HasModern(l.items))
  PROVE  AnsweredWhole(Dispatch(l), l, <<NullId>>)
<1>1. CASE l.form = "single"
  <2>1. Dispatch(l) = Plain(DispatchSingle(l.items[1]))
    BY <1>1 DEF Dispatch
  <2>2. Settles(DispatchSingle(l.items[1]), l.items[1], <<NullId>>)
    BY SyncSettles
  <2> QED
    BY <1>1, <2>1, <2>2, Nulls, PlainSettles DEF AnsweredWhole
<1>2. CASE l.form = "batch" /\ ~HasModern(l.items)
  <2> DEFINE answers == [i \in DOMAIN l.items |-> DispatchSingle(l.items[i])]
  <2>1. Dispatch(l) = Joined(answers)
    BY <1>2 DEF Dispatch
  <2>2. ASSUME NEW i \in DOMAIN answers
        PROVE  Settles(answers[i], l.items[i], <<NullId>>) /\ ~(Len(answers[i]) > 1)
    <3>1. Settles(DispatchSingle(l.items[i]), l.items[i], <<NullId>>)
      BY SyncSettles
    <3>2. Era(l.items[i]) = Absent
      BY <1>2 DEF HasModern, Era
    <3>3. Len(DispatchSingle(l.items[i])) <= 1
      BY <3>2, SyncSettles
    <3>4. Len(DispatchSingle(l.items[i])) \in Nat
      BY <3>1 DEF Settles
    <3> QED
      BY <3>1, <3>3, <3>4
  <2>3. DOMAIN answers = DOMAIN l.items /\ answers = [i \in DOMAIN answers |-> answers[i]]
    OBVIOUS
  <2> HIDE DEF answers
  <2> QED
    BY <2>1, <2>2, <2>3, JoinedSettles DEF AnsweredWhole
<1> QED
  BY <1>1, <1>2

(* as does the asynchronous one, though not always in one piece,           *)
LEMMA DispatchAsyncSettles ==
  ASSUME NEW l, IsLine(l), l.form \in {"single", "batch"}
  PROVE  /\ IdsOf(DispatchAsync(l).items) = LineOwes(l, <<NullId>>)
         /\ DispatchAsync(l).form = "garbled" => l.form = "batch" /\ HasModern(l.items)
<1>1. CASE l.form = "single"
  <2>1. DispatchAsync(l) = Plain(DispatchSingleAsync(l.items[1]))
    BY <1>1 DEF DispatchAsync
  <2>2. Settles(DispatchSingleAsync(l.items[1]), l.items[1], <<NullId>>)
    BY <1>1, TheValue, AsyncSettles
  <2> QED
    BY <1>1, <2>1, <2>2, Nulls, PlainSettles
<1>2. CASE l.form = "batch"
  <2> DEFINE answers == [i \in DOMAIN l.items |-> DispatchSingleAsync(l.items[i])]
  <2>1. DispatchAsync(l) = Joined(answers)
    BY <1>2 DEF DispatchAsync
  <2>2. ASSUME NEW i \in DOMAIN answers
        PROVE  Settles(answers[i], l.items[i], <<NullId>>) /\ (Len(answers[i]) > 1 => HasModern(l.items))
    <3>1. IsValue(l.items[i])
      BY DEF IsLine
    <3>2. Settles(DispatchSingleAsync(l.items[i]), l.items[i], <<NullId>>)
      BY <3>1, AsyncSettles
    <3>3. l.items[i].meta = Absent => Len(DispatchSingleAsync(l.items[i])) <= 1
      BY <3>1, AsyncSettles
    <3>4. Len(DispatchSingleAsync(l.items[i])) \in Nat
      BY <3>2 DEF Settles
    <3> QED
      BY <3>2, <3>3, <3>4 DEF HasModern, RequestProtocolVersion
  <2>3. DOMAIN answers = DOMAIN l.items /\ answers = [i \in DOMAIN answers |-> answers[i]]
    OBVIOUS
  <2> HIDE DEF answers
  <2> QED
    BY <1>2, <2>1, <2>2, <2>3, JoinedSettles
<1> QED
  BY <1>1, <1>2

(* and HTTP.                                                               *)
LEMMA DispatchAnySettles ==
  ASSUME NEW l, IsLine(l), l.form \in {"single", "batch"}
  PROVE  AnsweredWhole(DispatchAny(l), l, <<>>)
<1>1. CASE l.form = "single"
  <2>1. DispatchAny(l) = Plain(HttpDispatch(l.items[1]))
    BY <1>1 DEF DispatchAny
  <2>2. Settles(HttpDispatch(l.items[1]), l.items[1], <<>>)
    BY <1>1, TheValue, HttpSettles
  <2> QED
    BY <1>1, <2>1, <2>2, Nulls, PlainSettles DEF AnsweredWhole
<1>2. CASE l.form = "batch"
  <2> DEFINE answers == [i \in DOMAIN l.items |-> HttpDispatch(l.items[i])]
  <2>1. DispatchAny(l) = Joined(answers)
    BY <1>2 DEF DispatchAny
  <2>2. ASSUME NEW i \in DOMAIN answers
        PROVE  Settles(answers[i], l.items[i], <<>>) /\ ~(Len(answers[i]) > 1)
    <3>1. Settles(HttpDispatch(l.items[i]), l.items[i], <<>>) /\ Len(HttpDispatch(l.items[i])) <= 1
      BY HttpSettles DEF IsLine
    <3>2. Len(HttpDispatch(l.items[i])) \in Nat
      BY <3>1 DEF Settles
    <3> QED
      BY <3>1, <3>2
  <2>3. DOMAIN answers = DOMAIN l.items /\ answers = [i \in DOMAIN answers |-> answers[i]]
    OBVIOUS
  <2> HIDE DEF answers
  <2> QED
    BY <2>1, <2>2, <2>3, JoinedSettles DEF AnsweredWhole
<1> QED
  BY <1>1, <1>2

(* A line as a whole is refused for one of these reasons.                  *)
RefusedWhole(r, l, reasons) ==
  /\ Len(r.items) = 1
  /\ r.items[1].status = "error" /\ r.items[1].what \in reasons /\ r.items[1].id = IdOf(l) /\ r.items[1].by = "none"

(* Refused does so.                                                        *)
LEMMA RefusesWhole ==
  ASSUME NEW l, NEW what, NEW reasons, what \in reasons, NEW status
  PROVE  /\ RefusedWhole(Refused(IdOf(l), what), l, reasons)
         /\ RefusedWhole(Http(status, Refused(IdOf(l), what)), l, reasons)
<1> DEFINE m == Reply(IdOf(l), Error(what))
<1>1. m.status = "error" /\ m.what = what /\ m.id = IdOf(l) /\ m.by = "none"
  BY Failed, Replied
<1> HIDE DEF m
<1>2. Refused(IdOf(l), what).items = <<m>> /\ Http(status, Refused(IdOf(l), what)).items = <<m>>
  BY HttpMade DEF Refused, Single, m
<1>3. Len(<<m>>) = 1 /\ <<m>>[1] = m
  OBVIOUS
<1> QED
  BY <1>1, <1>2, <1>3 DEF RefusedWhole

ReasonsOf(l, own) ==
  {"parse error"} \cup own \cup (IF HasModern(l.items) THEN {"invalid request"} ELSE {})

LoopReasons(l) == ReasonsOf(l, {"not initialized"})

RemoteReasons(l) == ReasonsOf(l, {"unauthorized", "forbidden", "header mismatch"})

(* A dispatcher answers a line, unless it takes the line as a whole for    *)
(* something that it refuses.                                              *)
LEMMA StdioAnswers ==
  ASSUME NEW l, IsLine(l), NEW own
  PROVE  /\ \/ AnsweredWhole(Dispatch(l), l, <<NullId>>)
            \/ RefusedWhole(Dispatch(l), l, ReasonsOf(l, own))
         /\ \/ /\ IdsOf(DispatchAsync(l).items) = LineOwes(l, <<NullId>>)
               /\ DispatchAsync(l).form = "garbled" => l.form = "batch" /\ HasModern(l.items)
            \/ RefusedWhole(DispatchAsync(l), l, ReasonsOf(l, own))
<1>0. l.form \in {"garbage", "blank"} \/ l.form = "single" \/ l.form = "batch"
  BY DEF IsLine
<1>1. CASE l.form \in {"garbage", "blank"}
  <2>1. PICK text : Dispatch(l) = Refused(NullId, text) /\ DispatchAsync(l) = Refused(NullId, text) /\ text \in ReasonsOf(l, own)
    <3>1. Dispatch(l) = Refused(NullId, "parse error") /\ DispatchAsync(l) = Refused(NullId, "parse error")
      BY <1>1 DEF Dispatch, DispatchAsync
    <3>2. "parse error" \in ReasonsOf(l, own)
      BY DEF ReasonsOf
    <3> QED
      BY <3>1, <3>2
  <2>2. IdOf(l) = NullId
    BY <1>1 DEF IdOf
  <2> QED
    BY <2>1, <2>2, RefusesWhole
<1>2. CASE l.form = "batch" /\ HasModern(l.items)
  <2>1. PICK text : Dispatch(l) = Refused(NullId, text) /\ text \in ReasonsOf(l, own)
    <3>1. Dispatch(l) = Refused(NullId, "invalid request")
      BY <1>2 DEF Dispatch
    <3>2. "invalid request" \in ReasonsOf(l, own)
      BY <1>2 DEF ReasonsOf
    <3> QED
      BY <3>1, <3>2
  <2>2. IdOf(l) = NullId
    BY <1>2 DEF IdOf
  <2> QED
    BY <1>2, <2>1, <2>2, RefusesWhole, DispatchAsyncSettles
<1>3. CASE l.form = "single" \/ (l.form = "batch" /\ ~HasModern(l.items))
  BY <1>3, DispatchSettles, DispatchAsyncSettles
<1> QED
  BY <1>0, <1>1, <1>2, <1>3

(* So does HTTP, whose framework turns away what is no JSON.               *)
LEMMA HttpAnswers ==
  ASSUME NEW l, IsLine(l), NEW h
  PROVE  LET r == RpcHandler(l, h) IN
         \/ r.status = 400 /\ r.form = "none"
         \/ AnsweredWhole(r, l, <<>>)
         \/ RefusedWhole(r, l, RemoteReasons(l))
<1> DEFINE r == RpcHandler(l, h)
<1>1. CASE l.form \notin {"single", "batch"}
  BY <1>1, HttpMade DEF RpcHandler, RejectedBody, Silence
<1>2. CASE l.form \in {"single", "batch"} /\ (~OriginAllowed(h) \/ ~CheckAuth(h.credential))
  <2>1. PICK status, text : r = Http(status, Refused(IdOf(l), text)) /\ text \in RemoteReasons(l)
    <3>1. "forbidden" \in RemoteReasons(l) /\ "unauthorized" \in RemoteReasons(l)
      BY DEF RemoteReasons, ReasonsOf
    <3> QED
      BY <1>2, <3>1 DEF RpcHandler
  <2> QED
    BY <2>1, RefusesWhole
<1>3. ASSUME l.form \in {"single", "batch"}
      PROVE  /\ AnsweredWhole(Answered(DispatchAny(l)), l, <<>>)
             /\ \A status : AnsweredWhole(Http(status, DispatchAny(l)), l, <<>>)
  BY <1>3, DispatchAnySettles, HttpMade DEF AnsweredWhole, Answered
<1>4. CASE l.form = "batch" /\ OriginAllowed(h) /\ CheckAuth(h.credential)
  <2>1. CASE HasModern(l.items)
    <3>1. PICK text : r = Http(400, Refused(NullId, text)) /\ text \in RemoteReasons(l)
      <4>1. r = Http(400, Refused(NullId, "invalid request"))
        BY <1>4, <2>1 DEF RpcHandler
      <4>2. "invalid request" \in RemoteReasons(l)
        BY <2>1 DEF RemoteReasons, ReasonsOf
      <4> QED
        BY <4>1, <4>2
    <3>2. IdOf(l) = NullId
      BY <1>4 DEF IdOf
    <3> QED
      BY <3>1, <3>2, RefusesWhole
  <2>2. CASE ~HasModern(l.items)
    <3>1. r = Answered(DispatchAny(l))
      BY <1>4, <2>2 DEF RpcHandler
    <3> QED
      BY <1>3, <1>4, <3>1
  <2> QED
    BY <2>1, <2>2
<1>5. CASE /\ l.form = "single" /\ OriginAllowed(h) /\ CheckAuth(h.credential)
           /\ ~(Era(l.items[1]) # Absent /\ IsRequest(l.items[1]))
  <2>1. r = Answered(DispatchAny(l))
    BY <1>5 DEF RpcHandler
  <2> QED
    BY <1>3, <1>5, <2>1
<1>6. CASE /\ l.form = "single" /\ OriginAllowed(h) /\ CheckAuth(h.credential)
           /\ Era(l.items[1]) # Absent /\ IsRequest(l.items[1])
  <2> DEFINE req == l.items[1]
  <2>1. r = HandleModern(l, req, h)
    BY <1>6 DEF RpcHandler
  <2>2. LineOwes(l, <<>>) = <<req.id>> /\ IdOf(l) = req.id
    BY <1>6, Nulls, OneSettles DEF Owes, IsRequest, IdOf
  <2>3. CASE HeaderMismatch(req, h) /\ Era(req) \in Supported
    <3>1. PICK text : r = Http(400, Refused(IdOf(l), text)) /\ text \in RemoteReasons(l)
      <4>1. r = Http(400, Refused(IdOf(l), "header mismatch"))
        BY <2>1, <2>2, <2>3 DEF HandleModern
      <4>2. "header mismatch" \in RemoteReasons(l)
        BY DEF RemoteReasons, ReasonsOf
      <4> QED
        BY <4>1, <4>2
    <3> QED
      BY <3>1, RefusesWhole
  <2>4. CASE Era(req) \notin Supported \/ (~HeaderMismatch(req, h) /\ req.method \notin ModernMethods)
    <3>1. PICK status, text : r = Http(status, Refused(req.id, text))
      BY <2>1, <2>4 DEF HandleModern
    <3>2. r.items = <<Reply(req.id, Error(text))>> /\ r.form = "single"
      <4>1. Refused(req.id, text).items = <<Reply(req.id, Error(text))>> /\ Refused(req.id, text).form = "single"
        BY DEF Refused, Single
      <4> HIDE DEF r
      <4> QED
        BY <3>1, <4>1, HttpMade
    <3> HIDE DEF r
    <3>3. IdsOf(r.items) = <<req.id>>
      BY <3>2, ErrorReplies, RepliesOnce
    <3> QED
      BY <2>2, <3>2, <3>3 DEF AnsweredWhole, r
  <2>5. CASE /\ Era(req) \in Supported /\ ~HeaderMismatch(req, h) /\ req.method \in ModernMethods
             /\ req.method = "subscriptions/listen"
    <3>1. r = Http(200, SubscriptionResponse(req))
      BY <2>1, <2>5 DEF HandleModern
    <3>2. r.items = <<Acknowledged, Reply(req.id, Closing)>> /\ r.form = "stream"
      BY <3>1, HttpMade DEF SubscriptionResponse
    <3>3. Reply(req.id, Closing).id = req.id /\ Reply(req.id, Closing).status # "notification"
      <4>1. IsMessage(Closing) /\ Closing.status = "result"
        BY Made, Shaped DEF Closing
      <4> QED
        BY <4>1, Replied
    <3> HIDE DEF r
    <3>4. Replies(r.items, req.id)
      BY <3>2, <3>3 DEF Replies
    <3>5. IdsOf(r.items) = <<req.id>>
      BY <3>4, RepliesOnce
    <3> QED
      BY <2>2, <3>2, <3>5 DEF AnsweredWhole, r
  <2>6. CASE /\ Era(req) \in Supported /\ ~HeaderMismatch(req, h) /\ req.method \in ModernMethods
             /\ req.method # "subscriptions/listen"
    <3>1. r = Http(200, DispatchAny(l))
      BY <2>1, <2>6 DEF HandleModern
    <3> QED
      BY <1>3, <1>6, <3>1
  <2> HIDE DEF r, req
  <2> QED
    BY <2>3, <2>4, <2>5, <2>6 DEF r
<1> QED
  BY <1>1, <1>2, <1>4, <1>5, <1>6

(* A front end is silent, has a body turned away, answers a line whole, or *)
(* refuses it whole.                                                       *)
Treats(f, r, l) ==
  \/ r = Silence
  \/ f = "http" /\ r.status = 400 /\ r.form = "none"
  \/ /\ IdsOf(r.items) = LineOwes(l, IF f = "http" THEN <<>> ELSE <<NullId>>)
     /\ r.form = "garbled" => f \in {"async", "authenticated_async"} /\ l.form = "batch" /\ HasModern(l.items)
  \/ RefusedWhole(r, l, IF f \in Loops THEN LoopReasons(l) ELSE RemoteReasons(l))

(* That is what each does to a line it receives.                           *)
LEMMA FrontEndsTreat ==
  ASSUME SessionInv, NEW new \in Lines, NEW context \in Contexts, Receive(new, context), NEW f \in FrontEnds
  PROVE  Treats(f, said'[f], new)
<1>1. /\ IsLine(new)
      /\ said'["sync"] = LoopSays("sync", new) /\ said'["async"] = LoopSays("async", new)
      /\ said'["authenticated"] = DispatchAuthenticated(new, context.credential)
      /\ said'["authenticated_async"] = DispatchAuthenticatedAsync(new, context.credential)
      /\ said'["http"] = RpcHandler(new, context)
  BY Responses
<1>2. ASSUME NEW own
      PROVE  /\ \/ AnsweredWhole(Dispatch(new), new, <<NullId>>)
                \/ RefusedWhole(Dispatch(new), new, ReasonsOf(new, own))
             /\ \/ /\ IdsOf(DispatchAsync(new).items) = LineOwes(new, <<NullId>>)
                   /\ DispatchAsync(new).form = "garbled" => new.form = "batch" /\ HasModern(new.items)
                \/ RefusedWhole(DispatchAsync(new), new, ReasonsOf(new, own))
  BY <1>1, StdioAnswers
<1>3. CASE f \in Loops
  <2>1. PICK text : /\ text \in LoopReasons(new)
                    /\ LoopSays(f, new) \in {Silence, Refused(IdOf(new), text), IF f = "sync" THEN Dispatch(new) ELSE DispatchAsync(new)}
    <3>1. "not initialized" \in LoopReasons(new)
      BY DEF LoopReasons, ReasonsOf
    <3> QED
      BY <3>1 DEF LoopSays
  <2>2. said'[f] = LoopSays(f, new) /\ f \in {"sync", "async"}
    BY <1>1, <1>3 DEF Loops
  <2>3. CASE LoopSays(f, new) = Silence
    BY <2>2, <2>3 DEF Treats
  <2>4. CASE LoopSays(f, new) = Refused(IdOf(new), text)
    <3>1. RefusedWhole(said'[f], new, LoopReasons(new))
      BY <2>1, <2>2, <2>4, RefusesWhole
    <3> QED
      BY <1>3, <3>1 DEF Treats
  <2>5. CASE LoopSays(f, new) \notin {Silence, Refused(IdOf(new), text)}
    <3>1. CASE f = "sync"
      <4>1. said'[f] = Dispatch(new)
        BY <2>1, <2>2, <2>5, <3>1
      <4> QED
        BY <1>2, <1>3, <3>1, <4>1 DEF Treats, LoopReasons, AnsweredWhole
    <3>2. CASE f = "async"
      <4>1. said'[f] = DispatchAsync(new)
        BY <2>1, <2>2, <2>5, <3>2
      <4> QED
        BY <1>2, <1>3, <3>2, <4>1 DEF Treats, LoopReasons
    <3> QED
      BY <2>2, <3>1, <3>2
  <2> QED
    BY <2>3, <2>4, <2>5
<1>4. CASE f \in Direct
  <2>1. PICK text : /\ text \in RemoteReasons(new)
                    /\ said'[f] \in {Refused(IdOf(new), text),
                                     IF f = "authenticated" THEN Dispatch(new) ELSE DispatchAsync(new)}
    <3>1. "unauthorized" \in RemoteReasons(new)
      BY DEF RemoteReasons, ReasonsOf
    <3> QED
      BY <1>1, <1>4, <3>1 DEF Direct, DispatchAuthenticated, DispatchAuthenticatedAsync
  <2>2. f \in {"authenticated", "authenticated_async"} /\ f \notin Loops /\ f # "http"
    BY <1>4 DEF Direct, Loops
  <2>3. CASE said'[f] = Refused(IdOf(new), text)
    <3>1. RefusedWhole(said'[f], new, RemoteReasons(new))
      BY <2>1, <2>3, RefusesWhole
    <3> QED
      BY <2>2, <3>1 DEF Treats
  <2>4. CASE f = "authenticated" /\ said'[f] = Dispatch(new)
    BY <1>2, <2>2, <2>4 DEF Treats, RemoteReasons, AnsweredWhole
  <2>5. CASE f = "authenticated_async" /\ said'[f] = DispatchAsync(new)
    BY <1>2, <2>2, <2>5 DEF Treats, RemoteReasons
  <2> QED
    BY <2>1, <2>2, <2>3, <2>4, <2>5
<1>5. CASE f = "http"
  <2>1. said'[f] = RpcHandler(new, context) /\ f \notin Loops
    BY <1>1, <1>5 DEF Loops
  <2> QED
    BY <1>1, <1>5, <2>1, HttpAnswers DEF Treats, AnsweredWhole
<1> QED
  BY <1>3, <1>4, <1>5 DEF FrontEnds

(* Every request of a line is answered exactly once, under its own id and  *)
(* in the order of the requests, and a notification not at all, or the     *)
(* line is refused as a whole, whichever front end it came through and     *)
(* however long a batch it is.                                             *)
THEOREM RequestsAnsweredOnce == Spec => []AnsweredOnce
<1>1. Init => AnsweredOnce
  BY SaysNothing DEF Init, AnsweredOnce
<1>2. SessionInv /\ AnsweredOnce /\ [Next]_vars => AnsweredOnce'
  <2> SUFFICES ASSUME SessionInv, AnsweredOnce, [Next]_vars PROVE AnsweredOnce'
    OBVIOUS
  <2>1. CASE said' = [f \in FrontEnds |-> Silence]
    BY <2>1 DEF AnsweredOnce
  <2>2. CASE UNCHANGED <<serverVars, initialized, line, headers, said>>
    <3>1. \A f \in FrontEnds : Answers(f)' = Answers(f) /\ Owed(f)' = Owed(f) /\ Refusals(f)' = Refusals(f)
      BY <2>2 DEF Answers, Owed, IsRequest, Refusals, HasModern, RequestProtocolVersion
    <3>2. ModernBatch' = ModernBatch
      BY <2>2 DEF ModernBatch, HasModern, RequestProtocolVersion
    <3>3. \A f \in FrontEnds : IsRefusal(f)' = IsRefusal(f)
      BY <2>2, <3>1 DEF IsRefusal, IdOf, IsRequest
    <3> QED
      BY <2>2, <3>1, <3>2, <3>3 DEF AnsweredOnce
  <2>3. ASSUME NEW new \in Lines, NEW context \in Contexts, Receive(new, context) PROVE AnsweredOnce'
    <3>1. line' = new
      BY <2>3 DEF Receive
    <3>2. SUFFICES ASSUME NEW f \in FrontEnds, said'[f] # Silence,
                          ~(f = "http" /\ said'[f].status = 400 /\ said'[f].form = "none")
                   PROVE  \/ /\ Answers(f)' = Owed(f)'
                             /\ said'[f].form = "garbled" => f \in {"async", "authenticated_async"} /\ ModernBatch'
                          \/ IsRefusal(f)'
      BY DEF AnsweredOnce
    <3>3. /\ Answers(f)' = IdsOf(said'[f].items)
          /\ Owed(f)' = LineOwes(new, IF f = "http" THEN <<>> ELSE <<NullId>>)
          /\ ModernBatch' = (new.form = "batch" /\ HasModern(new.items))
      <4>1. Answers(f)' = IdsOf(said'[f].items)
        BY DEF Answers, IdsOf
      <4>2. ModernBatch' = (new.form = "batch" /\ HasModern(new.items))
        BY <3>1 DEF ModernBatch, HasModern, RequestProtocolVersion
      <4>3. Owed(f)' = LineOwes(new, IF f = "http" THEN <<>> ELSE <<NullId>>)
        BY <3>1 DEF Owed, LineOwes, Owes, IsRequest
      <4> QED
        BY <4>1, <4>2, <4>3
    <3>4. Refusals(f)' = IF f \in Loops THEN LoopReasons(new) ELSE RemoteReasons(new)
      BY <3>1 DEF Refusals, LoopReasons, RemoteReasons, ReasonsOf, HasModern, RequestProtocolVersion
    <3>5. IsRefusal(f)' = RefusedWhole(said'[f], new, IF f \in Loops THEN LoopReasons(new) ELSE RemoteReasons(new))
      BY <3>1, <3>4 DEF IsRefusal, RefusedWhole, IdOf, IsRequest
    <3>6. Treats(f, said'[f], new)
      BY <2>3, FrontEndsTreat
    <3> QED
      BY <3>2, <3>3, <3>5, <3>6 DEF Treats
  <2> QED
    BY <2>1, <2>2, <2>3, StepsOfASession
<1> QED
  BY <1>1, <1>2, InitSession, StepSession, PTL DEF Spec
=============================================================================
