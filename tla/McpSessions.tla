------------------------------ MODULE McpSessions ------------------------------
(***************************************************************************)
(* One MCP server behind all of its front ends: the two stdio loops        *)
(* (run_stdio, run_stdio_async), the two authenticated dispatchers that    *)
(* other transports call, and HTTP.  Every line goes to all of them, so    *)
(* that what they answer can be compared.                                  *)
(***************************************************************************)
EXTENDS McpHttp

CONSTANTS
  Lines,       (* The lines clients send.                                  *)
  Contexts     (* The headers they come with over HTTP.                    *)

(* What serde makes of a text: a value that is no object has no members;   *)
(* a line has one value, any number of them, or none that can be parsed.   *)
IsValue(v) == v.kind # "object" => v = Value(v.kind, Absent, "", Absent)

IsLine(l) ==
  /\ l.form \in {"single", "batch", "garbage", "blank"}
  /\ l.items \in Seq(Range(l.items))
  /\ \A i \in DOMAIN l.items : IsValue(l.items[i])
  /\ l.form = "single" => Len(l.items) = 1
  /\ l.form \in {"garbage", "blank"} => l.items = <<>>

ASSUME SessionAssumption == (\A l \in Lines : IsLine(l)) /\ Contexts \subseteq Headers

VARIABLES
  loop,        (* Each stdio loop: "idle", "refused", "reading", "ended".  *)
  initialized, (* Its local flag.                                          *)
  line,        (* The last line,                                           *)
  headers,     (* what came with it,                                       *)
  said         (* and what each front end answered.                        *)

sessionVars == <<loop, initialized, line, headers, said>>
vars == <<serverVars, sessionVars>>

Loops == {"sync", "async"}
Direct == {"authenticated", "authenticated_async"}
FrontEnds == Loops \cup Direct \cup {"http"}

NoLine == [form |-> "blank", items |-> <<>>]

NoHeaders == [origin |-> "none", credential |-> "none", faulty |-> "none"]

Init ==
  /\ ServerInit
  /\ loop = [l \in Loops |-> "idle"]
  /\ initialized = [l \in Loops |-> FALSE]
  /\ line = NoLine
  /\ headers = NoHeaders
  /\ said = [f \in FrontEnds |-> Silence]

SetUp ==
  /\ loop["async"] = "idle"
  /\ Register
  /\ UNCHANGED sessionVars

(* run_stdio refuses a server with a tool it could never call.             *)
Serve ==
  /\ loop["async"] = "idle"
  /\ loop' = [l \in Loops |-> IF l = "sync" /\ AsyncOnlyTools # {} THEN "refused" ELSE "reading"]
  /\ UNCHANGED <<serverVars, initialized, line, headers, said>>

(* A loop skips a blank line and holds a request back that comes too early.*)
LoopSays(l, new) ==
  IF loop[l] # "reading" \/ new.form = "blank" THEN Silence
  ELSE IF TooEarly(new, initialized[l]) THEN Refused(IdOf(new), "not initialized")
  ELSE IF l = "sync" THEN Dispatch(new) ELSE DispatchAsync(new)

Receive(new, context) ==
  /\ line' = new
  /\ headers' = context
  /\ said' = [f \in FrontEnds |->
       CASE f \in Loops -> LoopSays(f, new)
         [] f = "authenticated" -> DispatchAuthenticated(new, context.credential)
         [] f = "authenticated_async" -> DispatchAuthenticatedAsync(new, context.credential)
         [] f = "http" -> RpcHandler(new, context)]
  /\ initialized' = [l \in Loops |-> initialized[l] \/ (loop[l] = "reading" /\ Initializes(new))]
  /\ UNCHANGED <<serverVars, loop>>

(* The client reads the answers.                                           *)
TakeAnswers ==
  /\ line # NoLine
  /\ line' = NoLine
  /\ said' = [f \in FrontEnds |-> Silence]
  /\ headers' = NoHeaders
  /\ UNCHANGED <<serverVars, loop, initialized>>

(* The input ends, or has a line that is too long or no UTF-8.             *)
CloseInput ==
  /\ line = NoLine
  /\ loop["async"] = "reading"
  /\ loop' = [l \in Loops |-> IF loop[l] = "reading" THEN "ended" ELSE loop[l]]
  /\ UNCHANGED <<serverVars, initialized, line, headers, said>>

Next ==
  \/ SetUp
  \/ Serve
  \/ /\ loop["async"] # "idle" /\ line = NoLine
     /\ \E new \in Lines, context \in Contexts : Receive(new, context)
  \/ TakeAnswers
  \/ CloseInput

Spec == Init /\ [][Next]_vars

----------------------------------------------------------------------------
(* What must hold.                                                         *)

CallsAsyncTool == \E i \in DOMAIN line.items : line.items[i].method = "tools/call" /\ line.items[i].name \in async
HasScalar == \E i \in DOMAIN line.items : line.items[i].kind # "object"
ModernBatch == line.form = "batch" /\ HasModern(line.items)

(* The type of every variable: no dispatcher falls through its table.      *)
McpTypeOK ==
  /\ schema \in [Tools -> Schemas \cup {Absent}]
  /\ sync \subseteq Tools /\ async \subseteq Tools
  /\ readable \subseteq Uris /\ renderable \subseteq Prompts /\ secured \in BOOLEAN
  /\ loop \in [Loops -> {"idle", "refused", "reading", "ended"}]
  /\ initialized \in [Loops -> BOOLEAN]
  /\ line \in Lines \cup {NoLine}
  /\ DOMAIN said = FrontEnds

Items(f) == {said[f].items[i] : i \in DOMAIN said[f].items}

(* The ids a front end owes an answer, in order.  A value that is no       *)
(* object is answered under the null id by the stdio dispatchers and       *)
(* ignored by HTTP.                                                        *)
Owed(f) ==
  FlattenSeq([i \in DOMAIN line.items |->
    IF line.items[i].kind # "object" THEN IF f = "http" THEN <<>> ELSE <<NullId>>
    ELSE IF IsRequest(line.items[i]) THEN <<line.items[i].id>> ELSE <<>>])

(* The ids it answers under.                                               *)
Answers(f) ==
  FlattenSeq([i \in DOMAIN said[f].items |->
    IF said[f].items[i].status = "notification" THEN <<>> ELSE <<said[f].items[i].id>>])

Refusals(f) ==
  {"parse error"} \cup
  (IF f \in Loops THEN {"not initialized"} ELSE {"unauthorized", "forbidden", "header mismatch"})
  \cup (IF HasModern(line.items) THEN {"invalid request"} ELSE {})

(* A line as a whole is refused with a single error and runs nothing.      *)
IsRefusal(f) ==
  /\ Len(said[f].items) = 1
  /\ LET refusal == said[f].items[1] IN
       refusal.status = "error" /\ refusal.what \in Refusals(f) /\ refusal.id = IdOf(line) /\ refusal.by = "none"

(* Every request of a line is answered exactly once, under its own id and  *)
(* in the order of the requests, and a notification not at all, by         *)
(* whichever front end; or the line is refused as a whole                  *)
(* (src/src/mcp/transport.rs:94, src/src/mcp/http.rs:299).  A stream that  *)
(* two lines inside a batch break is only the asynchronous dispatcher's.   *)
AnsweredOnce ==
  \A f \in FrontEnds :
    said[f] # Silence /\ ~(f = "http" /\ said[f].status = 400 /\ said[f].form = "none") =>
      \/ /\ Answers(f) = Owed(f)
         /\ said[f].form = "garbled" => f \in {"async", "authenticated_async"} /\ ModernBatch
      \/ IsRefusal(f)

(* The dispatchers, each written out by hand, answer alike: the            *)
(* synchronous as the asynchronous except for tools with an asynchronous   *)
(* handler, HTTP as the asynchronous on what it accepts, and a loop the    *)
(* same to a modern request whatever its session.  A modern request in a   *)
(* batch and a value that is no object are where they differ.              *)
TransportsAgree ==
  /\ ~CallsAsyncTool /\ ~ModernBatch => said["authenticated"] = said["authenticated_async"]
  /\ said["http"] # Silence /\ said["http"].status \in {200, 202, 404} /\ ~HasScalar =>
       said["http"].items = said["authenticated_async"].items
  /\ secured = FALSE /\ line.form = "single" /\ HasModern(line.items) =>
       /\ loop["sync"] = "reading" => said["sync"] = said["authenticated"]
       /\ loop["async"] = "reading" => said["async"] = said["authenticated_async"]

(* A tool, resource or prompt handler runs only for a caller that may call *)
(* it and with arguments its description accepts: after the handshake, or  *)
(* in a batch or a modern request, which need none, on stdio; with the     *)
(* right credential and origin elsewhere.                                  *)
GuardedRuns ==
  \A f \in FrontEnds : \A m \in Items(f) : m.by # "none" =>
    /\ f \in Loops => initialized[f] \/ line.form = "batch" \/ HasModern(line.items)
    /\ f \notin Loops => CheckAuth(headers.credential)
    /\ f = "http" => OriginAllowed(headers) /\ said[f].status = 200
    /\ \E i \in DOMAIN line.items :
         /\ line.items[i].id = m.id
         /\ line.items[i].method \in {"tools/call", "resources/read", "prompts/get"}
         /\ line.items[i].method = "tools/call" =>
              /\ schema[line.items[i].name] = "required" => line.items[i].args = "complete"
              /\ schema[line.items[i].name] = "object" => line.items[i].args # "scalar"

(* The eras are kept apart: only results to the latest version carry its   *)
(* fields, all of them do, and a handshake never hands that version out.   *)
EraRespected ==
  \A f \in FrontEnds :
    said[f] # Silence /\ line.form = "single" =>
      LET req == line.items[1] IN
      \A m \in Items(f) : m.status = "result" =>
        /\ Era(req) = Latest => m.stamp # "no"
        /\ m.stamp # "no" => Era(req) = Latest \/ m.what = "closed"
        /\ m.stamp = "cacheable" => req.method \in Cacheable
        /\ req.method = "initialize" => m.what \in Range(Legacy)
        /\ m.what \in {"discovered", "closed"} => Era(req) \in Supported
=============================================================================
