------------------------------- MODULE McpServer -------------------------------
(***************************************************************************)
(* McpServer of src/src/mcp/server.rs: the registration of tools,          *)
(* resources and prompts before serving, and the answers it gives the      *)
(* transports.  JSON values are records that keep what the dispatchers     *)
(* tell apart.                                                             *)
(***************************************************************************)
EXTENDS Naturals, Sequences, FiniteSets, SequencesExt

CONSTANTS
  Tools, Uris, Prompts,
  Failing,     (* The tools, uris and prompts whose handlers return Err.   *)
  Latest,      (* LATEST_PROTOCOL_VERSION                                  *)
  Legacy,      (* LEGACY_PROTOCOL_VERSIONS, newest first.                  *)
  NullId,      (* The JSON null, as an id.                                 *)
  Absent       (* A member the JSON does not have.                         *)

(* Versions are dates: neither missing nor a result of another kind.       *)
ASSUME ServerAssumption ==
  /\ Legacy \in Seq(Range(Legacy)) /\ Legacy # <<>> /\ Latest \notin Range(Legacy)
  /\ Absent \notin Range(Legacy) \cup {Latest}
  /\ Range(Legacy) \cap {"discovered", "closed"} = {}

VARIABLES
  schema,      (* What the first description of each tool asks of the      *)
               (* arguments, or Absent for a tool nobody described.        *)
  sync,        (* The tools with a synchronous handler.                    *)
  secured,     (* Whether a bearer token is required.                      *)
  async,       (* The tools with an asynchronous handler.                  *)
  readable,    (* The resources with a handler.                            *)
  renderable   (* The prompts with a handler.                              *)

serverVars == <<schema, sync, async, readable, renderable, secured>>

(* "free" has no object type, "object" no required argument.               *)
Schemas == {"free", "object", "required"}

(* Arguments of a call: none, an object without or with the required       *)
(* argument, or some other JSON value.                                     *)
Arguments == {"null", "object", "complete", "scalar"}

Supported == {Latest} \cup Range(Legacy)

ServerInit ==
  /\ schema = [t \in Tools |-> Absent]
  /\ sync = {} /\ async = {} /\ readable = {} /\ renderable = {} /\ secured = FALSE

(* register_tool appends; a second description of a name is never found.   *)
RegisterTool(t, s) ==
  /\ schema' = [schema EXCEPT ![t] = IF @ = Absent THEN s ELSE @]
  /\ UNCHANGED <<sync, async, readable, renderable, secured>>

SetHandler(t) == sync' = sync \cup {t} /\ UNCHANGED <<schema, async, readable, renderable, secured>>

SetAsyncHandler(t) == async' = async \cup {t} /\ UNCHANGED <<schema, sync, readable, renderable, secured>>

SetResourceHandler(u) == readable' = readable \cup {u} /\ UNCHANGED <<schema, sync, async, renderable, secured>>

SetPromptHandler(p) == renderable' = renderable \cup {p} /\ UNCHANGED <<schema, sync, async, readable, secured>>

WithBearerAuth == secured' = TRUE /\ UNCHANGED <<schema, sync, async, readable, renderable>>

(* BearerAuth::validate, for a header that is missing, of another scheme   *)
(* or token, or right.                                                     *)
Credentials == {"none", "wrong", "right"}

CheckAuth(credential) == secured => credential = "right"

Register ==
  \/ WithBearerAuth
  \/ \E t \in Tools : SetHandler(t) \/ SetAsyncHandler(t) \/ \E s \in Schemas : RegisterTool(t, s)
  \/ \E u \in Uris : SetResourceHandler(u)
  \/ \E p \in Prompts : SetPromptHandler(p)

----------------------------------------------------------------------------
(* What the server answers: a message without its id.  "by" is the handler   *)
(* that ran, "stamp" whether the result carries the fields of a modern one.*)

Message(status, what) ==
  [id |-> Absent, status |-> status, what |-> what, stamp |-> "no", by |-> "none"]
Result(what) == Message("result", what)
Error(what) == Message("error", what)
Reply(id, message) == [message EXCEPT !.id = id]

Cacheable == {"server/discover", "tools/list", "resources/list", "resources/templates/list",
              "prompts/list", "resources/read"}

Shape(version, method, reply) ==
  IF version # Latest \/ reply.status = "error" THEN reply
  ELSE [reply EXCEPT !.stamp = IF method \in Cacheable THEN "cacheable" ELSE "complete"]

HasTool(t) == t \in sync \cup async

(* The arguments a described tool refuses.  The mutant forgets the         *)
(* required ones.                                                          *)
RefusesArgumentsOfWrongType(t, args) ==
  t \in Tools /\ schema[t] \in {"object", "required"} /\ args = "scalar"

RefusesArguments(t, args) ==
  /\ t \in Tools
  /\ \/ schema[t] = "object" /\ args = "scalar"
     \/ schema[t] = "required" /\ args # "complete"

AsyncOnlyTools == async \ sync

(* A handler's Err, and a tool without a fitting handler, are reported in  *)
(* the result, with isError.                                               *)
Content(t, by) == [Result(IF t \in Failing THEN "isError" ELSE "content") EXCEPT !.by = by]

CallTool(t) == IF t \in sync THEN Content(t, "sync") ELSE Result("isError")

CallToolAsync(t) ==
  IF t \in async THEN Content(t, "async")
  ELSE IF t \in sync THEN Content(t, "sync")
  ELSE Result("isError")

(* Only a legacy version is handed out.  The mutant echoes any version the *)
(* server supports.                                                        *)
NegotiatedAny(asks) == IF asks \in Supported THEN asks ELSE Legacy[1]

Negotiated(asks) == IF asks \in Range(Legacy) THEN asks ELSE Legacy[1]

InitializeResponse(asks) == Result(Negotiated(asks))

Handled(name, handlers, what) ==
  IF name \notin handlers THEN Error("invalid params")
  ELSE IF name \in Failing THEN [Error("invalid params") EXCEPT !.by = "sync"]
  ELSE [Result(what) EXCEPT !.by = "sync"]

ReadResource(u) == Handled(u, readable, "contents")

GetPrompt(p) == Handled(p, renderable, "messages")

(* The closing result of subscriptions/listen has the latest version's     *)
(* shape whatever version the request declares.                            *)
Closing == Shape(Latest, "subscriptions/listen", Result("closed"))
=============================================================================
