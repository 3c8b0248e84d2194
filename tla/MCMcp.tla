--------------------------------- MODULE MCMcp ---------------------------------
(***************************************************************************)
(* One tool, one resource, one prompt whose handler fails, three versions  *)
(* and one nobody knows.  Lines are single requests of every method in     *)
(* every era, notifications, values that are no objects, text that is no   *)
(* JSON, and batches of two of a smaller set.                              *)
(***************************************************************************)
EXTENDS McpSessions

CONSTANTS t1, u1, p1, id1, id2

MCLatest == "2026-07-28"
MCLegacy == <<"2025-06-18", "2024-11-05">>

Request(id, method, meta) == Value("object", id, method, meta)
Named(req, name, args) == [req EXCEPT !.name = name, !.args = args]

Metas == {Absent, "2026-07-28", "2025-06-18", "1999-01-01"}

Calls(id, meta) ==
  {Named(Request(id, "tools/call", meta), t1, a) : a \in Arguments} \cup {Request(id, "tools/call", meta)}

Requests ==
  {Request(id1, m, v) : m \in {"ping", "tools/list", "prompts/list", "server/discover",
                               "subscriptions/listen", "unheard/of"}, v \in Metas}
  \cup {[Request(i, "initialize", v) EXCEPT !.asks = w] :
          i \in {id1, Absent}, v \in {Absent, "2026-07-28"}, w \in {"2024-11-05", "2026-07-28"}}
  \cup UNION {Calls(id1, v) : v \in Metas \ {"1999-01-01"}}
  \cup {Named(Request(id1, "resources/read", v), n, "null") : n \in {u1, Absent}, v \in {Absent, MCLatest}}
  \cup {Named(Request(NullId, "prompts/get", v), n, "object") : n \in {p1, Absent}, v \in {Absent, MCLatest}}
  \cup {Request(Absent, "notifications/initialized", Absent), Named(Request(Absent, "tools/call", "2026-07-28"), t1, "null"),
        Value("scalar", Absent, "", Absent)}

Batched(id) ==
  {Request(id, "ping", Absent), Request(id, "initialize", Absent), Request(id, "subscriptions/listen", "2026-07-28"),
   Named(Request(id, "tools/call", Absent), t1, "complete"), Named(Request(id, "resources/read", "2025-06-18"), u1, "null"),
   Request(Absent, "ping", Absent), Value("scalar", Absent, "", Absent)}

Seconds == {Request(id2, "tools/list", Absent), Request(id2, "tools/call", MCLatest), Value("scalar", Absent, "", Absent)}

MCLines ==
  {[form |-> "single", items |-> <<r>>] : r \in Requests}
  \cup {[form |-> "batch", items |-> <<r, s>>] : r \in Batched(id1), s \in Seconds}
  \cup {[form |-> f, items |-> <<>>] : f \in {"batch", "garbage", "blank"}}

MCContexts ==
  {[origin |-> "none", credential |-> "right", faulty |-> f] : f \in {"none", "name"}}
  \cup {[origin |-> "loopback", credential |-> "wrong", faulty |-> "method"],
        [origin |-> "foreign", credential |-> "right", faulty |-> "none"]}
=============================================================================
