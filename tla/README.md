# Specifications of llm-kernel

TLA+ models of this repository, the TLC configurations that check them, and
proofs of their main theorems in TLAPS. The library is a toolbox: a few shared
objects with threads, tasks or processes around them, several backends that
repeat each other's work by hand, and many functions without state. All three
kinds are here; section 6 says what is left out and why.

Source paths below are relative to `src/src/`.

## 1. Inventory

| Component | State | Operations | What is hard | Modelled |
|---|---|---|---|---|
| Lazy embedding model, `embedding/lazy.rs` | `Inner` (state, session, last use) behind a mutex and a condition variable; an LRU query cache behind another mutex | `ensure_model`, `reset`, `embed`, `embed_batch` | Everything between two critical sections: the load, the wait and its timeout, idle eviction, panicking loaders | yes |
| Token budget, `tokens/budget.rs` | one `AtomicU32` | `try_reserve`, `release`, `reset` | compare-and-swap loops, saturating arithmetic | yes |
| Conversation history, `llm/history.rs` | a vector of messages; a budget others share | `push`, `truncate_to_budget` | accounting between two objects, role order after truncation | yes |
| Async graph pool, `graph/async_pool.rs` | a semaphore, idle connections, blocking jobs | `with_conn`, through which all operations go | dropped futures, panics, fairness | yes |
| LLM decorators, `llm/cache.rs`, `llm/router.rs`, `llm/retry.rs` | a shared key-value store; per call: position in the chain, attempt | `complete`, `stream_complete` | concurrent calls, fall-through times retries, expiry, failing store, dropped calls | yes |
| LLM clients, `llm/client.rs`, `llm/middleware.rs`, langfuse crate | a reader task and a channel of 16 events per stream; spans in batches | `complete`, `stream_complete`, hooks, export | lines cut anywhere, receiver gone, connection lost, two wire formats, reports of calls that fail or are dropped | yes |
| LLM data and helpers, `llm/{types,template,json_extract,prompt,tool}.rs` | none | bodies, answers, extraction | two parsers of one answer | partly |
| Key-value store, `store/` | SQLite tables and a version | opening, `get`, `put`, `delete` | several processes migrate, crashes | yes |
| Graph store, `graph/{store,dedup,lifecycle,search,recall,traversal,cjk,backend,types}.rs` | nodes, edges, full-text index | upsert, delete, deduplicate, touch, decay, search, recall, traverse | check-then-insert, recall in several statements, trait defaults that backends override | yes |
| Graph schema, `graph/schema.rs`, `bin/migrate.rs` | version, columns, indexes; a copy under way | `init_graph_schema`, `migrate_graph`, the copying tool | crashes, busy databases, concurrent openers, restarts half-way | yes |
| Async graph, `graph/async_graph.rs` | one connection in a mutex | the graph operations | a poisoned mutex, tasks that outlive their callers | yes |
| PostgreSQL backends, `graph/pg.rs`, `graph/sqlx_pg.rs` | external database | the graph operations | the same SQL written three times | yes |
| Graph algorithms, `graph/algo/` | none | paths, components, communities, links, PageRank | ties, weights, tie order | partly |
| MCP server, `mcp/{server,transport,schema,auth}.rs` | tools, resources, prompts; `initialized` per session | single requests, batches, notifications | two dispatchers kept alike by hand, two protocol eras, lifecycle gate | yes |
| MCP over HTTP, `mcp/http.rs` | none per session | requests | a third dispatcher | yes |
| Secret vault, `secrets/` | a file and its in-memory copy | load, change, `persist_to` | power failures between write, sync and rename; quoting | yes |
| Federated search, `search/` | none | fan-out, fusion | failing and slow backends, ties | yes |
| Vector indexes, other embedders, `embedding/` | external services; a local index in two files | add, remove, search, save, load, embed | partial writes, ids of different ranges, two renames | partly |
| Provider catalog, `provider/`, `bin/sync-catalog.rs` | a generated file, an overlay | lookups, merge, drift report, sync | runs that are killed, merges that must converge | yes |
| Model discovery, `discovery/` | a cache file | fetches | cache that is older than the payload | partly |
| Token estimation and chunking, `tokens/{mod,chunk}.rs` | none | estimate, segment, chunk | boundaries, overlap that must not repeat for ever | yes |
| Safety and dlp, `safety/`, `dlp/` | tables of rules | classify, score, scan, redact, decide | overlapping spans, thresholds | partly |
| Evaluation gate, `bin/eval.rs` | data sets, a baseline file | run, compare, exit | empty and missing data, baselines that do not parse | yes |
| Configuration, install wizard, telemetry, tls, errors, prelude | files, sinks | – | – | no |

How they interact: `embed` looks into the query cache, calls `ensure_model`, and
locks the model again to use it, three critical sections that other threads'
calls come between. `truncate_to_budget` and `push`'s caller change a budget that
other histories and requests reserve from. `CacheClient<RouterClient<RetryClient>>`
is one call path; the only state its calls share is the key-value store. The
graph is one set of operations behind a trait with three backends; the pool and
the async handle put connections and tasks in front of the same SQLite functions,
and a tool copies one backend into another. One MCP server answers through five
front ends. A hybrid search asks several vector indexes that one logical write
has to reach. `PROJECT.json` lists every hazard with its line and the properties
that cover it.

## 2. Modules

| Module | Models | Notes |
|---|---|---|
| `SingleFlight` | – | abstract: one caller loads at a time, the resource is in memory exactly when full |
| `LazyModel` | `embedding/lazy.rs`: `Inner`, `ensure_model`, `reset`, the use of the session | an action is a critical section |
| `LazyProvider` | the query cache; `embed`, `embed_batch` | composes it with `LazyModel` |
| `AtomicBudget` | – | abstract: reservations and releases are atomic and granted only if they fit |
| `TokenBudget` | `tokens/budget.rs` | an action is an atomic operation |
| `ChatHistory` | `llm/history.rs` | extends `TokenBudget`: one of its threads owns a history |
| `AsyncPool`, `AsyncGraph` | `graph/async_pool.rs`, `graph/async_graph.rs` | futures, permits or a mutex, blocking jobs |
| `LlmStack` | `llm/cache.rs`, `llm/router.rs`, `llm/retry.rs` | several stacks on one store, a call per process |
| `LlmWire`, `Langfuse`, `LlmClient` | `llm/client.rs`, `llm/types.rs`, `llm/middleware.rs`, the langfuse crate | bodies and parsers; spans; calls, streams and reader tasks |
| `GraphSchema` | `graph/schema.rs`, opening in every backend | several processes, a statement each step |
| `GraphStore`, `GraphPostgres` | the graph operations of SQLite, and of the two PostgreSQL drivers | operators from database to database, one per statement or query |
| `GraphSessions` | the calls on all three side by side, recalls, dedup, lifecycle, `bin/migrate.rs` | extends the three above |
| `McpServer`, `McpTransport`, `McpHttp` | `mcp/{server,auth}.rs`, `mcp/transport.rs`, `mcp/http.rs` | registration and answers; two dispatchers and the gate; the third dispatcher |
| `McpSessions` | the front ends on one server | every line goes to all of them |
| `VectorIndexes`, `Federation` | `embedding/{qdrant,elastic,pgvector,vector_index}.rs`; `search/` | what is sent and what is left after a failure; writes, searches and fusions |
| `SecretVault`, `SavedFiles` | `secrets/`, `embedding/turbovec.rs` | the text of a vault; files under power failures |
| `StoreSchema` | `store/` | several processes open, migrate and crash |
| `ProviderCatalog` | `provider/`, `discovery/models_dev.rs`, `bin/sync-catalog.rs` | lookups, merge, sync tool, overlay |
| `GraphAlgorithms` | `graph/algo/{csr,path,community,similarity}.rs` | a visit, an edge or a node a step |
| `TextTools` | `tokens/`, `llm/json_extract.rs`, `safety/`, `dlp/`, `provider/policy.rs`, `embedding/{sparse,openai}.rs` | a job is one call; the chunker takes steps |
| `QualityGate` | `bin/eval.rs` | metrics as exact fractions |
| `Options` | Rust's `Option` | `None` is a value of its own |
| `*Proofs`, `DataLemmas` | – | theorems: `BudgetProofs` about `TokenBudget` and `ChatHistory`, `McpProofs` about `McpSessions`, `ServiceProofs` about `StoreSchema`, `SavedFiles`, `AsyncGraph`, `Federation`, `LlmClient` and `ProviderCatalog`, `GraphProofs` about `GraphSchema`, `GraphSessions` and `GraphAlgorithms`, the others about the module of their name; and the lemmas on data they share |
| `MC*` | – | values of the constants for TLC; `MCServices` composes the parts that share no state |

### LazyModel and LazyProvider

`state`, `provider`, `lastUsed` and `panicked` are the fields of `Inner` behind
its mutex; `onDisk` is what `is_model_cached` sees; `pc[t]` is where a thread is
between two critical sections and `awake[t]` whether it has been notified since it
parked. `EnsureReady`, `EnsureFailed`, `EnsureWait` and `EnsureLoad` are the arms
of the match in `ensure_model` (an eviction goes on to load in the same section,
as in the code); `LoadOk` and `LoadErr` the section after the load, a caught panic
being an error; `Wake` and `Expire` the two ways `wait_timeout_while` returns.
A poisoned mutex is entered like any other (`into_inner`), so it has no action.
Time is two-valued: a session is recent until `TimePasses`. `ModelState::Disabled`
is constructed nowhere and left out.

`LazyProvider` adds the query cache and the per-call variables of `embed_batch`:
`results`, `batch`, and `miss_indices` as `Misses(results)`. `embed` takes the
same locks in the same order as `embed_batch` of one text. A text stands for its
own vector, so that a misplaced vector shows.

### TokenBudget and ChatHistory

A thread's loop is `Begin` (the call), `Load`, then `Swap` or `SwapFails`; the
weak compare-and-swap may fail without a cause. Amounts wrap nowhere: `MaxU32` is a
constant and the additions saturate at it. `held` and `wipes` are history: what a
thread was granted and not yet gave back, and how often a reset threw
reservations away. All orderings in the code are `Relaxed` on a single location,
for which interleaving of atomic operations is the semantics.

`ChatHistory` runs the owner's part: a message is charged with `try_reserve` and
then pushed; `truncate_to_budget` is its first try, the loop head, the tries, the
release of the oldest message's tokens and its removal, each try and release being
the budget's steps with the other threads' steps in between. That a caller charges
what it pushes is the caller's part of the contract: the API leaves it open, and
truncation releases the tokens of what it removes in either case.

### AsyncPool and AsyncGraph

`queue` is tokio's fair semaphore queue; a caller in state "awaiting" owns a
permit. The permit belongs to the future, not to the job: `Drop` returns it and
leaves the job running. `Take`, `TakeFails`, `Return` and `Panic` are the steps of the
blocking closure. The mutex of the idle list is never poisoned, since nothing
panics while it is held, so its fallbacks have no action. `idle` and `open` count
connections.

In `AsyncGraph` the closure of a call locks the one mutex, runs and lets go; a
dropped call leaves its closure to run, and a panic poisons the mutex for good,
which every later `with_conn` reports. A database is the sequence of the writes it
has had; `known` is history: the writes a caller had seen reported when it called.

### LlmStack

A stack is a `CacheClient` over a `RouterClient` over a `RetryClient` per backend,
as the router's doc composes them; a chain of one is a client without a router.
`Sorted` is `compute_order`. A provider's answer is one of four outcomes: `"ok"`;
`"busy"` for 429 and 5xx, which `retry_delay` retries; `"lost"` for network
errors, 408 and all others that are not HTTP, which only fall through; `"refused"`
for the 4xx that short-circuit. `Lookup` and `Store` are the blocking tasks on
the store; either may fail. `Drop` cancels a call at an await; a call that is
dropped while it stores leaves an "orphan" that still writes. `clock` is the time that
passes, in ticks, any number of which make a second; `lag` is by how much the wall clock was
set back, which may happen at any moment. `NowSecs` reads the wall clock and truncates to
seconds, as `now_secs` does for the entry and for the look-up alike. Delays are abstract: a back-off takes
any time. A stream that has begun is answered; what happens in it is `LlmClient`'s.
`log` is history: what each call tried.

### LlmWire, LlmClient and Langfuse

A text is the sequence of its pieces and a request body the function from the keys
that are present, so that a key a provider must not see shows. `LlmWire` has both
builders and both parsers: of a whole response, and of a stream line by line, with
`DrainSseLines` taking the half lines of a chunk one by one, so that a chunk may cut
anywhere. `LlmClient` runs a call: `complete`
goes through the middleware hooks to the span of Langfuse; a stream is a reader
task, a bounded channel and a caller who reads, or leaves, at any moment. The
answers of providers come in several qualities: what every parser takes, what only
a lenient one does, and pieces of JSON that are broken. Calls follow one another, and
a second stream begins only after the reader of the first has gone; that is a bound, and
what calls share is the exporter, which takes a span in one step. `Langfuse` has the spans
and the exporter's queue; its limit and a batch that fails to be sent are the library's,
and left out. `llmLog` is history: how each call of `complete` ended, what had come of
it (`came`) and whether the exporter was open when it did (`open`).

### The graph

A database is a record of a table of nodes and a set of edges; each statement of
`store.rs`, `dedup.rs` and `lifecycle.rs` is an operator from one database to the
next and each query an operator that reads it. The full-text index is not kept
apart: the triggers that follow the table are part of each statement. PostgreSQL's
two drivers repeat that SQL by hand, and `GraphPostgres` repeats it for each of
them as they do, so that a difference between the texts would be a difference between
the operators. `GraphSessions` makes every call on all three and compares; a recall
is its statements (candidates, search, ranking, touch) with other calls between
them, deduplication its look-up and its write, and the copying tool its lists,
reads and writes with crashes. Weights and importance are small integers.

`GraphSchema` opens: create what is missing, read the version, migrate, record.
Each process may crash between two statements and start again; statements fail as
busy; an older release may have made the database.

### The MCP server

`McpServer` registers tools, resources and prompts and gives the answers;
`McpTransport` has the synchronous and the asynchronous dispatcher, each written
out as in the code, and `TooEarly`, the lifecycle gate of the stdio loops;
`McpHttp` the handler with its origin, credential and header checks and the third
dispatcher. A line is a form (single, batch, garbage, blank) and the messages in
it. `McpSessions` gives each line to both loops, both authenticated dispatchers and
HTTP, and keeps what each said until the client has read it.

### Vector indexes, federated search, files

`VectorIndexes` models what is sent to each service in which pieces and what is
left when a piece fails; `Federation` repeats a write until every index has taken
it, asks the backends while writes go on, and merges. Scores are exact multiples
of `1/Scale`; `f32` rounding is left out. The order of equal scores is open where
the code leaves it open.

`SavedFiles` gives every path its content and whether it is synced. A power failure
may tear any file that is not; a rename is durable once it has returned (the code
does not sync the directory, which is left to the file system). `SecretVault` is
the text of the file: values are sequences of the characters the encoding tells
apart. The local index is saved as two files: both written, both synced, the
metadata renamed first.

`StoreSchema` opens a database with the version check of `store/sqlite.rs`, with or
without migrations, in several processes that may be killed. The tables are those
of a version, and the database may be older than the program, or newer. `ReadVersion` reads
the version, and `MisreadVersion` is its error path (`.ok()`, `unwrap_or(0)`): a read that
fails or finds no number gives 0, and an old database is taken for a fresh one. `misread` is
history: the older version that happened to. The callback of a migration names the version
it reached, does nothing, or fails.

### Catalog, algorithms, texts, gate

`ProviderCatalog` has the merge with an upstream payload, the drift report, the
overlay of discovered models, and the tool that writes the generated file by a
temporary one and may be killed. `GraphAlgorithms` runs Dijkstra's search step by
step, heap entries that are outdated included, union-find edge by edge and label
propagation node by node, and compares with definitions by paths and closed sets. `TextTools` compares what a function computes with what it is
for: chunks cover the text, extracted JSON is the JSON that was put in where nothing
misleads, no character of a finding survives redaction. `QualityGate` runs the gate on small
corpora before and after a baseline was saved; a metric is a fraction, and `None`
where the program divides zero by zero.

## 3. Runs

| Run | Instance | Checks |
|---|---|---|
| `lazy_lifecycle` | 3 threads, waits expire, idle eviction on | `PhaseSound`, `NoLostWakeup`, `WaiterReleased` |
| `embed_calls` | 2 threads, 3 texts, cache of 2, four requests with repeats | `AnswersMatchTexts`, `LruKeepsMostRecent`, `ImplementsSingleFlight` |
| `history_on_budget` | an owner and another thread, sizes 1 and 2, total 3, 3 messages, one wiping reset | `WithinTotal`, `Conservation`, `Accounting`, `RemainderAlternates`, `SystemSurvives`, `ImplementsAtomicBudget` |
| `pool` | 3 callers, 2 connections, 4 jobs, 2 drops with a job under way | `PoolAccounted`, `BoundedUnlessDropped`, `RequestServed` |
| `llm_stack` | 2 calls, a routed stack of 2 backends and a single client on one store, 2 requests, 1 retry, 3 ticks a second, a TTL of 1, 4 of time, the wall clock set back by 1 | `AnswersOwnRequest`, `TriesFollowPolicy`, `FailureExplained`, `TtlBounds`, `CallsReturn` |
| `graph` | 2 openers that start twice; 2 nodes, 3 edge batches with clashing ids and triples, 3 calls, 2 times | `HistoryKept`, `BackendsAgree`, `RecallFindsMatches`, `CopyComplete`, `OpenedUsable` |
| `mcp` | one tool, resource and failing prompt, every way to register them; every method in every era, batches of two, five kinds of headers | `AnsweredOnce`, `TransportsAgree`, `GuardedRuns`, `EraRespected` |
| `services` | one service per behavior, see below | `StreamMatchesComplete`, `CallsReported`, `IndexesAgree`, `FusedSound`, `SavedFilesWhole`, `StoreTruthful`, `CatalogConverges`, `AlgorithmsSound`, `TextsSound`, `GateSound`, `AnswersTrue` |
| `ensured_unusable` | as `lazy_lifecycle` | `EnsuredIsUsable` is violated |
| `pool_bound` | as `pool` | `BoundedOperations` is violated |
| `history_roles` | as `history_on_budget` | `RolesAlternate` is violated |
| `cache_cross_contamination` | as `llm_stack` | `NoCrossContamination` is violated |

Type invariants (`TypeOK`, `LazyTypeOK`, `ChatTypeOK`, `StackTypeOK`, `McpTypeOK`)
are parts of the inductive invariants that are proved, or documentation; no run is
spent on them.

What the properties say whose names do not:

- `TtlBounds`: an entry is served for less than a second after the whole seconds of its
  time to live, since both times lose the rest of a second (`llm/cache.rs:130`), and
  longer only by what the wall clock was set back since it was stored. A time to live
  of less than a second may so last for almost one, and one of 1 s for almost two.
- `HistoryKept`: rewriting, recalling, ageing and deduplicating a node keep its
  creation time and never count its accesses down. `BackendsAgree`: three texts of
  every statement and query have the same effect and answer, and the trait's
  default methods the same as the backends' own. `RecallFindsMatches`: a recall
  in several statements returns matches in scope, and all of them up to its limit.
  `CopyComplete`: a copy that reports success is one, after any number of crashes
  and although the source changed. `OpenedUsable`: whoever opened a database finds
  the columns its version promises.
- `AnsweredOnce`, `TransportsAgree`, `GuardedRuns`, `EraRespected`: each request is
  answered once, under its id and in order, or its line refused as a whole; five
  front ends answer alike; no handler runs for a caller or with arguments that
  must not reach it; fields of the latest protocol appear in its answers only.
  Each property names the cases in which the code differs.
- `StreamMatchesComplete`: the body of a stream asks what the body of `complete`
  asks, but for tools, response format and output configuration; texts reach the
  caller in order wherever chunks are cut; an end or an error is the last event;
  and a stream that ended as the server ended it is whole. `CallsReported`: a
  call of `complete` that returns is reported with what came of it, even if it failed, in
  a span that is exported, by the shutdown at the latest: the queue of a closed exporter
  counts for nothing. No call is reported twice, and one that was dropped is not reported
  as what it did not come to; that it may not be reported at all, against what the crate's
  doc says of "each" call, is in the list of differences below.
- `IndexesAgree`: once all indexes have taken a write, repeated as often as it
  needs, they hold the same rows, and the dense and the sparse index the same ids,
  unless one refuses a row for good. `FusedSound`: a merged list holds each document
  once and only what a surviving backend returned, is full when there is enough,
  fails only when no backend survives, and by reciprocal ranks never puts a
  document before one that is ahead of it in every list that has it (unless only
  backends of weight 0, which the code allows, rank it).
- `SavedFilesWhole`: whatever is interrupted, the secrets file reads back as the
  last vault that was saved, and an index that loads is whole, with metadata never
  older than its vectors. `StoreTruthful`: no version is recorded that the tables
  have not reached, whoever opens, fails or is killed, but for two exceptions: an older
  database that is opened without a migration, and one whose older version was once misread.
- `CatalogConverges`: merging the same payload again changes nothing; nothing a
  catalog had is lost, whenever a run is killed; a price that changes is reported;
  a model that was discovered is found, with its price and limit.
- `AlgorithmsSound` is four. `SnapshotComplete`: a snapshot has each node once, no edge of an unknown one, and
  each edge as often under its target as under its source. `PathsShortest`: a search
  that is over has a path of the least cost among all simple paths to its goal, or there
  is none; without a goal, the least costs of what can be reached, in ascending order.
  `CommunitiesSound`: one root exactly where edges connect, one community never beyond
  that. `LinksSound`: predicted links are pairs without an edge and with a common
  neighbour, and no pair left out scores higher.
- `TextsSound`: chunks cover the text within the limit and advance, and each shares the
  overlap or the last unit with the one before it, or nothing in exactly three cases: no
  overlap is asked for, the one before is a single unit, or its last unit does not fit with the
  next. A JSON value is found whole, whatever its strings hold but fences, in prose
  that fences nothing after it and whose brackets before it stay open (`InPlainProse`), and
  alone in the one block of an answer (`InOwnBlock`); what is found elsewhere is
  some piece of the answer, and answers with brackets in their prose, with a fence in a
  string, with two blocks are among the inputs. No character of a finding survives redaction; pruned vectors
  keep their heaviest weights; embeddings belong to their texts; a message is
  classified by the first rule that fits; suspicion grows with the signals; stamps
  are ordered as times are; only escapes are stripped.
- `GateSound`: a strict run that exits with 0 ran and passed every module of the
  baseline, and none but `dlp`, whose metrics have no direction, answers worse on the
  entries it was measured on; a run that changes nothing exits with 0.
- `AnswersTrue`: a write that was reported done is in the database once and after
  those its caller knew of, one that was reported failed never is.

Why the bounds are enough to be interesting:

- `lazy_lifecycle`: a wrong state needs a loader that outlives a timeout, a second
  loader after a reset, and a thread parked or about to use the session: three
  threads. Nothing else is bounded.
- `embed_calls`: three texts overflow a cache of two; the request `<<c, b, c>>`
  repeats a text around another, so the order of hits and inserts matters.
- `history_on_budget`: two sizes in a total of three make some reservations fit
  and others not, and messages that free more or less than is needed; with
  `MaxU32` five sums saturate. Three messages include a system message, a pair and a
  remainder. `MaxWipes` bounds only resets that throw reservations away; resets
  of an unused budget are free.
- `pool`: a third caller queues behind two permits; `MaxDrops` and the number of
  jobs are matched, so that a dropped operation never blocks a new one for want
  of a job slot in the model.
- `llm_stack`: one stack prefers `b1` and falls back to `b2`, the other has only
  `b1`: they share a model name and so the keys. One retry tells attempts per backend
  from attempts per call. With three ticks a second and a time to live of one tick, an
  entry of the first tick is two ticks old when it is served last; there are four ticks, so
  that time goes on beyond the bound, and a wall clock that is set back by one serves it for
  a tick longer.
  The first call asks for the first of two interchangeable requests.
- `graph`: two processes suffice to run one statement of another's migration in
  between, two starts to resume after a crash. Edges clash by id and by triple, one
  joins a node to itself, one batch spans two of the chunks of `append_edges`
  (`Chunk` is 1). One candidate and a limit of one (`Candidates`, `Fanout`) make a
  recall lose matches where the code can. Three calls cover write, change, read.
- `mcp`: two-element batches hold a request before or after another of a
  different era, a notification and a value that is no object.
- `services`: `part` picks the service of a behavior and the others stand still in
  an initial state with nothing in it, so that the state space is the sum and not
  the product. Channel of 2 and chunks of 2 pieces make the reader wait and cut
  lines; 2 writes in bulk pieces of 1 and 2 rows with an id twice and one beyond a
  `BIGINT` fail half-way; 2 vault writers and 2 saves with 1 power failure (a writer
  saves once per power cycle) reach every pair of torn and renamed files; 2 migrators
  of version 3 from every version to 4 with 1 crash; texts of up to five sentences, graphs of four
  nodes and eight edges, of an id that comes twice, an edge of an unknown node, a
  self-loop, weights of 0 and beyond the strongest. About half a million states, under three minutes.

`llm_stack`, `graph`, `mcp` and `services` stop when what they may do is done, so
deadlock is not checked in them; the other systems never stop, and it is.

### What the violations show

- **`EnsuredIsUsable`** (`embedding/lazy.rs:452`). `ensure_model` promises to block
  "until the model is ready for inference", but unlocks before `embed` locks
  again, and does not refresh `last_used` when it finds the model ready. Another
  caller that finds the session idle for too long evicts it in between; `embed`
  then fails with "provider not available" although the model loads.
- **`BoundedOperations`** (`graph/async_pool.rs:212`). "`max_conns` bounds the number
  of concurrent operations", but the permit is the future's: dropping the future,
  as a timeout does, admits the next operation beside the one still running.
  `BoundedUnlessDropped` says that this is the only way to exceed it.
- **`RolesAlternate`** (`llm/history.rs:165`). The history "enforces role alternation
  rules" in `push`, but a truncation removes the oldest message whatever its role,
  and leaves an assistant or a tool message where `push` allows none.
  `RemainderAlternates` says what remains true.
- **`NoCrossContamination`** (`llm/cache.rs:151`). The key is derived from the
  model name "so that two different providers sharing one `KvStore` never
  cross-contaminate", but a router's name is its preferred backend's, whichever
  answers. The fallback's answer is then served by another client of that name.

### Differences met that no run reports

The modules follow the code in each of these; where a property would fail it names
the case.

Budget, cache, lazy model:
- A budget with a total of `u32::MAX` grants what does not fit (`tokens/budget.rs:52`).
- A hash collision of the cache serves another request's answer, while the doc says
  that it can only miss (`llm/cache.rs:64`).
- After a timeout, a reset and an overlapping second load `reset` may report
  `Cached` with a session in memory (`embedding/lazy.rs:320`); a download that
  failed half-way counts as weights on disk (`embedding/lazy.rs:572`).

LLM clients:
- In OpenAI streams usage that arrives after the chunk with the finish reason, or
  lacks one of its three numbers, is lost; a chunk with both reasoning and content
  loses the content; the stop reason is not given. The `reasoning` alias that
  `complete` accepts is not known to streams, and streams parse strictly where
  `complete` is lenient.
- An error event in mid-stream and an early end of the body both end as `Done`; a
  last line without a newline is dropped. Streams are not reported to the
  middleware. The Anthropic body drops `verbosity`.
- The langfuse crate "reports each non-streaming `complete()` call" (`lib.rs:3` of the crate),
  but the hooks run when the inner call has returned (`llm/middleware.rs:95`): a caller that
  drops the future after the request was sent, as a timeout does, leaves a call without a
  span. `CallsReported` asks for spans of the calls that return.
- The reader task stays blocked while a caller holds a stream and does not read it.

Graph:
- Writing a node again on PostgreSQL resets when it was created and read, which
  SQLite keeps and `graph/pg.rs:4` promises alike; deleting one leaves its edges.
- SQLite's `related_nodes` returns the start on an edge to itself; depth 0 differs
  from the trait's default; `read_nodes` of all ids hits SQLite's limit of variables.
- A recall with a hint on PostgreSQL also returns what does not match; the limit of
  its search is applied before the scope.
- Two writers that deduplicate the same node at once both insert it
  (`graph/dedup.rs:21`). An in-memory pool loses its data with its last connection.
- `init_graph_schema` ignores errors of `ALTER TABLE`, so that a busy database of an
  unfinished older initialisation opens without a column. `AsyncGraph::open` does
  not migrate, and a panic poisons it for good.

MCP:
- An initialize without an id opens the session unanswered (`mcp/transport.rs:421`).
- A batch passes the lifecycle gate before the handshake; a modern request in a
  batch is answered differently by the dispatchers, and breaks the asynchronous one's
  output in two lines; HTTP answers a body that is no object with silence
  although `mcp/http.rs:297` speaks of an error.

Vectors and files:
- Ids beyond `i64::MAX` are taken by Qdrant, refused with their whole batch by
  pgvector, and one by one by Elasticsearch; an id twice in a batch is an error on
  pgvector only; `k = 0` is one on Elasticsearch only. Ties are ordered by id in
  `Fusion::fuse` only. The automatic ids of the local index collide after removals.
- A crash between the two renames of a local index leaves new metadata over old
  vectors, which loads unless dimension or width changed; then it is unloadable.
  Errors of syncing are ignored there, and the catalog tool and the models.dev cache
  write without syncing.
- A bare value of a secrets file that ends in a carriage return loses it on loading;
  of two processes that load, change and save, one's change is lost.
- A database of an older version that is opened without migrations is recorded as
  current although its tables are not. "When the current version is behind
  `expected_version`" the callback is called "instead of replaying the full DDL"
  (`store/sqlite.rs:52`), but a read of the version that fails or finds no number gives 0,
  that of a fresh database (`store/sqlite.rs:69`): the DDL leaves the old tables as they are,
  the expected version is recorded, and no later opening migrates. These are the two
  exceptions of `StoreTruthful`.

Catalog, texts, gate:
- `with_discovered` twice adds a second provider "discovered" whose models
  `find_model` does not see behind the first. Concurrent sync runs share a
  temporary file.
- "Extract the first JSON object or array" (`llm/json_extract.rs:12`) finds the first balanced
  brackets, JSON or not (line 130): in `[note] {"a":1}` the note. A fence in a string of a
  fenced value cuts it (line 115). `JsonFound` names the answers in which the value is found.
- "Overlap is skipped only when the emitted chunk was a single unit or `overlap_tokens` is
  zero" (`tokens/chunk.rs:106`), but it is, too, when the last unit does not fit into a chunk
  with the one after it (line 175). `ChunksCover` names that case, and accepts no other.
- A chunk may hold nothing but the overlap. Two injection signals score 0.8, not the 1.0 the doc
  says. `embed_batch` of the OpenAI client accepts an index twice.
- With `--baseline` the gate is said to exit 1 on a regression (line 644 of the repository's README), but
  without `--strict` it exits 0; regressions of `dlp` are never flagged; a baseline
  that does not parse disables the comparison; an improvement of trigram recall
  alone is reported as a regression of the gain; missing benign data passes.

## 4. Fairness

- `WaiterReleased` assumes that a runnable thread gets the mutex, a notified
  thread runs and a timer fires: weak fairness of `EnsureStep`, `Wake` and `Expire`
  per thread. Nothing is assumed of the load, which may hang; that waiters are
  released nevertheless is what the property is for.
- `RequestServed` assumes that a future that can go on is polled, and that a
  blocking job ends: the operations are a few statements under a busy timeout. The
  order of the queue is in the model, as tokio documents its semaphore to be fair.
- `CallsReturn` assumes that blocking tasks run, that a provider's answer or an error
  arrives (`http_client` sets a total timeout) and that a back-off ends. It assumes
  nothing of callers, who need not make the calls or may drop them.

Everything else is a safety property, the refinements included, and needs none.

## 5. Proofs

TLAPS checks the following for every value of the constants that the named
assumptions allow. Each theorem has the property of a run as its conclusion, unless it
says otherwise.

**`LazyModelProofs`**, from `LazyAssumption` and `ProviderAssumption`. `LazyInv` is the
conjunction of the type invariant with `ReadyHasSession`, `LoadingHasLoader` and
`NoLostWakeup`. `LoadingHasLoader` is the least obvious: a loader that
ends always leaves `Loading`, whoever set it, so two overlapping loads cannot
strand a third party's `Loading`. `TypeCorrect`, `PhasesSound` and
`WakeupsNotLost` follow. `Refinement` assumes that no wait expires and adds
`FlightInv`: at most one thread loads, only while `Loading`, and a session
is in memory exactly when `Ready`; each step then maps to a step of
`SingleFlight` or a stutter. `ProviderInv` is about the query cache: it holds what its
recency list says, within its capacity (`Lru`), and the partial results of a
call under way are filled exactly where nothing is missing (`Filled`), each with its
own text's vector. `AnswersMatch` and `LruKept` follow, the latter by induction over
the uses of the cache, and `ProviderRefinement`, for lookups and stores are no steps of the cell.

**`BudgetProofs`**, from `BudgetAssumption` and `OwnerAssumption`. `WithinTotal` needs to
know that a value about to be swapped in still fits if the comparison succeeds, and that
a release gives back no more than its thread holds: `BudgetInv`. `NeverOverdrawn`
follows. `Linearizable` maps a successful swap to the atomic reservation or release,
every other step of a loop to a stutter; `NothingLost` says that what is used is the
sum of what is held. Both assume `Total < MaxU32`, without which they are false.
`ChatInv` is the shape of the owner's call: while a message is being charged its role
may follow, since nobody else pushes; when the oldest is removed there is one to
remove. That a removal joins no two messages that may not follow each other is
`DataLemmas.Spliced`. `RolesRemain` follows, and `SystemStays`, an action property.
`AccountInv` says that the budget call the owner is in is about the very amount that its
success will add to, or take from, what the owner accounts for. `Accounted` follows, and
so does `HistoryUsesBudget`: every behavior of the history is one of the budget
(`ChatSpec => Spec`), since truncation never gives back what its owner does not hold.
What is proved of the budget then holds of the composition: `SharedNotOverdrawn`,
`SharedBudgetAtomic`.

**`AsyncPoolProofs`**, from `PoolAssumption`. `QueueInv` has the types and says that
the queue holds each waiting caller once. `CountInv` adds a count the properties
do not mention: closures, running or not, and free permits together are at most
`MaxConns` plus the dropped futures, since a closure is spawned with a permit that
only its own future gives back. `NothingLeaks` and `Bounded` follow with the
cardinality theorems of the library.

**`LlmStackProofs`**, from `StackAssumption`. `OwnAnswers` rests on what the shared
store holds: `StoreInv` says that every entry belongs to its key, and that every
answer still to be stored, those of dropped calls included, belongs to its call.
`FailuresExplained` ties the position of a call in its chain to the last entry of
its log (`LogInv`); the sort of the chain keeps its length. `HitsInTime` needs that an
entry carries the second of the wall clock it was stored in (`TimeInv`), and arithmetic of
whole seconds for any number of ticks (`InSecond`, `WholeSeconds`). `PolicyFollowed` says
of every entry of the log why the next one follows (`TryInv`). It assumes
`ChainsDistinct`: a router has each backend once in its chain. Of a chain that repeats one the
property is false, because it finds a backend's place in the chain by its name; the code
does not compare names, and works by position.

**`McpProofs`**, from `ServerAssumption` and `SessionAssumption`. `SessionInv` says that
nothing has been answered while handlers may still change, so that each answer is
about the server as it stands. From it and from lemmas about the dispatchers follow
`HandlersGuarded`; `ErasApart`, where every answer a method can give is
looked at for the fields of the latest version; `FrontEndsAgree`, where each front end's
own text of dispatch is reduced to the common one, form by form and header by header;
and `RequestsAnsweredOnce`, for batches of any length: the flattened answers of the
messages of a line are those of its requests, in order (`DataLemmas.FlattenedParts`,
`FlattenConcat`, `ExpandedFlat`).

**`ServiceProofs`**, about the services that share no state. From `StoreAssumption`,
`OpenInv` says what a process may rely on between reading the version and recording
one: the tables were at that version and are never taken back, and have reached the program's
own when its schema is replayed on a database with tables, unless one of the two exceptions
holds (`Excused`). `VersionsTruthful` follows.
From `FilesAssumption`, `FilesInv` says what each temporary file holds in each phase of a
save and that it is synced before it is renamed, and that what a rename
replaced is never torn. `SavesSurvive` has the hypothesis that the encoding of a vault reads
back (`ReadsBack`), which the run checks: it is a parser of characters.
Of `AsyncGraph`, from no assumption on the number of tasks or
calls: `LockInv`, one closure has the mutex, none after a panic; `WriteInv`, what is
written are the writes that are done, each once, in an order that respects what
each caller knew. `TrueAnswers` follows. From `IndexAssumption` and
`FederationAssumption`, `WritesInv` says that, unless a row was refused for good, the
indexes differ only in what the write under way touches, and that those that have taken
it hold it; `IndexesConverge` follows. `SearchInv` says that the lists of a search are
lists: no id twice, however the writes went. From it and `FusionAssumption` (the code's `f32`
credits of ranks that are fetched differ) follows `MergesSound`: a document that is ahead in every
list has the greater sum (`CreditOrders`, `DataLemmas.SumGreater`), and every finite set has
the order that a sort finds (`Sortable`). Of
`LlmClient`, `ReportInv` ties the spans that wait or were sent to the calls that ended, and
to the call under way once its hook has run; a closed exporter has an empty queue. So the spans
that wait are sent in the end: `CompletionsReported`. `StreamInv` says of a reader at which
half of which line of the answer it is: the rest is on the wire, the half in its buffer, the lines it has not parsed in its
list, and what the caller has, what is in the channel and what the reader still hands over are
together what the lines parsed so far tell; of one that is gone, that it sent a
beginning of what the answer tells and an end, all of it if nothing was left to read.
`StreamsMatch` follows, for chunks, requests and a channel of any size. It needs that a chunk
joined to the buffer gives the lines that end in it (`ChunkRead`), that telling is
concatenation (`EventsAreTold`, `TextsConcat`), and, key by key, that the two bodies of either
provider agree (`BodiesAgree`). `StreamAssumption` is about those who send: a request does
not override the key `stream`, and a provider streams, line after line, the answer that
`complete` would have had. TLC evaluates it for the answers of `services`, with every line
parsed, so that for these the parsers are checked; the theorem is about what the
connection, the reader and the caller do to the lines. From `CatalogAssumption` (the catalog is born without an id
twice, as `catalog.rs` says of it, and payloads parse to their types), `CatalogInv`: the
file keeps what it was born with (`Keeps`, which is transitive), merging what it was
written from changes nothing, and what a run has merged or staged is the merge of the file
as it still is. `CatalogConverged` follows from what a merge does to lists of models of any length
(`MergedModels`) and an overlay to any catalog (`OverlayFinds`), by induction along the folds.

**`GraphProofs`**. From `SchemaAssumption` (the version is the code's 4): `DatabaseInv` says
that a database that was found with a version keeps it until a migration, which adds
the columns with it; `OpenerInv` that the effects of the statements a process has
executed are still there, since nobody undoes them. `OpensUsable` follows, and
`ServedUsable` of the whole module, whose calls and copies leave the schema alone.

From `SessionsAssumption`: the ids are finite, a node is written with the current time as
its creation and no later access, as every constructor of the code does; texts and
hints are sequences; a batch is a sequence of edges between ids, with natural weights;
a chunk is not empty, and at least two seeds are read, of the code's 100 (`MAX_SEEDS`). Four invariants follow one another.
`NodesInv`, the types with no access in the future, gives `HistoriesKept`, an action
property. `ToolInv` says what the copying tool has read and has left to write; of a
copy from PostgreSQL, which forgets when a node was created when it writes it again,
no node in the copy is younger than where it came from (`NotYounger`). `CopiesComplete`
follows, whatever stopped earlier attempts. `AnswerInv` says that an answer is right for as
long as nothing was written since: `MatchesRecalled`. `AgreeInv` says that the three
databases hold the same nodes but for times and counts, and the same edges until a node
with edges is deleted. `BackendsAlike` needs in addition that what differs between
the texts of the queries makes no difference: chunks of an append concatenate to the
batch (`ChunksAppended`), a recursive query that carries paths reaches what a loop over frontiers
reaches (`Reach`), and weights that one text sums per direction and another in one `UNION`
are the same sum (`PairSum`, `NeighborsOf`).

From `AlgorithmsAssumption` (ids and edges are sequences, weights and what they cost are
naturals, as the fractions of the program are taken to be): `GraphInv` says that either
half of a snapshot enumerates the same edges (`SnapshotMade`, by a bijection between the
places of an edge in the two lists), from which `SnapshotsComplete` follows.
`ComponentsInv` says that no tree leaves a set that no edge leads out of, and that the two ends of an
edge that has been seen have one root; `CommunitiesInv`, that no label does.
`CommunitiesOfOneComponent` follows: when no edge is left, the nodes of a root are
themselves such a set. `LinksStrongest` needs that the pairs can be put in the order of their scores, which
are numbers, and that a neighbour by the lists is one by an edge. `PathInv` is what
makes Dijkstra's algorithm right: a node that is reached has its distance from a predecessor that
was visited before it; the distances of what is visited are no greater than any entry of
the heap; what is reached and not visited waits there with its distance, beside
entries that are outdated; every edge from what is visited has been relaxed. A visit
keeps it, by induction over the edges it relaxes (`RelaxAll`, `VisitNode`). No path
costs less than the distance it ends at, because the first node on it that is
not visited is in the heap (`NoCheaperPath`), and the way back along the predecessors
is a path of no more than that cost, that ends at the start since each step goes to a node
visited earlier (`ChainExtends`, `TrailIsPath`). `PathsAreShortest` follows, and
`AlgorithmsRight` is all four.

**`DataLemmas`** has what these need of the operators of the library. The theorems on
induction take an operator as a parameter, so induction is done on sets: a property of
the naturals below a bound is a set of naturals, and the least one not in it leads to a
contradiction (`LeastSubset`, `NothingFrom`). A recursive definition is one that any
function satisfying the recursion agrees with (`SubsetRecursion`, `SubsetAgreement`); the folds
of the community modules are instances (`LeftRecursion`, `LeftFold`), as are sums over finite
sets (`TotalsExist`, `TotalsAdd`, `SumChanges`).

Only model-checked: the liveness properties `WaiterReleased`, `RequestServed` and
`CallsReturn`; `ReadsBack`; that the parsers read from the lines of an answer what its
JSON says, which `StreamAssumption` states; `TextsSound` and `GateSound`, each a comparison
of a program over sequences with its definition, by cases of the jobs and corpora it is run
on, without a state that an invariant could tell of.

## 6. What is abstracted, and what is not modelled

Texts, vectors, messages, requests and responses are model values, short sequences
of pieces or of classes of characters; a vector is its text, a message its role and
size, a response who gave it to what. Wording of errors, logging and previews are
left out. Floating-point numbers are exact fractions: token weights are twelfths,
scores multiples of `1/Scale`. Times are a day and a second or a small clock, and
stamps are compared digit group by digit group, up to the year 9999. Union-find has no path
compression. What a hop costs and what a common neighbour is worth are naturals that
add up exactly; the sums of the program are rounded. External code is modelled by its contract with this code: condition
variables, tokio's semaphore and blocking pool, loaders, providers, databases, the file
system. It tears only what is not synced, and a rename that has returned stays.

Not modelled, and why:
- Configuration and the install wizard: sequential reading, writing and generating of
  text. (A crash while `load_toml_config` writes its template leaves a torn file
  that does not parse afterwards.)
- Telemetry, TLS, errors, prelude: no state and no control.
- LLM data: templates, prompts and tool schemas are string formatting.
- Graph algorithms: PageRank is a fixed point of floating-point numbers.
- Vector indexes and other embedders: the local embedders and quantisation are
  numerical; of remote embedders the order of a batch is modelled.
- Model discovery: listings of Ollama and of compatible servers map one request to
  JSON; size limits and redirects belong to the HTTP client.
- Safety and dlp: the tables of regular expressions, fingerprints and classifiers;
  what happens to their findings is modelled.
- Evaluation: reports and the loading of data sets.

## 7. Plan

Done, in this order: the lazy model, budget, history, pool and decorators with their
proofs; the graph with its schema and copying tool; MCP; streams, vectors, files,
stores, catalog, algorithms, texts and the gate; the proofs about files, stores, the
pool, the history and the async graph; the proofs about the query cache, the
accounting of budget and history, the router's policy, MCP, indexes, searches, reports,
streams, the graph's histories, copies, recalls and backends, the catalog, merged
searches, and the graph algorithms.

Left, in order of worth:
1. Proofs: what is state and not text in `GateSound`; `ReadsBack`.
2. Liveness of streams: a reader whose caller has left ends.
3. Lost updates of two processes that save the same vault, the dedup race, and the
   disagreements of section 3 that a document contradicts, as runs of their own.

## 8. Running

    tlc -config MCLazyModel.cfg MCLazyModel      # a run: module and cfg of PROJECT.json
    tlapm LazyModelProofs.tla                    # the proofs of a module
