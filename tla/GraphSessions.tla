---------------------------- MODULE GraphSessions ----------------------------
(***************************************************************************)
(* The same calls made to a SqliteGraph, a PgGraph and a SqlxPgGraph side  *)
(* by side, with what only SQLite offers (deduplication and lifecycle) and *)
(* with the tool that copies one database into another of the other kind.  *)
(* The databases are opened first, by GraphSchema.                         *)
(***************************************************************************)
EXTENDS GraphSchema, GraphPostgres

CONSTANTS
  Nodes,       (* What is written: Nodes[now], a set of nodes.             *)
  Batches,     (* The batches of edges that are appended.                  *)
  Hints,       (* The hints of recalls,                                    *)
  Scopes,      (* the project or tag they are for,                         *)
  Limit,       (* and their limit.                                         *)
  Horizon,     (* Bound: the last time.                                    *)
  MaxCalls     (* Bound: the number of calls and of runs of the tool.      *)

(* What is written, what becomes of it, and the edges there may be.        *)
Written == UNION {Nodes[t] : t \in 1..Horizon}
NodeRecords ==
  [title : {n.title : n \in Written}, text : {n.text : n \in Written},
   tags : SUBSET ({"stale"} \cup UNION {n.tags : n \in Written}),
   importance : Nat, created : Nat, updated : Nat, count : Nat, accessed : Nat, verified : Nat]
Edges == UNION {Range(batch) : batch \in Batches}

(* A node is written as created now, and accessed no later.  Two seeds at  *)
(* least are read.                                                         *)
ASSUME SessionsAssumption ==
  /\ IsFiniteSet(Ids) /\ Limit \in Nat /\ Fanout \in Nat /\ MaxSeeds \in Nat \ {0, 1}
  /\ Horizon \in Nat \ {0} /\ Chunk \in Nat \ {0}
  /\ None \notin NodeRecords /\ None \notin {"sqlite", "postgres"}
  /\ \A t \in 1..Horizon : \A n \in Nodes[t] : n \in NodeRecords /\ n.created = t /\ n.accessed <= t
  /\ \A n \in Written : n.text \in Seq(Range(n.text))
  /\ \A hint \in Hints \ {None} : hint \in Seq(Range(hint))
  /\ Batches \subseteq Seq(Edges)
  /\ \A e \in Edges : e.source \in Ids /\ e.target \in Ids /\ e.weight \in Nat

VARIABLES
  phase,       (* "opening", then "serving".                               *)
  lite, pg, sqlx, (* The three databases.                                  *)
  now,
  calls,
  writer,      (* A dedup that found no duplicate: the node it will write. *)
  recall,      (* A recall under way on the PostgreSQL backends.           *)
  answer,      (* What the last call, a recall, returned on SQLite.        *)
  common,      (* History: only calls that all have, none interrupted.     *)
  orphaned,    (* History: a node was deleted that had edges.              *)
  tool,        (* The copying tool                                         *)
  copy         (* and the database it writes.                              *)

stores == <<lite, pg, sqlx>>
history == <<common, orphaned>>
vars == <<phase, stores, now, calls, writer, recall, answer, history, tool, copy, schemaVars>>

NoTool == [at |-> "idle", from |-> None, ids |-> {}, nodes |-> <<>>, edges |-> {}, left |-> {}]

Init ==
  /\ SchemaInit
  /\ phase = "opening"
  /\ lite = Empty /\ pg = Empty /\ sqlx = Empty /\ copy = Empty
  /\ now = 1 /\ calls = 0
  /\ writer = None /\ recall = None /\ answer = None
  /\ common = TRUE /\ orphaned = FALSE
  /\ tool = NoTool

Opening ==
  /\ phase = "opening"
  /\ \E o \in Openers : SchemaStep(o)
  /\ UNCHANGED <<phase, stores, now, calls, writer, recall, answer, history, tool, copy>>

(* Calls begin with databases just made.                                   *)
Serve ==
  /\ phase = "opening" /\ driver = "sqlite" /\ origin = 0 /\ ignored = FALSE
  /\ \A o \in Openers : At(o, "open") /\ starts[o] = 1
  /\ phase' = "serving"
  /\ UNCHANGED <<stores, now, calls, writer, recall, answer, history, tool, copy, schemaVars>>

Call(reply) ==
  /\ phase = "serving" /\ calls < MaxCalls /\ recall = None
  /\ calls' = calls + 1
  /\ answer' = reply
  /\ UNCHANGED <<phase, now, recall, tool, copy, schemaVars>>

----------------------------------------------------------------------------
(* Calls to all three.                                                     *)

Upsert(id, node) ==
  /\ Call(None)
  /\ lite' = UpsertNode(lite, id, node)
  /\ pg' = PgUpsertNode(pg, id, node)
  /\ sqlx' = SqlxUpsertNode(sqlx, id, node)
  /\ UNCHANGED <<writer, history>>

Delete(id) ==
  /\ Call(None)
  /\ lite' = DeleteNode(lite, id)
  /\ pg' = PgDeleteNode(pg, id)
  /\ sqlx' = SqlxDeleteNode(sqlx, id)
  /\ orphaned' = (orphaned \/ EdgesForNode(lite, id) # {})
  /\ UNCHANGED <<writer, common>>

(* PostgreSQL's batches may stop after some of their chunks.               *)
AppendBatch(batch, pgDone, sqlxDone) ==
  /\ Call(None)
  /\ lite' = AppendEdges(lite, batch)
  /\ pg' = PgAppendEdges(pg, batch, pgDone)
  /\ sqlx' = SqlxAppendEdges(sqlx, batch, sqlxDone)
  /\ common' = (common /\ pgDone = Chunks(batch) /\ sqlxDone = Chunks(batch))
  /\ UNCHANGED <<writer, orphaned>>

RemoveEdge(id) ==
  /\ Call(None)
  /\ lite' = DeleteEdge(lite, id)
  /\ pg' = PgDeleteEdge(pg, id)
  /\ sqlx' = SqlxDeleteEdge(sqlx, id)
  /\ UNCHANGED <<writer, history>>

RemoveEdges(id) ==
  /\ Call(None)
  /\ lite' = RemoveEdgesForNode(lite, id)
  /\ pg' = PgRemoveEdgesForNode(pg, id)
  /\ sqlx' = SqlxRemoveEdgesForNode(sqlx, id)
  /\ UNCHANGED <<writer, history>>

(* The edges of a node replaced: with_tx of SQLite and a transaction of    *)
(* the caller's on the pool, which a failure rolls back.  PgGraph offers   *)
(* none, and makes two calls of it.                                        *)
ReplaceEdges(id, batch, fails) ==
  /\ Call(None)
  /\ lite' = IF fails THEN lite ELSE FoldLeft(AppendEdge, RemoveEdgesForNode(lite, id), batch)
  /\ sqlx' = IF fails THEN sqlx ELSE SqlxAppendEdgesInTx(SqlxRemoveEdgesForNodeInTx(sqlx, id), batch)
  /\ pg' = IF fails THEN PgRemoveEdgesForNode(pg, id) ELSE PgAppendEdges(PgRemoveEdgesForNode(pg, id), batch, Chunks(batch))
  /\ common' = (common /\ ~fails)
  /\ UNCHANGED <<writer, orphaned>>

(* SQLite recalls under its lock.  The others search first: PgGraph then   *)
(* does the rest under its own, SqlxPgGraph statement by statement.        *)
Recall(tag, hint, result) ==
  /\ Call([tag |-> tag, hint |-> hint, ids |-> result])
  /\ lite' = TouchNodes(lite, result, now)
  /\ UNCHANGED <<pg, sqlx, writer, history>>

RecallSearch(tag, hint, pgFound, sqlxFound) ==
  /\ phase = "serving" /\ recall = None /\ answer # None /\ answer.tag = tag /\ answer.hint = hint
  /\ recall' = [at |-> "found", tag |-> tag, ids |-> {},
                pg |-> pgFound, sqlx |-> sqlxFound]
  /\ answer' = None
  /\ UNCHANGED <<phase, stores, now, calls, writer, history, tool, copy, schemaVars>>

RecallRead(pgResult, sqlxResult) ==
  /\ pg' = PgTouch(pg, pgResult, now)
  /\ recall' = [recall EXCEPT !.at = "read", !.ids = sqlxResult]
  /\ UNCHANGED <<phase, lite, sqlx, now, calls, writer, answer, history, tool, copy, schemaVars>>

RecallTouch ==
  /\ recall # None /\ recall.at = "read"
  /\ sqlx' = SqlxTouch(sqlx, recall.ids, now)
  /\ recall' = None
  /\ UNCHANGED <<phase, lite, pg, now, calls, writer, answer, history, tool, copy, schemaVars>>

----------------------------------------------------------------------------
(* What SQLite alone offers.                                               *)

OnLite(db) ==
  /\ Call(None)
  /\ lite' = db
  /\ common' = FALSE
  /\ UNCHANGED <<pg, sqlx, orphaned>>

(* upsert_node_dedup looks first and writes later, in two statements.      *)
DedupFind(id, node, cutoff) ==
  /\ writer = None /\ FindDuplicate(lite, node.title, cutoff) = {}
  /\ writer' = [id |-> id, node |-> node]
  /\ OnLite(lite)

DedupWrite ==
  /\ writer # None
  /\ writer' = None
  /\ OnLite(UpsertNode(lite, writer.id, writer.node))

Lifecycle ==
  /\ UNCHANGED writer
  /\ \/ OnLite(DecayImportance(lite, now, 1))
     \/ OnLite(TagStaleNodes(lite, now))
     \/ \E id \in Present(lite) : OnLite(MarkVerified(lite, id, now))

Tick ==
  /\ phase = "serving" /\ now < Horizon
  /\ now' = now + 1
  /\ answer' = None
  /\ UNCHANGED <<phase, stores, calls, writer, recall, history, tool, copy, schemaVars>>

----------------------------------------------------------------------------
(* llm-kernel-migrate-graph: reads a source table by table, without a      *)
(* transaction, and writes it node by node and then all edges.             *)

ToolStep ==
  /\ phase = "serving" /\ recall = None /\ answer = None
  /\ UNCHANGED <<phase, stores, now, writer, recall, answer, history, schemaVars>>

Source == IF tool.from = "sqlite" THEN lite ELSE pg

ToolList(from) ==
  /\ ToolStep /\ tool.at = "idle" /\ tool.from \in {None, from} /\ calls < MaxCalls
  /\ calls' = calls + 1
  /\ tool' = [NoTool EXCEPT !.at = "listed", !.from = from,
                            !.ids = Present(IF from = "sqlite" THEN lite ELSE pg)]
  /\ UNCHANGED copy

Idle == [NoTool EXCEPT !.from = tool.from]

(* read_nodes of the ids that were listed, or list_nodes at once.          *)
ToolReadNodes ==
  /\ ToolStep /\ UNCHANGED calls /\ tool.at = "listed"
  /\ LET ids == IF tool.from = "sqlite" THEN tool.ids \cap Present(lite) ELSE Present(pg) IN
     tool' = [tool EXCEPT !.at = "nodes", !.nodes = [id \in ids |-> Source.nodes[id]], !.ids = {}]
  /\ UNCHANGED copy

ToolReadEdges ==
  /\ ToolStep /\ UNCHANGED calls /\ tool.at = "nodes"
  /\ tool' = [tool EXCEPT !.at = "read", !.edges = Source.edges, !.left = DOMAIN tool.nodes]
  /\ UNCHANGED copy

ToolWriteNode(id) ==
  /\ ToolStep /\ UNCHANGED calls /\ tool.at = "read" /\ id \in tool.left
  /\ copy' = IF tool.from = "sqlite" THEN PgUpsertNode(copy, id, tool.nodes[id]) ELSE UpsertNode(copy, id, tool.nodes[id])
  /\ tool' = [tool EXCEPT !.left = tool.left \ {id}]

(* A mutant: it ends although chunks of the edges are missing.             *)
ToolWriteEdgesOrEnd(done) ==
  /\ ToolStep /\ UNCHANGED calls /\ tool.at = "read" /\ tool.left = {}
  /\ copy' = PgAppendEdges(copy, SetToSeq(tool.edges), done)
  /\ tool' = [tool EXCEPT !.at = "done"]

ToolWriteEdges(done) ==
  /\ ToolStep /\ UNCHANGED calls /\ tool.at = "read" /\ tool.left = {}
  /\ LET batch == SetToSeq(tool.edges) IN
     /\ done <= Chunks(batch)
     /\ copy' = IF tool.from = "sqlite" THEN PgAppendEdges(copy, batch, done) ELSE AppendEdges(copy, batch)
     /\ tool' = IF tool.from = "sqlite" /\ done < Chunks(batch) THEN Idle ELSE [tool EXCEPT !.at = "done"]

(* It is killed, a statement fails, or it ends; it may be run again.       *)
ToolStop ==
  /\ ToolStep /\ UNCHANGED calls /\ tool.at # "idle"
  /\ tool' = Idle
  /\ UNCHANGED copy

----------------------------------------------------------------------------
Calls ==
  \/ \E id \in Ids :
       \/ \E node \in Nodes[now] : Upsert(id, node)
       \/ Delete(id)
       \/ EdgesForNode(lite, id) # {} /\ RemoveEdges(id)
       \/ \E batch \in Batches, fails \in BOOLEAN : ReplaceEdges(id, batch, fails)
  \/ \E batch \in Batches : \E pgDone, sqlxDone \in 0..Chunks(batch) : AppendBatch(batch, pgDone, sqlxDone)
  \/ \E edge \in lite.edges \cup pg.edges : RemoveEdge(edge.id)

Recalls ==
  \/ phase = "serving" /\ calls < MaxCalls /\ \E tag \in Scopes, hint \in Hints :
       \E result \in SmartRecall(lite, tag, hint, Limit, now) : Recall(tag, hint, result)
  \/ recall = None /\ answer # None /\
       \E pgFound \in Hits(pg, answer.hint, PgSearchNodes, Limit), sqlxFound \in Hits(sqlx, answer.hint, SqlxSearchNodes, Limit) :
         RecallSearch(answer.tag, answer.hint, pgFound, sqlxFound)
  \/ recall # None /\ recall.at = "found" /\
       \E pgResult \in PgSmartRecall(pg, recall.tag, recall.pg, Limit, now),
          sqlxResult \in SqlxSmartRecall(sqlx, recall.tag, recall.sqlx, Limit, now) : RecallRead(pgResult, sqlxResult)
  \/ RecallTouch

OnlyLite ==
  \/ \E id \in Ids, node \in Nodes[now], cutoff \in 0..now : DedupFind(id, node, cutoff)
  \/ DedupWrite
  \/ Lifecycle

Tool ==
  \/ \E from \in {"sqlite", "postgres"} : ToolList(from)
  \/ ToolReadNodes
  \/ ToolReadEdges
  \/ \E id \in tool.left : ToolWriteNode(id)
  \/ \E done \in 0..Cardinality(tool.edges) : ToolWriteEdges(done)
  \/ ToolStop

Next == Opening \/ Serve \/ Calls \/ Recalls \/ OnlyLite \/ Tick \/ Tool

Spec == Init /\ [][Next]_vars

----------------------------------------------------------------------------
(* What must hold.                                                         *)

(* A node that is written again, recalled, aged or deduplicated keeps when *)
(* it was created, and its accesses are never counted down                 *)
(* (src/src/graph/store.rs:11).  Only SQLite promises it.                  *)
HistoryKept ==
  [][\A id \in Present(lite) : lite'.nodes[id] # None =>
       LET old == lite.nodes[id] new == lite'.nodes[id] IN
       new.created = old.created /\ new.count >= old.count /\ new.accessed >= old.accessed]_vars

Content(db) ==
  [id \in Present(db) |-> LET n == db.nodes[id] IN <<n.title, n.text, n.tags, n.importance, n.updated, n.verified>>]

(* The default methods of the trait, which a backend may replace.          *)
DefaultEdgesForNodeDir(db, id, dir, relation) ==
  {e \in EdgesForNode(db, id) :
     /\ dir = "both" \/ (dir = "out" /\ e.source = id) \/ (dir = "in" /\ e.target = id)
     /\ relation \in {None, e.relation}}

DefaultNeighborsWeighted(db, seeds, dir, relation) ==
  LET Other(e, seed) == IF e.source = seed THEN e.target ELSE e.source
      walks == UNION {{<<i, e>> : e \in DefaultEdgesForNodeDir(db, seeds[i], dir, relation)} : i \in DOMAIN seeds}
  IN [nb \in {Other(w[2], seeds[w[1]]) : w \in walks} \ ToSet(seeds) |->
        MapThenSumSet(LAMBDA w : w[2].weight, {w \in walks : Other(w[2], seeds[w[1]]) = nb})]

RelatedNodesFiltered(db, start, depth, dir, relation) ==
  LET visited[hop \in 0..depth] ==
        IF hop = 0 THEN {start}
        ELSE visited[hop - 1] \cup
             UNION {DOMAIN NeighborsWeighted(db, <<node>>, dir, relation) : node \in visited[hop - 1]}
  IN visited[depth] \ {start}

Directions == {"out", "in", "both"}
Relations == {None} \cup {e.relation : e \in lite.edges}

(* Three texts of every query give one answer.  A start with an edge to    *)
(* itself is where SQLite's related_nodes differs, and a depth of 0 where  *)
(* the queries differ from the trait.                                      *)
EdgeReadsAgree ==
  \A id \in Ids :
    /\ EdgesForNode(lite, id) = PgEdgesForNode(pg, id) /\ EdgesForNode(lite, id) = SqlxEdgesForNode(sqlx, id)
    /\ \A dir \in Directions, relation \in Relations :
         /\ EdgesForNodeDir(lite, id, dir, relation) = PgEdgesForNodeDir(pg, id, dir, relation)
         /\ EdgesForNodeDir(lite, id, dir, relation) = SqlxEdgesForNodeDir(sqlx, id, dir, relation)
         /\ EdgesForNodeDir(lite, id, dir, relation) = DefaultEdgesForNodeDir(lite, id, dir, relation)
         /\ \A other \in Ids : LET seeds == IF id = other THEN <<id>> ELSE <<id, other>> IN
              /\ NeighborsWeighted(lite, seeds, dir, relation) = PgNeighborsWeighted(pg, seeds, dir, relation)
              /\ NeighborsWeighted(lite, seeds, dir, relation) = SqlxNeighborsWeighted(sqlx, seeds, dir, relation)
              /\ NeighborsWeighted(lite, seeds, dir, relation) = DefaultNeighborsWeighted(lite, seeds, dir, relation)
    /\ \A depth \in 0..2 :
         /\ RelatedNodes(lite, id, depth) \ {id} = PgRelatedNodes(pg, id, depth)
         /\ PgRelatedNodes(pg, id, depth) = SqlxRelatedNodes(sqlx, id, depth)
         /\ depth > 0 => PgRelatedNodes(pg, id, depth) = RelatedNodesFiltered(lite, id, depth, "both", None)

NodeReadsAgree ==
  /\ \A hint \in Hints \ {None} :
       /\ PgSearchNodes(pg, hint) = SqlxSearchNodes(sqlx, hint)
       /\ SearchNodesHybrid(lite, hint) \subseteq PgSearchNodes(pg, hint)
       /\ Len(hint) = 1 /\ (Cjk \/ ~Short(hint)) => SearchNodesHybrid(lite, hint) = PgSearchNodes(pg, hint)
  /\ \A tag \in Scopes : QueryNodes(lite, tag) = PgQueryNodes(pg, tag) /\ QueryNodes(lite, tag) = SqlxQueryNodes(sqlx, tag)

(* The three backends, each with SQL of its own, hold the same nodes but   *)
(* for when they were created and read, the same edges until a node is     *)
(* deleted that has some, and answer alike (src/src/graph/pg.rs:4,         *)
(* src/src/graph/sqlx_pg.rs:3).  Phrases of several words are where SQLite *)
(* finds less.                                                             *)
BackendsAgree ==
  common =>
    /\ Content(lite) = Content(pg) /\ Content(pg) = Content(sqlx)
    /\ NodeReadsAgree
    /\ pg.edges = sqlx.edges
    /\ ~orphaned => lite.edges = pg.edges /\ EdgeReadsAgree

(* A recall with a hint returns matches in scope and nothing else, and as  *)
(* many as the limit allows: no match is lost for being less important     *)
(* than the candidates (src/src/graph/recall.rs:161).  More matches than   *)
(* the search returns for a recall are where some are.                     *)
RecallFindsMatches ==
  answer # None /\ answer.hint # None /\ answer.hint # <<>> =>
    LET matches == {id \in SearchNodesHybrid(lite, answer.hint) : InScope(lite.nodes[id], answer.tag)} IN
    /\ answer.ids \subseteq matches
    /\ Cardinality(SearchNodesHybrid(lite, answer.hint)) <= Fanout * Limit =>
         answer.ids = matches \/ Cardinality(answer.ids) = Limit

(* A copy that is done holds every node as it was read, and for every edge *)
(* that was read one between the same nodes or of its id, although earlier *)
(* attempts may have stopped anywhere and the source changed in between.   *)
CopyComplete ==
  tool.at = "done" =>
    /\ \A id \in DOMAIN tool.nodes : copy.nodes[id] # None /\
         LET read == tool.nodes[id] written == copy.nodes[id] IN
         /\ Content(copy)[id] = <<read.title, read.text, read.tags, read.importance, read.updated, read.verified>>
         /\ tool.from = "sqlite" => written = read
         /\ written.count >= read.count /\ written.accessed >= read.accessed /\ written.created <= read.created
    /\ \A e \in tool.edges : Clashes(copy, e)
=============================================================================
