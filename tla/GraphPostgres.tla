---------------------------- MODULE GraphPostgres ----------------------------
(***************************************************************************)
(* PgGraph: the same operations as SQL of PostgreSQL, over one connection  *)
(* behind a mutex; and SqlxPgGraph, that SQL once more, written out for    *)
(* another driver.  What is written as GraphStore has it is left to        *)
(* GraphStore; each statement that has a text of its own is here.          *)
(***************************************************************************)
EXTENDS GraphStore

CONSTANT Chunk       (* Edges of one transaction of append_edges, 5000.    *)

PgUpsertNode(db, id, node) == [db EXCEPT !.nodes[id] = node]

PgDeleteNode(db, id) == [db EXCEPT !.nodes[id] = None]

PgAppendEdge(db, edge) ==
  IF \E f \in db.edges : f.id = edge.id \/ SameTriple(edge, f) THEN db ELSE [db EXCEPT !.edges = db.edges \cup {edge}]

(* The database after `done` chunks have been committed.                   *)
PgAppendEdges(db, batch, done) ==
  FoldLeft(PgAppendEdge, db, SubSeq(batch, 1, IF done * Chunk < Len(batch) THEN done * Chunk ELSE Len(batch)))

Chunks(batch) == (Len(batch) + Chunk - 1) \div Chunk

PgRemoveEdgesForNode(db, id) == [db EXCEPT !.edges = {e \in db.edges : e.source # id /\ e.target # id}]

PgDeleteEdge(db, id) == [db EXCEPT !.edges = {e \in db.edges : e.id # id}]

(* Every word of the query somewhere in title, body or tags.               *)
SearchPatterns(query) == ToSet(query)
PgSearchNodes(db, query) ==
  {id \in Present(db) : query # <<>> /\ \A term \in SearchPatterns(query) : term \in ToSet(db.nodes[id].text)}

PgQueryNodes(db, tag) == {id \in Present(db) : tag # None => tag \in db.nodes[id].tags}

(* A match only raises the score: what does not match is returned too.     *)
(* `found` are the matches, which smart_recall asks for before it takes    *)
(* the connection again for the rest.                                      *)
PgScore(node, matches, now) ==
  (IF node.updated = now THEN 20 ELSE 10) + 35 * node.importance + node.count + (IF matches THEN 20 ELSE 0)

PgSmartRecall(db, tag, found, limit, now) ==
  LET scope == {id \in PgQueryNodes(db, tag) : "stale" \notin db.nodes[id].tags}
      window == Best(scope, Later(Fanout * limit, Candidates), LAMBDA a, b : MoreImportant(db, a, b))
      Higher(a, b) == PgScore(db.nodes[a], a \in found, now) > PgScore(db.nodes[b], b \in found, now)
  IN UNION {Best(candidates, limit, Higher) : candidates \in window}

PgTouch(db, ids, now) ==
  [db EXCEPT !.nodes = [id \in Ids |-> IF id \in ids /\ db.nodes[id] # None THEN Touched(db.nodes[id], now) ELSE db.nodes[id]]]

PgEdgesForNode(db, id) == {e \in db.edges : id \in {e.source, e.target}}

PgEdgesForNodeDir(db, id, dir, relation) ==
  {e \in db.edges :
     /\ CASE dir = "out" -> e.source = id [] dir = "in" -> e.target = id [] OTHER -> Touches(e, id)
     /\ relation # None => e.relation = relation}

(* A query for every half, its rows added up by the program.               *)
PgNeighborsWeighted(db, seeds, dir, relation) ==
  LET chosen == ToSet(SubSeq(seeds, 1, IF Len(seeds) < MaxSeeds THEN Len(seeds) ELSE MaxSeeds))
      halves == CASE dir = "out" -> {"source"} [] dir = "in" -> {"target"} [] OTHER -> {"source", "target"}
      Far(half, e) == IF half = "source" THEN e.target ELSE e.source
      rows == {r \in halves \X db.edges : r[2][r[1]] \in chosen /\ (relation # None => r[2].relation = relation)}
  IN [nb \in {Far(r[1], r[2]) : r \in rows} \ chosen |->
        MapThenSumSet(LAMBDA r : r[2].weight, {r \in rows : Far(r[1], r[2]) = nb})]

(* Pairs of a node and its level; the start may come up on the way and is  *)
(* left out at the end.                                                    *)
PgRelatedNodes(db, start, depth) ==
  LET Step(ids) == {IF e.source \in ids THEN e.target ELSE e.source : e \in {f \in db.edges : f.source \in ids}}
                   \cup {e.source : e \in {f \in db.edges : f.target \in ids}}
      bfs[lvl \in 1..Later(depth, 1)] == IF lvl = 1 THEN Step({start}) ELSE Step(bfs[lvl - 1])
  IN (UNION {bfs[lvl] : lvl \in DOMAIN bfs}) \ {start}

ListNodes(db) == [id \in Present(db) |-> db.nodes[id]]
ListEdges(db) == SetToSeq(db.edges)

----------------------------------------------------------------------------
(* SqlxPgGraph, over a pool: every statement may run on a connection of    *)
(* its own, and a caller may run some of them in a transaction it holds.   *)

SqlxUpsertNode(db, id, node) == [db EXCEPT !.nodes = [@ EXCEPT ![id] = node]]

SqlxDeleteNode(db, id) == [db EXCEPT !.nodes = [@ EXCEPT ![id] = None]]

SqlxAppendEdge(db, edge) ==
  IF \A f \in db.edges : f.id # edge.id /\ ~SameTriple(f, edge) THEN [db EXCEPT !.edges = @ \cup {edge}] ELSE db

(* Without a commit: the transaction is the caller's.                      *)
SqlxAppendEdgesInTx(db, batch) == FoldLeft(SqlxAppendEdge, db, batch)
SqlxRemoveEdgesForNodeInTx(db, id) == [db EXCEPT !.edges = {e \in @ : ~Touches(e, id)}]

(* A transaction of its own for each of the chunks that have been done.    *)
SqlxAppendEdges(db, batch, done) ==
  FoldLeft(SqlxAppendEdgesInTx, db,
           [k \in 1..done |-> SubSeq(batch, (k - 1) * Chunk + 1, IF k = Chunks(batch) THEN Len(batch) ELSE k * Chunk)])

SqlxRemoveEdgesForNode(db, id) == [db EXCEPT !.edges = {e \in @ : ~Touches(e, id)}]

SqlxDeleteEdge(db, id) == [db EXCEPT !.edges = {e \in @ : e.id # id}]

SqlxSearchNodes(db, query) ==
  {id \in Present(db) : query # <<>> /\ ToSet(query) \subseteq ToSet(db.nodes[id].text)}

SqlxQueryNodes(db, tag) == {id \in Present(db) : tag = None \/ tag \in db.nodes[id].tags}

(* The first two statements of a recall; the third only orders what they   *)
(* leave, and the fourth counts it as accessed.                            *)
SqlxSmartRecall(db, tag, found, limit, now) ==
  LET scope == {id \in Present(db) : InScope(db.nodes[id], tag)}
      Higher(a, b) == PgScore(db.nodes[a], a \in found, now) > PgScore(db.nodes[b], b \in found, now)
  IN UNION {Best(candidates, limit, Higher) :
              candidates \in Best(scope, Later(Fanout * limit, Candidates), LAMBDA a, b : MoreImportant(db, a, b))}

SqlxTouch(db, ids, now) == TouchNodes(db, ids, now)

SqlxEdgesForNode(db, id) == {e \in db.edges : Touches(e, id)}

SqlxEdgesForNodeDir(db, id, dir, relation) ==
  {e \in SqlxEdgesForNode(db, id) :
     /\ dir = "out" => e.source = id
     /\ dir = "in" => e.target = id
     /\ relation \in {None, e.relation}}

(* A mutant: an edge between a seed and a neighbour in both directions is  *)
(* counted once.                                                           *)
SqlxNeighborsWeightedOnce(db, seeds, dir, relation) ==
  LET chosen == ToSet(seeds)
      found == {e \in db.edges : /\ relation \in {None, e.relation}
                               /\ \/ dir # "in" /\ e.source \in chosen
                                  \/ dir # "out" /\ e.target \in chosen}
      Near(nb) == {e.weight : e \in {f \in found : Touches(f, nb)}}
  IN [nb \in {id \in Ids \ chosen : Near(id) # {}} |-> CHOOSE w \in Near(nb) : TRUE]

SqlxNeighborsWeighted(db, seeds, dir, relation) ==
  LET chosen == ToSet(SubSeq(seeds, 1, IF Len(seeds) < MaxSeeds THEN Len(seeds) ELSE MaxSeeds))
      typed == {e \in db.edges : relation \in {None, e.relation}}
      Along(nb) == {e \in typed : dir # "in" /\ e.source \in chosen /\ e.target = nb}
      Against(nb) == {e \in typed : dir # "out" /\ e.target \in chosen /\ e.source = nb}
  IN [nb \in {id \in Ids \ chosen : Along(id) \cup Against(id) # {}} |-> Weight(Along(nb)) + Weight(Against(nb))]

SqlxRelatedNodes(db, start, depth) ==
  LET bfs[lvl \in 1..Later(depth, 1)] == Ends(db, IF lvl = 1 THEN {start} ELSE bfs[lvl - 1]) IN
  (UNION {bfs[lvl] : lvl \in DOMAIN bfs}) \ {start}
=============================================================================
