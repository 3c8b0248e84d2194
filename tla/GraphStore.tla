------------------------------ MODULE GraphStore ------------------------------
(***************************************************************************)
(* The SQLite graph: what each statement of store.rs, lifecycle.rs,        *)
(* dedup.rs, search.rs, recall.rs and traversal.rs does to a database or   *)
(* reads from it.  A database is its table of nodes and its table of       *)
(* edges; the full-text index follows the nodes by triggers and is not     *)
(* kept apart.                                                             *)
(***************************************************************************)
EXTENDS Options, Integers, Sequences, FiniteSets, SequencesExt, FiniteSetsExt

CONSTANTS
  Ids,         (* The ids of nodes.                                        *)
  Cjk,         (* The substring search of feature graph-cjk is there.      *)
  MaxSeeds,    (* 100 in traversal.rs.                                     *)
  Fanout,      (* Candidates for each node of a limit, 4,                 *)
  Candidates   (* and the least number of candidates of a recall, 40.      *)

(* A node: text is the words of its title, body and tags; a time of 0 is   *)
(* the empty string.                                                       *)
Node(title, text, tags, importance, now) ==
  [title |-> title, text |-> text, tags |-> tags, importance |-> importance, created |-> now,
   updated |-> now, count |-> 0, accessed |-> 0, verified |-> 0]

Empty == [nodes |-> [id \in Ids |-> None], edges |-> {}]

Present(db) == {id \in Ids : db.nodes[id] # None}

Later(a, b) == IF a > b THEN a ELSE b

----------------------------------------------------------------------------
(* Writing nodes and edges.                                                *)

(* A mutant: INSERT OR REPLACE.                                            *)
UpsertNodeReplacing(db, id, node) == [db EXCEPT !.nodes[id] = node]

UpsertNode(db, id, node) ==
  LET old == db.nodes[id] IN
  IF old = None THEN [db EXCEPT !.nodes[id] = node]
  ELSE [db EXCEPT !.nodes[id] =
         [node EXCEPT !.created = old.created, !.count = Later(old.count, node.count),
                      !.accessed = Later(old.accessed, node.accessed)]]

Touches(edge, id) == edge.source = id \/ edge.target = id

RemoveEdgesForNode(db, id) == [db EXCEPT !.edges = {e \in db.edges : ~Touches(e, id)}]

DeleteNode(db, id) == [RemoveEdgesForNode(db, id) EXCEPT !.nodes[id] = None]

(* The primary key and the unique index of the edges.                      *)
SameTriple(e, f) == e.source = f.source /\ e.target = f.target /\ e.relation = f.relation
Clashes(db, edge) == \E f \in db.edges : f.id = edge.id \/ SameTriple(edge, f)

AppendEdge(db, edge) == IF Clashes(db, edge) THEN db ELSE [db EXCEPT !.edges = db.edges \cup {edge}]

AppendEdges(db, batch) == FoldLeft(AppendEdge, db, batch)

DeleteEdge(db, id) == [db EXCEPT !.edges = {e \in db.edges : e.id # id}]

----------------------------------------------------------------------------
(* The life of a node.                                                     *)

Update(db, Chosen(_), New(_)) ==
  [db EXCEPT !.nodes = [id \in Ids |-> IF db.nodes[id] # None /\ Chosen(id) THEN New(db.nodes[id]) ELSE db.nodes[id]]]

Touched(node, now) == [node EXCEPT !.count = node.count + 1, !.accessed = now]

TouchNodes(db, ids, now) == Update(db, LAMBDA id : id \in ids, LAMBDA n : Touched(n, now))

Decays(node, cutoff, floor) ==
  node.accessed < cutoff /\ node.updated < cutoff /\ node.importance > floor /\ "pinned" \notin node.tags

DecayImportance(db, cutoff, floor) ==
  Update(db, LAMBDA id : Decays(db.nodes[id], cutoff, floor),
             LAMBDA n : [n EXCEPT !.importance = Later(floor, n.importance - 1)])

TagStaleNodes(db, cutoff) ==
  Update(db, LAMBDA id : db.nodes[id].updated < cutoff, LAMBDA n : [n EXCEPT !.tags = n.tags \cup {"stale"}])

MarkVerified(db, id, now) == Update(db, LAMBDA i : i = id, LAMBDA n : [n EXCEPT !.verified = now])

(* The newest node of that title; there may be several as new.             *)
FindDuplicate(db, title, cutoff) ==
  LET same == {id \in Present(db) : db.nodes[id].title = title /\ db.nodes[id].updated > cutoff} IN
  {id \in same : \A other \in same : db.nodes[other].updated <= db.nodes[id].updated}

----------------------------------------------------------------------------
(* Reading nodes.  A query is a sequence of words; the full text is        *)
(* searched for it as one phrase of three letters at least.                *)

CONSTANT Short(_)    (* The query has fewer than three letters.            *)

HasPhrase(node, query) == \E i \in 0..Len(node.text) - Len(query) : SubSeq(node.text, i + 1, i + Len(query)) = query

SearchNodes(db, query) ==
  {id \in Present(db) : query # <<>> /\ ~Short(query) /\ HasPhrase(db.nodes[id], query)}

SearchNodesCjk(db, query) ==
  {id \in Present(db) : query # <<>> /\ ToSet(query) \subseteq ToSet(db.nodes[id].text)}

SearchNodesHybrid(db, query) ==
  SearchNodes(db, query) \cup (IF Cjk THEN SearchNodesCjk(db, query) ELSE {})

(* Tags and projects are columns of names and are filtered alike: one      *)
(* stands for both, and for the node type.                                 *)
QueryNodes(db, tag) == {id \in Present(db) : tag = None \/ tag \in db.nodes[id].tags}
QueryNodesEx(db, tag, since, until) ==
  {id \in QueryNodes(db, tag) : db.nodes[id].created >= since /\ db.nodes[id].created < until}

(* The sets an ORDER BY with a LIMIT may leave: ties may fall either way.  *)
Best(ids, limit, Before(_, _)) ==
  {kept \in SUBSET ids :
     /\ Cardinality(kept) = IF Cardinality(ids) < limit THEN Cardinality(ids) ELSE limit
     /\ \A in \in kept, out \in ids \ kept : ~Before(out, in)}

MoreImportant(db, a, b) ==
  LET x == db.nodes[a] y == db.nodes[b] IN
  x.importance > y.importance \/ (x.importance = y.importance /\ x.updated > y.updated)

(* Weights of recency, importance, accesses and a match, in hundredths;    *)
(* recency is 1 for what was written now, and halves.                      *)
Score(node, matches, now) ==
  (IF node.updated = now THEN 20 ELSE 10) + 35 * node.importance + node.count + (IF matches THEN 20 ELSE 0)

(* What the candidate query selects, and what passes_scope_filters lets in *)
(* of the matches that it missed.                                          *)
InScope(node, tag) == "stale" \notin node.tags /\ (tag = None \/ tag \in node.tags)

(* What a recall's search may return: Fanout matches for each of its limit.*)
Hits(db, hint, Search(_, _), limit) ==
  IF hint = None THEN {{}} ELSE Best(Search(db, hint), Fanout * limit, LAMBDA x, y : FALSE)

(* A mutant: the matches that the candidates lack are not read.            *)
SmartRecallOfCandidates(db, tag, hint, found, limit, now) ==
  LET scope == {id \in Present(db) : InScope(db.nodes[id], tag)}
      window == Best(scope, Later(Fanout * limit, Candidates), LAMBDA a, b : MoreImportant(db, a, b))
  IN IF hint \notin {None, <<>>} /\ found = {} THEN {{}}
     ELSE UNION {Best(IF found = {} THEN c ELSE c \cap found, limit, LAMBDA a, b : FALSE) : c \in window}

(* The sets of nodes a recall may return.                                  *)
SmartRecallOf(db, tag, hint, found, limit, now) ==
  LET scope == {id \in Present(db) : InScope(db.nodes[id], tag)}
      window == Best(scope, Later(Fanout * limit, Candidates), LAMBDA a, b : MoreImportant(db, a, b))
      Gated(candidates) == IF found = {} THEN candidates ELSE (candidates \cap found) \cup (found \cap scope)
      Higher(a, b) == Score(db.nodes[a], a \in found, now) > Score(db.nodes[b], b \in found, now)
  IN IF hint \notin {None, <<>>} /\ found = {} THEN {{}}
     ELSE UNION {Best(Gated(candidates), limit, Higher) : candidates \in window}

SmartRecall(db, tag, hint, limit, now) ==
  UNION {SmartRecallOf(db, tag, hint, found, limit, now) : found \in Hits(db, hint, SearchNodesHybrid, limit)}

----------------------------------------------------------------------------
(* Reading edges.                                                          *)

EdgesForNode(db, id) == {e \in db.edges : Touches(e, id)}

EdgesForNodeDir(db, id, dir, relation) ==
  {e \in db.edges :
     /\ (dir # "in" /\ e.source = id) \/ (dir # "out" /\ e.target = id)
     /\ relation = None \/ e.relation = relation}

EdgesAmong(db, ids) == {e \in db.edges : e.source \in ids /\ e.target \in ids}

Weight(edges) == MapThenSumSet(LAMBDA e : e.weight, edges)

(* One half of the query per direction, each grouped by the far end.       *)
NeighborsWeighted(db, seeds, dir, relation) ==
  LET chosen == ToSet(SubSeq(seeds, 1, IF Len(seeds) < MaxSeeds THEN Len(seeds) ELSE MaxSeeds))
      typed == {e \in db.edges : relation = None \/ e.relation = relation}
      out == {e \in typed : dir # "in" /\ e.source \in chosen}
      in == {e \in typed : dir # "out" /\ e.target \in chosen}
  IN [nb \in ({e.target : e \in out} \cup {e.source : e \in in}) \ chosen |->
        Weight({e \in out : e.target = nb}) + Weight({e \in in : e.source = nb})]

Ends(db, ids) == {e.target : e \in {f \in db.edges : f.source \in ids}}
                 \cup {e.source : e \in {f \in db.edges : f.target \in ids}}

(* The recursive query, a level at a time: only its recursive parts leave  *)
(* the start out.                                                          *)
RelatedNodes(db, start, depth) ==
  LET level[k \in 1..Later(depth, 1)] == IF k = 1 THEN Ends(db, {start}) ELSE Ends(db, level[k - 1]) \ {start} IN
  UNION {level[k] : k \in DOMAIN level}

BuildGraph(db) == [nodes |-> Present(db), edges |-> db.edges]
=============================================================================
