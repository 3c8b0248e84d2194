--------------------------- MODULE GraphAlgorithms ---------------------------
(***************************************************************************)
(* The algorithms on a snapshot of the graph: shortest paths by Dijkstra's *)
(* algorithm, one step at a time, connected components by union-find,      *)
(* communities by label propagation, and predicted links.  Weights are in  *)
(* quarters: 4 is the strongest a relation may be.                         *)
(***************************************************************************)
EXTENDS Options, Integers, SequencesExt, FiniteSets

CONSTANTS
  NodeIds,        (* The node ids of the graph, in order.                  *)
  EdgeLists,      (* The lists of edges [source, target, weight] it may    *)
                  (* have.                                                 *)
  HopCosts,       (* -ln of a quarter, of two and of three.                *)
  Rarities,       (* 1 / ln of a degree from 2 on.                         *)
  LabelRounds, TopLinks   (* The parameters of the algorithms.             *)

ASSUME AlgorithmsAssumption ==
  /\ NodeIds \in Seq(Range(NodeIds)) /\ NodeIds # <<>>
  /\ \A edges \in EdgeLists :
       edges \in Seq(Range(edges)) /\ \A edge \in Range(edges) : edge.weight \in Nat
  /\ HopCosts \in [1..3 -> Nat] /\ Rarities \in [2..Len(NodeIds) -> Nat]
  /\ LabelRounds \in Nat /\ TopLinks \in Nat
  /\ None \notin Nat

VARIABLES
  csr,        (* The snapshot: its nodes and, by node index, its edges.    *)
  task,       (* The algorithm that runs on it.                            *)
  goal,       (* The node a path is wanted to, or None for all distances.  *)
  search,     (* The search from node 1.                                   *)
  components, (* Every node's root, the ranks of roots and the edges left. *)
  communities (* Every node's label, the rounds and the nodes left, and    *)
              (* whether the round changed a label.                        *)

algorithmVars == <<csr, task, goal, search, components, communities>>

----------------------------------------------------------------------------
(* The snapshot.                                                           *)

(* Ids are numbered as they first appear; edges of unknown nodes are left  *)
(* out.  out and in list the ends and weights of a node's edges, which the *)
(* code sorts unstably: in no order to rely on.                            *)
Numbering(known, id) == IF Contains(known, id) THEN known ELSE Append(known, id)
Index(nodes, id) == SelectInSeq(nodes, LAMBDA n : n = id)

EdgesFromOrphans(nodes, edges, i) == SetToSeq({k \in DOMAIN edges : Index(nodes, edges[k].source) = i})

EdgesFrom(nodes, edges, i) ==
  SetToSeq({k \in DOMAIN edges : Index(nodes, edges[k].source) = i /\ Index(nodes, edges[k].target) # 0})
EdgesInto(nodes, edges, i) ==
  SetToSeq({k \in DOMAIN edges : Index(nodes, edges[k].target) = i /\ Index(nodes, edges[k].source) # 0})

FromEdges(ids, edges) ==
  LET nodes == FoldLeft(Numbering, <<>>, ids)
      Targets(at) == [k \in DOMAIN at |-> [node |-> Index(nodes, edges[at[k]].target), weight |-> edges[at[k]].weight]]
      Sources(at) == [k \in DOMAIN at |-> [node |-> Index(nodes, edges[at[k]].source), weight |-> edges[at[k]].weight]]
  IN [nodes |-> nodes,
      out |-> [i \in DOMAIN nodes |-> Targets(EdgesFrom(nodes, edges, i))],
      in |-> [i \in DOMAIN nodes |-> Sources(EdgesInto(nodes, edges, i))]]

NodeIndices(g) == DOMAIN g.nodes

----------------------------------------------------------------------------
(* Shortest paths.                                                         *)

(* The cost falls with the logarithm of the weight; what is stronger than  *)
(* allowed costs nothing, what has no strength cannot be passed.           *)
EdgeCost(weight) ==
  CASE weight = 0 -> None
    [] weight >= 4 -> 0
    [] weight \in 1..3 -> HopCosts[weight]

(* Of what is nearest, the greatest index.                                 *)
Nearest(heap) == CHOOSE x \in heap : \A y \in heap : x.dist < y.dist \/ (x.dist = y.dist /\ x.node >= y.node)

EdgesInOrder(g) == FlattenSeq([i \in NodeIndices(g) |-> [k \in DOMAIN g.out[i] |-> <<i, g.out[i][k].node>>]])
Numbered(g) == [i \in NodeIndices(g) |-> i]

AlgorithmsInit ==
  /\ \E edges \in EdgeLists : csr = FromEdges(NodeIds, edges)
  /\ task \in {"paths", "components", "communities"}
  /\ IF task = "paths" THEN goal \in NodeIndices(csr) \cup {None} ELSE goal = None
  /\ components = [root |-> Numbered(csr), rank |-> [i \in NodeIndices(csr) |-> 0], edges |-> EdgesInOrder(csr)]
  /\ communities = [label |-> Numbered(csr), rounds |-> LabelRounds, nodes |-> Numbered(csr), changed |-> FALSE]
  /\ search = [dist |-> [i \in NodeIndices(csr) |-> IF i = 1 THEN 0 ELSE None],
               prev |-> [i \in NodeIndices(csr) |-> None],
               visited |-> <<>>, heap |-> {[dist |-> 0, node |-> 1]}, done |-> FALSE]

RelaxFirst(at, edge) ==
  LET cost == EdgeCost(edge.weight)
  IN IF cost = None \/ at.dist[edge.node] # None THEN at
     ELSE [at EXCEPT !.dist[edge.node] = at.dist[at.here] + cost, !.prev[edge.node] = at.here,
                     !.heap = @ \cup {[dist |-> at.dist[at.here] + cost, node |-> edge.node]}]

Relax(at, edge) ==
  LET cost == EdgeCost(edge.weight)
      through == at.dist[at.here] + cost
  IN IF cost = None THEN at
     ELSE IF at.dist[edge.node] # None /\ at.dist[edge.node] <= through THEN at
     ELSE [at EXCEPT !.dist[edge.node] = through, !.prev[edge.node] = at.here,
                     !.heap = @ \cup {[dist |-> through, node |-> edge.node]}]

(* A node is visited once, at its first and least distance; a search for a *)
(* path ends at its goal.                                                  *)
VisitNearest ==
  /\ task = "paths" /\ ~search.done /\ search.heap # {}
  /\ LET next == Nearest(search.heap)
         at == [dist |-> search.dist, prev |-> search.prev, heap |-> search.heap \ {next}, here |-> next.node]
         relaxed == FoldLeft(Relax, at, csr.out[next.node])
     IN search' =
          IF next.node = goal THEN [search EXCEPT !.done = TRUE]
          ELSE IF Contains(search.visited, next.node) THEN [search EXCEPT !.heap = at.heap]
          ELSE [dist |-> relaxed.dist, prev |-> relaxed.prev, heap |-> relaxed.heap,
                visited |-> Append(search.visited, next.node), done |-> FALSE]
  /\ UNCHANGED <<csr, task, goal, components, communities>>

HeapEmpty ==
  /\ task = "paths" /\ ~search.done /\ search.heap = {}
  /\ search' = [search EXCEPT !.done = TRUE]
  /\ UNCHANGED <<csr, task, goal, components, communities>>

(* From the goal back along the predecessors, each of which was visited.   *)
StepBack(path, visit) ==
  LET before == search.prev[Head(path)] IN IF before = None THEN path ELSE <<before>> \o path

ShortestPath == IF search.dist[goal] = None THEN None ELSE FoldLeft(StepBack, <<goal>>, search.visited)

----------------------------------------------------------------------------
(* Communities.                                                            *)

UnionNode ==
  /\ task = "components" /\ components.edges # <<>>
  /\ LET edge == Head(components.edges)
     IN components' = [components EXCEPT !.root[edge[2]] = components.root[edge[1]], !.edges = Tail(@)]
  /\ UNCHANGED <<csr, task, goal, search, communities>>

(* Union-find: the root of lower rank goes under the other, and the nodes  *)
(* under it with it; how long the ways to a root are is left out.          *)
UnionEdge ==
  /\ task = "components" /\ components.edges # <<>>
  /\ LET edge == Head(components.edges)
         ri == components.root[edge[1]]
         rj == components.root[edge[2]]
         lower == components.rank[ri] < components.rank[rj]
         top == IF lower THEN rj ELSE ri
         below == IF lower THEN ri ELSE rj
     IN components' = [
          root |-> [i \in NodeIndices(csr) |-> IF components.root[i] = below THEN top ELSE components.root[i]],
          rank |-> IF ri # rj /\ components.rank[ri] = components.rank[rj]
                   THEN [components.rank EXCEPT ![top] = @ + 1] ELSE components.rank,
          edges |-> Tail(components.edges)]
  /\ UNCHANGED <<csr, task, goal, search, communities>>

(* The label with the most weight among the neighbours, the least of equals. *)
VotesFor(votes, l) ==
  SumFunction([k \in DOMAIN votes |-> IF communities.label[votes[k].node] = l THEN votes[k].weight ELSE 0])

HeaviestLabel(i) ==
  LET votes == csr.out[i] \o csr.in[i]
      labels == {communities.label[e.node] : e \in Range(votes)}
  IN IF votes = <<>> THEN communities.label[i]
     ELSE CHOOSE l \in labels : \A other \in labels :
            \/ VotesFor(votes, l) > VotesFor(votes, other)
            \/ VotesFor(votes, l) = VotesFor(votes, other) /\ l <= other

(* Node after node, in rounds, until a round changes nothing.              *)
AdoptLabel ==
  /\ task = "communities" /\ communities.rounds > 0 /\ communities.nodes # <<>>
  /\ LET i == Head(communities.nodes)
         best == HeaviestLabel(i)
     IN communities' = [communities EXCEPT !.label[i] = best, !.nodes = Tail(@),
                                           !.changed = @ \/ best # communities.label[i]]
  /\ UNCHANGED <<csr, task, goal, search, components>>

EndRound ==
  /\ task = "communities" /\ communities.rounds > 0 /\ communities.nodes = <<>>
  /\ communities' = [communities EXCEPT !.rounds = IF communities.changed THEN @ - 1 ELSE 0,
                                        !.nodes = Numbered(csr), !.changed = FALSE]
  /\ UNCHANGED <<csr, task, goal, search, components>>

AlgorithmsNext == VisitNearest \/ HeapEmpty \/ UnionEdge \/ AdoptLabel \/ EndRound

AlgorithmsSpec == AlgorithmsInit /\ [][AlgorithmsNext]_algorithmVars

----------------------------------------------------------------------------
(* Similarity.                                                             *)

NeighborSetOut(g, x) == {e.node : e \in Range(g.out[x])} \ {x}
NeighborSet(g, x) == {e.node : e \in Range(g.out[x] \o g.in[x])} \ {x}
CommonNeighbors(g, a, b) == NeighborSet(g, a) \cap NeighborSet(g, b)

Rarity(degree) == IF degree <= 1 THEN 0 ELSE Rarities[degree]

AdamicAdar(g, a, b) == SumFunction([z \in CommonNeighbors(g, a, b) |-> Rarity(Cardinality(NeighborSet(g, z)))])

OpenPairs(g) ==
  {p \in NodeIndices(g) \X NodeIndices(g) :
     p[1] < p[2] /\ p[2] \notin NeighborSet(g, p[1]) /\ CommonNeighbors(g, p[1], p[2]) # {}}

(* The stable sort leaves pairs of one score in the order of their nodes.  *)
Stronger(g, p, q) ==
  \/ AdamicAdar(g, p[1], p[2]) > AdamicAdar(g, q[1], q[2])
  \/ /\ AdamicAdar(g, p[1], p[2]) = AdamicAdar(g, q[1], q[2])
     /\ p[1] < q[1] \/ (p[1] = q[1] /\ p[2] < q[2])

LinkPrediction(g, k) ==
  LET ranked == CHOOSE s \in SetToSeqs(OpenPairs(g)) : \A i, j \in DOMAIN s : i < j => Stronger(g, s[i], s[j])
  IN SubSeq(ranked, 1, IF k < Len(ranked) THEN k ELSE Len(ranked))

----------------------------------------------------------------------------
(* What the results mean.                                                  *)

EdgesOf(g) == UNION {{<<i, g.out[i][k].node, g.out[i][k].weight>> : k \in DOMAIN g.out[i]} : i \in NodeIndices(g)}
Adjacent(g, a, b) == \E e \in EdgesOf(g) : {e[1], e[2]} = {a, b}

(* What an edge that can be passed costs, and a path of such edges.        *)
Passable(a, b) == {e \in EdgesOf(csr) : e[1] = a /\ e[2] = b /\ e[3] > 0}
HopCost(a, b) ==
  LET costs == {EdgeCost(e[3]) : e \in Passable(a, b)} IN CHOOSE c \in costs : \A d \in costs : c <= d
PathCost(path) == SumFunction([k \in 1..(Len(path) - 1) |-> HopCost(path[k], path[k + 1])])

SimplePaths(from, to) ==
  {path \in UNION {[1..n -> NodeIndices(csr)] : n \in 1..Len(csr.nodes)} :
     /\ path[1] = from /\ path[Len(path)] = to /\ IsInjective(path)
     /\ \A k \in 1..(Len(path) - 1) : Passable(path[k], path[k + 1]) # {}}

LeastCost(to) ==
  LET costs == {PathCost(path) : path \in SimplePaths(1, to)} IN CHOOSE c \in costs : \A d \in costs : c <= d

(* What a node reaches is in every set with it that no edge leads out of.  *)
Closed(g, nodes) == \A a, b \in NodeIndices(g) : Adjacent(g, a, b) /\ a \in nodes => b \in nodes
ComponentOf(g, a) ==
  {b \in NodeIndices(g) : \A nodes \in SUBSET NodeIndices(g) : Closed(g, nodes) /\ a \in nodes => b \in nodes}

Times(ends, end) == Cardinality({k \in DOMAIN ends : ends[k] = end})

(* Every node is numbered once, no edge leads to an unknown one, and every *)
(* edge is in the list of its source as often as in its target's.          *)
SnapshotComplete ==
  /\ IsInjective(csr.nodes)
  /\ \A a \in NodeIndices(csr) : \A e \in Range(csr.out[a] \o csr.in[a]) : e.node \in NodeIndices(csr)
  /\ \A a, b \in NodeIndices(csr) : \A weight \in {e.weight : e \in Range(csr.out[a] \o csr.in[b])} :
       Times(csr.out[a], [node |-> b, weight |-> weight]) = Times(csr.in[b], [node |-> a, weight |-> weight])

(* A search that is over gives every node that can be reached its least    *)
(* cost, in ascending order, and a path of that cost to its goal.          *)
PathsShortest ==
  search.done =>
    IF goal # None
    THEN IF SimplePaths(1, goal) = {} THEN ShortestPath = None
         ELSE ShortestPath \in SimplePaths(1, goal) /\ PathCost(ShortestPath) = LeastCost(goal)
    ELSE /\ IsInjective(search.visited)
         /\ Range(search.visited) = {i \in NodeIndices(csr) : SimplePaths(1, i) # {}}
         /\ \A i \in Range(search.visited) : search.dist[i] = LeastCost(i)
         /\ \A j, k \in DOMAIN search.visited : j < k => search.dist[search.visited[j]] <= search.dist[search.visited[k]]

(* When all edges are seen, two nodes have one root exactly if edges of    *)
(* whatever direction and strength connect them; a community never reaches *)
(* past a component.                                                       *)
CommunitiesSound ==
  \A a \in NodeIndices(csr) :
    /\ components.edges = <<>> => {b \in NodeIndices(csr) : components.root[b] = components.root[a]} = ComponentOf(csr, a)
    /\ {b \in NodeIndices(csr) : communities.label[b] = communities.label[a]} \subseteq ComponentOf(csr, a)

(* A predicted link is between two nodes that no edge joins and that have  *)
(* a neighbour in common, and no pair that is left out is stronger.        *)
LinksSound ==
  LET links == LinkPrediction(csr, TopLinks)
      neighbours == [a \in NodeIndices(csr) |-> {b \in NodeIndices(csr) \ {a} : Adjacent(csr, a, b)}]
      Shared(p) == neighbours[p[1]] \cap neighbours[p[2]]
      Strength(p) == SumFunction([z \in Shared(p) |-> Rarity(Cardinality(neighbours[z]))])
      open == {p \in NodeIndices(csr) \X NodeIndices(csr) : p[1] < p[2] /\ ~Adjacent(csr, p[1], p[2])}
  IN /\ \A k \in DOMAIN links : links[k] \in open /\ Shared(links[k]) # {}
     /\ \A p \in open \ Range(links) : Len(links) < TopLinks => Shared(p) = {}
     /\ \A k \in DOMAIN links, p \in open \ Range(links) : Strength(p) <= Strength(links[k])

(* All of this together.                                                   *)
AlgorithmsSound == SnapshotComplete /\ PathsShortest /\ CommunitiesSound /\ LinksSound
=============================================================================
