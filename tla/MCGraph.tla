-------------------------------- MODULE MCGraph --------------------------------
(***************************************************************************)
(* Two nodes, two words and a short one, edges with clashing ids and       *)
(* triples and one of a node to itself, batches of two chunks.             *)
(***************************************************************************)
EXTENDS GraphSessions

CONSTANTS a, b, o1, o2

MCShort(query) == query = <<"ab">>

MCNodes == [t \in 1..Horizon |->
  {Node("t1", <<"rust", "ab">>, {"p"}, 1, t), [Node("t1", <<"db">>, {}, 2, t) EXCEPT !.count = 1],
   Node("t2", <<"rust", "db">>, {"pinned"}, 2, t)}]

Edge(id, s, t, w) == [id |-> id, source |-> s, target |-> t, relation |-> "related", weight |-> w]

MCBatches ==
  {<<Edge("e1", a, b, 1), Edge("e2", b, a, 2)>>, <<Edge("e3", a, b, 3)>>,
   <<[Edge("e2", a, a, 1) EXCEPT !.relation = "cites"]>>}

MCHints == {None, <<"rust">>, <<"ab">>, <<"db", "rust">>}
=============================================================================
