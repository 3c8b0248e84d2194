----------------------------- MODULE Federation -----------------------------
(***************************************************************************)
(* Writes to every vector index and searches across them.  A write goes to *)
(* the indexes one call each, any of which may fail half-way, and is       *)
(* repeated until all have taken it.  A federated search asks the          *)
(* backends concurrently while writes go on, leaves out those that fail or *)
(* time out and merges the others; a hybrid search merges the dense and    *)
(* the sparse index, a local one the lists its caller holds.               *)
(***************************************************************************)
EXTENDS Options, VectorIndexes

CONSTANTS
  VecBatches,     (* The batches of rows that are written.                 *)
  Documents,      (* What a KeywordIndex holds: rows of an id and words.   *)
  Weights,        (* Of the federated backends.                            *)
  K,              (* How many results are asked for.                       *)
  RrfK,           (* The damping of RRF: 60 in the code.                   *)
  Scale,          (* Scores are multiples of 1/Scale: a common multiple of *)
                  (* the ranks' denominators and of the spans of scores.   *)
  MaxWrites       (* Bound: the writes, repetitions not counted.           *)

ASSUME FederationAssumption ==
  \A i \in DOMAIN VecBatches : VecBatches[i] \in Seq([id : Nat, vec : Nat])

VARIABLES
  qdrant, elastic, dense, lexical,   (* The indexes.                       *)
  write,          (* The write that some of them have still to take.       *)
  writes,
  drifted,        (* History: one of them refuses a write for good.        *)
  asked,          (* The search under way: a list for every backend,       *)
  merged          (* and its result.                                       *)

indexes == <<qdrant, elastic, dense, lexical>>
searchVars == <<indexes, write, writes, drifted, asked, merged>>

Backends == {"qdrant", "elastic", "dense"}

(* A weight may be 0; ranks of a list that is asked for have credits that  *)
(* differ, as the floating-point numbers of the code do.                   *)
ASSUME FusionAssumption ==
  /\ Weights \in [Backends -> Nat] /\ K \in Nat /\ RrfK \in Nat /\ Scale \in Nat
  /\ \A q, r \in 1..(2 * K) : q < r => Scale \div (RrfK + r) < Scale \div (RrfK + q)
  /\ IsFiniteSet(DOMAIN Documents)

NoWrite == [rows |-> <<>>, ids |-> {}, left |-> {}]

FederationInit ==
  /\ qdrant = NoVectors /\ elastic = NoVectors /\ dense = NoVectors /\ lexical = NoVectors
  /\ write = NoWrite /\ writes = 0 /\ drifted = FALSE
  /\ asked = None /\ merged = None

----------------------------------------------------------------------------
(* Writes.                                                                 *)

All == Backends \cup {"lexical"}

Refused(rows) == ~PgIds(rows) \/ Duplicates(rows)

Write(rows, ids) ==
  /\ write.left = {} /\ writes < MaxWrites
  /\ write' = [rows |-> rows, ids |-> ids, left |-> All]
  /\ writes' = writes + 1
  /\ drifted' = (drifted \/ Refused(rows) \/ \E id \in ids : ~ToPgId(id))
  /\ UNCHANGED <<indexes, asked, merged>>

Took(name, outcome) ==
  /\ name \in write.left
  /\ write' = IF outcome.ok THEN [write EXCEPT !.left = @ \ {name}] ELSE write
  /\ UNCHANGED <<writes, drifted, asked, merged>>

TakesWrite(name, add(_, _), remove(_, _), index) ==
  IF write.rows # <<>> THEN add(index, write.rows) ELSE remove(index, write.ids)

WriteQdrant ==
  \E o \in TakesWrite("qdrant", QdrantAdd, QdrantRemove, qdrant) :
    Took("qdrant", o) /\ qdrant' = o.index /\ UNCHANGED <<elastic, dense, lexical>>
WriteElastic ==
  \E o \in TakesWrite("elastic", ElasticAdd, ElasticRemove, elastic) :
    Took("elastic", o) /\ elastic' = o.index /\ UNCHANGED <<qdrant, dense, lexical>>
WriteDense ==
  \E o \in TakesWrite("dense", PgVectorAdd, PgVectorRemove, dense) :
    Took("dense", o) /\ dense' = o.index /\ UNCHANGED <<qdrant, elastic, lexical>>
WriteLexical ==
  \E o \in TakesWrite("lexical", PgSparseAdd, PgSparseRemove, lexical) :
    Took("lexical", o) /\ lexical' = o.index /\ UNCHANGED <<qdrant, elastic, dense>>

(* A write that is refused is given up.                                    *)
GiveUp ==
  /\ write.left # {} /\ drifted
  /\ write' = NoWrite
  /\ UNCHANGED <<indexes, writes, drifted, asked, merged>>

(* Both PostgreSQL indexes pruned in one transaction, while no other write *)
(* is under way; the others are pruned after it.                           *)
Prune(ids, commits) ==
  /\ write.left = {} /\ writes < MaxWrites
  /\ \A id \in ids : ToPgId(id)
  /\ LET left == RemoveInTx(dense, lexical, ids, commits) IN dense' = left[1] /\ lexical' = left[2]
  /\ write' = IF commits THEN [rows |-> <<>>, ids |-> ids, left |-> {"qdrant", "elastic"}] ELSE write
  /\ writes' = writes + 1
  /\ UNCHANGED <<qdrant, elastic, drifted, asked, merged>>

----------------------------------------------------------------------------
(* Fusion.  A list is a sequence of hits, best first.                      *)

Hit(id, score) == [id |-> id, score |-> score]
IdsOf(list) == {list[i].id : i \in DOMAIN list}
AllIds(lists) == UNION {IdsOf(lists[i]) : i \in DOMAIN lists}

SumOver(lists, id, part(_, _)) ==
  FoldFunctionOnSet(+, 0,
    [i \in DOMAIN lists |-> LET at == SelectInSeq(lists[i], LAMBDA hit : hit.id = id)
                            IN IF at = 0 THEN 0 ELSE part(i, at)], DOMAIN lists)

FirstOf(lists, id, part(_, _)) ==
  LET with == {i \in DOMAIN lists : id \in IdsOf(lists[i])}
      i == Min(with)
  IN part(i, SelectInSeq(lists[i], LAMBDA hit : hit.id = id))

RrfFirstCredit(lists, weights) ==
  [id \in AllIds(lists) |-> FirstOf(lists, id, LAMBDA i, rank : weights[i] * (Scale \div (RrfK + rank)))]

RrfCredit(lists, weights) ==
  [id \in AllIds(lists) |-> SumOver(lists, id, LAMBDA i, rank : weights[i] * (Scale \div (RrfK + rank)))]

(* Scores spread over 0..Scale, or all Scale when they are equal.          *)
NormalizeMinMax(list) ==
  LET scores == {list[i].score : i \in DOMAIN list}
      span == Max(scores) - Min(scores)
  IN IF list = <<>> THEN <<>> ELSE
     [i \in DOMAIN list |->
        Hit(list[i].id, IF span = 0 THEN Scale ELSE ((list[i].score - Min(scores)) * Scale) \div span)]

WeightedSum(lists, weights) ==
  [id \in AllIds(lists) |-> SumOver(lists, id, LAMBDA i, rank : weights[i] * lists[i][rank].score)]

(* The sum of scores times the number of lists that rank it within k.      *)
CombMnz(lists, k) ==
  [id \in AllIds(lists) |->
     SumOver(lists, id, LAMBDA i, rank : lists[i][rank].score)
       * SumOver(lists, id, LAMBDA i, rank : IF rank <= k THEN 1 ELSE 0)]

Credit(strategy, lists, weights) ==
  CASE strategy = "Rrf" -> RrfCredit(lists, weights)
    [] strategy = "WeightedSum" -> WeightedSum([i \in DOMAIN lists |-> NormalizeMinMax(lists[i])], weights)

(* The fused lists are sorted by credit alone: ties come in any order, but *)
(* in Fusion::fuse, which breaks them by the id.                           *)
Fused(credit) == Ranked(DOMAIN credit, credit)
Fuse(credit) == RankedById(DOMAIN credit, credit)

----------------------------------------------------------------------------
(* Searches.                                                               *)

Hits(ids, score) == [i \in DOMAIN ids |-> Hit(ids[i], score[ids[i]])]

(* Bound: searches begin with the last of the writes.                      *)
Searchable == asked = None /\ merged = None /\ writes = MaxWrites

Ask ==
  /\ Searchable
  /\ asked' = [left |-> Backends, lists |-> <<>>]
  /\ UNCHANGED <<indexes, write, writes, drifted, merged>>

Asked(backend) == asked # None /\ backend \in asked.left /\ UNCHANGED <<indexes, write, writes, drifted, merged>>

Replied(lists, backend, list) ==
  [b \in DOMAIN lists \cup {backend} |-> IF b = backend THEN list ELSE lists[b]]

Reply(backend, list) ==
  /\ Asked(backend)
  /\ asked' = [asked EXCEPT !.left = @ \ {backend}, !.lists = Replied(@, backend, list)]

(* Each is asked for twice as many as are wanted.  Elasticsearch scores    *)
(* on a scale of its own.                                                  *)
ReplyQdrant == \E ids \in QdrantSearch(qdrant, 2 * K) : Reply("qdrant", Hits(ids, qdrant))
ReplyElastic == \E ids \in ElasticSearch(elastic, 2 * K) :
  Reply("elastic", Hits(ids, [id \in DOMAIN elastic |-> elastic[id] + 10]))
ReplyDense == \E ids \in PgVectorSearch(dense, 2 * K) : Reply("dense", Hits(ids, dense))

(* A backend errs or times out.                                            *)
Fails(backend) == Asked(backend) /\ asked' = [asked EXCEPT !.left = @ \ {backend}]

Result(ok, strategy, ids, lists, weights) ==
  [ok |-> ok, strategy |-> strategy, ids |-> ids, lists |-> lists, weights |-> weights]

(* federate_results and Fusion::fuse weigh all lists alike.                *)
Alike(lists) == [i \in DOMAIN lists |-> 1]

Merge(strategy) ==
  LET survivors == SetToSeq(DOMAIN asked.lists)
      lists == [i \in DOMAIN survivors |-> asked.lists[survivors[i]]]
      weights == [i \in DOMAIN survivors |-> Weights[survivors[i]]]
  IN /\ asked # None /\ asked.left = {}
     /\ IF survivors = <<>>
        THEN merged' = Result(FALSE, strategy, <<>>, <<>>, <<>>)
        ELSE \E ids \in Fused(Credit(strategy, lists, weights)) :
               merged' = Result(TRUE, strategy, Best(ids, K), lists, weights)
     /\ asked' = None
     /\ UNCHANGED <<indexes, write, writes, drifted>>

(* Dense and sparse of PostgreSQL, merged by Fusion::fuse; within an       *)
(* allowlist, or where a predicate matches.                                *)
Hybrid(denseIds, lexicalIds) ==
  LET lists == <<Hits(denseIds, dense), Hits(lexicalIds, lexical)>>
  IN /\ Searchable
     /\ merged' = Result(TRUE, "Rrf", Best(Fuse(RrfCredit(lists, Alike(lists))), K), lists, Alike(lists))
     /\ UNCHANGED <<indexes, write, writes, drifted, asked>>

(* How often the words of the query are found in a text.                   *)
Matches(words, query) == FoldLeft(LAMBDA n, w : n + (IF w \in query THEN 1 ELSE 0), 0, words)

KeywordSearch(documents, query, limit) ==
  LET count == [id \in DOMAIN documents |-> Matches(documents[id], query)]
      found == {id \in DOMAIN documents : count[id] # 0}
  IN IF query = {} THEN {<<>>} ELSE {Hits(Best(p, limit), count) : p \in Ranked(found, count)}

(* Lists a caller has fetched itself, merged by federate_results.          *)
FederateResults(strategy, lists) == Fused(Credit(strategy, lists, Alike(lists)))

Local(strategy, lists) ==
  /\ Searchable
  /\ \E ids \in FederateResults(strategy, lists) : merged' = Result(TRUE, strategy, ids, lists, Alike(lists))
  /\ UNCHANGED <<indexes, write, writes, drifted, asked>>

LocalCombMnz(lists) ==
  /\ Searchable
  /\ \E ids \in Fused(CombMnz(lists, K)) : merged' = Result(TRUE, "CombMnz", ids, lists, Alike(lists))
  /\ UNCHANGED <<indexes, write, writes, drifted, asked>>

Consume ==
  /\ merged # None
  /\ merged' = None
  /\ UNCHANGED <<indexes, write, writes, drifted, asked>>

LocalLists ==
  {<<keyword, Hits(ids, qdrant)>> :
     keyword \in UNION {KeywordSearch(Documents, query, K) : query \in {{}, {"rust"}, {"rust", "db"}}},
     ids \in QdrantSearchFiltered(qdrant, K, DOMAIN Documents)}

FederationNext ==
  \/ \E i \in DOMAIN VecBatches : Write(VecBatches[i], {})
  \/ \E id \in DOMAIN qdrant : Write(<<>>, {id})
  \/ WriteQdrant \/ WriteElastic \/ WriteDense \/ WriteLexical \/ GiveUp
  \/ \E id \in DOMAIN dense, commits \in BOOLEAN : Prune({id}, commits)
  \/ Ask \/ ReplyQdrant \/ ReplyElastic \/ ReplyDense
  \/ \E strategy \in {"Rrf", "WeightedSum"} : Merge(strategy)
  \/ \E b \in Backends : Fails(b)
  \/ \E d \in PgVectorSearch(dense, K), l \in PgSparseSearch(lexical, {"rust"}, K) : Hybrid(d, l)
  \/ \E d \in PgVectorSearchFiltered(dense, K, DOMAIN lexical),
        l \in PgSparseSearchFiltered(lexical, {}, K, DOMAIN dense) : Hybrid(d, l)
  \/ \E lists \in LocalLists : Local("Rrf", lists) \/ LocalCombMnz(lists)
  \/ Consume

FederationSpec == FederationInit /\ [][FederationNext]_searchVars

----------------------------------------------------------------------------

(* The vector indexes are told the same in different pieces, and any call  *)
(* may fail half-way or succeed unheard: once every index has taken all    *)
(* writes, repeated as often as it needs, they hold the same rows, and the *)
(* dense and the sparse index the same ids even while others lag behind.   *)
IndexesAgree ==
  ~drifted =>
    /\ write.left = {} => qdrant = elastic /\ elastic = dense
    /\ {"dense", "lexical"} \cap write.left = {} => DOMAIN dense = DOMAIN lexical
    /\ \A name \in Backends : \A other \in Backends :
         {name, other} \cap write.left = {} =>
           LET held == [qdrant |-> qdrant, elastic |-> elastic, dense |-> dense] IN held[name] = held[other]

(* A document every list that has the other ranks before it; and one that  *)
(* a backend of some weight ranks.                                         *)
Before(list, a, b) ==
  \E i, j \in DOMAIN list : i < j /\ list[i].id = a /\ list[j].id = b
Dominates(lists, a, b) ==
  \A l \in DOMAIN lists : b \in IdsOf(lists[l]) => Before(lists[l], a, b)
Weighed(result, id) ==
  \E l \in DOMAIN result.lists : id \in IdsOf(result.lists[l]) /\ result.weights[l] > 0

(* A merged result lists each document once and only what a surviving      *)
(* backend returned, is full when there are enough, fails only when no     *)
(* backend survives, and never ranks a document of any weight before one,  *)
(* or puts it in the place of one, that is ahead of it in every list.      *)
FusedSound ==
  merged # None =>
    /\ ~merged.ok => merged.lists = <<>> /\ merged.ids = <<>>
    /\ ToSet(merged.ids) \subseteq AllIds(merged.lists)
    /\ Cardinality(ToSet(merged.ids)) = Len(merged.ids)
    /\ Len(merged.ids) >= Min({K, Cardinality(AllIds(merged.lists))})
    /\ merged.strategy = "Rrf" =>
         \A i \in DOMAIN merged.ids : \A a \in AllIds(merged.lists) :
           Dominates(merged.lists, a, merged.ids[i]) /\ Weighed(merged, merged.ids[i]) =>
             \E h \in 1..(i - 1) : merged.ids[h] = a
=============================================================================
