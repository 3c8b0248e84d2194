---------------------------- MODULE VectorIndexes ----------------------------
(***************************************************************************)
(* The remote vector indexes, each a function from the ids it holds to     *)
(* their vectors: Qdrant, Elasticsearch, and PostgreSQL with dense and     *)
(* with sparse vectors.  The services are external; what is modelled is    *)
(* what the code sends them, in which pieces, and what is left when one of *)
(* the requests fails.  A vector stands for how near it is to the query.   *)
(***************************************************************************)
EXTENDS Naturals, Sequences, SequencesExt, FiniteSetsExt, TLC

CONSTANTS
  BULK_CHUNK_SIZE,   (* Rows of a bulk request to Elasticsearch            *)
  ROWS_PER_CHUNK,    (* and of an INSERT into PostgreSQL.                  *)
  MaxPgId            (* The greatest id a BIGINT can hold.                 *)

ASSUME IndexAssumption ==
  BULK_CHUNK_SIZE \in Nat \ {0} /\ ROWS_PER_CHUNK \in Nat \ {0} /\ MaxPgId \in Nat

NoVectors == <<>>

Row(id, vec) == [id |-> id, vec |-> vec]

InsertRows(index, rows) == FoldLeft(LAMBDA s, row : s @@ row.id :> row.vec, index, rows)
Upsert(index, row) == [id \in DOMAIN index \cup {row.id} |-> IF id = row.id THEN row.vec ELSE index[id]]
UpsertRows(index, rows) == FoldLeft(Upsert, index, rows)
RemoveIds(index, ids) == [id \in DOMAIN index \ ids |-> index[id]]

ChunkCount(rows, size) == (Len(rows) + size - 1) \div size
ChunkOf(rows, size, i) == SubSeq(rows, (i - 1) * size + 1, Min({i * size, Len(rows)}))
FirstChunks(rows, size, n) == SubSeq(rows, 1, Min({n * size, Len(rows)}))

ToPgId(id) == id <= MaxPgId
PgIds(rows) == \A i \in DOMAIN rows : ToPgId(rows[i].id)
Duplicates(rows) == \E i, j \in DOMAIN rows : i # j /\ rows[i].id = rows[j].id

(* What a call may do: the index it leaves and whether it succeeds.        *)
Outcome(index, ok) == [index |-> index, ok |-> ok]

(* One request, that may be lost or whose answer may be.                   *)
QdrantAdd(index, rows) ==
  IF rows = <<>> THEN {Outcome(index, TRUE)}
  ELSE {Outcome(UpsertRows(index, rows), TRUE), Outcome(UpsertRows(index, rows), FALSE), Outcome(index, FALSE)}

QdrantRemove(index, ids) ==
  IF ids = {} THEN {Outcome(index, TRUE)}
  ELSE {Outcome(RemoveIds(index, ids), TRUE), Outcome(RemoveIds(index, ids), FALSE), Outcome(index, FALSE)}

(* Chunk by chunk.  A row whose id the mapping cannot hold fails alone,    *)
(* and the call after its chunk.                                           *)
Mapped(index) == RemoveIds(index, {id \in DOMAIN index : ~ToPgId(id)})
BulkFails(rows, i) == ~PgIds(ChunkOf(rows, BULK_CHUNK_SIZE, i))

ElasticAdd(index, rows) ==
  LET count == ChunkCount(rows, BULK_CHUNK_SIZE)
      after(n) == Mapped(UpsertRows(index, FirstChunks(rows, BULK_CHUNK_SIZE, n)))
      reached == {n \in 0..count : \A i \in 1..(n - 1) : ~BulkFails(rows, i)}
  IN {Outcome(after(n), FALSE) : n \in IF rows = <<>> THEN {} ELSE reached}
     \cup (IF \E i \in 1..count : BulkFails(rows, i) THEN {} ELSE {Outcome(after(count), TRUE)})

ElasticRemove(index, ids) ==
  LET order == SetToSeq(ids)
      after(n) == RemoveIds(index, ToSet(FirstChunks(order, BULK_CHUNK_SIZE, n)))
      count == ChunkCount(order, BULK_CHUNK_SIZE)
  IN {Outcome(after(n), FALSE) : n \in IF ids = {} THEN {} ELSE 0..count} \cup {Outcome(after(count), TRUE)}

PgVectorAddIgnoring(index, rows) == {Outcome(InsertRows(index, rows), TRUE)}

(* An INSERT for every chunk; one that names an id twice is an error.      *)
PgVectorAdd(index, rows) ==
  LET count == ChunkCount(rows, ROWS_PER_CHUNK)
      refused == {i \in 1..count : Duplicates(ChunkOf(rows, ROWS_PER_CHUNK, i))}
      after(n) == UpsertRows(index, FirstChunks(rows, ROWS_PER_CHUNK, n))
  IN IF ~PgIds(rows) THEN {Outcome(index, FALSE)}
     ELSE {Outcome(after(n), FALSE) : n \in {m \in 0..count : rows # <<>> /\ \A i \in refused : m < i}}
          \cup (IF refused = {} THEN {Outcome(after(count), TRUE)} ELSE {})

PgSparseAdd(index, rows) ==
  IF rows = <<>> THEN {Outcome(index, TRUE)}
  ELSE IF ~PgIds(rows) \/ Duplicates(rows) THEN {Outcome(index, FALSE)}
  ELSE {Outcome(UpsertRows(index, rows), TRUE), Outcome(UpsertRows(index, rows), FALSE), Outcome(index, FALSE)}

PgVectorRemove(index, ids) ==
  IF \E id \in ids : ~ToPgId(id) THEN {Outcome(index, FALSE)} ELSE QdrantRemove(index, ids)

PgSparseRemove(index, ids) ==
  IF \E id \in ids : ~ToPgId(id) THEN {Outcome(index, FALSE)} ELSE QdrantRemove(index, ids)

(* remove_in_tx of both within one transaction of the caller.              *)
RemoveInTx(dense, lexical, ids, commits) ==
  IF commits /\ \A id \in ids : ToPgId(id)
  THEN <<RemoveIds(dense, ids), RemoveIds(lexical, ids)>>
  ELSE <<dense, lexical>>

----------------------------------------------------------------------------
(* Searches: the ids, best first.                                          *)

Best(ids, k) == SubSeq(ids, 1, Min({k, Len(ids)}))

(* Every order of ids by falling score; what ties is in any order.         *)
Ranked(ids, score) ==
  {p \in SetToSeqs(ids) : \A i, j \in DOMAIN p : i < j => score[p[i]] >= score[p[j]]}

(* The order that breaks ties by the id.                                   *)
RankedById(ids, score) ==
  CHOOSE p \in Ranked(ids, score) :
    \A i, j \in DOMAIN p : i < j /\ score[p[i]] = score[p[j]] => p[i] < p[j]

Allowed(index, allowlist) == [id \in DOMAIN index \cap allowlist |-> index[id]]

(* Qdrant and Elasticsearch leave the order of ties open.                  *)
QdrantSearch(index, k) == {Best(p, k) : p \in Ranked(DOMAIN index, index)}
QdrantSearchFiltered(index, k, allowlist) == QdrantSearch(Allowed(index, allowlist), k)

(* num_candidates is never below k, so that k neighbours can be found.     *)
MAX_KNN_CANDIDATES == 1000
KnnNumCandidates(k) == Max({Min({Max({k, 1}) * 10, MAX_KNN_CANDIDATES}), k})
ElasticSearch(index, k) == {Best(p, Min({k, KnnNumCandidates(k)})) : p \in Ranked(DOMAIN index, index)}
ElasticSearchFiltered(index, k, allowlist) == ElasticSearch(Allowed(index, allowlist), k)

PgVectorSearch(index, k) == {Best(RankedById(DOMAIN index, index), k)}
PgVectorSearchWhere(index, k, matching) == PgVectorSearch(Allowed(index, matching), k)
PgVectorSearchFiltered(index, k, allowlist) ==
  IF \E id \in allowlist : ~ToPgId(id) THEN {} ELSE PgVectorSearch(Allowed(index, allowlist), k)

(* By inner product; the empty query finds nothing.                        *)
PgSparseSearch(index, query, k) ==
  IF query = {} THEN {<<>>} ELSE {Best(RankedById(DOMAIN index, index), k)}
PgSparseSearchWhere(index, query, k, matching) == PgSparseSearch(Allowed(index, matching), query, k)
PgSparseSearchFiltered(index, query, k, allowlist) ==
  IF \E id \in allowlist : ~ToPgId(id) THEN {} ELSE PgSparseSearch(Allowed(index, allowlist), query, k)
=============================================================================
