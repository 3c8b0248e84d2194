----------------------------- MODULE LazyProvider -----------------------------
(***************************************************************************)
(* LazyFastembedProvider as its callers see it                             *)
(* (src/src/embedding/lazy.rs): embed and embed_batch, which consult the   *)
(* query cache under a mutex of its own, make sure the model is loaded     *)
(* (LazyModel), use the session and merge what it returns with what was    *)
(* cached.                                                                 *)
(*                                                                         *)
(* embed(text) is embed_batch of the one-element sequence: the two take    *)
(* the same locks in the same order.  The vector of a text is modelled by  *)
(* the text itself, so a vector at the wrong place shows.                  *)
(***************************************************************************)
EXTENDS LazyModel, Sequences, SequencesExt

CONSTANTS
  Texts,     (* What callers ask to embed.                                 *)
  Requests,  (* The non-empty sequences of texts of embed and embed_batch. *)
  Capacity,  (* query_cache_capacity                                       *)
  NoVector   (* A slot no vector has been found for yet.                   *)

ASSUME ProviderAssumption ==
  Capacity \in Nat /\ Requests \subseteq Seq(Texts) \ {<<>>} /\ NoVector \notin Texts

----------------------------------------------------------------------------
(* The query cache, an LRU cache: a map that keeps its insertion order, so *)
(* a sequence of entries, the least recently used first.                   *)

Entry(key, vector) == [key |-> key, vector |-> vector]

(* get_index_of: 0 stands for None.                                        *)
IndexOf(cache, key) == SelectInSeq(cache, LAMBDA e : e.key = key)

Hit(cache, key) == IndexOf(cache, key) # 0

Cached(cache, key) == cache[IndexOf(cache, key)].vector

(* move_index(idx, len - 1)                                                *)
MoveToEnd(cache, i) == Append(RemoveAt(cache, i), cache[i])

(* What get does to the map: a hit moves to the most recently used end.    *)
GetInPlace(cache, key) == cache

Get(cache, key) ==
  IF Hit(cache, key) THEN MoveToEnd(cache, IndexOf(cache, key)) ELSE cache

(* What insert does to the map.  The mutant forgets that the cache may be  *)
(* full.                                                                   *)
InsertUnbounded(cache, capacity, key, vector) ==
  IF Hit(cache, key)
    THEN Append(RemoveAt(cache, IndexOf(cache, key)), Entry(key, vector))
    ELSE Append(cache, Entry(key, vector))

Insert(cache, capacity, key, vector) ==
  CASE capacity = 0 -> cache
    [] capacity > 0 /\ Hit(cache, key) ->
         Append(RemoveAt(cache, IndexOf(cache, key)), Entry(key, vector))
    [] OTHER ->
         Append(IF Len(cache) >= capacity THEN Tail(cache) ELSE cache,
                Entry(key, vector))

----------------------------------------------------------------------------

VARIABLES
  cache,    (* The query cache.                                            *)
  texts,    (* The request each thread serves; <<>> for a plain warm-up.   *)
  results,  (* embed_batch's `results`: the vector of each text, or none.  *)
  batch,    (* embed_batch's `batch_results`: what the session returned.   *)
  ret,      (* How a thread's last call ended: "none", "ok" or "err".      *)
  recency   (* History: every text that hit or was inserted, by last use.  *)

callVars == <<cache, texts, results, batch, ret, recency>>
vars == <<lazyVars, callVars>>

(* The types, and the capacity of the cache.                               *)
TypeOK ==
  /\ LazyTypeOK
  /\ cache \in Seq([key : Texts, vector : Texts]) /\ Len(cache) <= Capacity
  /\ texts \in [Threads -> Requests \cup {<<>>}]
  /\ results \in [Threads -> Seq(Texts \cup {NoVector})]
  /\ batch \in [Threads -> Seq(Texts)]
  /\ ret \in [Threads -> {"none", "ok", "err"}]
  /\ recency \in Seq(Texts)

----------------------------------------------------------------------------
(* Steps of the code.                                                      *)

Init ==
  /\ LazyInit
  /\ cache = <<>>
  /\ texts = [t \in Threads |-> <<>>]
  /\ results = [t \in Threads |-> <<>>]
  /\ batch = [t \in Threads |-> <<>>]
  /\ ret = [t \in Threads |-> "none"]
  /\ recency = <<>>

(* A text's use comes after all others.                                    *)
Place(order, text) == SelectInSeq(order, LAMBDA x : x = text)

Touch(order, text) ==
  Append(IF Place(order, text) = 0 THEN order ELSE RemoveAt(order, Place(order, text)), text)

(* The positions of a request no vector has been found for, in order:      *)
(* miss_indices.                                                           *)
Misses(found) ==
  FlattenSeq([i \in DOMAIN found |-> IF found[i] = NoVector THEN <<i>> ELSE <<>>])

(* Phase 1 and 2: look every text up; if all hit, answer from the cache.   *)
Lookup(t, request) ==
  LET found == [i \in DOMAIN request |->
                  IF Hit(cache, request[i]) THEN Cached(cache, request[i]) ELSE NoVector]
      allHit == Misses(found) = <<>>
  IN /\ pc[t] = "idle"
     /\ texts' = [texts EXCEPT ![t] = request]
     /\ results' = [results EXCEPT ![t] = found]
     /\ cache' = FoldLeft(Get, cache, request)
     /\ recency' = FoldLeft(LAMBDA order, x : IF Hit(cache, x) THEN Touch(order, x) ELSE order,
                            recency, request)
     /\ ret' = [ret EXCEPT ![t] = IF allHit THEN "ok" ELSE "none"]
     /\ IF allHit THEN UNCHANGED lazyVars ELSE CallEnsure(t)
     /\ UNCHANGED batch

(* ensure_model called for itself.                                         *)
WarmUp(t) ==
  /\ CallEnsure(t)
  /\ texts' = [texts EXCEPT ![t] = <<>>]
  /\ results' = [results EXCEPT ![t] = <<>>]
  /\ ret' = [ret EXCEPT ![t] = "none"]
  /\ UNCHANGED <<cache, batch, recency>>

(* Phase 3: ensure_model.  An error ends the call.                         *)
Ensure(t) ==
  /\ \/ EnsureStep(t)
     \/ Download(t) \/ LoadOk(t) \/ LoadErr(t)
     \/ Wake(t) \/ Expire(t)
  /\ ret' = [ret EXCEPT ![t] = IF pc'[t] = "idle" THEN "err" ELSE @]
  /\ UNCHANGED <<cache, texts, results, batch, recency>>

(* Phase 4: the session, if there is still one, embeds the misses.         *)
Infer(t) ==
  /\ texts[t] # <<>>
  /\ \/ /\ UseSession(t)
        /\ batch' = [batch EXCEPT ![t] =
                       IF provider
                         THEN [j \in DOMAIN Misses(results[t]) |->
                                 texts[t][Misses(results[t])[j]]]
                         ELSE @]
     \/ SessionErr(t) /\ UNCHANGED batch
  /\ ret' = [ret EXCEPT ![t] = IF pc'[t] = "idle" THEN "err" ELSE @]
  /\ UNCHANGED <<cache, texts, results, recency>>

(* Phase 5 and 6: put the vectors in their places and in the cache.  The   *)
(* mutants place them at the batch's own indices, or cache each under the  *)
(* text at that index.                                                     *)
Merged(found, vectors) ==
  [i \in DOMAIN found |->
     IF found[i] = NoVector
       THEN vectors[SelectInSeq(Misses(found), LAMBDA m : m = i)]
       ELSE found[i]]

StoreAt(t, merged, keys) ==
  /\ Finish(t)
  /\ texts[t] # <<>> /\ pc[t] = "served"
  /\ results' = [results EXCEPT ![t] = merged]
  /\ cache' = FoldLeft(LAMBDA c, j : Insert(c, Capacity, keys[j], batch[t][j]),
                       cache, [j \in DOMAIN keys |-> j])
  /\ recency' = FoldLeft(Touch, recency, keys)
  /\ batch' = [batch EXCEPT ![t] = <<>>]
  /\ ret' = [ret EXCEPT ![t] = "ok"]
  /\ UNCHANGED texts

MissedTexts(t) ==
  [j \in DOMAIN Misses(results[t]) |-> texts[t][Misses(results[t])[j]]]

StoreUnmapped(t) ==
  StoreAt(t, [i \in DOMAIN results[t] |->
                IF i \in DOMAIN batch[t] THEN batch[t][i] ELSE results[t][i]],
          MissedTexts(t))

StoreMiskeyed(t) ==
  StoreAt(t, Merged(results[t], batch[t]), SubSeq(texts[t], 1, Len(batch[t])))

Store(t) == StoreAt(t, Merged(results[t], batch[t]), MissedTexts(t))

(* A warm-up returns Ok without using the session.                         *)
Warmed(t) ==
  /\ texts[t] = <<>>
  /\ Finish(t)
  /\ ret' = [ret EXCEPT ![t] = "ok"]
  /\ UNCHANGED <<cache, texts, results, batch, recency>>

Environment == (Reset \/ TimePasses) /\ UNCHANGED callVars

Next ==
  \/ Environment
  \/ \E t \in Threads :
       \/ \E r \in Requests : Lookup(t, r)
       \/ WarmUp(t) \/ Ensure(t) \/ Infer(t) \/ Store(t) \/ Warmed(t)

Spec == Init /\ [][Next]_vars

----------------------------------------------------------------------------
(* Properties.                                                             *)

(* Every successful embed or embed_batch returns the vector of each text   *)
(* at the text's own position, whichever were cached, repeated or evicted  *)
(* while the call waited for the model.                                    *)
AnswersMatchTexts == \A t \in Threads : ret[t] = "ok" => results[t] = texts[t]

(* The cache keeps exactly the most recently used texts, in the order of   *)
(* their last use and each with its own vector, although lookups and       *)
(* inserts of concurrent calls interleave: an eviction never hits a text   *)
(* used after one that stays.                                              *)
LruKeepsMostRecent ==
  LET kept == IF Len(recency) < Capacity THEN Len(recency) ELSE Capacity
  IN cache = [i \in 1..kept |-> LET text == recency[Len(recency) - kept + i] IN Entry(text, text)]
=============================================================================
