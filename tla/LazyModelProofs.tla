--------------------------- MODULE LazyModelProofs ---------------------------
(***************************************************************************)
(* Proofs about the lifecycle of the lazy model and about the provider and *)
(* its query cache, for any threads, texts, requests and capacity.         *)
(***************************************************************************)
EXTENDS LazyProvider, DataLemmas, TLAPS

(* The inductive invariant: the safety invariants of the run over the      *)
(* types.  Each is needed by the others' steps only through the types, but *)
(* an eviction and a load touch all of them at once.                       *)
LazyInv ==
  /\ LazyTypeOK
  /\ ReadyHasSession
  /\ LoadingHasLoader
  /\ NoLostWakeup

(* The initial states satisfy the invariant.                               *)
LEMMA InitInv == LazyInit => LazyInv
  BY DEF LazyInit, LazyInv, LazyTypeOK, ModelStates, PCs, Unloaded,
         ReadyHasSession, LoadingHasLoader, NoLostWakeup

(* Every step keeps it.                                                    *)
LEMMA StepInv == LazyInv /\ [LazyNext]_lazyVars => LazyInv'
<1> USE LazyAssumption DEF LazyInv, LazyTypeOK, ModelStates, PCs, Goto, NotifyAll,
        ReadyHasSession, LoadingHasLoader, NoLostWakeup
<1> SUFFICES ASSUME LazyInv, [LazyNext]_lazyVars PROVE LazyInv'
  OBVIOUS
<1>1. CASE Reset
  BY <1>1 DEF Reset, Unloaded
<1>2. CASE TimePasses
  BY <1>2 DEF TimePasses
<1>3. ASSUME NEW t \in Threads, ThreadStep(t) PROVE LazyInv'
  <2>1. CASE CallEnsure(t)
    BY <2>1 DEF CallEnsure
  <2>2. CASE EnsureReady(t)
    BY <2>2 DEF EnsureReady
  <2>3. CASE EnsureFailed(t)
    BY <2>3 DEF EnsureFailed
  <2>4. CASE EnsureWait(t)
    BY <2>4 DEF EnsureWait
  <2>5. CASE EnsureLoad(t)
    BY <2>5 DEF EnsureLoad, Evicts
  <2>6. CASE Download(t)
    BY <2>6 DEF Download
  <2>7. CASE LoadOk(t)
    BY <2>7 DEF LoadOk
  <2>8. CASE LoadErr(t)
    BY <2>8 DEF LoadErr
  <2>9. ASSUME pc[t] = "waiting", LeaveWait(t) PROVE LazyInv'
    <3>1. /\ pc' \in [Threads -> PCs]
          /\ \A u \in Threads \ {t} : pc'[u] = pc[u]
          /\ pc'[t] # "waiting"
      BY <2>9 DEF LeaveWait
    <3> QED
      BY <2>9, <3>1 DEF LeaveWait
  <2>10. CASE Wake(t)
    <3>1. CASE state # "Loading"
      BY <2>9, <2>10, <3>1 DEF Wake
    <3>2. CASE state = "Loading"
      BY <2>10, <3>2 DEF Wake, LeaveWait
    <3> QED
      BY <3>1, <3>2
  <2>11. CASE Expire(t)
    <3>1. CASE state # "Loading"
      BY <2>9, <2>11, <3>1 DEF Expire
    <3>2. CASE state = "Loading"
      BY <2>11, <3>2 DEF Expire, LeaveWait
    <3> QED
      BY <3>1, <3>2
  <2>12. CASE UseSession(t)
    BY <2>12 DEF UseSession
  <2>13. CASE SessionErr(t)
    BY <2>13 DEF SessionErr
  <2>14. CASE Finish(t)
    BY <2>14 DEF Finish
  <2> QED
    BY <1>3, <2>1, <2>2, <2>3, <2>4, <2>5, <2>6, <2>7, <2>8, <2>10, <2>11,
       <2>12, <2>13, <2>14 DEF ThreadStep
<1>4. CASE UNCHANGED lazyVars
  BY <1>4 DEF lazyVars
<1> QED
  BY <1>1, <1>2, <1>3, <1>4 DEF LazyNext

(* The inductive invariant holds in every reachable state.                 *)
THEOREM Invariance == LazySpec => []LazyInv
  BY InitInv, StepInv, PTL DEF LazySpec

(* Type correctness of the lifecycle.                                      *)
THEOREM TypeCorrect == LazySpec => []LazyTypeOK
  BY Invariance, PTL DEF LazyInv

(* A Ready model has a session, whatever loads, evictions and timeouts     *)
(* interleave, for any number of threads.                                  *)
THEOREM SessionWhenReady == LazySpec => []ReadyHasSession
  BY Invariance, PTL DEF LazyInv

(* A Loading model has a loader, for any number of threads.                *)
THEOREM LoaderWhenLoading == LazySpec => []LoadingHasLoader
  BY Invariance, PTL DEF LazyInv

(* The state never promises a session or a load that is not there.         *)
THEOREM PhasesSound == LazySpec => []PhaseSound
  BY SessionWhenReady, LoaderWhenLoading, PTL DEF PhaseSound

(* No waiter ever misses the end of the load it parked for.                *)
THEOREM WakeupsNotLost == LazySpec => []NoLostWakeup
  BY Invariance, PTL DEF LazyInv

----------------------------------------------------------------------------
(* Single flight.                                                          *)

(* Where no wait expires a load is never given up while it runs, so there  *)
(* is one loader at a time, the state stays Loading until it ends, and a   *)
(* session is kept only by a Ready model.                                  *)
FlightInv ==
  /\ \A t, u \in Threads : pc[t] = "loading" /\ pc[u] = "loading" => t = u
  /\ \A t \in Threads : pc[t] = "loading" => state = "Loading"
  /\ provider => state = "Ready"

(* Every step keeps single flight if no wait expires.                      *)
LEMMA StepFlight ==
  ASSUME ~WaitExpires, LazyInv, FlightInv, [LazyNext]_lazyVars
  PROVE  FlightInv'
<1> USE DEF LazyInv, LazyTypeOK, ModelStates, PCs, Goto, NotifyAll, FlightInv
<1>1. CASE Reset
  BY <1>1 DEF Reset, Unloaded
<1>2. CASE TimePasses
  BY <1>2 DEF TimePasses
<1>3. ASSUME NEW t \in Threads, ThreadStep(t) PROVE FlightInv'
  <2>2. CASE CallEnsure(t)
    BY <2>2 DEF CallEnsure
  <2>3. CASE EnsureReady(t)
    BY <2>3 DEF EnsureReady
  <2>4. CASE EnsureFailed(t)
    BY <2>4 DEF EnsureFailed
  <2>5. CASE EnsureWait(t)
    BY <2>5 DEF EnsureWait
  <2>6. CASE EnsureLoad(t)
    BY <2>6 DEF EnsureLoad, Evicts
  <2>7. CASE Download(t)
    BY <2>7 DEF Download
  <2>8. CASE LoadOk(t)
    BY <2>8 DEF LoadOk
  <2>9. CASE LoadErr(t)
    BY <2>9 DEF LoadErr
  <2>10. CASE Wake(t)
    <3>1. CASE state = "Ready"
      BY <2>10, <3>1 DEF Wake, LeaveWait
    <3>2. CASE state # "Ready"
      BY <2>10, <3>2 DEF Wake, LeaveWait
    <3> QED
      BY <3>1, <3>2
  <2>11. CASE Expire(t)
    BY <2>11 DEF Expire
  <2>12. CASE UseSession(t)
    <3>1. CASE provider
      BY <2>12, <3>1 DEF UseSession
    <3>2. CASE ~provider
      BY <2>12, <3>2 DEF UseSession
    <3> QED
      BY <3>1, <3>2
  <2>13. CASE SessionErr(t)
    BY <2>13 DEF SessionErr
  <2>14. CASE Finish(t)
    BY <2>14 DEF Finish
  <2> QED
    BY <1>3, <2>2, <2>3, <2>4, <2>5, <2>6, <2>7, <2>8, <2>9, <2>10,
       <2>11, <2>12, <2>13, <2>14 DEF ThreadStep
<1>4. CASE UNCHANGED lazyVars
  BY <1>4 DEF lazyVars
<1> QED
  BY <1>1, <1>2, <1>3, <1>4 DEF LazyNext

(* TheLoader is the thread that is loading, if there is one.               *)
LEMMA LoaderIs ==
  ASSUME FlightInv
  PROVE  /\ \A t \in Threads : pc[t] = "loading" => TheLoader = t
         /\ (\A t \in Threads : pc[t] # "loading") => TheLoader = NoOne
  BY DEF FlightInv, TheLoader, Loaders

(* The same, in the state after a step.                                    *)
LEMMA LoaderIsNext ==
  ASSUME FlightInv'
  PROVE  /\ \A t \in Threads : pc'[t] = "loading" => TheLoader' = t
         /\ (\A t \in Threads : pc'[t] # "loading") => TheLoader' = NoOne
  BY DEF FlightInv, TheLoader, Loaders

(* A step that changes neither who is loading, nor the status, nor the     *)
(* session is a stuttering step of SingleFlight.                           *)
LEMMA Stutters ==
  ASSUME FlightInv, FlightInv', Status' = Status, UNCHANGED provider,
         \A t \in Threads : pc'[t] = "loading" <=> pc[t] = "loading"
  PROVE  UNCHANGED Flight!vars
<1>1. TheLoader' = TheLoader
  BY LoaderIs, LoaderIsNext
<1> QED
  BY <1>1 DEF Flight!vars

(* The initial states are SingleFlight's.                                  *)
LEMMA InitFlight == LazyInit => FlightInv /\ Flight!Init
<1> SUFFICES ASSUME LazyInit PROVE FlightInv /\ Flight!Init
  OBVIOUS
<1>1. FlightInv
  BY DEF LazyInit, FlightInv
<1>2. TheLoader = NoOne
  BY <1>1, LoaderIs DEF LazyInit
<1>3. Status = "empty" /\ ~provider
  BY DEF LazyInit, Status, Unloaded
<1> QED
  BY <1>1, <1>2, <1>3 DEF Flight!Init, LazyInit

(* Every step of the lazy model is a step of SingleFlight, or stutters.    *)
LEMMA StepRefines ==
  ASSUME ~WaitExpires, LazyInv, LazyInv', FlightInv, FlightInv', [LazyNext]_lazyVars
  PROVE  [Flight!Next]_Flight!vars
<1> USE DEF LazyInv, LazyTypeOK, ModelStates, PCs, Goto, NotifyAll
<1>1. CASE Reset
  <2>1. Status = "failed" /\ Status' = "empty"
    BY <1>1 DEF Reset, Unloaded, Status
  <2>2. TheLoader' = TheLoader /\ provider' = provider
    BY <1>1, LoaderIs, LoaderIsNext DEF Reset
  <2> QED
    BY <2>1, <2>2 DEF Flight!Next, Flight!Clear
<1>2. CASE TimePasses
  BY <1>2, Stutters DEF TimePasses, Status
<1>3. ASSUME NEW t \in Threads, ThreadStep(t) PROVE [Flight!Next]_Flight!vars
  <2>1. CASE CallEnsure(t)
    BY <2>1, Stutters DEF CallEnsure, Status
  <2>2. CASE EnsureReady(t)
    BY <2>2, Stutters DEF EnsureReady, Status
  <2>3. CASE EnsureFailed(t)
    BY <2>3, Stutters DEF EnsureFailed, Status
  <2>4. CASE EnsureWait(t)
    BY <2>4, Stutters DEF EnsureWait, Status
  <2>5. CASE EnsureLoad(t)
    <3>1. Status \in {"empty", "full"} /\ Status' = "loading"
      BY <2>5 DEF EnsureLoad, Evicts, Status
    <3>2. TheLoader' = t
      BY <2>5, LoaderIsNext DEF EnsureLoad
    <3>3. provider' = FALSE
      <4>1. CASE Evicts
        BY <2>5, <4>1 DEF EnsureLoad
      <4>2. CASE ~Evicts
        BY <2>5, <4>2 DEF EnsureLoad, FlightInv
      <4> QED
        BY <4>1, <4>2
    <3> QED
      BY <3>1, <3>2, <3>3 DEF Flight!Next, Flight!Begin
  <2>6. CASE Download(t)
    BY <2>6, Stutters DEF Download, Status
  <2>7. CASE LoadOk(t)
    <3>1. Status' = "full" /\ provider' = TRUE
      BY <2>7 DEF LoadOk, Status
    <3>2. TheLoader = t /\ TheLoader' = NoOne
      BY <2>7, LoaderIs, LoaderIsNext DEF LoadOk, FlightInv
    <3> QED
      BY <3>1, <3>2 DEF Flight!Next, Flight!Succeed
  <2>8. CASE LoadErr(t)
    <3>1. Status' = "failed" /\ provider' = provider
      BY <2>8 DEF LoadErr, Status
    <3>2. TheLoader = t /\ TheLoader' = NoOne
      BY <2>8, LoaderIs, LoaderIsNext DEF LoadErr, FlightInv
    <3> QED
      BY <3>1, <3>2 DEF Flight!Next, Flight!Fail
  <2>9. CASE Wake(t)
    <3>1. pc'[t] # "loading" /\ \A u \in Threads \ {t} : pc'[u] = pc[u]
      BY <2>9 DEF Wake, LeaveWait
    <3>2. pc[t] # "loading" /\ state' = state /\ provider' = provider
      BY <2>9 DEF Wake, LeaveWait
    <3> QED
      BY <3>1, <3>2, Stutters DEF Status
  <2>10. CASE Expire(t)
    BY <2>10 DEF Expire
  <2>11. CASE UseSession(t)
    <3>1. pc'[t] # "loading" /\ \A u \in Threads \ {t} : pc'[u] = pc[u]
      BY <2>11 DEF UseSession
    <3>2. pc[t] # "loading" /\ state' = state /\ provider' = provider
      BY <2>11 DEF UseSession
    <3> QED
      BY <3>1, <3>2, Stutters DEF Status
  <2>12. CASE SessionErr(t)
    BY <2>12, Stutters DEF SessionErr, Status
  <2>13. CASE Finish(t)
    BY <2>13, Stutters DEF Finish, Status
  <2> QED
    BY <1>3, <2>1, <2>2, <2>3, <2>4, <2>5, <2>6, <2>7, <2>8, <2>9, <2>10,
       <2>11, <2>12, <2>13 DEF ThreadStep
<1>4. CASE UNCHANGED lazyVars
  BY <1>4, Stutters DEF lazyVars, Status
<1> QED
  BY <1>1, <1>2, <1>3, <1>4 DEF LazyNext

(* Where no wait for a load can expire, the provider is a single-flight    *)
(* cell, for any number of threads: one load at a time, and a session in   *)
(* memory exactly while the model is Ready.                                *)
THEOREM Refinement == ASSUME ~WaitExpires PROVE LazySpec => ImplementsSingleFlight
<1>1. LazyInit => LazyInv /\ FlightInv /\ Flight!Init
  BY InitInv, InitFlight
<1>2. LazyInv /\ FlightInv /\ [LazyNext]_lazyVars => LazyInv' /\ FlightInv'
  BY StepInv, StepFlight
<1>3. LazyInv /\ LazyInv' /\ FlightInv /\ FlightInv' /\ [LazyNext]_lazyVars
        => [Flight!Next]_Flight!vars
  BY StepRefines
<1> QED
  BY <1>1, <1>2, <1>3, PTL DEF LazySpec, ImplementsSingleFlight, Flight!Spec

----------------------------------------------------------------------------
(* The query cache.                                                        *)

Entries == [key : Texts, vector : Texts]
Caches == Seq(Entries)
Orders == Seq(Texts)

(* An entry has its parts.                                                 *)
LEMMA EntryHas ==
  ASSUME NEW k, NEW v
  PROVE  Entry(k, v).key = k /\ Entry(k, v).vector = v /\ (k \in Texts /\ v \in Texts => Entry(k, v) \in Entries)
  BY DEF Entry, Entries

(* Where a key is in the cache,                                            *)
LEMMA IndexIs ==
  ASSUME NEW c \in Caches, NEW key
  PROVE  /\ IndexOf(c, key) \in 0..Len(c)
         /\ Hit(c, key) => IndexOf(c, key) \in 1..Len(c) /\ c[IndexOf(c, key)].key = key
         /\ ~Hit(c, key) => \A i \in 1..Len(c) : c[i].key # key
<1> DEFINE I == {i \in 1..Len(c) : c[i].key = key}
<1>1. IndexOf(c, key) = IF I # {} THEN Min(I) ELSE 0
  BY DEF IndexOf, SelectInSeq
<1>2. I \in SUBSET Nat /\ I \subseteq 1..Len(c) /\ Len(c) \in Nat
  BY DEF Caches
<1>3. I # {} => Min(I) \in I
  <2> HIDE DEF I
  <2> QED
    BY <1>2, LeastIs
<1> QED
  BY <1>1, <1>2, <1>3 DEF Hit

(* and a text in the order of its last uses.                               *)
LEMMA PlaceIs ==
  ASSUME NEW r \in Orders, NEW text
  PROVE  /\ Place(r, text) # 0 => Place(r, text) \in 1..Len(r) /\ r[Place(r, text)] = text
         /\ Place(r, text) = 0 => \A i \in 1..Len(r) : r[i] # text
<1> DEFINE I == {i \in 1..Len(r) : r[i] = text}
<1>1. Place(r, text) = IF I # {} THEN Min(I) ELSE 0
  BY DEF Place, SelectInSeq
<1>2. I \in SUBSET Nat /\ I \subseteq 1..Len(r) /\ Len(r) \in Nat
  BY DEF Orders
<1>3. I # {} => Min(I) \in I
  <2> HIDE DEF I
  <2> QED
    BY <1>2, LeastIs
<1> QED
  BY <1>1, <1>2, <1>3

(* Adding an element to a sequence, and taking the one at i away first.    *)
Extends(to, s, e) ==
  Len(to) = Len(s) + 1 /\ (\A j \in 1..Len(s) : to[j] = s[j]) /\ to[Len(s) + 1] = e

Moves(to, s, i, e) ==
  /\ Len(to) = Len(s) /\ to[Len(s)] = e
  /\ \A j \in 1..(Len(s) - 1) : to[j] = IF j < i THEN s[j] ELSE s[j + 1]

(* That is what Append does,                                               *)
LEMMA AppendExtends ==
  ASSUME NEW S, NEW s \in Seq(S), NEW e \in S
  PROVE  Append(s, e) \in Seq(S) /\ Extends(Append(s, e), s, e)
  BY AppendProperties DEF Extends

(* alone, after RemoveAt,                                                  *)
LEMMA RemoveMoves ==
  ASSUME NEW S, NEW s \in Seq(S), NEW i \in 1..Len(s), NEW e \in S
  PROVE  Append(RemoveAt(s, i), e) \in Seq(S) /\ Moves(Append(RemoveAt(s, i), e), s, i, e)
<1>1. Len(s) \in Nat /\ (Len(s) - 1) + 1 = Len(s) /\ Len(s) - 1 \in Nat
  OBVIOUS
<1>2. PICK rest \in Seq(S) : rest = RemoveAt(s, i)
  BY Spliced
<1>3. Len(rest) = Len(s) - 1 /\ \A j \in 1..(Len(s) - 1) : rest[j] = IF j < i THEN s[j] ELSE s[j + 1]
  BY <1>2, Spliced
<1>4. Append(rest, e) \in Seq(S) /\ Extends(Append(rest, e), rest, e)
  BY AppendExtends
<1>5. Moves(Append(rest, e), s, i, e)
  BY <1>1, <1>3, <1>4 DEF Extends, Moves
<1> QED
  BY <1>2, <1>4, <1>5

(* and after Tail.                                                         *)
LEMMA TailMoves ==
  ASSUME NEW S, NEW s \in Seq(S), s # <<>>, NEW e \in S
  PROVE  Append(Tail(s), e) \in Seq(S) /\ Moves(Append(Tail(s), e), s, 1, e)
<1>1. Len(s) \in Nat /\ (Len(s) - 1) + 1 = Len(s) /\ Len(s) - 1 \in Nat
  OBVIOUS
<1>2. PICK rest \in Seq(S) : rest = Tail(s)
  <2>1. Tail(s) \in Seq(S)
    BY HeadTailProperties
  <2> QED
    BY <2>1
<1>3. Len(rest) = Len(s) - 1 /\ \A j \in 1..(Len(s) - 1) : rest[j] = s[j + 1]
  BY <1>2
<1>4. Append(rest, e) \in Seq(S) /\ Extends(Append(rest, e), rest, e)
  BY AppendExtends
<1>5. Moves(Append(rest, e), s, 1, e)
  BY <1>1, <1>3, <1>4 DEF Extends, Moves
<1> QED
  BY <1>2, <1>4, <1>5

(* The cache holds the last of the uses, and each text was last used once. *)
Kept(n) == IF n < Capacity THEN n ELSE Capacity

Distinct(r) == \A i, j \in 1..Len(r) : r[i] = r[j] => i = j

Holds(c, r, k, d) ==
  Len(c) = k /\ \A i \in 1..k : c[i] = Entry(r[d + i], r[d + i])

Lru(c, r) ==
  /\ c \in Caches /\ r \in Orders /\ Distinct(r)
  /\ Holds(c, r, Kept(Len(r)), Len(r) - Kept(Len(r)))

(* That is what the run checks.                                            *)
LEMMA LruIs ==
  ASSUME NEW c, NEW r, Lru(c, r)
  PROVE  c = [i \in 1..Kept(Len(r)) |-> LET text == r[Len(r) - Kept(Len(r)) + i] IN Entry(text, text)]
<1>1. c \in Seq(Entries)
  BY DEF Lru, Caches
<1>2. c = [i \in 1..Len(c) |-> c[i]]
  BY <1>1
<1> QED
  BY <1>2 DEF Lru, Holds

(* What a use does to the order.                                           *)
Used(to, r, x) ==
  /\ to \in Orders /\ Distinct(to)
  /\ \/ Extends(to, r, x) /\ \A i \in 1..Len(r) : r[i] # x
     \/ \E p \in 1..Len(r) : r[p] = x /\ Moves(to, r, p, x)

(* A use does.                                                             *)
LEMMA TouchUses ==
  ASSUME NEW r \in Orders, Distinct(r), NEW x \in Texts
  PROVE  Used(Touch(r, x), r, x)
<1>1. Len(r) \in Nat
  BY DEF Orders
<1>2. CASE Place(r, x) = 0
  <2>1. Touch(r, x) = Append(r, x)
    BY <1>2 DEF Touch
  <2>2. Touch(r, x) \in Orders /\ Extends(Touch(r, x), r, x)
    BY <2>1, AppendExtends DEF Orders
  <2>3. \A i \in 1..Len(r) : r[i] # x
    BY <1>2, PlaceIs
  <2> HIDE DEF Touch
  <2>4. PICK to : to = Touch(r, x)
    OBVIOUS
  <2>5. Distinct(to)
    <3> SUFFICES ASSUME NEW i \in 1..(Len(r) + 1), NEW j \in 1..(Len(r) + 1), to[i] = to[j] PROVE i = j
      BY <2>2, <2>4 DEF Distinct, Extends
    <3>1. ASSUME NEW k \in 1..(Len(r) + 1) PROVE (k \in 1..Len(r) /\ to[k] = r[k] /\ r[k] # x) \/ (k = Len(r) + 1 /\ to[k] = x)
      BY <1>1, <2>2, <2>3, <2>4 DEF Extends
    <3> QED
      BY <3>1 DEF Distinct
  <2> QED
    BY <2>2, <2>3, <2>4, <2>5 DEF Used
<1>3. CASE Place(r, x) # 0
  <2>1. PICK p \in 1..Len(r) : p = Place(r, x) /\ r[p] = x
    BY <1>3, PlaceIs
  <2>2. Touch(r, x) = Append(RemoveAt(r, p), x)
    BY <1>3, <2>1 DEF Touch
  <2>3. Touch(r, x) \in Orders /\ Moves(Touch(r, x), r, p, x)
    BY <2>2, RemoveMoves DEF Orders
  <2> HIDE DEF Touch
  <2>4. PICK to : to = Touch(r, x)
    OBVIOUS
  <2>5. Distinct(to)
    <3> SUFFICES ASSUME NEW i \in 1..Len(r), NEW j \in 1..Len(r), to[i] = to[j] PROVE i = j
      BY <2>3, <2>4 DEF Distinct, Moves
    <3> DEFINE From(k) == IF k = Len(r) THEN p ELSE IF k < p THEN k ELSE k + 1
    <3>1. ASSUME NEW k \in 1..Len(r) PROVE From(k) \in 1..Len(r) /\ to[k] = r[From(k)]
      <4>1. CASE k = Len(r)
        BY <2>1, <2>3, <2>4, <4>1 DEF Moves
      <4>2. CASE k # Len(r)
        <5>1. k \in 1..(Len(r) - 1) /\ k + 1 \in 1..Len(r)
          BY <1>1, <4>2
        <5>2. to[k] = IF k < p THEN r[k] ELSE r[k + 1]
          BY <2>3, <2>4, <5>1 DEF Moves
        <5> QED
          BY <4>2, <5>1, <5>2
      <4> QED
        BY <4>1, <4>2
    <3>2. From(i) = From(j)
      <4> HIDE DEF From
      <4> QED
        BY <3>1 DEF Distinct
    <3> QED
      BY <1>1, <2>1, <3>2
  <2> QED
    BY <2>1, <2>3, <2>4, <2>5 DEF Used
<1> QED
  BY <1>2, <1>3

(* A use of a text that the cache holds moves its entry to the end,        *)
LEMMA HitMoves ==
  ASSUME ProviderAssumption, NEW c, NEW r, Lru(c, r), NEW x \in Texts, NEW i \in 1..Len(c), c[i].key = x,
         NEW to \in Caches, Moves(to, c, i, Entry(x, x)), NEW order, Used(order, r, x)
  PROVE  Lru(to, order)
<1> DEFINE n == Len(r)
           k == Kept(n)
           d == n - k
<1>1. n \in Nat /\ k \in Nat /\ d \in Nat /\ d + k = n /\ k <= n
  BY DEF Lru, Orders, Kept, ProviderAssumption
<1>2. Len(c) = k /\ \A j \in 1..k : c[j] = Entry(r[d + j], r[d + j])
  BY DEF Lru, Holds
<1> HIDE DEF n, k, d
<1>3. d + i \in 1..n /\ r[d + i] = x /\ i \in 1..k
  <2>1. d + i \in 1..n /\ i \in 1..k
    BY <1>1, <1>2
  <2> QED
    BY <1>2, <2>1, EntryHas
<1>4. Moves(order, r, d + i, x)
  <2>1. PICK p \in 1..n : r[p] = x /\ Moves(order, r, p, x)
    BY <1>3 DEF Used, n
  <2>2. p = d + i
    BY <1>3, <2>1 DEF Lru, Distinct, n
  <2> QED
    BY <2>1, <2>2
<1>5. Len(order) = n /\ order[n] = x /\ \A j \in 1..(n - 1) : order[j] = IF j < d + i THEN r[j] ELSE r[j + 1]
  BY <1>4 DEF Moves, n
<1>6. Len(to) = k /\ to[k] = Entry(x, x) /\ \A j \in 1..(k - 1) : to[j] = IF j < i THEN c[j] ELSE c[j + 1]
  BY <1>2 DEF Moves
<1>7. ASSUME NEW j \in 1..k PROVE to[j] = Entry(order[d + j], order[d + j])
  <2>1. CASE j = k
    BY <1>1, <1>5, <1>6, <2>1
  <2>2. CASE j # k
    <3>1. /\ j \in 1..(k - 1) /\ j + 1 \in 1..k /\ d + j \in 1..(n - 1) /\ (d + j) + 1 = d + (j + 1)
      <4>1. j \in 1..(k - 1) /\ j + 1 \in 1..k
        BY <1>1, <2>2
      <4>2. d + j \in 1..(n - 1)
        BY <1>1, <4>1
      <4>3. (d + j) + 1 = d + (j + 1)
        BY <1>1
      <4> QED
        BY <4>1, <4>2, <4>3
    <3>4. d + j < d + i <=> j < i
      BY <1>1, <1>3, <3>1
    <3>2. to[j] = IF j < i THEN c[j] ELSE c[j + 1]
      BY <1>6, <3>1
    <3>3. order[d + j] = IF d + j < d + i THEN r[d + j] ELSE r[(d + j) + 1]
      BY <1>5, <3>1
    <3> QED
      BY <1>2, <3>1, <3>2, <3>3, <3>4
  <2> QED
    BY <2>1, <2>2
<1> QED
  BY <1>5, <1>6, <1>7 DEF Lru, Holds, Used, n, k, d

(* and one of a text that it does not hold adds an entry, and drops the    *)
(* one used longest ago if the cache is full.                              *)
LEMMA MissAdds ==
  ASSUME ProviderAssumption, Capacity > 0, NEW c, NEW r, Lru(c, r), NEW x \in Texts,
         \A i \in 1..Len(c) : c[i].key # x,
         NEW to \in Caches, IF Len(c) >= Capacity THEN Moves(to, c, 1, Entry(x, x)) ELSE Extends(to, c, Entry(x, x)),
         NEW order, Used(order, r, x)
  PROVE  Lru(to, order)
<1> DEFINE n == Len(r)
           k == Kept(n)
           d == n - k
<1>1. n \in Nat /\ k \in Nat /\ d \in Nat /\ d + k = n /\ k <= n /\ k <= Capacity /\ Capacity \in Nat /\ (k < Capacity => d = 0)
  BY DEF Lru, Orders, Kept, ProviderAssumption
<1>2. Len(c) = k /\ \A j \in 1..k : c[j] = Entry(r[d + j], r[d + j])
  BY DEF Lru, Holds
<1>3. \A m \in Nat : Kept(m) = IF m < Capacity THEN m ELSE Capacity
  BY DEF Kept
<1>4. k = IF n < Capacity THEN n ELSE Capacity
  BY DEF Kept
<1> HIDE DEF n, k, d
<1>5. \A j \in 1..k : r[d + j] # x
  BY <1>2, EntryHas
<1>6. ASSUME NEW e \in Nat, Len(order) = e + Len(to), Kept(e + Len(to)) = Len(to), Len(to) \in Nat,
             \A j \in 1..Len(to) : to[j] = Entry(order[e + j], order[e + j])
      PROVE  Lru(to, order)
  <2>1. Len(order) - Kept(Len(order)) = e /\ Kept(Len(order)) = Len(to)
    BY <1>6
  <2> QED
    BY <1>6, <2>1 DEF Lru, Holds, Used
<1>7. CASE k < Capacity
  <2>1. Extends(to, c, Entry(x, x))
    BY <1>1, <1>2, <1>7
  <2>2. d = 0 /\ n = k
    BY <1>1, <1>7
  <2>3. Extends(order, r, x)
    <3>1. \A p \in 1..n : r[p] # x
      BY <1>5, <2>2
    <3> QED
      BY <3>1 DEF Used, n
  <2>4. /\ Len(to) = k + 1 /\ to[k + 1] = Entry(x, x) /\ \A j \in 1..k : to[j] = c[j]
        /\ Len(order) = k + 1 /\ order[k + 1] = x /\ \A j \in 1..k : order[j] = r[j]
    BY <1>2, <2>1, <2>2, <2>3 DEF Extends, n
  <2>5. \A j \in 1..(k + 1) : to[j] = Entry(order[0 + j], order[0 + j])
    <3>1. \A j \in 1..(k + 1) : (j \in 1..k \/ j = k + 1) /\ 0 + j = j
      BY <1>1
    <3> QED
      BY <1>2, <2>2, <2>4, <3>1
  <2>6. 0 + (k + 1) = k + 1 /\ k + 1 \in Nat /\ Kept(k + 1) = k + 1
    BY <1>1, <1>3, <1>7
  <2> QED
    BY <1>6, <2>4, <2>5, <2>6
<1>8. CASE ~(k < Capacity)
  <2>1. Moves(to, c, 1, Entry(x, x)) /\ k = Capacity /\ k >= 1
    BY <1>1, <1>2, <1>8
  <2>2. Len(to) = k /\ to[k] = Entry(x, x) /\ \A j \in 1..(k - 1) : to[j] = c[j + 1]
    <3>1. \A j \in 1..(k - 1) : ~(j < 1)
      OBVIOUS
    <3> QED
      BY <1>2, <2>1, <3>1 DEF Moves
  <2>3. ASSUME NEW j \in 1..(k - 1) PROVE j + 1 \in 1..k /\ to[j] = Entry(r[d + (j + 1)], r[d + (j + 1)])
    <3>1. j + 1 \in 1..k
      BY <1>1
    <3> QED
      BY <1>2, <2>2, <3>1
  <2>4. CASE Extends(order, r, x)
    <3>1. Len(order) = n + 1 /\ order[n + 1] = x /\ \A j \in 1..n : order[j] = r[j]
      BY <2>4 DEF Extends, n
    <3>2. ASSUME NEW j \in 1..k PROVE to[j] = Entry(order[(d + 1) + j], order[(d + 1) + j])
      <4>1. CASE j = k
        <5>1. (d + 1) + j = n + 1
          BY <1>1, <4>1
        <5> QED
          BY <2>2, <3>1, <4>1, <5>1
      <4>2. CASE j # k
        <5>1. j \in 1..(k - 1) /\ (d + 1) + j = d + (j + 1) /\ d + (j + 1) \in 1..n
          BY <1>1, <4>2
        <5> QED
          BY <2>3, <3>1, <5>1
      <4> QED
        BY <4>1, <4>2
    <3>3. d + 1 \in Nat /\ (d + 1) + k = n + 1 /\ Kept((d + 1) + k) = k /\ k \in Nat
      BY <1>1, <1>3, <2>1
    <3> QED
      BY <1>6, <2>2, <3>1, <3>2, <3>3
  <2>5. CASE \E p \in 1..n : r[p] = x /\ Moves(order, r, p, x)
    <3>1. PICK p \in 1..n : r[p] = x /\ Moves(order, r, p, x)
      BY <2>5
    <3>2. Len(order) = n /\ order[n] = x /\ \A j \in 1..(n - 1) : order[j] = IF j < p THEN r[j] ELSE r[j + 1]
      BY <3>1 DEF Moves, n
    <3>3. p <= d
      <4> SUFFICES ASSUME ~(p <= d) PROVE FALSE
        OBVIOUS
      <4>1. p - d \in 1..k /\ d + (p - d) = p
        BY <1>1
      <4> QED
        BY <1>5, <3>1, <4>1
    <3>4. ASSUME NEW j \in 1..k PROVE to[j] = Entry(order[d + j], order[d + j])
      <4>1. CASE j = k
        <5>1. d + j = n
          BY <1>1, <4>1
        <5> QED
          BY <2>2, <3>2, <4>1, <5>1
      <4>2. CASE j # k
        <5>1. j \in 1..(k - 1) /\ (d + j) + 1 = d + (j + 1) /\ d + j \in 1..(n - 1) /\ ~(d + j < p)
          BY <1>1, <3>3, <4>2
        <5>2. order[d + j] = r[(d + j) + 1]
          BY <3>2, <5>1
        <5> QED
          BY <2>3, <5>1, <5>2
      <4> QED
        BY <4>1, <4>2
    <3>5. Kept(d + k) = k
      BY <1>1, <1>3, <1>4
    <3> QED
      BY <1>1, <1>6, <2>2, <3>2, <3>4, <3>5
  <2> QED
    BY <2>4, <2>5 DEF Used, n
<1> QED
  BY <1>7, <1>8

(* A lookup leaves a cache.                                                *)
LEMMA GetKeeps == ASSUME NEW c \in Caches, NEW x \in Texts PROVE Get(c, x) \in Caches
<1>1. CASE Hit(c, x)
  <2>1. PICK i \in 1..Len(c) : i = IndexOf(c, x)
    BY <1>1, IndexIs
  <2>2. Get(c, x) = Append(RemoveAt(c, i), c[i]) /\ c[i] \in Entries
    BY <1>1, <2>1 DEF Get, MoveToEnd, Caches
  <2> QED
    BY <2>2, RemoveMoves DEF Caches
<1>2. CASE ~Hit(c, x)
  BY <1>2 DEF Get
<1> QED
  BY <1>1, <1>2

(* So does the order of last uses,                                         *)
LEMMA TouchKeeps == ASSUME NEW r \in Orders, NEW x \in Texts PROVE Touch(r, x) \in Orders
<1>1. CASE Place(r, x) = 0
  BY <1>1, AppendExtends DEF Touch, Orders
<1>2. CASE Place(r, x) # 0
  <2>1. PICK i \in 1..Len(r) : i = Place(r, x)
    BY <1>2, PlaceIs
  <2>2. Touch(r, x) = Append(RemoveAt(r, i), x)
    BY <1>2, <2>1 DEF Touch
  <2> QED
    BY <2>2, RemoveMoves DEF Orders
<1> QED
  BY <1>1, <1>2

(* and the cache into which a text is inserted.                            *)
LEMMA InsertKeeps ==
  ASSUME NEW c \in Caches, NEW x \in Texts, NEW v \in Texts PROVE Insert(c, Capacity, x, v) \in Caches
<1>1. Entry(x, v) \in Entries
  BY EntryHas
<1>2. CASE Capacity > 0 /\ Hit(c, x)
  <2>1. PICK i \in 1..Len(c) : i = IndexOf(c, x)
    BY <1>2, IndexIs
  <2>2. Insert(c, Capacity, x, v) = Append(RemoveAt(c, i), Entry(x, v))
    BY <1>2, <2>1 DEF Insert
  <2> QED
    BY <1>1, <2>2, RemoveMoves DEF Caches
<1>3. CASE Capacity = 0
  BY <1>3 DEF Insert
<1>4. CASE ~(Capacity = 0) /\ ~(Capacity > 0 /\ Hit(c, x))
  <2>1. Insert(c, Capacity, x, v) = Append(IF Len(c) >= Capacity THEN Tail(c) ELSE c, Entry(x, v))
    BY <1>4 DEF Insert
  <2>2. (IF Len(c) >= Capacity THEN Tail(c) ELSE c) \in Caches
    <3>1. Len(c) >= Capacity => c # <<>>
      BY <1>4, ProviderAssumption
    <3> QED
      BY <3>1, HeadTailProperties DEF Caches
  <2> QED
    BY <1>1, <2>1, <2>2, AppendExtends DEF Caches
<1> QED
  BY <1>2, <1>3, <1>4

(* The cache that the lookups of a request leave, in order,                *)
LEMMA LookupFold ==
  ASSUME NEW c \in Caches, NEW request \in Orders
  PROVE  \E p \in [0..Len(request) -> Caches] :
           p[0] = c /\ p[Len(request)] = FoldLeft(Get, c, request) /\ \A k \in 1..Len(request) : p[k] = Get(p[k - 1], request[k])
<1> DEFINE last == Len(request)
           op == [q \in (1..last) \X Caches |-> Get(q[2], request[q[1]])]
           P(h) == h = [s \in SUBSET (1..last) |-> IF s = {} THEN c ELSE Get(h[s \ {Max(s)}], request[Max(s)])]
           fold == CHOOSE h : P(h)
<1>0. last \in Nat /\ DOMAIN request = 1..last /\ \A k \in 1..last : request[k] \in Texts
  BY DEF Orders
<1> HIDE DEF last
<1>1. op \in [(1..last) \X Caches -> Caches]
  <2>1. ASSUME NEW q \in (1..last) \X Caches PROVE Get(q[2], request[q[1]]) \in Caches
    BY <1>0, <2>1, GetKeeps
  <2> QED
    BY <2>1
<1>2. c \in Caches
  OBVIOUS
<1>3. P(fold)
  <2>1. PICK g \in [SUBSET (1..last) -> Caches] : Computes(g, last, Caches, c, op)
    <3> HIDE DEF op
    <3> QED
      BY <1>0, <1>1, <1>2, LeftRecursion
  <2>2. P(g)
    <3>1. \A s \in SUBSET (1..last) : s # {} => g[s] = Get(g[s \ {Max(s)}], request[Max(s)])
      BY <2>1 DEF Computes
    <3> QED
      BY <2>1, <3>1 DEF Computes
  <2> HIDE DEF P
  <2> QED
    BY <2>2
<1>4. FoldLeft(Get, c, request) = fold[1..last]
  BY <1>0 DEF FoldLeft, MapThenFoldSet
<1>5. Follows(fold, last, Caches, c, op)
  <2>1. ASSUME NEW h, P(h) PROVE Follows(h, last, Caches, c, op)
    <3>1. \A s \in SUBSET (1..last) : s # {} => Max(s) \in 1..last
      BY <1>0, GreatestChooses DEF Chooses
    <3>2. h[{}] = c
      BY <2>1
    <3>3. ASSUME NEW s \in SUBSET (1..last), s # {}, h[s \ {Max(s)}] \in Caches
          PROVE  h[s] = op[<<Max(s), h[s \ {Max(s)}]>>]
      <4>1. h[s] = Get(h[s \ {Max(s)}], request[Max(s)])
        BY <2>1, <3>3
      <4>2. <<Max(s), h[s \ {Max(s)}]>> \in (1..last) \X Caches
        BY <3>1, <3>3
      <4> QED
        BY <4>1, <4>2
    <3> QED
      BY <3>2, <3>3 DEF Follows
  <2> HIDE DEF P, fold
  <2> QED
    BY <1>3, <2>1
<1>6. PICK p \in [0..last -> Caches] : p[last] = fold[1..last] /\ Passes(p, last, c, op)
  <2> HIDE DEF op, fold
  <2> QED
    BY <1>0, <1>1, <1>2, <1>5, LeftFold
<1>7. ASSUME NEW k \in 1..last PROVE p[k] = Get(p[k - 1], request[k])
  <2>1. k - 1 \in 0..last
    BY <1>0
  <2> QED
    BY <1>6, <2>1 DEF Passes
<1> QED
  BY <1>4, <1>6, <1>7 DEF last, Passes

(* What the hits of a request do to the order of last uses.                *)
Uses(c, order, request) ==
  FoldLeft(LAMBDA o, x : IF Hit(c, x) THEN Touch(o, x) ELSE o, order, request)

(* the order of last uses they leave,                                      *)
LEMMA UseFold ==
  ASSUME NEW c \in Caches, NEW order \in Orders, NEW request \in Orders
  PROVE  \E p \in [0..Len(request) -> Orders] :
           p[0] = order /\ p[Len(request)] = Uses(c, order, request) /\ \A k \in 1..Len(request) : p[k] = (IF Hit(c, request[k]) THEN Touch(p[k - 1], request[k]) ELSE p[k - 1])
<1> DEFINE last == Len(request)
           op == [q \in (1..last) \X Orders |-> (IF Hit(c, request[q[1]]) THEN Touch(q[2], request[q[1]]) ELSE q[2])]
           P(h) == h = [s \in SUBSET (1..last) |-> IF s = {} THEN order ELSE (IF Hit(c, request[Max(s)]) THEN Touch(h[s \ {Max(s)}], request[Max(s)]) ELSE h[s \ {Max(s)}])]
           fold == CHOOSE h : P(h)
<1>0. last \in Nat /\ DOMAIN request = 1..last /\ \A k \in 1..last : request[k] \in Texts
  BY DEF Orders
<1> HIDE DEF last
<1>1. op \in [(1..last) \X Orders -> Orders]
  <2>1. ASSUME NEW q \in (1..last) \X Orders PROVE (IF Hit(c, request[q[1]]) THEN Touch(q[2], request[q[1]]) ELSE q[2]) \in Orders
    BY <1>0, <2>1, TouchKeeps
  <2> QED
    BY <2>1
<1>2. order \in Orders
  OBVIOUS
<1>3. P(fold)
  <2>1. PICK g \in [SUBSET (1..last) -> Orders] : Computes(g, last, Orders, order, op)
    <3> HIDE DEF op
    <3> QED
      BY <1>0, <1>1, <1>2, LeftRecursion
  <2>2. P(g)
    <3>1. \A s \in SUBSET (1..last) : s # {} => g[s] = (IF Hit(c, request[Max(s)]) THEN Touch(g[s \ {Max(s)}], request[Max(s)]) ELSE g[s \ {Max(s)}])
      BY <2>1 DEF Computes
    <3> QED
      BY <2>1, <3>1 DEF Computes
  <2> HIDE DEF P
  <2> QED
    BY <2>2
<1>4. Uses(c, order, request) = fold[1..last]
  BY <1>0 DEF Uses, FoldLeft, MapThenFoldSet
<1>5. Follows(fold, last, Orders, order, op)
  <2>1. ASSUME NEW h, P(h) PROVE Follows(h, last, Orders, order, op)
    <3>1. \A s \in SUBSET (1..last) : s # {} => Max(s) \in 1..last
      BY <1>0, GreatestChooses DEF Chooses
    <3>2. h[{}] = order
      BY <2>1
    <3>3. ASSUME NEW s \in SUBSET (1..last), s # {}, h[s \ {Max(s)}] \in Orders
          PROVE  h[s] = op[<<Max(s), h[s \ {Max(s)}]>>]
      <4>1. h[s] = (IF Hit(c, request[Max(s)]) THEN Touch(h[s \ {Max(s)}], request[Max(s)]) ELSE h[s \ {Max(s)}])
        BY <2>1, <3>3
      <4>2. <<Max(s), h[s \ {Max(s)}]>> \in (1..last) \X Orders
        BY <3>1, <3>3
      <4> QED
        BY <4>1, <4>2
    <3> QED
      BY <3>2, <3>3 DEF Follows
  <2> HIDE DEF P, fold
  <2> QED
    BY <1>3, <2>1
<1>6. PICK p \in [0..last -> Orders] : p[last] = fold[1..last] /\ Passes(p, last, order, op)
  <2> HIDE DEF op, fold
  <2> QED
    BY <1>0, <1>1, <1>2, <1>5, LeftFold
<1>7. ASSUME NEW k \in 1..last PROVE p[k] = (IF Hit(c, request[k]) THEN Touch(p[k - 1], request[k]) ELSE p[k - 1])
  <2>1. k - 1 \in 0..last
    BY <1>0
  <2> QED
    BY <1>6, <2>1 DEF Passes
<1> QED
  BY <1>4, <1>6, <1>7 DEF last, Passes

(* What the inserts of a call do to the cache.                             *)
Inserts(c, keys, vectors, js) ==
  FoldLeft(LAMBDA o, j : Insert(o, Capacity, keys[j], vectors[j]), c, js)

(* and the cache that the inserts of a call leave,                         *)
LEMMA InsertFold ==
  ASSUME NEW c \in Caches, NEW keys \in Orders, NEW vectors \in Orders, Len(vectors) = Len(keys),
         NEW js, DOMAIN js = 1..Len(keys), \A k \in 1..Len(keys) : js[k] = k
  PROVE  \E p \in [0..Len(keys) -> Caches] :
           p[0] = c /\ p[Len(keys)] = Inserts(c, keys, vectors, js) /\ \A k \in 1..Len(keys) : p[k] = Insert(p[k - 1], Capacity, keys[js[k]], vectors[js[k]])
<1> DEFINE last == Len(keys)
           op == [q \in (1..last) \X Caches |-> Insert(q[2], Capacity, keys[js[q[1]]], vectors[js[q[1]]])]
           P(h) == h = [s \in SUBSET (1..last) |-> IF s = {} THEN c ELSE Insert(h[s \ {Max(s)}], Capacity, keys[js[Max(s)]], vectors[js[Max(s)]])]
           fold == CHOOSE h : P(h)
<1>0. last \in Nat /\ DOMAIN js = 1..last /\ \A k \in 1..last : js[k] = k /\ keys[k] \in Texts /\ vectors[k] \in Texts
  BY DEF Orders
<1> HIDE DEF last
<1>1. op \in [(1..last) \X Caches -> Caches]
  <2>1. ASSUME NEW q \in (1..last) \X Caches PROVE Insert(q[2], Capacity, keys[js[q[1]]], vectors[js[q[1]]]) \in Caches
    BY <1>0, <2>1, InsertKeeps
  <2> QED
    BY <2>1
<1>2. c \in Caches
  OBVIOUS
<1>3. P(fold)
  <2>1. PICK g \in [SUBSET (1..last) -> Caches] : Computes(g, last, Caches, c, op)
    <3> HIDE DEF op
    <3> QED
      BY <1>0, <1>1, <1>2, LeftRecursion
  <2>2. P(g)
    <3>1. \A s \in SUBSET (1..last) : s # {} => g[s] = Insert(g[s \ {Max(s)}], Capacity, keys[js[Max(s)]], vectors[js[Max(s)]])
      BY <2>1 DEF Computes
    <3> QED
      BY <2>1, <3>1 DEF Computes
  <2> HIDE DEF P
  <2> QED
    BY <2>2
<1>4. Inserts(c, keys, vectors, js) = fold[1..last]
  BY <1>0 DEF Inserts, FoldLeft, MapThenFoldSet
<1>5. Follows(fold, last, Caches, c, op)
  <2>1. ASSUME NEW h, P(h) PROVE Follows(h, last, Caches, c, op)
    <3>1. \A s \in SUBSET (1..last) : s # {} => Max(s) \in 1..last
      BY <1>0, GreatestChooses DEF Chooses
    <3>2. h[{}] = c
      BY <2>1
    <3>3. ASSUME NEW s \in SUBSET (1..last), s # {}, h[s \ {Max(s)}] \in Caches
          PROVE  h[s] = op[<<Max(s), h[s \ {Max(s)}]>>]
      <4>1. h[s] = Insert(h[s \ {Max(s)}], Capacity, keys[js[Max(s)]], vectors[js[Max(s)]])
        BY <2>1, <3>3
      <4>2. <<Max(s), h[s \ {Max(s)}]>> \in (1..last) \X Caches
        BY <3>1, <3>3
      <4> QED
        BY <4>1, <4>2
    <3> QED
      BY <3>2, <3>3 DEF Follows
  <2> HIDE DEF P, fold
  <2> QED
    BY <1>3, <2>1
<1>6. PICK p \in [0..last -> Caches] : p[last] = fold[1..last] /\ Passes(p, last, c, op)
  <2> HIDE DEF op, fold
  <2> QED
    BY <1>0, <1>1, <1>2, <1>5, LeftFold
<1>7. ASSUME NEW k \in 1..last PROVE p[k] = Insert(p[k - 1], Capacity, keys[js[k]], vectors[js[k]])
  <2>1. k - 1 \in 0..last
    BY <1>0
  <2> QED
    BY <1>6, <2>1 DEF Passes
<1> QED
  BY <1>4, <1>6, <1>7 DEF last, Passes

(* and the order they leave.                                               *)
LEMMA TouchFold ==
  ASSUME NEW order \in Orders, NEW keys \in Orders
  PROVE  \E p \in [0..Len(keys) -> Orders] :
           p[0] = order /\ p[Len(keys)] = FoldLeft(Touch, order, keys) /\ \A k \in 1..Len(keys) : p[k] = Touch(p[k - 1], keys[k])
<1> DEFINE last == Len(keys)
           op == [q \in (1..last) \X Orders |-> Touch(q[2], keys[q[1]])]
           P(h) == h = [s \in SUBSET (1..last) |-> IF s = {} THEN order ELSE Touch(h[s \ {Max(s)}], keys[Max(s)])]
           fold == CHOOSE h : P(h)
<1>0. last \in Nat /\ DOMAIN keys = 1..last /\ \A k \in 1..last : keys[k] \in Texts
  BY DEF Orders
<1> HIDE DEF last
<1>1. op \in [(1..last) \X Orders -> Orders]
  <2>1. ASSUME NEW q \in (1..last) \X Orders PROVE Touch(q[2], keys[q[1]]) \in Orders
    BY <1>0, <2>1, TouchKeeps
  <2> QED
    BY <2>1
<1>2. order \in Orders
  OBVIOUS
<1>3. P(fold)
  <2>1. PICK g \in [SUBSET (1..last) -> Orders] : Computes(g, last, Orders, order, op)
    <3> HIDE DEF op
    <3> QED
      BY <1>0, <1>1, <1>2, LeftRecursion
  <2>2. P(g)
    <3>1. \A s \in SUBSET (1..last) : s # {} => g[s] = Touch(g[s \ {Max(s)}], keys[Max(s)])
      BY <2>1 DEF Computes
    <3> QED
      BY <2>1, <3>1 DEF Computes
  <2> HIDE DEF P
  <2> QED
    BY <2>2
<1>4. FoldLeft(Touch, order, keys) = fold[1..last]
  BY <1>0 DEF FoldLeft, MapThenFoldSet
<1>5. Follows(fold, last, Orders, order, op)
  <2>1. ASSUME NEW h, P(h) PROVE Follows(h, last, Orders, order, op)
    <3>1. \A s \in SUBSET (1..last) : s # {} => Max(s) \in 1..last
      BY <1>0, GreatestChooses DEF Chooses
    <3>2. h[{}] = order
      BY <2>1
    <3>3. ASSUME NEW s \in SUBSET (1..last), s # {}, h[s \ {Max(s)}] \in Orders
          PROVE  h[s] = op[<<Max(s), h[s \ {Max(s)}]>>]
      <4>1. h[s] = Touch(h[s \ {Max(s)}], keys[Max(s)])
        BY <2>1, <3>3
      <4>2. <<Max(s), h[s \ {Max(s)}]>> \in (1..last) \X Orders
        BY <3>1, <3>3
      <4> QED
        BY <4>1, <4>2
    <3> QED
      BY <3>2, <3>3 DEF Follows
  <2> HIDE DEF P, fold
  <2> QED
    BY <1>3, <2>1
<1>6. PICK p \in [0..last -> Orders] : p[last] = fold[1..last] /\ Passes(p, last, order, op)
  <2> HIDE DEF op, fold
  <2> QED
    BY <1>0, <1>1, <1>2, <1>5, LeftFold
<1>7. ASSUME NEW k \in 1..last PROVE p[k] = Touch(p[k - 1], keys[k])
  <2>1. k - 1 \in 0..last
    BY <1>0
  <2> QED
    BY <1>6, <2>1 DEF Passes
<1> QED
  BY <1>4, <1>6, <1>7 DEF last, Passes

(* The entries of such a cache are those of their keys.                    *)
LEMMA LruEntry ==
  ASSUME NEW c, NEW r, Lru(c, r), NEW i \in 1..Len(c)
  PROVE  c[i] = Entry(c[i].key, c[i].key)
<1>1. c[i] = Entry(r[Len(r) - Kept(Len(r)) + i], r[Len(r) - Kept(Len(r)) + i])
  BY DEF Lru, Holds
<1> QED
  BY <1>1, EntryHas

(* A hit keeps the cache with the order of uses,                           *)
LEMMA HitLru ==
  ASSUME NEW c, NEW r, Lru(c, r), NEW x \in Texts, Hit(c, x)
  PROVE  Lru(Get(c, x), Touch(r, x))
<1>1. c \in Caches /\ r \in Orders /\ Distinct(r)
  BY DEF Lru
<1>2. PICK i \in 1..Len(c) : i = IndexOf(c, x) /\ c[i].key = x
  BY <1>1, IndexIs
<1>3. Get(c, x) = Append(RemoveAt(c, i), Entry(x, x))
  BY <1>2, LruEntry DEF Get, MoveToEnd
<1>4. Get(c, x) \in Caches /\ Moves(Get(c, x), c, i, Entry(x, x))
  BY <1>1, <1>3, EntryHas, RemoveMoves DEF Caches
<1>5. Used(Touch(r, x), r, x)
  BY <1>1, TouchUses
<1> HIDE DEF Get, Touch
<1> QED
  BY <1>2, <1>4, <1>5, HitMoves, ProviderAssumption

(* and so does an insert.                                                  *)
LEMMA InsertLru ==
  ASSUME NEW c, NEW r, Lru(c, r), NEW x \in Texts
  PROVE  Lru(Insert(c, Capacity, x, x), Touch(r, x))
<1>1. c \in Caches /\ r \in Orders /\ Distinct(r)
  BY DEF Lru
<1>2. Used(Touch(r, x), r, x)
  BY <1>1, TouchUses
<1>3. Entry(x, x) \in Entries
  BY EntryHas
<1> HIDE DEF Touch
<1>4. CASE Capacity = 0
  <2>1. \A m \in Nat : Kept(m) = 0
    BY <1>4 DEF Kept
  <2>2. Len(r) \in Nat /\ Len(Touch(r, x)) \in Nat
    BY <1>1, <1>2 DEF Used, Orders
  <2>3. Len(c) = 0
    BY <2>1, <2>2 DEF Lru, Holds
  <2>4. Insert(c, Capacity, x, x) = c
    BY <1>4 DEF Insert
  <2> QED
    BY <1>1, <1>2, <2>1, <2>2, <2>3, <2>4 DEF Lru, Holds, Used
<1>5. CASE Capacity > 0 /\ Hit(c, x)
  <2>1. PICK i \in 1..Len(c) : i = IndexOf(c, x) /\ c[i].key = x
    BY <1>1, <1>5, IndexIs
  <2>2. Insert(c, Capacity, x, x) = Append(RemoveAt(c, i), Entry(x, x))
    BY <1>5, <2>1 DEF Insert
  <2>3. Insert(c, Capacity, x, x) \in Caches /\ Moves(Insert(c, Capacity, x, x), c, i, Entry(x, x))
    BY <1>1, <1>3, <2>2, RemoveMoves DEF Caches
  <2> HIDE DEF Insert
  <2> QED
    BY <1>2, <2>1, <2>3, HitMoves, ProviderAssumption
<1>6. CASE Capacity > 0 /\ ~Hit(c, x)
  <2>1. Insert(c, Capacity, x, x) = Append(IF Len(c) >= Capacity THEN Tail(c) ELSE c, Entry(x, x))
    BY <1>6 DEF Insert
  <2>2. Len(c) \in Nat /\ (Len(c) >= Capacity => c # <<>>)
    BY <1>1, <1>6, ProviderAssumption DEF Caches
  <2>3. /\ Insert(c, Capacity, x, x) \in Caches
        /\ IF Len(c) >= Capacity THEN Moves(Insert(c, Capacity, x, x), c, 1, Entry(x, x))
                                 ELSE Extends(Insert(c, Capacity, x, x), c, Entry(x, x))
    <3>1. CASE Len(c) >= Capacity
      BY <1>1, <1>3, <2>1, <2>2, <3>1, TailMoves DEF Caches
    <3>2. CASE ~(Len(c) >= Capacity)
      BY <1>1, <1>3, <2>1, <3>2, AppendExtends DEF Caches
    <3> QED
      BY <3>1, <3>2
  <2>4. \A i \in 1..Len(c) : c[i].key # x
    BY <1>1, <1>6, IndexIs
  <2> HIDE DEF Insert
  <2> QED
    BY <1>2, <1>6, <2>3, <2>4, MissAdds, ProviderAssumption
<1> QED
  BY <1>4, <1>5, <1>6, ProviderAssumption

(* A lookup keeps the keys of the cache.                                   *)
LEMMA GetKeys ==
  ASSUME NEW c \in Caches, NEW x \in Texts, NEW y
  PROVE  Hit(Get(c, x), y) <=> Hit(c, y)
<1>1. CASE ~Hit(c, x)
  BY <1>1 DEF Get
<1>2. CASE Hit(c, x)
  <2>1. PICK i \in 1..Len(c) : i = IndexOf(c, x)
    BY <1>2, IndexIs
  <2>2. Get(c, x) = Append(RemoveAt(c, i), c[i])
    BY <1>2, <2>1 DEF Get, MoveToEnd
  <2>3. c[i] \in Entries
    BY DEF Caches
  <2>4. PICK to \in Caches : to = Get(c, x) /\ Moves(to, c, i, c[i])
    <3>1. Get(c, x) \in Caches /\ Moves(Get(c, x), c, i, c[i])
      BY <2>2, <2>3, RemoveMoves DEF Caches
    <3> HIDE DEF Get
    <3> QED
      BY <3>1
  <2>5. Len(c) \in Nat
    BY DEF Caches
  <2>6. ASSUME NEW j \in 1..Len(c) PROVE \E k \in 1..Len(c) : to[j] = c[k]
    <3>1. j = Len(c) \/ (j \in 1..(Len(c) - 1) /\ j + 1 \in 1..Len(c))
      BY <2>5
    <3> QED
      BY <2>4, <3>1 DEF Moves
  <2>7. ASSUME NEW k \in 1..Len(c) PROVE \E j \in 1..Len(c) : to[j] = c[k]
    <3>1. CASE k < i
      <4>1. k \in 1..(Len(c) - 1)
        BY <2>5, <3>1
      <4> QED
        BY <2>4, <3>1, <4>1 DEF Moves
    <3>2. CASE k = i
      <4>1. Len(c) \in 1..Len(c)
        BY <2>5
      <4> QED
        BY <2>4, <3>2, <4>1 DEF Moves
    <3>3. CASE k > i
      <4>1. k - 1 \in 1..(Len(c) - 1) /\ ~(k - 1 < i) /\ (k - 1) + 1 = k /\ k - 1 \in 1..Len(c)
        BY <2>5, <3>3
      <4>2. to[k - 1] = c[k]
        BY <2>4, <4>1 DEF Moves
      <4> QED
        BY <4>1, <4>2
    <3> QED
      BY <2>5, <3>1, <3>2, <3>3
  <2>8. Len(to) = Len(c)
    BY <2>4 DEF Moves
  <2>9. Hit(to, y) <=> \E j \in 1..Len(c) : to[j].key = y
    BY <2>8, IndexIs
  <2>10. Hit(c, y) <=> \E k \in 1..Len(c) : c[k].key = y
    BY IndexIs
  <2>11. Hit(to, y) <=> Hit(c, y)
    <3> HIDE DEF Hit
    <3> QED
      BY <2>6, <2>7, <2>9, <2>10
  <2> QED
    BY <2>4, <2>11
<1> QED
  BY <1>1, <1>2

(* The lookups of a request keep the cache with the order of uses,         *)
LEMMA LookupsLru ==
  ASSUME NEW c, NEW r, Lru(c, r), NEW request \in Orders
  PROVE  Lru(FoldLeft(Get, c, request), Uses(c, r, request))
<1>1. c \in Caches /\ r \in Orders
  BY DEF Lru
<1> DEFINE n == Len(request)
           left == FoldLeft(Get, c, request)
           after == Uses(c, r, request)
<1>2. PICK p \in [0..n -> Caches] : p[0] = c /\ p[n] = left /\ \A k \in 1..n : p[k] = Get(p[k - 1], request[k])
  BY <1>1, LookupFold
<1>3. PICK q \in [0..n -> Orders] : q[0] = r /\ q[n] = after
         /\ \A k \in 1..n : q[k] = IF Hit(c, request[k]) THEN Touch(q[k - 1], request[k]) ELSE q[k - 1]
  BY <1>1, UseFold
<1>4. n \in Nat /\ \A k \in 1..n : request[k] \in Texts
  BY DEF Orders
<1> HIDE DEF n, left, after
<1> DEFINE Good(k) == Lru(p[k], q[k]) /\ \A y \in Texts : Hit(p[k], y) <=> Hit(c, y)
           U == {k \in 0..n : ~Good(k)}
<1>5. ASSUME NEW k \in 1..n, Good(k - 1) PROVE Good(k)
  <2>1. k - 1 \in 0..n /\ p[k - 1] \in Caches /\ p[k] = Get(p[k - 1], request[k])
    <3>1. k - 1 \in 0..n
      BY <1>4
    <3> QED
      BY <1>2, <3>1
  <2>2. \A y \in Texts : Hit(p[k], y) <=> Hit(c, y)
    BY <1>4, <1>5, <2>1, GetKeys
  <2>3. Lru(p[k], q[k])
    <3>1. CASE Hit(c, request[k])
      BY <1>3, <1>4, <1>5, <2>1, <3>1, HitLru
    <3>2. CASE ~Hit(c, request[k])
      <4>1. ~Hit(p[k - 1], request[k])
        BY <1>4, <1>5, <3>2
      <4>2. p[k] = p[k - 1]
        BY <2>1, <4>1 DEF Get
      <4> QED
        BY <1>3, <1>5, <3>2, <4>2
    <3> QED
      BY <3>1, <3>2
  <2> QED
    BY <2>2, <2>3
<1>6. U = {}
  <2>1. 0 \notin U
    BY <1>2, <1>3
  <2>2. \A k \in 1..n : k \in U => k - 1 \in U
    <3>1. \A k \in 1..n : k - 1 \in 0..n
      BY <1>4
    <3> HIDE DEF Good
    <3> QED
      BY <1>5, <3>1
  <2>3. U \subseteq 0..n
    OBVIOUS
  <2> HIDE DEF U
  <2> QED
    BY <1>4, <2>1, <2>2, <2>3, NothingFrom
<1>7. Good(n)
  <2>1. n \in 0..n
    BY <1>4
  <2> HIDE DEF Good
  <2> QED
    BY <1>6, <2>1
<1> QED
  BY <1>2, <1>3, <1>7 DEF left, after

(* and so do the inserts of what a call embedded.                          *)
LEMMA InsertsLru ==
  ASSUME NEW c, NEW r, Lru(c, r), NEW keys \in Orders, NEW vectors, vectors = keys
  PROVE  Lru(Inserts(c, keys, vectors, [j \in DOMAIN keys |-> j]), FoldLeft(Touch, r, keys))
<1>1. c \in Caches /\ r \in Orders
  BY DEF Lru
<1>2. PICK js : js = [j \in DOMAIN keys |-> j]
  OBVIOUS
<1> DEFINE n == Len(keys)
           left == Inserts(c, keys, vectors, js)
           after == FoldLeft(Touch, r, keys)
<1>3. n \in Nat /\ DOMAIN js = 1..n /\ \A k \in 1..n : js[k] = k /\ keys[k] \in Texts
  BY <1>2 DEF Orders
<1>4. PICK p \in [0..n -> Caches] : p[0] = c /\ p[n] = left
         /\ \A k \in 1..n : p[k] = Insert(p[k - 1], Capacity, keys[js[k]], vectors[js[k]])
  <2>1. vectors \in Orders /\ Len(vectors) = Len(keys)
    OBVIOUS
  <2> QED
    BY <1>1, <1>3, <2>1, InsertFold
<1>5. PICK q \in [0..n -> Orders] : q[0] = r /\ q[n] = after /\ \A k \in 1..n : q[k] = Touch(q[k - 1], keys[k])
  BY <1>1, TouchFold
<1> HIDE DEF n, left, after
<1> DEFINE U == {k \in 0..n : ~Lru(p[k], q[k])}
<1>6. ASSUME NEW k \in 1..n, Lru(p[k - 1], q[k - 1]) PROVE Lru(p[k], q[k])
  <2>1. p[k] = Insert(p[k - 1], Capacity, keys[k], keys[k]) /\ q[k] = Touch(q[k - 1], keys[k])
    BY <1>3, <1>4, <1>5
  <2> QED
    BY <1>3, <1>6, <2>1, InsertLru
<1>7. U = {}
  <2>1. 0 \notin U
    BY <1>4, <1>5
  <2>2. \A k \in 1..n : k \in U => k - 1 \in U
    <3>1. \A k \in 1..n : k - 1 \in 0..n
      BY <1>3
    <3> QED
      BY <1>6, <3>1
  <2>3. U \subseteq 0..n
    OBVIOUS
  <2> HIDE DEF U
  <2> QED
    BY <1>3, <2>1, <2>2, <2>3, NothingFrom
<1>8. Lru(p[n], q[n])
  <2>1. n \in 0..n
    BY <1>3
  <2> QED
    BY <1>7, <2>1
<1> QED
  BY <1>2, <1>4, <1>5, <1>8 DEF left, after

----------------------------------------------------------------------------
(* The answers.                                                            *)

(* A slot holds no vector yet, or its own text's.                          *)
Slots(found, request) ==
  Len(found) = Len(request) /\ \A i \in 1..Len(request) : found[i] \in {NoVector, request[i]}

(* The misses are the empty slots.                                         *)
LEMMA MissesAre ==
  ASSUME NEW S, NEW found \in Seq(S)
  PROVE  /\ Misses(found) \in Seq(Nat)
         /\ \A j \in 1..Len(Misses(found)) : Misses(found)[j] \in 1..Len(found) /\ found[Misses(found)[j]] = NoVector
         /\ \A i \in 1..Len(found) : found[i] = NoVector => \E j \in 1..Len(Misses(found)) : Misses(found)[j] = i
<1>1. PICK seqs : seqs = [i \in DOMAIN found |-> IF found[i] = NoVector THEN <<i>> ELSE <<>>]
  OBVIOUS
<1>2. Misses(found) = FlattenSeq(seqs)
  BY <1>1 DEF Misses
<1>3. seqs \in Seq(Seq(Nat)) /\ DOMAIN seqs = 1..Len(found)
  <2>1. \A i \in 1..Len(found) : (IF found[i] = NoVector THEN <<i>> ELSE <<>>) \in Seq(Nat)
    OBVIOUS
  <2>2. DOMAIN found = 1..Len(found) /\ Len(found) \in Nat
    OBVIOUS
  <2>3. seqs = [i \in 1..Len(found) |-> IF found[i] = NoVector THEN <<i>> ELSE <<>>]
    BY <1>1, <2>2
  <2>4. \A i \in 1..Len(found) : seqs[i] \in Seq(Nat)
    BY <2>1, <2>3
  <2> QED
    BY <2>2, <2>3, <2>4
<1>4. PICK misses \in Seq(Nat) : misses = FlattenSeq(seqs)
  BY <1>3, FlattenedElements
<1>5. ASSUME NEW j \in 1..Len(misses) PROVE misses[j] \in 1..Len(found) /\ found[misses[j]] = NoVector
  <2>1. misses[j] \in Range(misses)
    BY DEF Range
  <2>2. PICK i \in DOMAIN seqs : misses[j] \in Range(seqs[i])
    BY <1>3, <1>4, <2>1, FlattenedElements
  <2>3. CASE found[i] = NoVector
    <3>1. seqs[i] = <<i>>
      BY <1>1, <1>3, <2>3
    <3>2. misses[j] = i
      BY <2>2, <3>1 DEF Range
    <3> QED
      BY <1>3, <2>3, <3>2
  <2>4. CASE found[i] # NoVector
    <3>1. seqs[i] = <<>>
      BY <1>1, <1>3, <2>4
    <3> QED
      BY <2>2, <3>1 DEF Range
  <2> QED
    BY <2>3, <2>4
<1>6. ASSUME NEW i \in 1..Len(found), found[i] = NoVector PROVE \E j \in 1..Len(misses) : misses[j] = i
  <2>1. seqs[i] = <<i>>
    BY <1>1, <1>3, <1>6
  <2>2. i \in Range(seqs[i])
    BY <2>1 DEF Range
  <2>3. i \in Range(misses)
    BY <1>3, <1>4, <2>2, FlattenedHolds
  <2> QED
    BY <2>3 DEF Range
<1> QED
  BY <1>2, <1>4, <1>5, <1>6

(* A request without empty slots is answered.                              *)
LEMMA AllFound ==
  ASSUME NEW request \in Orders, NEW found \in Seq(Texts \cup {NoVector}), Slots(found, request),
         \A i \in 1..Len(found) : found[i] # NoVector
  PROVE  found = request
<1>1. Len(found) = Len(request) /\ \A i \in 1..Len(request) : found[i] = request[i]
  BY DEF Slots
<1>2. request \in Seq(Texts \cup {NoVector})
  BY DEF Orders
<1> QED
  BY <1>1, <1>2, SeqEqual

(* The texts of the empty slots are texts.                                 *)
LEMMA MissedIs ==
  ASSUME NEW request \in Orders, NEW found \in Seq(Texts \cup {NoVector}), Slots(found, request),
         NEW missed, missed = [j \in DOMAIN Misses(found) |-> request[Misses(found)[j]]]
  PROVE  missed \in Orders /\ Len(missed) = Len(Misses(found))
<1>1. PICK misses \in Seq(Nat) : misses = Misses(found)
  BY MissesAre
<1>2. \A j \in 1..Len(misses) : misses[j] \in 1..Len(request)
  BY <1>1, MissesAre DEF Slots
<1>3. \A j \in 1..Len(misses) : request[misses[j]] \in Texts
  BY <1>2 DEF Orders
<1>4. missed = [j \in 1..Len(misses) |-> request[misses[j]]] /\ Len(misses) \in Nat
  BY <1>1
<1> QED
  BY <1>1, <1>3, <1>4 DEF Orders

(* Filling the empty slots with the vectors of their texts answers it.     *)
LEMMA MergedIs ==
  ASSUME NEW request \in Orders, NEW found \in Seq(Texts \cup {NoVector}), Slots(found, request),
         NEW vectors, vectors = [j \in DOMAIN Misses(found) |-> request[Misses(found)[j]]]
  PROVE  Merged(found, vectors) = request
<1>1. PICK misses \in Seq(Nat) : misses = Misses(found)
  BY MissesAre
<1>2. ASSUME NEW i \in 1..Len(request), found[i] = NoVector
      PROVE  vectors[SelectInSeq(Misses(found), LAMBDA m : m = i)] = request[i]
  <2> DEFINE I == {j \in 1..Len(misses) : misses[j] = i}
  <2>1. SelectInSeq(misses, LAMBDA m : m = i) = IF I # {} THEN Min(I) ELSE 0
    BY DEF SelectInSeq
  <2>2. I # {}
    <3>1. i \in 1..Len(found)
      BY DEF Slots
    <3>2. \E j \in 1..Len(misses) : misses[j] = i
      BY <1>1, <1>2, <3>1, MissesAre
    <3> QED
      BY <3>2
  <2>3. Min(I) \in I
    <3>1. I \in SUBSET Nat
      OBVIOUS
    <3> HIDE DEF I
    <3> QED
      BY <2>2, <3>1, LeastIs
  <2>4. PICK j \in 1..Len(misses) : misses[j] = i /\ j = SelectInSeq(misses, LAMBDA m : m = i)
    BY <2>1, <2>2, <2>3
  <2>5. vectors[j] = request[i]
    BY <1>1, <2>4
  <2> QED
    BY <1>1, <2>4, <2>5
<1>3. DOMAIN found = 1..Len(request)
  BY DEF Slots
<1>4. ASSUME NEW i \in 1..Len(request) PROVE Merged(found, vectors)[i] = request[i]
  BY <1>2, <1>3 DEF Merged, Slots
<1>5. Merged(found, vectors) = [i \in 1..Len(request) |-> Merged(found, vectors)[i]]
  BY <1>3 DEF Merged
<1> HIDE DEF Merged
<1>6. Merged(found, vectors) = [i \in 1..Len(request) |-> request[i]]
  BY <1>4, <1>5
<1> QED
  BY <1>6 DEF Orders

(* What a lookup finds fills slots.                                        *)
LEMMA FoundSlots ==
  ASSUME NEW c, NEW r, Lru(c, r), NEW request \in Orders,
         NEW found, found = [i \in DOMAIN request |-> IF Hit(c, request[i]) THEN Cached(c, request[i]) ELSE NoVector]
  PROVE  found \in Seq(Texts \cup {NoVector}) /\ Slots(found, request)
<1>1. c \in Caches
  BY DEF Lru
<1>2. ASSUME NEW x \in Texts, Hit(c, x) PROVE Cached(c, x) = x
  <2>1. PICK i \in 1..Len(c) : i = IndexOf(c, x) /\ c[i].key = x
    BY <1>1, <1>2, IndexIs
  <2>2. c[i] = Entry(x, x)
    BY <2>1, LruEntry
  <2> QED
    BY <2>1, <2>2, EntryHas DEF Cached
<1>3. Len(request) \in Nat /\ DOMAIN request = 1..Len(request) /\ \A i \in 1..Len(request) : request[i] \in Texts
  BY DEF Orders
<1>4. \A i \in 1..Len(request) : found[i] = (IF Hit(c, request[i]) THEN request[i] ELSE NoVector)
  BY <1>2, <1>3
<1>5. found \in Seq(Texts \cup {NoVector}) /\ Len(found) = Len(request)
  <2>1. found = [i \in 1..Len(request) |-> IF Hit(c, request[i]) THEN request[i] ELSE NoVector]
    BY <1>2, <1>3
  <2> QED
    BY <1>3, <2>1
<1> QED
  BY <1>4, <1>5 DEF Slots

----------------------------------------------------------------------------
(* The provider.                                                           *)

(* The steps of the provider take steps of the lazy model.                 *)
LEMMA StepsModel == [Next]_vars => [LazyNext]_lazyVars
<1> SUFFICES ASSUME [Next]_vars PROVE [LazyNext]_lazyVars
  OBVIOUS
<1>1. CASE Environment
  BY <1>1 DEF Environment, LazyNext
<1>2. ASSUME NEW t \in Threads, NEW r \in Requests, Lookup(t, r) PROVE ThreadStep(t) \/ UNCHANGED lazyVars
  BY <1>2 DEF Lookup, ThreadStep
<1>3. ASSUME NEW t \in Threads, WarmUp(t) \/ Ensure(t) \/ Infer(t) \/ Store(t) \/ Warmed(t) PROVE ThreadStep(t)
  BY <1>3 DEF WarmUp, Ensure, Infer, Store, StoreAt, Warmed, ThreadStep, EnsureStep
<1>4. CASE UNCHANGED vars
  BY <1>4 DEF vars
<1> QED
  BY <1>1, <1>2, <1>3, <1>4 DEF Next, LazyNext

(* A call's slots hold its own texts, the session returned the texts of    *)
(* the empty ones, and an answer leaves none empty.                        *)
CallTypes ==
  /\ texts \in [Threads -> Requests \cup {<<>>}]
  /\ results \in [Threads -> Seq(Texts \cup {NoVector})]
  /\ batch \in [Threads -> Seq(Texts)]
  /\ ret \in [Threads -> {"none", "ok", "err"}]

Filled == \A t \in Threads : Slots(results[t], texts[t])

Embedded == \A t \in Threads : texts[t] # <<>> /\ pc[t] = "served" => batch[t] = MissedTexts(t)

ProviderInv ==
  /\ LazyInv
  /\ Lru(cache, recency)
  /\ CallTypes
  /\ Filled
  /\ Embedded
  /\ AnswersMatchTexts

(* The requests are sequences of texts.                                    *)
LEMMA RequestsAre ==
  ASSUME NEW request \in Requests \cup {<<>>}
  PROVE  request \in Orders
<1>1. CASE request = <<>>
  BY <1>1 DEF Orders
<1>2. CASE request \in Requests
  BY <1>2, ProviderAssumption DEF Orders
<1> QED
  BY <1>1, <1>2

(* The initial states satisfy the invariant.                               *)
LEMMA InitProvider == Init => ProviderInv
<1> SUFFICES ASSUME Init PROVE ProviderInv
  OBVIOUS
<1>1. LazyInv
  BY InitInv DEF Init
<1>2. Lru(cache, recency)
  <2>1. Kept(0) = 0 /\ Len(recency) = 0 /\ cache \in Caches /\ recency \in Orders /\ Len(cache) = 0
    BY ProviderAssumption DEF Init, Kept, Caches, Orders
  <2> QED
    BY <2>1 DEF Lru, Holds, Distinct
<1>3. CallTypes
  BY DEF Init, CallTypes
<1>4. Filled
  BY DEF Init, Filled, Slots
<1>5. Embedded
  BY DEF Init, Embedded
<1>6. AnswersMatchTexts
  BY DEF Init, AnswersMatchTexts
<1> QED
  BY <1>1, <1>2, <1>3, <1>4, <1>5, <1>6 DEF ProviderInv

(* Between the steps that look up and store, a call keeps its slots, and   *)
(* who comes to be served has embedded.                                    *)
LEMMA CallKeeps ==
  ASSUME ProviderInv, UNCHANGED <<cache, texts, results, recency>>,
         ret' \in [Threads -> {"none", "ok", "err"}],
         \A t \in Threads : ret'[t] = "ok" => ret[t] = "ok" \/ texts[t] = <<>>,
         batch' \in [Threads -> Seq(Texts)],
         \A t \in Threads : texts[t] # <<>> /\ pc'[t] = "served" => batch'[t] = MissedTexts(t)
  PROVE  Lru(cache, recency)' /\ CallTypes' /\ Filled' /\ Embedded' /\ AnswersMatchTexts'
<1>1. Lru(cache, recency)'
  BY DEF ProviderInv
<1>2. CallTypes'
  BY DEF ProviderInv, CallTypes
<1>3. Filled'
  BY DEF ProviderInv, Filled
<1>4. Embedded'
  BY DEF Embedded, MissedTexts
<1>5. AnswersMatchTexts'
  <2>1. ASSUME NEW t \in Threads, texts[t] = <<>> PROVE results[t] = texts[t]
    <3>1. Slots(results[t], texts[t]) /\ results[t] \in Seq(Texts \cup {NoVector})
      BY DEF ProviderInv, Filled, CallTypes
    <3>2. Len(results[t]) = 0
      BY <2>1, <3>1 DEF Slots
    <3> QED
      BY <2>1, <3>1, <3>2, EmptySeq
  <2> QED
    BY <2>1 DEF ProviderInv, AnswersMatchTexts
<1> QED
  BY <1>1, <1>2, <1>3, <1>4, <1>5

(* A lookup,                                                               *)
LEMMA LookupProvider ==
  ASSUME ProviderInv, NEW t \in Threads, NEW request \in Requests, Lookup(t, request)
  PROVE  Lru(cache, recency)' /\ CallTypes' /\ Filled' /\ Embedded' /\ AnswersMatchTexts'
<1>1. PICK found : found = [i \in DOMAIN request |-> IF Hit(cache, request[i]) THEN Cached(cache, request[i]) ELSE NoVector]
  OBVIOUS
<1>2. request \in Orders /\ request # <<>>
  BY ProviderAssumption DEF Orders
<1>3. found \in Seq(Texts \cup {NoVector}) /\ Slots(found, request)
  BY <1>1, <1>2, FoundSlots DEF ProviderInv
<1>4. /\ pc[t] = "idle"
      /\ texts' = [texts EXCEPT ![t] = request]
      /\ results' = [results EXCEPT ![t] = found]
      /\ ret' = [ret EXCEPT ![t] = IF Misses(found) = <<>> THEN "ok" ELSE "none"]
      /\ batch' = batch
      /\ UNCHANGED lazyVars \/ CallEnsure(t)
  BY <1>1 DEF Lookup
<1>5. Lru(cache, recency)'
  <2>1. cache' = FoldLeft(Get, cache, request) /\ recency' = Uses(cache, recency, request)
    BY DEF Lookup, Uses
  <2> QED
    BY <1>2, <2>1, LookupsLru DEF ProviderInv
<1>6. CallTypes'
  BY <1>3, <1>4 DEF ProviderInv, CallTypes
<1>7. Filled'
  BY <1>3, <1>4 DEF ProviderInv, CallTypes, Filled
<1>8. Embedded'
  <2>1. pc'[t] # "served" /\ \A u \in Threads \ {t} : pc'[u] = pc[u]
    BY <1>4 DEF lazyVars, CallEnsure, Goto, ProviderInv, LazyInv, LazyTypeOK
  <2>2. \A u \in Threads \ {t} : texts'[u] = texts[u] /\ results'[u] = results[u] /\ batch'[u] = batch[u]
    BY <1>4 DEF ProviderInv, CallTypes
  <2> QED
    BY <2>1, <2>2 DEF ProviderInv, Embedded, MissedTexts
<1>9. Misses(found) = <<>> => found = request
  <2>1. ASSUME Misses(found) = <<>>, NEW i \in 1..Len(found), found[i] = NoVector PROVE FALSE
    <3>1. \E j \in 1..Len(Misses(found)) : Misses(found)[j] = i
      BY <1>3, <2>1, MissesAre
    <3> QED
      BY <2>1, <3>1
  <2> QED
    BY <1>2, <1>3, <2>1, AllFound
<1>10. AnswersMatchTexts'
  BY <1>4, <1>9 DEF ProviderInv, CallTypes, AnswersMatchTexts
<1> QED
  BY <1>5, <1>6, <1>7, <1>8, <1>10

(* and storing what the session returned keep it.                          *)
LEMMA StoreProvider ==
  ASSUME ProviderInv, NEW t \in Threads, Store(t)
  PROVE  Lru(cache, recency)' /\ CallTypes' /\ Filled' /\ Embedded' /\ AnswersMatchTexts'
<1>1. PICK request \in Orders : request = texts[t]
  BY RequestsAre DEF ProviderInv, CallTypes
<1>2. PICK found \in Seq(Texts \cup {NoVector}) : found = results[t] /\ Slots(found, request)
  BY <1>1 DEF ProviderInv, CallTypes, Filled
<1>3. PICK missed \in Orders : missed = MissedTexts(t) /\ missed = [j \in DOMAIN Misses(found) |-> request[Misses(found)[j]]]
  <2>1. MissedTexts(t) = [j \in DOMAIN Misses(found) |-> request[Misses(found)[j]]]
    BY <1>1, <1>2 DEF MissedTexts
  <2> QED
    BY <1>2, <2>1, MissedIs
<1>4. batch[t] = missed
  BY <1>3 DEF ProviderInv, Embedded, Store, StoreAt
<1>5. /\ results' = [results EXCEPT ![t] = Merged(found, missed)]
      /\ cache' = FoldLeft(LAMBDA c, j : Insert(c, Capacity, MissedTexts(t)[j], batch[t][j]), cache,
                           [j \in DOMAIN MissedTexts(t) |-> j])
      /\ recency' = FoldLeft(Touch, recency, MissedTexts(t))
      /\ batch' = [batch EXCEPT ![t] = <<>>]
      /\ ret' = [ret EXCEPT ![t] = "ok"]
      /\ texts' = texts
  BY <1>2, <1>4 DEF Store, StoreAt
<1>6. Lru(cache, recency)'
  <2>1. Lru(cache, recency) /\ MissedTexts(t) \in Orders /\ batch[t] = MissedTexts(t)
    BY <1>3, <1>4 DEF ProviderInv
  <2>2. cache' = Inserts(cache, MissedTexts(t), batch[t], [j \in DOMAIN MissedTexts(t) |-> j])
    BY <1>5 DEF Inserts
  <2> HIDE DEF MissedTexts
  <2> QED
    BY <1>5, <2>1, <2>2, InsertsLru
<1>7. Merged(found, missed) = request
  BY <1>2, <1>3, MergedIs
<1>8. request \in Seq(Texts \cup {NoVector})
  BY DEF Orders
<1>9. CallTypes'
  <2>1. results' \in [Threads -> Seq(Texts \cup {NoVector})]
    BY <1>5, <1>7, <1>8 DEF ProviderInv, CallTypes
  <2>2. <<>> \in Seq(Texts)
    OBVIOUS
  <2>3. batch' \in [Threads -> Seq(Texts)]
    BY <1>5, <2>2 DEF ProviderInv, CallTypes
  <2> QED
    BY <1>5, <2>1, <2>3 DEF ProviderInv, CallTypes
<1>10. Filled'
  <2>1. Slots(request, request)
    BY DEF Slots
  <2> QED
    BY <1>1, <1>5, <1>7, <2>1 DEF ProviderInv, CallTypes, Filled
<1>11. Embedded'
  <2>1. pc'[t] # "served" /\ \A u \in Threads \ {t} : pc'[u] = pc[u]
    BY DEF Store, StoreAt, Finish, Goto, ProviderInv, LazyInv, LazyTypeOK
  <2>2. \A u \in Threads \ {t} : texts'[u] = texts[u] /\ results'[u] = results[u] /\ batch'[u] = batch[u]
    BY <1>5 DEF ProviderInv, CallTypes
  <2> QED
    BY <2>1, <2>2 DEF ProviderInv, Embedded, MissedTexts
<1>12. AnswersMatchTexts'
  BY <1>1, <1>5, <1>7 DEF ProviderInv, CallTypes, AnswersMatchTexts
<1> QED
  BY <1>6, <1>9, <1>10, <1>11, <1>12

(* ensure_model serves nobody.                                             *)
LEMMA EnsureServes ==
  ASSUME LazyTypeOK, NEW t \in Threads, Ensure(t)
  PROVE  pc'[t] # "served" /\ \A u \in Threads \ {t} : pc'[u] = pc[u]
<1> USE DEF LazyTypeOK, PCs, Goto
<1>1. CASE EnsureStep(t)
  BY <1>1 DEF EnsureStep, EnsureReady, EnsureFailed, EnsureWait, EnsureLoad
<1>2. CASE Download(t) \/ LoadOk(t) \/ LoadErr(t)
  BY <1>2 DEF Download, LoadOk, LoadErr
<1>3. CASE Wake(t) \/ Expire(t)
  <2>1. pc[t] # "served"
    BY <1>3 DEF Wake, Expire
  <2> QED
    BY <1>3, <2>1 DEF Wake, Expire, LeaveWait
<1> QED
  BY <1>1, <1>2, <1>3 DEF Ensure

(* Every step of the provider keeps the invariant.                         *)
LEMMA StepProvider == ProviderInv /\ [Next]_vars => ProviderInv'
<1> SUFFICES ASSUME ProviderInv, [Next]_vars PROVE ProviderInv'
  OBVIOUS
<1> DEFINE CallInv == Lru(cache, recency)' /\ CallTypes' /\ Filled' /\ Embedded' /\ AnswersMatchTexts'
<1>1. LazyInv'
  BY StepInv, StepsModel DEF ProviderInv
<1>2. CASE Environment
  <2>1. pc' = pc /\ UNCHANGED callVars
    BY <1>2 DEF Environment, Reset, TimePasses
  <2> QED
    BY <2>1, CallKeeps, <1>1 DEF callVars, ProviderInv, CallTypes, Embedded
<1>3. ASSUME NEW t \in Threads, WarmUp(t) PROVE CallInv
  <2>1. /\ texts' = [texts EXCEPT ![t] = <<>>] /\ results' = [results EXCEPT ![t] = <<>>]
        /\ ret' = [ret EXCEPT ![t] = "none"] /\ UNCHANGED <<cache, batch, recency>>
        /\ pc'[t] # "served" /\ \A u \in Threads \ {t} : pc'[u] = pc[u]
    BY <1>3 DEF WarmUp, CallEnsure, Goto, ProviderInv, LazyInv, LazyTypeOK
  <2>2. Lru(cache, recency)'
    BY <2>1 DEF ProviderInv
  <2>3. CallTypes'
    BY <2>1 DEF ProviderInv, CallTypes
  <2>4. Filled'
    BY <2>1 DEF ProviderInv, CallTypes, Filled, Slots
  <2>5. Embedded'
    BY <2>1 DEF ProviderInv, CallTypes, Embedded, MissedTexts
  <2>6. AnswersMatchTexts'
    BY <2>1 DEF ProviderInv, CallTypes, AnswersMatchTexts
  <2> QED
    BY <2>2, <2>3, <2>4, <2>5, <2>6
<1>4. ASSUME NEW t \in Threads, Ensure(t) PROVE CallInv
  <2>1. pc'[t] # "served" /\ \A u \in Threads \ {t} : pc'[u] = pc[u]
    BY <1>4, EnsureServes DEF ProviderInv, LazyInv
  <2>2. ret' = [ret EXCEPT ![t] = IF pc'[t] = "idle" THEN "err" ELSE @] /\ UNCHANGED <<cache, texts, results, batch, recency>>
    BY <1>4 DEF Ensure
  <2>3. ret' \in [Threads -> {"none", "ok", "err"}] /\ \A u \in Threads : ret'[u] = "ok" => ret[u] = "ok"
    BY <2>2 DEF ProviderInv, CallTypes
  <2>4. batch' \in [Threads -> Seq(Texts)] /\ \A u \in Threads : texts[u] # <<>> /\ pc'[u] = "served" => batch'[u] = MissedTexts(u)
    BY <2>1, <2>2 DEF ProviderInv, CallTypes, Embedded
  <2> QED
    BY <2>2, <2>3, <2>4, CallKeeps
<1>5. ASSUME NEW t \in Threads, Infer(t) PROVE CallInv
  <2>1. ret' = [ret EXCEPT ![t] = IF pc'[t] = "idle" THEN "err" ELSE @] /\ UNCHANGED <<cache, texts, results, recency>>
    BY <1>5 DEF Infer
  <2>2. ret' \in [Threads -> {"none", "ok", "err"}] /\ \A u \in Threads : ret'[u] = "ok" => ret[u] = "ok"
    BY <2>1 DEF ProviderInv, CallTypes
  <2>3. MissedTexts(t) = [j \in DOMAIN Misses(results[t]) |-> texts[t][Misses(results[t])[j]]]
    BY DEF MissedTexts
  <2>4. MissedTexts(t) \in Seq(Texts)
    <3>1. texts[t] \in Orders
      BY RequestsAre DEF ProviderInv, CallTypes
    <3>2. results[t] \in Seq(Texts \cup {NoVector}) /\ Slots(results[t], texts[t])
      BY DEF ProviderInv, CallTypes, Filled
    <3> HIDE DEF MissedTexts
    <3> QED
      BY <2>3, <3>1, <3>2, MissedIs DEF Orders
  <2>5. /\ \A u \in Threads \ {t} : pc'[u] = pc[u] /\ batch'[u] = batch[u]
        /\ pc'[t] = "served" => batch'[t] = MissedTexts(t)
        /\ batch' \in [Threads -> Seq(Texts)]
    <3>1. CASE UseSession(t) /\ batch' = [batch EXCEPT ![t] = IF provider THEN MissedTexts(t) ELSE @]
      <4> HIDE DEF MissedTexts
      <4> QED
        BY <2>4, <3>1 DEF UseSession, Goto, ProviderInv, LazyInv, LazyTypeOK, CallTypes
    <3>2. CASE SessionErr(t) /\ UNCHANGED batch
      BY <3>2 DEF SessionErr, Goto, ProviderInv, LazyInv, LazyTypeOK, CallTypes
    <3> QED
      BY <1>5, <2>3, <3>1, <3>2 DEF Infer
  <2>6. \A u \in Threads : texts[u] # <<>> /\ pc'[u] = "served" => batch'[u] = MissedTexts(u)
    BY <2>5 DEF ProviderInv, Embedded
  <2> QED
    BY <2>1, <2>2, <2>5, <2>6, CallKeeps
<1>6. ASSUME NEW t \in Threads, Warmed(t) PROVE CallInv
  <2>1. /\ texts[t] = <<>> /\ ret' = [ret EXCEPT ![t] = "ok"] /\ UNCHANGED <<cache, texts, results, batch, recency>>
        /\ \A u \in Threads \ {t} : pc'[u] = pc[u]
    BY <1>6 DEF Warmed, Finish, Goto, ProviderInv, LazyInv, LazyTypeOK
  <2>2. ret' \in [Threads -> {"none", "ok", "err"}] /\ \A u \in Threads : ret'[u] = "ok" => ret[u] = "ok" \/ texts[u] = <<>>
    BY <2>1 DEF ProviderInv, CallTypes
  <2>3. batch' \in [Threads -> Seq(Texts)] /\ \A u \in Threads : texts[u] # <<>> /\ pc'[u] = "served" => batch'[u] = MissedTexts(u)
    BY <2>1 DEF ProviderInv, CallTypes, Embedded
  <2> QED
    BY <2>1, <2>2, <2>3, CallKeeps
<1>7. CASE UNCHANGED vars
  <2>1. pc' = pc /\ UNCHANGED callVars
    BY <1>7 DEF vars, lazyVars
  <2> QED
    BY <2>1, CallKeeps, <1>1 DEF callVars, ProviderInv, CallTypes, Embedded
<1>8. CASE \E t \in Threads : \/ \E r \in Requests : Lookup(t, r)
                              \/ WarmUp(t) \/ Ensure(t) \/ Infer(t) \/ Store(t) \/ Warmed(t)
  <2>1. CallInv
    BY <1>3, <1>4, <1>5, <1>6, <1>8, LookupProvider, StoreProvider
  <2> QED
    BY <1>1, <2>1 DEF ProviderInv
<1> QED
  BY <1>2, <1>7, <1>8 DEF Next

(* The invariant of the provider holds in every reachable state.           *)
THEOREM ProviderInvariance == Spec => []ProviderInv
  BY InitProvider, StepProvider, PTL DEF Spec

(* Type correctness, and the cache never holds more than its capacity, for *)
(* any number of threads and any capacity.                                 *)
THEOREM ProviderTypeCorrect == Spec => []TypeOK
<1>1. ProviderInv => TypeOK
  <2> SUFFICES ASSUME ProviderInv PROVE TypeOK
    OBVIOUS
  <2>1. Len(cache) <= Capacity /\ cache \in Caches /\ recency \in Orders
    <3>1. Len(cache) = Kept(Len(recency)) /\ Len(recency) \in Nat
      BY DEF ProviderInv, Lru, Holds, Orders
    <3>2. \A n \in Nat : Kept(n) <= Capacity
      BY ProviderAssumption DEF Kept
    <3> QED
      BY <3>1, <3>2 DEF ProviderInv, Lru
  <2> QED
    BY <2>1 DEF TypeOK, ProviderInv, CallTypes, LazyInv, Caches, Entries, Orders
<1> QED
  BY <1>1, ProviderInvariance, PTL

(* Every answer has each text's own vector at the text's own place,        *)
(* whichever of them were cached, repeated or evicted while the call       *)
(* waited for the model.                                                   *)
THEOREM AnswersMatch == Spec => []AnswersMatchTexts
  BY ProviderInvariance, PTL DEF ProviderInv

(* The cache is the capacity's worth of the texts used last, in the order  *)
(* of their use, whatever calls interleave.                                *)
THEOREM LruKept == Spec => []LruKeepsMostRecent
<1>1. ProviderInv => LruKeepsMostRecent
  BY LruIs DEF ProviderInv, LruKeepsMostRecent, Kept
<1> QED
  BY <1>1, ProviderInvariance, PTL

(* The provider too is a single-flight cell where no wait expires: the     *)
(* lookups and stores of its callers never load or evict.                  *)
THEOREM ProviderRefinement == ASSUME ~WaitExpires PROVE Spec => ImplementsSingleFlight
<1>1. Init => LazyInv /\ FlightInv /\ Flight!Init
  BY InitInv, InitFlight DEF Init
<1>2. LazyInv /\ FlightInv /\ [Next]_vars => LazyInv' /\ FlightInv'
  BY StepsModel, StepInv, StepFlight
<1>3. LazyInv /\ LazyInv' /\ FlightInv /\ FlightInv' /\ [Next]_vars => [Flight!Next]_Flight!vars
  BY StepsModel, StepRefines
<1> QED
  BY <1>1, <1>2, <1>3, PTL DEF Spec, ImplementsSingleFlight, Flight!Spec
=============================================================================
