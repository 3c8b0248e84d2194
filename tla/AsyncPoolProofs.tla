--------------------------- MODULE AsyncPoolProofs ---------------------------
(***************************************************************************)
(* Proofs about the connection pool, for any number of callers, closures,  *)
(* connections and dropped futures.                                        *)
(***************************************************************************)
EXTENDS AsyncPool, FiniteSetTheorems, DataLemmas, TLAPS

Awaiting == {c \in Callers : pc[c] = "awaiting"}

(* Closures that exist, with or without a future.                          *)
Busy == {j \in Jobs : job[j] # "free"}

(* The types; who is in the queue has asked and has no job; and who awaits *)
(* has one.                                                                *)
QueueInv ==
  /\ permits \in Nat /\ idle \in Nat /\ open \in Nat /\ dropped \in Nat
  /\ pc \in [Callers -> {"idle", "queued", "awaiting"}]
  /\ mine \in [Callers -> Jobs \cup {NoJob}]
  /\ job \in [Jobs -> {"free", "pending", "running", "done"}]
  /\ queue \in Seq(Callers)
  /\ \A i \in DOMAIN queue : pc[queue[i]] = "queued"
  /\ \A i, k \in DOMAIN queue : queue[i] = queue[k] => i = k
  /\ \A c \in Callers : pc[c] = "awaiting" => mine[c] \in Jobs

(* The bound rests on a count the properties do not mention: a closure     *)
(* takes a permit with it until its future gives that permit back, so      *)
(* closures and free permits together are max_conns and no more than one   *)
(* for each dropped future.                                                *)
CountInv ==
  /\ PoolAccounted
  /\ Cardinality(Busy) + permits <= MaxConns + dropped
  /\ open <= MaxConns + dropped

(* Sets of callers and of jobs are finite and have a size.                 *)
LEMMA Sizes ==
  /\ IsFiniteSet(Awaiting) /\ Cardinality(Awaiting) \in Nat
  /\ IsFiniteSet(Busy) /\ Cardinality(Busy) \in Nat
  /\ IsFiniteSet(Working) /\ Cardinality(Working) \in Nat
  /\ Cardinality(Working) <= Cardinality(Busy)
<1>1. IsFiniteSet(Callers) /\ IsFiniteSet(Jobs)
  BY PoolAssumption
<1>2. IsFiniteSet(Awaiting)
  BY <1>1, FS_Subset DEF Awaiting
<1>3. IsFiniteSet(Busy)
  BY <1>1, FS_Subset DEF Busy
<1>4. Working \in SUBSET Busy
  BY DEF Working, Busy
<1>5. IsFiniteSet(Working) /\ Cardinality(Working) <= Cardinality(Busy)
  BY <1>3, <1>4, FS_Subset
<1> QED
  BY <1>2, <1>3, <1>5, FS_CardinalityType

(* The initial states satisfy the invariants.                              *)
LEMMA InitPool == Init => QueueInv /\ CountInv
<1> SUFFICES ASSUME Init PROVE QueueInv /\ CountInv
  OBVIOUS
<1>1. QueueInv
  BY PoolAssumption DEF Init, QueueInv
<1>2. Awaiting = {} /\ Busy = {} /\ Working = {}
  BY DEF Init, Awaiting, Busy, Working
<1>3. PoolAccounted
  BY <1>2, FS_EmptySet, PoolAssumption DEF Init, PoolAccounted, PermitsConserved, ConnectionsAccounted, Awaiting
<1> QED
  BY <1>1, <1>2, <1>3, FS_EmptySet, PoolAssumption DEF Init, CountInv

(* A running closure has a connection.                                     *)
LEMMA RunsOnOne ==
  ASSUME QueueInv, PoolAccounted, NEW j \in Jobs, job[j] = "running"
  PROVE  open \in Nat \ {0} /\ idle < open
<1>1. Working # {} /\ IsFiniteSet(Working) /\ Cardinality(Working) \in Nat
  BY Sizes DEF Working
<1>2. Cardinality(Working) # 0
  BY <1>1, FS_EmptySet
<1> QED
  BY <1>1, <1>2 DEF QueueInv, PoolAccounted, ConnectionsAccounted

(* The queue keeps its shape.                                              *)
LEMMA StepQueue == QueueInv /\ CountInv /\ [Next]_vars => QueueInv'
<1> USE PoolAssumption
<1> SUFFICES ASSUME QueueInv, CountInv, [Next]_vars PROVE QueueInv'
  OBVIOUS
<1>0. CASE UNCHANGED vars
  BY <1>0 DEF vars, QueueInv
<1>1. ASSUME NEW c \in Callers, Request(c) PROVE QueueInv'
  <2>1. /\ pc' \in [Callers -> {"idle", "queued", "awaiting"}] /\ pc'[c] = "queued" /\ pc[c] = "idle"
        /\ \A d \in Callers \ {c} : pc'[d] = pc[d]
    BY <1>1 DEF Request, QueueInv
  <2>2. /\ queue' \in Seq(Callers) /\ DOMAIN queue' = DOMAIN queue \cup {Len(queue) + 1}
        /\ queue'[Len(queue) + 1] = c /\ \A i \in DOMAIN queue : queue'[i] = queue[i] /\ queue[i] \in Callers
        /\ queue' = Append(queue, c)
    BY <1>1 DEF Request, QueueInv
  <2>3. \A i \in DOMAIN queue : queue[i] # c
    BY <2>1 DEF QueueInv
  <2>4. \A i \in DOMAIN queue' : pc'[queue'[i]] = "queued"
    BY <2>1, <2>2, <2>3 DEF QueueInv
  <2>5. \A i, k \in DOMAIN queue' : queue'[i] = queue'[k] => i = k
    BY <2>2, <2>3 DEF QueueInv
  <2>6. UNCHANGED <<permits, mine, job, idle, open, dropped>>
    BY <1>1 DEF Request
  <2> QED
    BY <2>1, <2>2, <2>4, <2>5, <2>6 DEF QueueInv
<1>2. ASSUME NEW c \in Callers, Acquire(c) PROVE QueueInv'
  <2>1. /\ queue # <<>> /\ c = queue[1] /\ queue' = Tail(queue) /\ permits' = permits - 1 /\ permits > 0
        /\ UNCHANGED <<idle, open, dropped>>
    BY <1>2 DEF Acquire
  <2>2. PICK j \in Jobs : job' = [job EXCEPT ![j] = "pending"] /\ mine' = [mine EXCEPT ![c] = j]
    BY <1>2 DEF Acquire
  <2>3. /\ pc' \in [Callers -> {"idle", "queued", "awaiting"}] /\ pc'[c] = "awaiting"
        /\ \A d \in Callers \ {c} : pc'[d] = pc[d]
    BY <1>2 DEF Acquire, QueueInv
  <2>4. /\ queue' \in Seq(Callers) /\ DOMAIN queue' = 1..(Len(queue) - 1) /\ Len(queue) \in Nat
        /\ \A i \in DOMAIN queue' : i \in DOMAIN queue /\ i + 1 \in DOMAIN queue /\ queue'[i] = queue[i + 1]
    BY <2>1 DEF QueueInv
  <2>5. \A i \in DOMAIN queue' : queue'[i] # c /\ queue'[i] \in Callers
    <3> SUFFICES ASSUME NEW i \in DOMAIN queue' PROVE queue'[i] # c /\ queue'[i] \in Callers
      OBVIOUS
    <3>1. queue'[i] = queue[i + 1] /\ i + 1 # 1 /\ i + 1 \in DOMAIN queue /\ 1 \in DOMAIN queue
      BY <2>4
    <3> QED
      BY <2>1, <3>1 DEF QueueInv
  <2>6. \A i \in DOMAIN queue' : pc'[queue'[i]] = "queued"
    BY <2>3, <2>4, <2>5 DEF QueueInv
  <2>7. \A i, k \in DOMAIN queue' : queue'[i] = queue'[k] => i = k
    <3> SUFFICES ASSUME NEW i \in DOMAIN queue', NEW k \in DOMAIN queue', queue'[i] = queue'[k] PROVE i = k
      OBVIOUS
    <3>1. i + 1 = k + 1
      BY <2>4 DEF QueueInv
    <3> QED
      BY <2>4, <3>1
  <2>8. /\ permits' \in Nat /\ job' \in [Jobs -> {"free", "pending", "running", "done"}]
        /\ mine' \in [Callers -> Jobs \cup {NoJob}]
        /\ \A d \in Callers : pc'[d] = "awaiting" => mine'[d] \in Jobs
    BY <2>1, <2>2, <2>3 DEF QueueInv
  <2> QED
    BY <2>1, <2>3, <2>4, <2>6, <2>7, <2>8 DEF QueueInv
<1>3. ASSUME NEW c \in Callers, Complete(c) PROVE QueueInv'
  <2>1. \A i \in DOMAIN queue : queue[i] # c /\ queue[i] \in Callers
    BY <1>3 DEF Complete, QueueInv
  <2>2. /\ pc' \in [Callers -> {"idle", "queued", "awaiting"}] /\ pc'[c] = "idle"
        /\ \A d \in Callers \ {c} : pc'[d] = pc[d] /\ mine'[d] = mine[d]
        /\ mine' \in [Callers -> Jobs \cup {NoJob}]
        /\ job' \in [Jobs -> {"free", "pending", "running", "done"}]
        /\ permits' \in Nat /\ UNCHANGED <<queue, idle, open, dropped>>
    BY <1>3 DEF Complete, QueueInv
  <2> QED
    BY <2>1, <2>2 DEF QueueInv
<1>4. ASSUME NEW c \in Callers, Drop(c) PROVE QueueInv'
  <2>1. /\ pc' \in [Callers -> {"idle", "queued", "awaiting"}] /\ pc'[c] = "idle" /\ pc[c] # "idle"
        /\ \A d \in Callers \ {c} : pc'[d] = pc[d] /\ mine'[d] = mine[d]
        /\ mine' \in [Callers -> Jobs \cup {NoJob}]
        /\ UNCHANGED <<idle, open>>
    BY <1>4 DEF Drop, QueueInv
  <2>2. permits' \in Nat /\ dropped' \in Nat
    BY <1>4 DEF Drop, PermitBack, QueueInv
  <2>3. job' \in [Jobs -> {"free", "pending", "running", "done"}]
    BY <1>4 DEF Drop, QueueInv
  <2>4. CASE pc[c] = "queued"
    <3>1. PICK k \in DOMAIN queue : queue[k] = c /\ queue' = RemoveAt(queue, k)
      BY <1>4, <2>4 DEF Drop
    <3>2. queue \in Seq(Callers) /\ k \in 1..Len(queue) /\ Len(queue) \in Nat
      BY DEF QueueInv
    <3>3. /\ RemoveAt(queue, k) \in Seq(Callers) /\ Len(RemoveAt(queue, k)) = Len(queue) - 1
          /\ \A i \in 1..(Len(queue) - 1) : RemoveAt(queue, k)[i] = IF i < k THEN queue[i] ELSE queue[i + 1]
      BY <3>2, Spliced, Zenon
    <3>4. /\ queue' \in Seq(Callers) /\ DOMAIN queue' = 1..(Len(queue) - 1)
          /\ \A i \in DOMAIN queue' : queue'[i] = IF i < k THEN queue[i] ELSE queue[i + 1]
      BY <3>1, <3>3
    <3> DEFINE From(i) == IF i < k THEN i ELSE i + 1
    <3>5. \A i \in DOMAIN queue' : From(i) \in DOMAIN queue /\ From(i) # k /\ queue'[i] = queue[From(i)]
      BY <3>2, <3>4
    <3>6. \A i, j \in DOMAIN queue' : From(i) = From(j) => i = j
      BY <3>2, <3>4
    <3> HIDE DEF From
    <3>7. \A i \in DOMAIN queue' : queue'[i] # c /\ queue'[i] \in Callers /\ pc[queue'[i]] = "queued"
      BY <3>1, <3>2, <3>5 DEF QueueInv
    <3>8. \A i, j \in DOMAIN queue' : queue'[i] = queue'[j] => i = j
      BY <3>5, <3>6 DEF QueueInv
    <3> QED
      BY <2>1, <2>2, <2>3, <3>4, <3>7, <3>8 DEF QueueInv
  <2>5. CASE pc[c] # "queued"
    <3>1. UNCHANGED queue /\ \A i \in DOMAIN queue : queue[i] # c /\ queue[i] \in Callers
      BY <1>4, <2>5 DEF Drop, QueueInv
    <3> QED
      BY <2>1, <2>2, <2>3, <3>1 DEF QueueInv
  <2> QED
    BY <2>4, <2>5
<1>5. ASSUME NEW j \in Jobs, JobStep(j) PROVE QueueInv'
  <2>1. UNCHANGED <<permits, queue, pc, mine, dropped>>
    BY <1>5 DEF JobStep, Take, TakeFails, Return, Panic
  <2>2. job' \in [Jobs -> {"free", "pending", "running", "done"}]
    BY <1>5 DEF JobStep, Take, TakeFails, Return, Panic, Ended, QueueInv
  <2>3. idle' \in Nat
    BY <1>5 DEF JobStep, Take, TakeFails, Return, Panic, QueueInv
  <2>4. open' \in Nat
    <3>1. CASE Panic(j)
      BY <3>1, RunsOnOne DEF Panic, CountInv
    <3>2. CASE ~Panic(j)
      BY <1>5, <3>2 DEF JobStep, Take, TakeFails, Return, QueueInv
    <3> QED
      BY <3>1, <3>2
  <2> QED
    BY <2>1, <2>2, <2>3, <2>4 DEF QueueInv
<1> QED
  BY <1>0, <1>1, <1>2, <1>3, <1>4, <1>5 DEF Next

(* The sizes of the three sets after a step, from what joins and leaves.   *)
LEMMA Joins ==
  ASSUME NEW S, NEW x, IsFiniteSet(S)
  PROVE  /\ x \notin S => Cardinality(S \cup {x}) = Cardinality(S) + 1
         /\ x \in S => Cardinality(S \ {x}) = Cardinality(S) - 1
  BY FS_AddElement, FS_RemoveElement

(* Every step keeps the counts.                                            *)
LEMMA StepCount == QueueInv /\ CountInv /\ [Next]_vars => CountInv'
<1> USE PoolAssumption
<1> SUFFICES ASSUME QueueInv, CountInv, [Next]_vars PROVE CountInv'
  OBVIOUS
<1> USE DEF PoolAccounted, PermitsConserved, ConnectionsAccounted
<1>s. /\ IsFiniteSet(Awaiting) /\ Cardinality(Awaiting) \in Nat
      /\ IsFiniteSet(Busy) /\ Cardinality(Busy) \in Nat
      /\ IsFiniteSet(Working) /\ Cardinality(Working) \in Nat
      /\ Cardinality(Working) <= Cardinality(Busy)
  BY Sizes
<1>c. /\ permits + Cardinality(Awaiting) = MaxConns /\ open = idle + Cardinality(Working)
      /\ Cardinality(Busy) + permits <= MaxConns + dropped /\ open <= MaxConns + dropped
      /\ permits \in Nat /\ idle \in Nat /\ open \in Nat /\ dropped \in Nat /\ MaxConns \in Nat
  BY DEF CountInv, QueueInv, Awaiting
<1>d. ASSUME permits' + Cardinality(Awaiting') = MaxConns, open' = idle' + Cardinality(Working'),
             Cardinality(Busy') + permits' <= MaxConns + dropped', open' <= MaxConns + dropped'
      PROVE  CountInv'
  BY <1>d DEF CountInv, Awaiting
<1>0. CASE UNCHANGED vars
  <2>1. Awaiting' = Awaiting /\ Busy' = Busy /\ Working' = Working
    BY <1>0 DEF vars, Awaiting, Busy, Working
  <2> QED
    BY <1>0, <1>c, <1>d, <2>1 DEF vars
<1>1. ASSUME NEW c \in Callers, Request(c) PROVE CountInv'
  <2>1. Awaiting' = Awaiting /\ Busy' = Busy /\ Working' = Working
    BY <1>1 DEF Request, Awaiting, Busy, Working, QueueInv
  <2> QED
    BY <1>1, <1>c, <1>d, <2>1 DEF Request
<1>2. ASSUME NEW c \in Callers, Acquire(c) PROVE CountInv'
  <2>1. c = queue[1] /\ 1 \in DOMAIN queue
    BY <1>2 DEF Acquire, QueueInv
  <2>2. pc[c] = "queued"
    BY <2>1 DEF QueueInv
  <2>3. Awaiting' = Awaiting \cup {c} /\ c \notin Awaiting
    BY <1>2, <2>2 DEF Acquire, Awaiting, QueueInv
  <2>4. PICK j \in Jobs : job[j] = "free" /\ job' = [job EXCEPT ![j] = "pending"]
    BY <1>2 DEF Acquire
  <2>5. Busy' = Busy \cup {j} /\ j \notin Busy /\ Working' = Working
    BY <2>4 DEF Busy, Working, QueueInv
  <2>6. Cardinality(Awaiting') = Cardinality(Awaiting) + 1 /\ Cardinality(Busy') = Cardinality(Busy) + 1
    BY <1>s, <2>3, <2>5, Joins
  <2>7. permits' = permits - 1 /\ UNCHANGED <<idle, open, dropped>>
    BY <1>2 DEF Acquire
  <2> QED
    BY <1>s, <1>c, <1>d, <2>5, <2>6, <2>7
<1>3. ASSUME NEW c \in Callers, Complete(c) PROVE CountInv'
  <2>1. mine[c] \in Jobs /\ job[mine[c]] = "done" /\ pc[c] = "awaiting"
    BY <1>3 DEF Complete, QueueInv
  <2>2. Awaiting' = Awaiting \ {c} /\ c \in Awaiting
    BY <1>3 DEF Complete, Awaiting, QueueInv
  <2>3. Busy' = Busy \ {mine[c]} /\ mine[c] \in Busy /\ Working' = Working
    BY <1>3, <2>1 DEF Complete, Busy, Working, QueueInv
  <2>4. Cardinality(Awaiting') = Cardinality(Awaiting) - 1 /\ Cardinality(Busy') = Cardinality(Busy) - 1
    BY <1>s, <2>2, <2>3, Joins
  <2>5. permits' = permits + 1 /\ UNCHANGED <<idle, open, dropped>>
    BY <1>3 DEF Complete
  <2> QED
    BY <1>s, <1>c, <1>d, <2>3, <2>4, <2>5
<1>4. ASSUME NEW c \in Callers, Drop(c) PROVE CountInv'
  <2>1. UNCHANGED <<idle, open>> /\ permits' = (IF pc[c] = "awaiting" THEN permits + 1 ELSE permits)
    BY <1>4 DEF Drop, PermitBack
  <2>2. job' = [j \in Jobs |-> IF j = mine[c] /\ job[j] = "done" THEN "free" ELSE job[j]]
    BY <1>4 DEF Drop
  <2>3. Working' = Working
    BY <2>2 DEF Working, QueueInv
  <2>4. CASE pc[c] # "awaiting"
    <3>1. Awaiting' = Awaiting
      BY <1>4, <2>4 DEF Drop, Awaiting, QueueInv
    <3>2. UNCHANGED dropped
      BY <1>4, <2>4 DEF Drop
    <3>3. Busy' \in SUBSET Busy
      BY <2>2 DEF Busy, QueueInv
    <3>4. Cardinality(Busy') <= Cardinality(Busy) /\ Cardinality(Busy') \in Nat
      BY <1>s, <3>3, FS_Subset, FS_CardinalityType
    <3> QED
      BY <1>s, <1>c, <1>d, <2>1, <2>3, <2>4, <3>1, <3>2, <3>4
  <2>5. CASE pc[c] = "awaiting"
    <3>1. Awaiting' = Awaiting \ {c} /\ c \in Awaiting /\ mine[c] \in Jobs
      BY <1>4, <2>5 DEF Drop, Awaiting, QueueInv
    <3>2. Cardinality(Awaiting') = Cardinality(Awaiting) - 1
      BY <1>s, <3>1, Joins
    <3>3. CASE job[mine[c]] = "done"
      <4>1. UNCHANGED dropped
        BY <1>4, <3>3 DEF Drop
      <4>2. Busy' = Busy \ {mine[c]} /\ mine[c] \in Busy
        BY <2>2, <3>1, <3>3 DEF Busy, QueueInv
      <4>3. Cardinality(Busy') = Cardinality(Busy) - 1
        BY <1>s, <4>2, Joins
      <4> QED
        BY <1>s, <1>c, <1>d, <2>1, <2>3, <2>5, <3>2, <4>1, <4>3
    <3>4. CASE job[mine[c]] # "done"
      <4>1. dropped' = dropped + 1
        BY <1>4, <2>5, <3>4 DEF Drop
      <4>2. Busy' = Busy
        BY <2>2, <3>4 DEF Busy, QueueInv
      <4> QED
        BY <1>s, <1>c, <1>d, <2>1, <2>3, <2>5, <3>2, <4>1, <4>2
    <3> QED
      BY <3>3, <3>4
  <2> QED
    BY <2>4, <2>5
<1>5. ASSUME NEW j \in Jobs, JobStep(j) PROVE CountInv'
  <2>1. Awaiting' = Awaiting /\ UNCHANGED <<permits, dropped>>
    BY <1>5 DEF JobStep, Take, TakeFails, Return, Panic, Awaiting
  <2>2. CASE Take(j)
    <3>1. Busy' = Busy /\ Working' = Working \cup {j} /\ j \notin Working
      BY <2>2 DEF Take, Busy, Working, QueueInv
    <3>2. Cardinality(Working') = Cardinality(Working) + 1
      BY <1>s, <3>1, Joins
    <3>3. Cardinality(Working') <= Cardinality(Busy')
      <4>1. Working' \in SUBSET Busy'
        BY DEF Working, Busy
      <4> QED
        BY <1>s, <3>1, <4>1, FS_Subset
    <3>4. CASE idle > 0
      BY <1>s, <1>c, <1>d, <2>1, <2>2, <3>1, <3>2, <3>4 DEF Take
    <3>5. CASE ~(idle > 0)
      <4>1. idle = 0 /\ open' = open + 1 /\ UNCHANGED idle
        BY <1>c, <2>2, <3>5 DEF Take
      <4> QED
        BY <1>s, <1>c, <1>d, <2>1, <3>1, <3>2, <3>3, <4>1
    <3> QED
      BY <3>4, <3>5
  <2>3. CASE TakeFails(j) \/ Return(j) \/ Panic(j)
    <3>1. job' = [job EXCEPT ![j] = Ended(j)] /\ Ended(j) \in {"done", "free"}
          /\ job[j] \in {"pending", "running"}
      BY <2>3 DEF TakeFails, Return, Panic, Ended
    <3> HIDE DEF Ended
    <3>2. Busy' \in SUBSET Busy
      BY <3>1 DEF Busy, QueueInv
    <3>3. Cardinality(Busy') <= Cardinality(Busy) /\ Cardinality(Busy') \in Nat
      BY <1>s, <3>2, FS_Subset, FS_CardinalityType
    <3>4. Working' = Working \ {j}
      BY <3>1 DEF Working, QueueInv
    <3>5. CASE TakeFails(j)
      <4>1. Working' = Working
        BY <3>4, <3>5 DEF Working, TakeFails
      <4> QED
        BY <1>s, <1>c, <1>d, <2>1, <3>3, <3>5, <4>1 DEF TakeFails
    <3>6. CASE Return(j) \/ Panic(j)
      <4>1. j \in Working
        BY <3>6 DEF Return, Panic, Working
      <4>2. Cardinality(Working') = Cardinality(Working) - 1
        BY <1>s, <3>4, <4>1, Joins
      <4>3. \/ idle' = idle + 1 /\ open' = open
            \/ idle' = idle /\ open' = open - 1
        BY <3>6 DEF Return, Panic
      <4> QED
        BY <1>s, <1>c, <1>d, <2>1, <3>3, <4>2, <4>3
    <3> QED
      BY <2>3, <3>5, <3>6
  <2> QED
    BY <1>5, <2>2, <2>3 DEF JobStep
<1> QED
  BY <1>0, <1>1, <1>2, <1>3, <1>4, <1>5 DEF Next

(* Permits and connections are neither lost nor made, whatever panics,     *)
(* fails to open or is dropped.                                            *)
THEOREM NothingLeaks == Spec => []PoolAccounted
<1>1. CountInv => PoolAccounted
  BY DEF CountInv
<1> QED
  BY <1>1, InitPool, StepQueue, StepCount, PTL DEF Spec

(* Only dropped futures take operations and connections past max_conns,    *)
(* each by one.                                                            *)
THEOREM Bounded == Spec => []BoundedUnlessDropped
<1>1. QueueInv /\ CountInv => BoundedUnlessDropped
  BY Sizes, PoolAssumption DEF QueueInv, CountInv, BoundedUnlessDropped
<1> QED
  BY <1>1, InitPool, StepQueue, StepCount, PTL DEF Spec
=============================================================================
