------------------------------ MODULE AsyncPool ------------------------------
(***************************************************************************)
(* The connection pool of src/src/graph/async_pool.rs.  A caller's future  *)
(* waits for a permit of the semaphore, then hands a job to the blocking   *)
(* pool: take an idle connection or open one, run the operation, put the   *)
(* connection back.  The future holds the permit, not the job: dropping    *)
(* the future gives the permit back and leaves the job running.            *)
(***************************************************************************)
EXTENDS Naturals, Sequences, FiniteSets, SequencesExt

CONSTANTS
  Callers,   (* Futures, each running one operation after another.         *)
  Jobs,      (* Bound: closures that exist in the blocking pool at once.   *)
  MaxConns,  (* Permits of the semaphore: max_conns.max(1).                *)
  MaxDrops,  (* Bound: how many futures are dropped with a job under way.  *)
  NoJob

ASSUME PoolAssumption ==
  /\ IsFiniteSet(Callers) /\ IsFiniteSet(Jobs) /\ NoJob \notin Jobs
  /\ MaxConns \in Nat \ {0} /\ MaxDrops \in Nat

VARIABLES
  permits,  (* Permits nobody holds.                                       *)
  queue,    (* Callers waiting for one: tokio's semaphore is fair.         *)
  pc,       (* Each caller: "idle", "queued" or "awaiting" its job.        *)
  mine,     (* The job a caller awaits.                                    *)
  job,      (* Each job: "free", "pending", "running" or "done".           *)
  idle,     (* How many connections PoolInner.idle holds.                  *)
  open,     (* How many connections to the database are open.              *)
  dropped   (* History: how many futures were dropped with a job under way.*)

vars == <<permits, queue, pc, mine, job, idle, open, dropped>>

(* The type of every variable.                                             *)
TypeOK ==
  /\ permits \in 0..MaxConns
  /\ queue \in Seq(Callers)
  /\ pc \in [Callers -> {"idle", "queued", "awaiting"}]
  /\ mine \in [Callers -> Jobs \cup {NoJob}]
  /\ job \in [Jobs -> {"free", "pending", "running", "done"}]
  /\ idle \in Nat
  /\ open \in Nat
  /\ dropped \in 0..MaxDrops

----------------------------------------------------------------------------
(* Steps of the code.                                                      *)

(* open opens the first connection and parks it.                           *)
Init ==
  /\ permits = MaxConns
  /\ queue = <<>>
  /\ pc = [c \in Callers |-> "idle"]
  /\ mine = [c \in Callers |-> NoJob]
  /\ job = [j \in Jobs |-> "free"]
  /\ idle = 1
  /\ open = 1
  /\ dropped = 0

(* An operation of the pool: with_conn joins the semaphore's queue.        *)
Request(c) ==
  /\ pc[c] = "idle"
  /\ pc' = [pc EXCEPT ![c] = "queued"]
  /\ queue' = Append(queue, c)
  /\ UNCHANGED <<permits, mine, job, idle, open, dropped>>

(* The first in the queue gets a permit and spawns its job.  The mutant    *)
(* spawns first and asks for the permit later.                             *)
SpawnUnpermitted(c) ==
  /\ queue # <<>> /\ Head(queue) = c
  /\ queue' = Tail(queue)
  /\ pc' = [pc EXCEPT ![c] = "awaiting"]
  /\ permits' = IF permits > 0 THEN permits - 1 ELSE 0
  /\ \E j \in Jobs : /\ job[j] = "free"
                     /\ job' = [job EXCEPT ![j] = "pending"]
                     /\ mine' = [mine EXCEPT ![c] = j]
  /\ UNCHANGED <<idle, open, dropped>>

Acquire(c) ==
  /\ queue # <<>> /\ Head(queue) = c /\ permits > 0
  /\ queue' = Tail(queue)
  /\ pc' = [pc EXCEPT ![c] = "awaiting"]
  /\ permits' = permits - 1
  /\ \E j \in Jobs : /\ job[j] = "free"
                     /\ job' = [job EXCEPT ![j] = "pending"]
                     /\ mine' = [mine EXCEPT ![c] = j]
  /\ UNCHANGED <<idle, open, dropped>>

(* take: pop an idle connection, or open one.                              *)
Take(j) ==
  /\ job[j] = "pending"
  /\ job' = [job EXCEPT ![j] = "running"]
  /\ IF idle > 0 THEN idle' = idle - 1 /\ UNCHANGED open
                 ELSE open' = open + 1 /\ UNCHANGED idle
  /\ UNCHANGED <<permits, queue, pc, mine, dropped>>

(* A job whose future is gone leaves nothing behind when it ends.          *)
Ended(j) == IF \E c \in Callers : mine[c] = j THEN "done" ELSE "free"

(* A connection cannot be opened: the job ends without one.                *)
TakeFails(j) ==
  /\ job[j] = "pending" /\ idle = 0
  /\ job' = [job EXCEPT ![j] = Ended(j)]
  /\ UNCHANGED <<permits, queue, pc, mine, idle, open, dropped>>

(* The operation is over: return_conn parks the connection.  The mutant    *)
(* forgets to when the future is gone.                                     *)
ReturnIfAwaited(j) ==
  /\ job[j] = "running"
  /\ job' = [job EXCEPT ![j] = Ended(j)]
  /\ idle' = IF Ended(j) = "done" THEN idle + 1 ELSE idle
  /\ UNCHANGED <<permits, queue, pc, mine, open, dropped>>

Return(j) ==
  /\ job[j] = "running"
  /\ job' = [job EXCEPT ![j] = Ended(j)]
  /\ idle' = idle + 1
  /\ UNCHANGED <<permits, queue, pc, mine, open, dropped>>

(* The operation panics: the connection is dropped with the closure.       *)
Panic(j) ==
  /\ job[j] = "running"
  /\ job' = [job EXCEPT ![j] = Ended(j)]
  /\ open' = open - 1
  /\ UNCHANGED <<permits, queue, pc, mine, idle, dropped>>

(* The future sees the end of its job and drops the permit.  The mutant    *)
(* forgets it.                                                             *)
CompleteKeepingPermit(c) ==
  /\ pc[c] = "awaiting" /\ job[mine[c]] = "done"
  /\ job' = [job EXCEPT ![mine[c]] = "free"]
  /\ mine' = [mine EXCEPT ![c] = NoJob]
  /\ pc' = [pc EXCEPT ![c] = "idle"]
  /\ UNCHANGED <<permits, queue, idle, open, dropped>>

Complete(c) ==
  /\ pc[c] = "awaiting" /\ job[mine[c]] = "done"
  /\ job' = [job EXCEPT ![mine[c]] = "free"]
  /\ mine' = [mine EXCEPT ![c] = NoJob]
  /\ permits' = permits + 1
  /\ pc' = [pc EXCEPT ![c] = "idle"]
  /\ UNCHANGED <<queue, idle, open, dropped>>

(* Dropping a future drops its permit, if it has one.  The mutant makes    *)
(* one up for a future in the queue.                                       *)
PermitMadeUp(c) == permits + 1

PermitBack(c) == IF pc[c] = "awaiting" THEN permits + 1 ELSE permits

(* The future is dropped: it leaves the queue, or its job is detached.     *)
Drop(c) ==
  /\ pc[c] # "idle"
  /\ IF pc[c] = "awaiting" /\ job[mine[c]] # "done"
       THEN dropped < MaxDrops /\ dropped' = dropped + 1
       ELSE UNCHANGED dropped
  /\ pc' = [pc EXCEPT ![c] = "idle"]
  /\ permits' = PermitBack(c)
  /\ IF pc[c] = "queued" THEN \E i \in DOMAIN queue : queue[i] = c /\ queue' = RemoveAt(queue, i)
                         ELSE UNCHANGED queue
  /\ mine' = [mine EXCEPT ![c] = NoJob]
  /\ job' = [j \in Jobs |-> IF j = mine[c] /\ job[j] = "done" THEN "free" ELSE job[j]]
  /\ UNCHANGED <<idle, open>>

JobStep(j) == Take(j) \/ TakeFails(j) \/ Return(j) \/ Panic(j)

Next ==
  \/ \E c \in Callers : Request(c) \/ Acquire(c) \/ Complete(c) \/ Drop(c)
  \/ \E j \in Jobs : JobStep(j)

Spec == Init /\ [][Next]_vars

(* Futures that can proceed are polled, and database operations end: each  *)
(* is a statement or two under a busy timeout.                             *)
Fairness ==
  /\ \A c \in Callers : WF_vars(Acquire(c)) /\ WF_vars(Complete(c))
  /\ \A j \in Jobs : WF_vars(JobStep(j))

FairSpec == Spec /\ Fairness

----------------------------------------------------------------------------
(* Properties.                                                             *)

Working == {j \in Jobs : job[j] = "running"}

(* Permits are neither lost nor made: each is free or with a future that   *)
(* awaits its job, across panics, failed opens and dropped futures.        *)
PermitsConserved ==
  permits + Cardinality({c \in Callers : pc[c] = "awaiting"}) = MaxConns

(* Connections are neither lost nor shared: each open one is parked or     *)
(* with the one job that took it.                                          *)
ConnectionsAccounted == open = idle + Cardinality(Working)

(* Nothing of the pool leaks, whatever panics, fails to open or is dropped.*)
PoolAccounted == PermitsConserved /\ ConnectionsAccounted

(* Every operation gets its turn, whatever becomes of those before it.     *)
RequestServed == \A c \in Callers : pc[c] = "queued" ~> pc[c] # "queued"

(* The semaphore bounds what futures await: only operations whose future   *)
(* was dropped can take the number of operations, and of connections to    *)
(* the database, past max_conns.                                           *)
BoundedUnlessDropped ==
  /\ Cardinality(Working) <= MaxConns + dropped
  /\ open <= MaxConns + dropped

(* "max_conns bounds the number of concurrent operations".                 *)
BoundedOperations == Cardinality(Working) <= MaxConns
=============================================================================
