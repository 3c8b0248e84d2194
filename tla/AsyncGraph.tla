------------------------------ MODULE AsyncGraph ------------------------------
(***************************************************************************)
(* The asynchronous handle of src/src/graph/async_graph.rs: one connection *)
(* behind a mutex, shared by all clones.  A call hands a closure to the    *)
(* blocking pool; the closure locks the mutex, runs the operation on the   *)
(* connection and lets go.  What an operation does to the graph is the     *)
(* business of GraphStore: here a database is the writes it has had.        *)
(***************************************************************************)
EXTENDS Naturals, Sequences, FiniteSets, SequencesExt

CONSTANTS
  Tasks,       (* Asynchronous tasks, each awaiting one call at a time.    *)
  MaxCalls     (* Bound: calls of a behavior.                              *)

VARIABLES
  calls,       (* Each call: its kind, where its closure is, its result    *)
               (* and, for the properties, the writes that were known to   *)
               (* be done when it was made.                                *)
  awaited,     (* The call a task awaits, or 0.                            *)
  holder,      (* The call whose closure holds the mutex, or 0.            *)
  poisoned,    (* A closure has panicked with the mutex.                   *)
  written,     (* The writes the database has had, in order.               *)
  beforePanic  (* History: how many they were when the mutex was poisoned. *)

asyncVars == <<calls, awaited, holder, poisoned, written, beforePanic>>

AsyncInit ==
  /\ calls = <<>>
  /\ awaited = [t \in Tasks |-> 0]
  /\ holder = 0 /\ poisoned = FALSE
  /\ written = <<>> /\ beforePanic = 0

Known(kind) == {i \in DOMAIN calls : calls[i].kind = kind /\ calls[i].at = "answered" /\ calls[i].ok}

(* with_conn spawns the closure: it will run whether awaited or not.       *)
WithConn(t, kind) ==
  /\ awaited[t] = 0 /\ Len(calls) < MaxCalls
  /\ calls' = Append(calls, [kind |-> kind, at |-> "spawned", ok |-> FALSE, seen |-> {}, known |-> Known("write")])
  /\ awaited' = [awaited EXCEPT ![t] = Len(calls) + 1]
  /\ UNCHANGED <<holder, poisoned, written, beforePanic>>

LockIgnoringPoison(i) ==
  /\ calls[i].at = "spawned" /\ holder = 0
  /\ holder' = i
  /\ calls' = [calls EXCEPT ![i].at = "locked"]
  /\ UNCHANGED <<awaited, poisoned, written, beforePanic>>

Lock(i) ==
  /\ calls[i].at = "spawned" /\ holder = 0 /\ ~poisoned
  /\ holder' = i
  /\ calls' = [calls EXCEPT ![i].at = "locked"]
  /\ UNCHANGED <<awaited, poisoned, written, beforePanic>>

(* From the first panic on the mutex is poisoned for every call.           *)
LockPoisoned(i) ==
  /\ calls[i].at = "spawned" /\ poisoned
  /\ calls' = [calls EXCEPT ![i].at = "over"]
  /\ UNCHANGED <<awaited, holder, poisoned, written, beforePanic>>

(* A write is one statement or one transaction: all of it or nothing.      *)
RunClosure(i, ok) ==
  /\ calls[i].at = "locked"
  /\ holder' = 0
  /\ written' = IF ok /\ calls[i].kind = "write" THEN Append(written, i) ELSE written
  /\ calls' = [calls EXCEPT ![i] = [@ EXCEPT !.at = "over", !.ok = ok, !.seen = IF ok THEN ToSet(written) ELSE {}]]
  /\ UNCHANGED <<awaited, poisoned, beforePanic>>

(* The join error is an error of the store for whoever awaits the call.    *)
PanicInClosure(i) ==
  /\ calls[i].at = "locked"
  /\ holder' = 0 /\ poisoned' = TRUE /\ beforePanic' = Len(written)
  /\ calls' = [calls EXCEPT ![i].at = "over"]
  /\ UNCHANGED <<awaited, written>>

Await(t) ==
  /\ awaited[t] # 0 /\ calls[awaited[t]].at = "over"
  /\ calls' = [calls EXCEPT ![awaited[t]].at = "answered"]
  /\ awaited' = [awaited EXCEPT ![t] = 0]
  /\ UNCHANGED <<holder, poisoned, written, beforePanic>>

(* Dropping a future detaches its closure.                                 *)
DropFuture(t) ==
  /\ awaited[t] # 0
  /\ awaited' = [awaited EXCEPT ![t] = 0]
  /\ UNCHANGED <<calls, holder, poisoned, written, beforePanic>>

AsyncNext ==
  \/ \E t \in Tasks : \/ \E kind \in {"read", "write"} : WithConn(t, kind)
                      \/ Await(t) \/ DropFuture(t)
  \/ \E i \in DOMAIN calls : \/ Lock(i) \/ LockPoisoned(i) \/ PanicInClosure(i)
                             \/ \E ok \in BOOLEAN : RunClosure(i, ok)

AsyncSpec == AsyncInit /\ [][AsyncNext]_asyncVars

----------------------------------------------------------------------------

Position(i) == {k \in DOMAIN written : written[k] = i}

(* What a call answers is what became of it: a write that is reported done *)
(* is in the database once, one that is reported failed never is, whatever *)
(* futures were dropped; a call made after a write was reported comes      *)
(* after it; and nothing is written after a panic, which may have left an  *)
(* operation half way.                                                     *)
AnswersTrue ==
  /\ \A i \in DOMAIN calls :
       /\ calls[i].kind = "write" =>
            Cardinality(Position(i)) = (IF calls[i].at \in {"over", "answered"} /\ calls[i].ok THEN 1 ELSE 0)
       /\ calls[i].ok => calls[i].known \subseteq calls[i].seen
       /\ \A j \in calls[i].known : \A k \in Position(i), l \in Position(j) : l < k
  /\ poisoned => Len(written) = beforePanic
=============================================================================
