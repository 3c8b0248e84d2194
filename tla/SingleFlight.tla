---------------------------- MODULE SingleFlight ----------------------------
(***************************************************************************)
(* What a lazily loaded resource promises: one caller at a time loads it,  *)
(* everybody else finds it loading, full or failed, and the resource is in *)
(* memory exactly when the status says so.  LazyModel implements this when *)
(* no wait for a load can expire.                                          *)
(***************************************************************************)

CONSTANTS
  Threads,  (* The callers.                         *)
  NoOne     (* The holder when nobody is loading.   *)

VARIABLES
  status,   (* "empty", "loading", "full" or "failed".          *)
  holder,   (* The caller that is loading, or NoOne.            *)
  resident  (* Whether the loaded resource is held in memory.   *)

vars == <<status, holder, resident>>

Init == /\ status = "empty"
        /\ holder = NoOne
        /\ resident = FALSE

(* A caller finds nothing loaded, or drops what has idled, and loads.      *)
Begin(t) == /\ status \in {"empty", "full"}
            /\ status' = "loading"
            /\ holder' = t
            /\ resident' = FALSE

Succeed(t) == /\ holder = t
              /\ status' = "full"
              /\ holder' = NoOne
              /\ resident' = TRUE

Fail(t) == /\ holder = t
           /\ status' = "failed"
           /\ holder' = NoOne
           /\ UNCHANGED resident

(* A failure is kept until somebody asks for a retry.                      *)
Clear == /\ status = "failed"
         /\ status' = "empty"
         /\ UNCHANGED <<holder, resident>>

Next == Clear \/ \E t \in Threads : Begin(t) \/ Succeed(t) \/ Fail(t)

Spec == Init /\ [][Next]_vars
=============================================================================
