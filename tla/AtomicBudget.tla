---------------------------- MODULE AtomicBudget ----------------------------
(***************************************************************************)
(* What a token budget promises its concurrent users: every reservation    *)
(* and release takes effect in one step, and a reservation is granted only *)
(* if the whole of it fits.                                                *)
(***************************************************************************)
EXTENDS Naturals

CONSTANTS
  Total,   (* The capacity.                              *)
  Amounts  (* The sizes users reserve and release.       *)

VARIABLE used

Init == used = 0

Reserve(n) == used + n <= Total /\ used' = used + n

Release(n) == used' = IF n <= used THEN used - n ELSE 0

Reset == used' = 0

Next == Reset \/ \E n \in Amounts : Reserve(n) \/ Release(n)

Spec == Init /\ [][Next]_used
=============================================================================
