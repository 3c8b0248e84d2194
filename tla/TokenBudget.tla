----------------------------- MODULE TokenBudget -----------------------------
(***************************************************************************)
(* The token budget of src/src/tokens/budget.rs: a counter changed by      *)
(* compare-and-swap loops.  A step is one atomic operation; what a thread  *)
(* computes between two of them is part of the first.  The weak            *)
(* compare-and-swap may fail although nobody interfered.                   *)
(***************************************************************************)
EXTENDS Naturals, Functions, FiniteSets

CONSTANTS
  Threads,  (* The users of the budget.                                    *)
  Total,    (* TokenBudget.total                                           *)
  MaxU32,   (* u32::MAX                                                    *)
  Amounts,  (* The sizes threads reserve.                                  *)
  MaxWipes  (* Bound: how often reset may throw reservations away.         *)

ASSUME BudgetAssumption ==
  /\ IsFiniteSet(Threads)
  /\ MaxU32 \in Nat
  /\ Total \in 0..MaxU32
  /\ Amounts \subseteq 0..MaxU32
  /\ MaxWipes \in Nat

VARIABLES
  used,   (* TokenBudget.used                                              *)
  pc,     (* Each thread's next operation: "load", "swap", or "idle".      *)
  job,    (* What a thread is doing: "reserve" or "release".               *)
  seen,   (* The value it loaded; 0 when it is not about to swap.          *)
  n,      (* The amount it reserves or releases.                           *)
  held,   (* History: what each thread was granted and has not given back. *)
  wipes   (* History: how often a reset has thrown reservations away.      *)

vars == <<used, pc, job, seen, n, held, wipes>>

(* The type of every variable.                                             *)
TypeOK ==
  /\ used \in 0..MaxU32
  /\ pc \in [Threads -> {"idle", "load", "swap"}]
  /\ job \in [Threads -> {"reserve", "release"}]
  /\ seen \in [Threads -> 0..MaxU32]
  /\ n \in [Threads -> 0..MaxU32]
  /\ held \in [Threads -> Nat]
  /\ wipes \in 0..MaxWipes

----------------------------------------------------------------------------
(* Steps of the code.                                                      *)

SaturatingAdd(a, b) == IF a + b > MaxU32 THEN MaxU32 ELSE a + b

(* The mutant goes below zero.                                             *)
UnderflowingSub(a, b) == a - b

SaturatingSub(a, b) == IF b > a THEN 0 ELSE a - b

Init ==
  /\ used = 0
  /\ pc = [t \in Threads |-> "idle"]
  /\ job = [t \in Threads |-> "reserve"]
  /\ seen = [t \in Threads |-> 0]
  /\ n = [t \in Threads |-> 0]
  /\ held = [t \in Threads |-> 0]
  /\ wipes = 0

(* A thread calls try_reserve or release.                                  *)
Begin(t, j, k) ==
  /\ pc[t] = "idle"
  /\ pc' = [pc EXCEPT ![t] = "load"]
  /\ job' = [job EXCEPT ![t] = j]
  /\ n' = [n EXCEPT ![t] = k]
  /\ UNCHANGED <<used, seen, held, wipes>>

(* A user reserves any amount, or gives back a part of what it holds.      *)
Call(t) ==
  \E k \in Amounts :
    \/ Begin(t, "reserve", k)
    \/ k <= held[t] /\ Begin(t, "release", k)

(* The value a thread would store, from the value it saw.                  *)
New(t, value) ==
  IF job[t] = "reserve" THEN SaturatingAdd(value, n[t]) ELSE SaturatingSub(value, n[t])

(* The mutant refuses only when nothing is left.                           *)
RefusesWhenFull(t) == job[t] = "reserve" /\ used >= Total

Refuses(t) == job[t] = "reserve" /\ SaturatingAdd(used, n[t]) > Total

(* used.load, and try_reserve's return of false.                           *)
Load(t) ==
  /\ pc[t] = "load"
  /\ IF Refuses(t)
       THEN pc' = [pc EXCEPT ![t] = "idle"] /\ UNCHANGED seen
       ELSE pc' = [pc EXCEPT ![t] = "swap"] /\ seen' = [seen EXCEPT ![t] = used]
  /\ UNCHANGED <<used, job, n, held, wipes>>

(* compare_exchange_weak succeeds: the call returns.  The mutant stores    *)
(* without comparing.                                                      *)
StoreBlindly(t) ==
  /\ pc[t] = "swap"
  /\ used' = New(t, seen[t])
  /\ held' = [held EXCEPT ![t] = IF job[t] = "reserve" THEN @ + n[t] ELSE @ - n[t]]
  /\ pc' = [pc EXCEPT ![t] = "idle"]
  /\ seen' = [seen EXCEPT ![t] = 0]
  /\ UNCHANGED <<job, n, wipes>>

Swap(t) ==
  /\ pc[t] = "swap"
  /\ used = seen[t]
  /\ used' = New(t, seen[t])
  /\ held' = [held EXCEPT ![t] = IF job[t] = "reserve" THEN @ + n[t] ELSE @ - n[t]]
  /\ pc' = [pc EXCEPT ![t] = "idle"]
  /\ seen' = [seen EXCEPT ![t] = 0]
  /\ UNCHANGED <<job, n, wipes>>

(* compare_exchange_weak fails, for a reason or for none: load again.      *)
SwapFails(t) ==
  /\ pc[t] = "swap"
  /\ pc' = [pc EXCEPT ![t] = "load"]
  /\ seen' = [seen EXCEPT ![t] = 0]
  /\ UNCHANGED <<used, job, n, held, wipes>>

(* reset throws away what is reserved; the holders do not know.            *)
Reset ==
  /\ used' = 0
  /\ \/ (\A t \in Threads : held[t] = 0) /\ UNCHANGED wipes
     \/ wipes < MaxWipes /\ wipes' = wipes + 1
  /\ UNCHANGED <<pc, job, seen, n, held>>

Next == Reset \/ \E t \in Threads : Call(t) \/ Load(t) \/ Swap(t) \/ SwapFails(t)

Spec == Init /\ [][Next]_vars

----------------------------------------------------------------------------
(* Properties.                                                             *)

(* The budget is never overdrawn: no interleaving of reservations that     *)
(* each saw room, of releases and of resets takes used above total.        *)
WithinTotal == used <= Total

(* Conservation: until a reset throws reservations away, used is what the  *)
(* threads hold; no compare-and-swap loses or repeats an update.           *)
HeldTokens == FoldFunction(LAMBDA a, b : a + b, 0, held)

Conservation == wipes = 0 => used = HeldTokens

(* The loops are linearizable: to its users the budget is AtomicBudget,    *)
(* provided that total is not u32::MAX.                                    *)
Atomic == INSTANCE AtomicBudget

ImplementsAtomicBudget == Atomic!Spec
=============================================================================
