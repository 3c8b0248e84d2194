------------------------------ MODULE LazyModel ------------------------------
(***************************************************************************)
(* The lifecycle of a lazily loaded embedding model                        *)
(* (src/src/embedding/lazy.rs): what LazyFastembedProvider keeps behind    *)
(* its `inner` mutex and the condition variable, and the steps of          *)
(* ensure_model, reset and the locked section in which embed and           *)
(* embed_batch use the session.                                            *)
(*                                                                         *)
(* Every action is one critical section of the mutex, so the steps of the  *)
(* threads interleave exactly where the code unlocks: between ensure_model *)
(* and the use of the session, around the load, and in the wait.           *)
(*                                                                         *)
(* Time is abstract: a session is "recent" until the idle timeout passes.  *)
(* ModelState::Disabled is left out: no code constructs it.                *)
(***************************************************************************)

CONSTANTS
  Threads,     (* The threads calling the shared provider.                    *)
  IdleUnload,  (* idle_timeout_secs > 0: an idle session may be dropped.      *)
  WaitExpires, (* A load may outlast load_timeout_secs of some waiter.        *)
  NoOne        (* Stands for the loading thread when there is none.           *)

ASSUME LazyAssumption ==
  IdleUnload \in BOOLEAN /\ WaitExpires \in BOOLEAN /\ NoOne \notin Threads

VARIABLES
  state,     (* ModelState, without the message and flag of Failed.           *)
  panicked,  (* The flag of the last Failed.                                  *)
  provider,  (* Whether Inner.provider is Some: a session is in memory.       *)
  lastUsed,  (* Inner.last_used: "none", "recent", or "stale" once the idle   *)
             (* timeout has passed.                                           *)
  onDisk,    (* Whether the model's folder exists: is_model_cached.           *)
  pc,        (* Where each thread stands between two critical sections.       *)
  awake      (* Whether a parked thread has been notified since it parked.    *)

lazyVars == <<state, panicked, provider, lastUsed, onDisk, pc, awake>>

ModelStates == {"NotLoaded", "Loading", "Cached", "Ready", "Failed"}

PCs == {"idle", "ensure", "waiting", "loading", "ensured", "served"}

(* The type of every variable.                                             *)
LazyTypeOK ==
  /\ state \in ModelStates
  /\ panicked \in BOOLEAN
  /\ provider \in BOOLEAN
  /\ lastUsed \in {"none", "recent", "stale"}
  /\ onDisk \in BOOLEAN
  /\ pc \in [Threads -> PCs]
  /\ awake \in [Threads -> BOOLEAN]

----------------------------------------------------------------------------
(* Steps of the code.                                                      *)

(* reset and new both pick the state a model that is not loaded is in.     *)
Unloaded == IF onDisk THEN "Cached" ELSE "NotLoaded"

LazyInit ==
  /\ onDisk \in BOOLEAN
  /\ state = Unloaded
  /\ panicked = FALSE
  /\ provider = FALSE
  /\ lastUsed = "none"
  /\ pc = [t \in Threads |-> "idle"]
  /\ awake = [t \in Threads |-> FALSE]

Goto(t, l) == pc' = [pc EXCEPT ![t] = l]

NotifyAll == awake' = [t \in Threads |-> TRUE]

(* ensure_model drops a ready session that has idled too long.             *)
Evicts == state = "Ready" /\ IdleUnload /\ lastUsed = "stale"

(* A thread calls ensure_model, directly or from embed or embed_batch.     *)
CallEnsure(t) ==
  /\ pc[t] = "idle"
  /\ Goto(t, "ensure")
  /\ UNCHANGED <<state, panicked, provider, lastUsed, onDisk, awake>>

(* ensure_model finds a ready session: it returns Ok and does not refresh  *)
(* last_used.                                                              *)
EnsureReady(t) ==
  /\ pc[t] = "ensure"
  /\ state = "Ready" /\ ~Evicts
  /\ Goto(t, "ensured")
  /\ UNCHANGED <<state, panicked, provider, lastUsed, onDisk, awake>>

(* ensure_model returns the preserved error of the last attempt.           *)
EnsureFailed(t) ==
  /\ pc[t] = "ensure"
  /\ state = "Failed"
  /\ Goto(t, "idle")
  /\ UNCHANGED <<state, panicked, provider, lastUsed, onDisk, awake>>

(* Another thread is loading: park on the condition variable.              *)
EnsureWait(t) ==
  /\ pc[t] = "ensure"
  /\ state = "Loading"
  /\ Goto(t, "waiting")
  /\ awake' = [awake EXCEPT ![t] = FALSE]
  /\ UNCHANGED <<state, panicked, provider, lastUsed, onDisk>>

(* Nothing is loaded, or what was loaded has just been evicted: this       *)
(* thread loads, outside the lock.  The mutant does not claim the load     *)
(* before it unlocks.                                                      *)
LoadUnclaimed(t) ==
  /\ pc[t] = "ensure"
  /\ state \in {"NotLoaded", "Cached"} \/ Evicts
  /\ Goto(t, "loading")
  /\ UNCHANGED <<state, panicked, provider, lastUsed, onDisk, awake>>

EnsureLoad(t) ==
  /\ pc[t] = "ensure"
  /\ state \in {"NotLoaded", "Cached"} \/ Evicts
  /\ provider' = IF Evicts THEN FALSE ELSE provider
  /\ lastUsed' = IF Evicts THEN "none" ELSE lastUsed
  /\ state' = "Loading"
  /\ NotifyAll
  /\ Goto(t, "loading")
  /\ UNCHANGED <<panicked, onDisk>>

(* The loader creates the model's folder on its way, if it downloads; it   *)
(* may fail after that.                                                    *)
Download(t) ==
  /\ pc[t] = "loading" /\ ~onDisk
  /\ onDisk' = TRUE
  /\ UNCHANGED <<state, panicked, provider, lastUsed, pc, awake>>

(* The load returned a session: it is installed whatever the state has     *)
(* become since.  The mutant announces Ready before it stores the session. *)
ReadyBeforeSession(t) ==
  /\ pc[t] = "loading"
  /\ state' = "Ready"
  /\ lastUsed' = "recent"
  /\ NotifyAll
  /\ Goto(t, "ensured")
  /\ UNCHANGED <<panicked, provider, onDisk>>

LoadOk(t) ==
  /\ pc[t] = "loading"
  /\ state' = "Ready"
  /\ provider' = TRUE
  /\ lastUsed' = "recent"
  /\ NotifyAll
  /\ Goto(t, "ensured")
  /\ UNCHANGED <<panicked, onDisk>>

(* The load returned an error or panicked, and the panic was caught.  The  *)
(* mutants let the panic through, or forget to wake the waiters.           *)
LoadErrUncaught(t) ==
  /\ pc[t] = "loading"
  /\ Goto(t, "idle")
  /\ UNCHANGED <<state, panicked, provider, lastUsed, onDisk, awake>>

LoadErrSilently(t) ==
  /\ pc[t] = "loading"
  /\ state' = "Failed"
  /\ panicked' \in BOOLEAN
  /\ Goto(t, "idle")
  /\ UNCHANGED <<provider, lastUsed, onDisk, awake>>

LoadErr(t) ==
  /\ pc[t] = "loading"
  /\ state' = "Failed"
  /\ panicked' \in BOOLEAN
  /\ NotifyAll
  /\ Goto(t, "idle")
  /\ UNCHANGED <<provider, lastUsed, onDisk>>

(* A parked thread that finds the load over returns Ok if the model is     *)
(* ready and an error otherwise: the preserved one, or "unexpected state   *)
(* after wait".                                                            *)
LeaveWait(t) ==
  /\ state # "Loading"
  /\ Goto(t, IF state = "Ready" THEN "ensured" ELSE "idle")
  /\ UNCHANGED <<state, panicked, provider, lastUsed, onDisk, awake>>

(* wait_timeout_while: a notified thread re-checks the condition and parks *)
(* again while the model is loading.                                       *)
Wake(t) ==
  /\ pc[t] = "waiting" /\ awake[t]
  /\ \/ LeaveWait(t)
     \/ /\ state = "Loading"
        /\ awake' = [awake EXCEPT ![t] = FALSE]
        /\ UNCHANGED <<state, panicked, provider, lastUsed, onDisk, pc>>

(* The timeout of the wait: if the model is still loading the waiter marks *)
(* it failed, wakes everybody and returns an error.  The load goes on.     *)
(* The mutant waits without a timeout.                                     *)
NeverExpires(t) == FALSE /\ UNCHANGED lazyVars

Expire(t) ==
  /\ WaitExpires /\ pc[t] = "waiting"
  /\ \/ LeaveWait(t)
     \/ /\ state = "Loading"
        /\ state' = "Failed"
        /\ panicked' = FALSE
        /\ NotifyAll
        /\ Goto(t, "idle")
        /\ UNCHANGED <<provider, lastUsed, onDisk>>

(* embed and embed_batch lock again and use the session if there is one.   *)
(* last_used is refreshed either way.                                      *)
UseSession(t) ==
  /\ pc[t] = "ensured"
  /\ lastUsed' = "recent"
  /\ Goto(t, IF provider THEN "served" ELSE "idle")
  /\ UNCHANGED <<state, panicked, provider, onDisk, awake>>

(* The session itself reports an error, or a batch of the wrong length.    *)
SessionErr(t) ==
  /\ pc[t] = "ensured" /\ provider
  /\ lastUsed' = "recent"
  /\ Goto(t, "idle")
  /\ UNCHANGED <<state, panicked, provider, onDisk, awake>>

(* The call returns Ok.                                                    *)
Finish(t) ==
  /\ pc[t] \in {"ensured", "served"}
  /\ Goto(t, "idle")
  /\ UNCHANGED <<state, panicked, provider, lastUsed, onDisk, awake>>

(* reset: a no-op unless the state is Failed.  It neither notifies nor     *)
(* touches the session.                                                    *)
Reset ==
  /\ state = "Failed"
  /\ state' = Unloaded
  /\ UNCHANGED <<panicked, provider, lastUsed, onDisk, pc, awake>>

(* idle_timeout_secs pass without a call touching last_used.               *)
TimePasses ==
  /\ lastUsed = "recent"
  /\ lastUsed' = "stale"
  /\ UNCHANGED <<state, panicked, provider, onDisk, pc, awake>>

ThreadStep(t) ==
  \/ CallEnsure(t)
  \/ EnsureReady(t) \/ EnsureFailed(t) \/ EnsureWait(t) \/ EnsureLoad(t)
  \/ Download(t) \/ LoadOk(t) \/ LoadErr(t)
  \/ Wake(t) \/ Expire(t)
  \/ UseSession(t) \/ SessionErr(t) \/ Finish(t)

LazyNext == Reset \/ TimePasses \/ \E t \in Threads : ThreadStep(t)

LazySpec == LazyInit /\ [][LazyNext]_lazyVars

(* What the code needs to release its waiters: a runnable thread           *)
(* eventually gets the mutex, and a timer eventually fires.  Nothing is    *)
(* assumed of the load, which may hang in the ONNX runtime.                *)
EnsureStep(t) ==
  EnsureReady(t) \/ EnsureFailed(t) \/ EnsureWait(t) \/ EnsureLoad(t)

LazyFairness ==
  \A t \in Threads : /\ WF_lazyVars(EnsureStep(t))
                     /\ WF_lazyVars(Wake(t))
                     /\ WF_lazyVars(Expire(t))

LazyFairSpec == LazySpec /\ LazyFairness

----------------------------------------------------------------------------
(* Properties.                                                             *)

(* Whoever is told the model is Ready finds a session: eviction and the    *)
(* end of a load change the state and the session together.                *)
ReadyHasSession == state = "Ready" => provider

(* A model is Loading only while some thread really is loading it, however *)
(* loads that outlived a timeout, resets and new loads interleave: nobody  *)
(* parks for a load that no thread will end.                               *)
LoadingHasLoader == state = "Loading" => \E t \in Threads : pc[t] = "loading"

(* The state never promises what nobody holds or does.                     *)
PhaseSound == ReadyHasSession /\ LoadingHasLoader

(* No lost wakeup: a parked thread that nobody has notified since it       *)
(* parked still waits for a load in progress.                              *)
NoLostWakeup ==
  \A t \in Threads : pc[t] = "waiting" /\ ~awake[t] => state = "Loading"

(* Every waiter is released, even if the load it waits for never ends.     *)
WaiterReleased ==
  \A t \in Threads : pc[t] \in {"ensure", "waiting"}
                       ~> pc[t] \notin {"ensure", "waiting"}

(* Where no wait expires the provider is a single-flight cell: the thread  *)
(* that is loading holds it, and a session is in memory exactly when the   *)
(* model is Ready.                                                         *)
Loaders == {t \in Threads : pc[t] = "loading"}

TheLoader == 
  IF Loaders = {} THEN NoOne ELSE CHOOSE t \in Threads : pc[t] = "loading"

Status ==
  CASE state \in {"NotLoaded", "Cached"} -> "empty"
    [] state = "Loading" -> "loading"
    [] state = "Ready"   -> "full"
    [] OTHER             -> "failed"

Flight == INSTANCE SingleFlight
            WITH status   <- Status,
                 holder   <- TheLoader,
                 resident <- provider

(* LazyModel implements SingleFlight when WaitExpires is FALSE.            *)
ImplementsSingleFlight == Flight!Spec

----------------------------------------------------------------------------
(* "Block until the model is ready for inference": a thread that           *)
(* ensure_model has let through finds a session to use.                    *)
EnsuredIsUsable == \A t \in Threads : pc[t] = "ensured" => provider
=============================================================================
