\* Expiring waits, idle eviction, resets: the lifecycle of the model.
SPECIFICATION LazyFairSpec
CONSTANTS
  t1 = t1
  t2 = t2
  t3 = t3
  NoOne = NoOne
  Threads <- MCThreads
  IdleUnload = TRUE
  WaitExpires = TRUE
INVARIANTS
  PhaseSound
  NoLostWakeup
PROPERTY WaiterReleased
