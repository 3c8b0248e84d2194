\* An eviction between ensure_model and the use of the session.
SPECIFICATION LazySpec
CONSTANTS
  t1 = t1
  t2 = t2
  t3 = t3
  NoOne = NoOne
  Threads <- MCThreads
  IdleUnload = TRUE
  WaitExpires = TRUE
INVARIANT EnsuredIsUsable
