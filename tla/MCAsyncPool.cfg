\* Futures are dropped, operations panic, opens fail.
SPECIFICATION FairSpec
CONSTANTS
  c1 = c1
  c2 = c2
  c3 = c3
  j1 = j1
  j2 = j2
  j3 = j3
  j4 = j4
  NoJob = NoJob
  Callers <- MCCallers
  Jobs <- MCJobs
  MaxConns = 2
  MaxDrops = 2
INVARIANTS
  PoolAccounted
  BoundedUnlessDropped
PROPERTY RequestServed
