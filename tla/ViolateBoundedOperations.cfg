\* A dropped future frees its permit while its operation runs.
SPECIFICATION Spec
CONSTANTS
  c1 = c1
  c2 = c2
  c3 = c3
  j1 = j1
  j2 = j2
  j3 = j3
  j4 = j4
  NoJob = NoJob
  Callers <- MCCallers
  Jobs <- MCJobs
  MaxConns = 2
  MaxDrops = 2
INVARIANT BoundedOperations
