\* Concurrent calls through two cached stacks on one store.
SPECIFICATION MCSpec
CONSTANTS
  c1 = c1
  c2 = c2
  Calls <- MCCalls
  routed = routed
  single = single
  b1 = b1
  b2 = b2
  r1 = r1
  r2 = r2
  Nothing = Nothing
  Stacks <- MCStacks
  Chain <- MCChain
  Rank <- MCRank
  Requests <- MCRequests
  MaxRetries = 1
  Second = 3
  Ttl = 1
  MaxClock = 4
  MaxLag = 1
CHECK_DEADLOCK FALSE
INVARIANTS
  AnswersOwnRequest
  TriesFollowPolicy
  FailureExplained
PROPERTIES
  TtlBounds
  CallsReturn
