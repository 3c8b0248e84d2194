\* embed and embed_batch over the query cache, where no wait expires.
SPECIFICATION Spec
CONSTANTS
  t1 = t1
  t2 = t2
  a = a
  b = b
  c = c
  NoOne = NoOne
  NoVector = NoVector
  Threads <- MCThreads
  Texts <- MCTexts
  Requests <- MCRequests
  Capacity = 2
  IdleUnload = TRUE
  WaitExpires = FALSE
INVARIANTS
  AnswersMatchTexts
  LruKeepsMostRecent
PROPERTY ImplementsSingleFlight
