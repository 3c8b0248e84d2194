SPECIFICATION Spec
CONSTANTS
  t1 = t1
  u1 = u1
  p1 = p1
  id1 = id1
  id2 = id2
  NullId = NullId
  Absent = Absent
  Tools = {t1}
  Uris = {u1}
  Prompts = {p1}
  Failing = {p1}
  Latest <- MCLatest
  Legacy <- MCLegacy
  Lines <- MCLines
  Contexts <- MCContexts
INVARIANTS
  AnsweredOnce
  TransportsAgree
  GuardedRuns
  EraRespected
CHECK_DEADLOCK FALSE
