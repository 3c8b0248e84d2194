SPECIFICATION Spec
CONSTANTS
  a = a
  b = b
  o1 = o1
  o2 = o2
  Ids = {a, b}
  None = None
  Unset = Unset
  Cjk = FALSE
  Short <- MCShort
  MaxSeeds = 100
  Candidates = 1
  Fanout = 1
  Chunk = 1
  Openers = {o1, o2}
  GRAPH_SCHEMA_VERSION = 4
  MaxStarts = 2
  Nodes <- MCNodes
  Batches <- MCBatches
  Hints <- MCHints
  Scopes = {None, "p"}
  Limit = 1
  Horizon = 2
  MaxCalls = 3
INVARIANTS BackendsAgree RecallFindsMatches CopyComplete OpenedUsable
PROPERTIES HistoryKept
CHECK_DEADLOCK FALSE
