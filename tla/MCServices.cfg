\* Every service in turn.  A behavior ends when its service has nothing left
\* to do within the bounds.
SPECIFICATION Spec
CONSTANTS
  None = None
  w1 = w1
  w2 = w2
  Requests <- MCRequests
  Answers <- MCAnswers
  Settings <- MCSettings
  Capacity = 2
  MaxLlmCalls = 2
  MaxChunk = 2
  BULK_CHUNK_SIZE = 1
  ROWS_PER_CHUNK = 2
  MaxPgId = 3
  VecBatches <- MCBatches
  Documents <- MCDocuments
  Weights <- MCWeights
  K = 1
  RrfK = 1
  Scale = 60
  MaxWrites = 2
  Writers = {w1, w2}
  SecretInserts <- MCInserts
  OldSecrets <- MCOld
  Metas <- MCMetas
  MaxId = 1
  MaxSaves = 2
  MaxFailures = 1
  Migrators = {w1, w2}
  ExpectedVersion = 3
  NewestVersion = 4
  KvKeys = {a}
  KvValues = {w1, w2}
  MaxCrashes = 1
  BornCatalog <- MCBorn
  Payloads <- MCPayloads
  MaxPublished = 1
  MaxKills = 1
  NodeIds <- MCNodeIds
  EdgeLists <- MCEdgeLists
  HopCosts <- MCHopCosts
  Rarities <- MCRarities
  LabelRounds = 10
  TopLinks = 1
  Mask = Mask
  TextJobs <- MCTextJobs
  Corpora <- MCCorpora
  Accepted <- MCAccepted
  Builds <- MCBuilds
  Commands = {"all", "tokens", "graph_korean"}
  Tasks = {w1, w2}
  MaxCalls = 3
INVARIANTS
  StreamMatchesComplete
  CallsReported
  IndexesAgree
  FusedSound
  SavedFilesWhole
  StoreTruthful
  CatalogConverges
  AlgorithmsSound
  TextsSound
  GateSound
  AnswersTrue
CHECK_DEADLOCK FALSE
