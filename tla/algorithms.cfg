SPECIFICATION AlgorithmSpec
CONSTANTS
  Sentences <- MCSentences
  Target = 6
  Overlap = 1
  MaxSentences = 4
  Context = 8
  MaxWindows = 3
  Passages <- MCPassages
  Short = "short"
  Probes = {1, 2}
  Nearest = 2
  Weights <- MCWeights
  Pool = 3
  Final = 2
  FallbackMax = 3
  RerankInput = 2
  Grades = {0, 2}
  Rooms = {0, 2}
  MaxPassages = 4
  HintKinds <- MCHints
  Messages = {1, 4}
  Questions = {1, 6, 9}
  Answers <- MCAnswers
  Budgets = {0, 1, 3, 4}
  CharsPerToken = 2
  HistoryLimit = 3
  MaxHintTokens = 3
  MaxMatched = 2
  MaxQueries = 3
  MaxNotes = 4
  Expected <- MCExpected
  Returned <- MCReturned
  Verdicts <- MCVerdicts
  Parsed <- MCParsed
  Shares = 6
  MaxResults = 3
CHECK_DEADLOCK FALSE
INVARIANTS
  ChunkingIsSound
  DocumentIsCovered
PROPERTIES
  EvidenceIsSound
  QueriesAreSound
  TotalsAgree
