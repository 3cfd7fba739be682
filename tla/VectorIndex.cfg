SPECIFICATION IndexingAndTexts
CONSTANTS
  x = x
  y = y
  b1 = b1
  b2 = b2
  Chunk <- TwoChunks
  Builder <- TwoBuilders
  MaxModel = 2
  SwitchCap = 2
  OwnerCap = 1
  FailCap = 1
  CrashCap = 1
  Chunks <- SomeChunks
  Label <- OneLabel
  Models = {1, 2}
  Dimension <- OneDimension
  Indexed = {1}
  Calls <- SomeCalls
  KeywordScores = {1, 2}
  VectorScores <- SignedScores
  RerankScores = {1, 2}
  Weight = 2
  Full = 4
  Least = 1
  Factor = 1
  Overfetch = 2
  Changes = 1
  Files <- SomeFiles
  Length <- Lengths
  Budgets = {2, 4, 9}
  Overlaps = {1}
  Maximum = 6
INVARIANTS
  ChunkingSound
  SearchSound
PROPERTIES
  NeverOlder
  Healed
CHECK_DEADLOCK FALSE
