SPECIFICATION AskAndTexts
CONSTANTS
  a1 = a1
  s1 = s1
  s2 = s2
  s3 = s3
  Ask <- OneAsk
  Source <- ThreeSources
  MaxRounds = 3
  ChangeCap = 3
  Root = root
  Folder = {f, g}
  Document = {d, e}
  ToolChanges = 3
  Streams <- SomeStreams
  Payload <- SomePayload
  ArgumentCap = 2
  Sizes <- SomeSizes
  CallIds <- SomeIds
  Instructions = 2
  Overhead = 1
  HistoryChars = 6
  Budget = 16
  MaxTurns = 2
  MaxCalls = 2
  MaxCallsTotal = 5
  Rounds = 3
INVARIANTS
  CitationsSound
  NotFromWithdrawn
  ExchangesSound
  StreamedAsStored
  ToolsInScope
PROPERTIES
  EveryAskIsSettled
CHECK_DEADLOCK FALSE
