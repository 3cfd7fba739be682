SPECIFICATION MCSpec
CONSTANTS
  w1 = w1
  w2 = w2
  Worker <- TwoWorkers
  MaxVersion = 2
  Batches = 2
  MaxAttempts = 2
  AttemptCap = 4
  RequestCap = 3
  FaultCap = 2
INVARIANTS
  TasksOwnTheirRows
  InputsInPlace
  ReadyIsEarned
  PendingIsTrue
PROPERTIES
  EventuallySettled
  ImplementsLifecycle
CHECK_DEADLOCK FALSE
