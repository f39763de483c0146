SPECIFICATION Spec
CONSTANTS
  w1 = w1
  w2 = w2
  ingestionWorker1 = ingestionWorker1
  Nobody = Nobody
  NoName = NoName
  Workers <- MCWorkers
  Names <- MCNames
  ThreadName <- MCThreadName
  MessageCount = 1
  ClaimTimeout = 2
  RetryDelay = 1
  MaxAttempts = 2
  BatchSize = 1
  MaxFaults = 3
INVARIANTS
  AttemptsWithinPolicy
