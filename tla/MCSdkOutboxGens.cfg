\* One task: store generations, connections, clock rollbacks and the edges of the clock.
CONSTANTS
  Client = {c1}
  NoClient = NoClient
  Task = {t1}
  MaxPending = 1
  MaxRecords = 1
  MaxGen = 2
  MaxConn = 2
  MaxLives = 1
  MaxFaults = 2
  MaxAttempts = 2
  MaxRetryAge = 2
  BaseRetryDelay = 1
  MaxRetryDelay = 2
  InFlightTimeout = 2
  MaxWord = 3
SPECIFICATION LiveSpec
INVARIANT PlansEncode
PROPERTIES GenerationFenced FailureAttributed EventuallySettled
