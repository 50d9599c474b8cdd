\* Two overlapping workers, one delivery, one crash, lost lock or storage error.
CONSTANTS
  Worker = {w1, w2}
  NoWorker = NoWorker
  Delivery = {d1}
  Destination = {t1}
  Dest <- OneDest
  Token = {k1, k2}
  NoToken = NoToken
  MaxAttempts = 2
  LeaseTTL = 4
  RequestTimeout = 2
  CommitDelay = 0
  BaseBackoff = 1
  MaxBackoff = 1
  BatchSize = 1
  MaxConcurrent = 1
  MaxPerDestination = 1
  MaxFaults = 1
SPECIFICATION LiveSpec
INVARIANTS SingleFlight AttemptBudget DeadLetterJustified
PROPERTIES StaleOwnerHarmless ImplementsPromise EventuallySettled
