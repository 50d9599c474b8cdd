\* Two tasks on a client id that is used twice: every interleaving of the calls on a row.
CONSTANTS
  Client = {c1}
  NoClient = NoClient
  Task = {t1, t2}
  MaxPending = 1
  MaxRecords = 1
  MaxGen = 1
  MaxConn = 1
  MaxLives = 2
  MaxFaults = 1
  MaxAttempts = 2
  MaxRetryAge = 2
  BaseRetryDelay = 1
  MaxRetryDelay = 2
  InFlightTimeout = 2
  MaxWord = 3
SPECIFICATION Spec
SYMMETRY Symmetry
INVARIANT OutboxInv
PROPERTIES NothingLost NeverResent
