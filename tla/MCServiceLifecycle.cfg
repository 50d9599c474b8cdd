\* Two requests, two incarnations of the database, three configurations.  The incarnations are
\* interchangeable, so one of them is enough to start with.
CONSTANTS
  a1 = a1
  m1 = m1
  Conn = {a1, m1}
  PoolOf <- TwoPools
  Identity = {i1, i2}
  NoIdentity = NoIdentity
  Unfit = Unfit
  Start = {i1, Unfit}
  Configs <- ThreeConfigs
SPECIFICATION LiveSpec
CHECK_DEADLOCK FALSE
INVARIANTS GuardInv ShutdownInv
PROPERTIES TripFinal ExitHonest EventuallyExits
