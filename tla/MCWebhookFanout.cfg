\* Two workers, two events and two endpoints, with room for one row.
CONSTANTS
  Worker = {w1, w2}
  Event = {1, 2}
  Endpoint = {1, 2}
  BatchSize = 2
  MaxEndpointsPerEvent = 1
  MaxDestinationQueue = 1
  HighWater = 1
  LowWater = 0
  MaxRevision = 1
  MaxAborts = 1
SPECIFICATION LiveSpec
INVARIANT FanoutInv
PROPERTIES NobodySkipped FrozenFromCurrent EventuallyFannedOut
