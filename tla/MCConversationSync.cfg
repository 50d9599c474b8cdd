\* Two conversations with messages and three revisions; the floor moves and cursors expire.  A
\* page is of one or two items, of which one fits, and scans one key.
CONSTANTS
  Conversations = 2
  MaxSequence = 3
  MaxEpoch = 2
  MaxMessages = 1
  ScanBudget = 1
  PageLimits = {1, 2}
  Capacity = 1
  RoundLife = 1
  CheckpointLife = 2
  MaxTime = 1
SPECIFICATION LiveSpec
INVARIANTS CheckpointComplete RoundInv
PROPERTIES NothingAfterRemoval EventuallyInSync
