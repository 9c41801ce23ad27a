CONSTANTS
  Plans <- Each
  Amounts = {1}
  Fee = 1
  DustCutoff = 1
  MaxFalse = 0
  QueueDepth = 1
  MaxHeaders = 2
  Dropped = 2
  Birthday = 1
  MaxBlocks = 4
  MaxKeys = 2
SPECIFICATION FairSpec
INVARIANTS
  LedgerRight
  OneThread
  DbNotLonger
  UnconfirmedPending
PROPERTIES
  ComesToRest
CHECK_DEADLOCK FALSE
