CONSTANTS
  o1 = o1
  f1 = f1
  t1 = t1
  t2 = t2
  s1 = s1
  Txs <- MCTxs
  Outputs <- MCOutputs
  ConfClients <- MCConfClients
  TxOf <- MCTxOf
  NumConfs <- MCNumConfs
  Delay <- MCDelay
  SpendClients <- MCSpendClients
  EpochBuffer = 1
  StartHeight = 10
  MaxHeight = 13
SPECIFICATION Spec
INVARIANTS
  DispatcherNeverBlocks
  ConfirmedOnTime
  OutputTracked
  SweepsMature
  SweptWhenMature
CHECK_DEADLOCK FALSE
