CONSTANTS
  InitialRevocationWindow = 2
  MaxBatch = 2
  Peers <- MCPeers
  Funding <- Balances
  MaxRestarts = 0
  MinHeight = 2
  Payments <- OneEach
  Invoices <- OnlyBob
SPECIFICATION CrashSpec
INVARIANT
  ConvergedWhenQuiet
CHECK_DEADLOCK FALSE
