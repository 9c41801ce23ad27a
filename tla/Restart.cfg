CONSTANTS
  InitialRevocationWindow = 2
  MaxBatch = 2
  Peers <- MCPeers
  Funding <- Balances
  MaxRestarts = 1
  MinHeight = 2
  Payments <- Unknown
  Invoices <- Both
SPECIFICATION CrashSpec
INVARIANTS
  DiskConsistent
  RestoredGoesOn
CHECK_DEADLOCK FALSE
