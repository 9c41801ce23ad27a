CONSTANTS
  InitialRevocationWindow = 2
  MaxBatch = 2
  Peers <- MCPeers
  Funding <- Balances
  MaxRestarts = 0
  MinHeight = 2
  Payments <- Tight
  Invoices <- Both
SPECIFICATION CrashSpec
INVARIANTS
  SettledOnlyWhenLockedIn
  NeverDisconnects
  RevocationLogTrue
  SerialPaymentsComplete
  NoOverdraft
PROPERTIES
  ChainsFollowWindow
CHECK_DEADLOCK FALSE
