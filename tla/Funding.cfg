CONSTANTS
  Nodes = {"a", "b"}
  Utxos <- Coins
  AssetId = "gold"
  Plans <- Workloads
  MaxFaults = 1
SPECIFICATION Spec
INVARIANTS
  CoinsBackOneChannel
  CommitmentsCountersigned
  EndsAgree
  ReservationsFound
  UpdatesDelivered
CHECK_DEADLOCK FALSE
