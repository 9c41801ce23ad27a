CONSTANTS
  Nodes = {"a", "b"}
  Utxos <- Coins
  AssetId = "gold"
  Plans <- OneChannel
  MaxFaults = 0
SPECIFICATION FairSpec
PROPERTY BothEndsOpen
CHECK_DEADLOCK FALSE
