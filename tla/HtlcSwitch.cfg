CONSTANTS
  Chans = {"c", "d"}
  Balance <- Balances
  Plans <- MCPlans
SPECIFICATION Spec
INVARIANTS
  ActiveRegistered
  RegistryMatches
  RejectedNotSent
CHECK_DEADLOCK FALSE
