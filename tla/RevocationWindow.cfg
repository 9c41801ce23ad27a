CONSTANTS
  InitialRevocationWindow = 4
  NumUpdates = 1
  MaxHeight = 31
  TreeHeight = 4
SPECIFICATION FairElkremSpec
INVARIANTS
  NeverRefused
  OnlyPastRevoked
  SecretsKept
  WrongSecretCaught
  StackInShape
PROPERTIES
  WindowReopens
CHECK_DEADLOCK FALSE
