CONSTANTS
  Delays <- DelaySet
  Timeouts <- TimeoutSet
  MaxHeight = 4
SPECIFICATION Spec
INVARIANTS
  OnlyEntitledSpend
  EntitledCanSpend
  SidesBuildTheSame
CHECK_DEADLOCK FALSE
