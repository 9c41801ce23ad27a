SPECIFICATION Spec
CONSTANTS
  Chans <- ChanSet
  NodeOf <- Remotes
  HtlcLists <- Lists
  Invoices <- InvoiceSet
  Plans <- PlanSet
INVARIANTS
  FieldsReadBack
  RevokedStatesFound
  ChannelsAccounted
  DeletedOnlyWhenSpent
PROPERTIES
  InvoicesKept
CHECK_DEADLOCK FALSE
