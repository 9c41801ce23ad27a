SPECIFICATION Spec
CONSTANTS
  Chans <- ChanSet
  NodeOf <- Remotes
  HtlcLists <- Lists
  Invoices <- InvoiceSet
  Plans <- PlanSet
INVARIANT
  ChannelsReadBack
CHECK_DEADLOCK FALSE
