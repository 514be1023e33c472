CONSTANTS
  inv = inv
  Invoices = {inv}
  Attempts = {1, 2}
  Events = {1, 2, 3}
  Assets = {"USDC"}
  InvoiceOf <- OneInvoice
  AssetOf <- OneAsset
  AttemptOf <- SharedReference
  Match <- Assorted
  DualProvider = TRUE
  Outcomes = {"finalized", "quarantined"}
  Cancellable = {inv}
  MaxVersion = 5
SPECIFICATION Spec
INVARIANTS
  PaidByOneTransfer
  CancelledIsUncollected
  WatchedUntilSettled
PROPERTIES
  ImplementsSettlement
CHECK_DEADLOCK FALSE
