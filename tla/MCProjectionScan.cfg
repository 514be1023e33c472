CONSTANTS
  inv = inv
  Invoices = {inv}
  Attempts = {1, 2}
  Events = {1, 2}
  Assets = {"USDC", "USDT"}
  InvoiceOf <- OneInvoice
  AssetOf <- TwoAssets
  AttemptOf <- Swapped
  Match <- BothExact
  DualProvider = TRUE
  Outcomes = {"finalized", "reverted"}
  Cancellable = {inv}
  MaxVersion = 5
  Limit = 1
SPECIFICATION FairScan
PROPERTIES
  DecidedUnlessHeldUp
  RevocationIsShown
CHECK_DEADLOCK FALSE
