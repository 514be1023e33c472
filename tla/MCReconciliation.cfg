SPECIFICATION MCSpec
CONSTANTS
  Ids = {1, 2}
  References = {"p", "q"}
  Terms = {"a", "b"}
  Files <- MCFiles
  Events = {1, 2}
  RefsOf <- MCRefsOf
  Fits <- MCFits
  Runners = {r1, r2}
  Commands = {c1, c2}
  StageCount = 2
  ReportCount = 2
  Clean = {2}
  Lease = 1
  MaxTime = 2
  MaxEvidence = 2
  MaxClaims = 4
  None = None
  Unset = Unset
  Chains <- MCChains
  PageLimit = 2
  MaxSignatures <- MCMaxSignatures
  MaxTransactions <- MCMaxTransactions
  WindowLimit = 1
  Accounts = {"payer", "shop", "temp"}
  Shop = "shop"
  Due = 1
  Amounts = {1, 2}
  Opening <- MCOpening
  Absent = Absent
  MaxInstructions = 3
INVARIANTS
  ReportsAreOneSet
  CompleteIsWhole
  ExplainedOrRefused
PROPERTIES
  AllocatedWhenDue
SYMMETRY Symmetry
CHECK_DEADLOCK FALSE
