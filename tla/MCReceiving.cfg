SPECIFICATION MCSpec
CONSTANTS
  Orgs = {o1, o2}
  Addresses = {a1, a2}
  MaxChallenges = 4
  MaxWallets = 2
  MaxOpen = 2
  Requests = {r1, r2}
  Lifetime = 1
  Cooling = 1
  MaxTime = 1
  None = None
  Assets = {a1, a2}
  WalletAssets = {a1, a2}
  Keys = {o1, o2}
  Visits = {r1, r2}
  MaxCheckouts = 1
  MaxAttempts = 2
  MaxMoment = 1
  MaxAge = 0
  Skew = 1
  Timeout = 0
  QuoteLife = 1
  Null = Null
  Lines <- MCLines
  MaxLines = 2
  Prices <- MCPrices
  Rates <- MCRates
  MinorUnits = 10
  BaseUnits = 100
  MaxAmount = 125
  MaxUnits = 130
  Production = TRUE
INVARIANTS
  ChangeIsProvenTwice
  OneWalletWatched
  OneAnswerPerKey
  AskedForWhatIsOwed
PROPERTIES
  OpenedWhilePayable
SYMMETRY Symmetry
CHECK_DEADLOCK FALSE
