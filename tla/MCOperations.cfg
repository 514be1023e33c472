SPECIFICATION MCSpec
CONSTANTS
  Facts = {"check"}
  KindOf <- Kind
  ScopeOf <- Scope
  Conditions = {"ingestion_gap"}
  Jobs = {j1}
  Actors = {"operator"}
  RoleOf <- Role
  Threshold = 0
  PageSize = 1
  Pages = 1
  MaxTime = 1
  MaxSignals = 2
  None = None
  Requests = {r1}
  Statements = 2
  AttestWithin = 0
  Validity = 0
  Principals = {p1, p2, p3}
  Capabilities = {"migrator", "runtime"}
  MaxBoots = 3
  Orgs = {o1}
  Addresses = {a1, a2}
  Callers = {c1, c2, c3, c4}
  Signatures = {1, 2, 3}
  SlotOf <- MCSlotOf
  Cutover = 1
  Overlap = 1
  Late = 1
  PageLimit = 2
  Syncs = {s1, s2}
  Nobody = Nobody
  Organizations = {1, 2, 3}
  Targets = {1, 2, 3, 4, 5}
  OwnerOf <- MCOwnerOf
  BatchSize = 2
  NoId = 0
INVARIANTS
  BootstrapRepeats
  InvitedOnce
  NothingLeftBehind
  TargetsTakeTurns
PROPERTIES
  NothingUnseenIsResolved
  PromotedWhenReady
  HeadOnlyMovesForward
SYMMETRY Symmetry
CHECK_DEADLOCK FALSE
