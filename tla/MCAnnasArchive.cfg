SPECIFICATION ServiceSpec
CONSTANTS
  f1 = f1
  f2 = f2
  h1 = h1
  h2 = h2
  m1 = m1
  m2 = m2
  m3 = m3
  Callers <- TwoFetches
  MaxConcurrency = 1
  FailureThreshold = 1
  Cooldown = 1
  MaxClock = 2
  Hosts <- TwoHosts
  Budgets <- TwoBudgets
  ResolveClock = 3
  Md5s <- ThreeFiles
  PageLimit = 2
  MaxCatalog = 3
SYMMETRY MCSymmetry
INVARIANTS
  BoundedFetch
  PageGenuine
  ClientReleased
  PrimaryKept
  FailureSurfaces
  CatalogFaithful
CHECK_DEADLOCK FALSE
