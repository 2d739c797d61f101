SPECIFICATION CatalogSpec
CONSTANTS
  a = a
  b = b
  m1 = m1
  m2 = m2
  cbz = cbz
  pdf = pdf
  k1 = k1
  k2 = k2
  k3 = k3
  v1 = v1
  v2 = v2
  Absent = Absent
  Nothing = Nothing
  Requests <- TwoRequests
  Pages <- SmallPages
  Files <- TwoFiles
  Editions <- TwoEditions
  Sources <- SmallSources
  MaxEntries = 3
  TTL = 2
  NegativeTTL = 1
  MaxClock = 2
  MaxTroubles = 1
  Keys <- MCKeys
  Values <- MCValues
  LruClock = 4
  Parts <- OnlyEnricher
SYMMETRY RequestSymmetry
INVARIANTS
  EvidenceMatches
  Transparent
CHECK_DEADLOCK FALSE
