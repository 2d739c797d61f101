SPECIFICATION Spec
CONSTANTS
  gl = gl
  li = li
  r1 = r1
  r2 = r2
  Absent = Absent
  Nothing = Nothing
  MaxEntries = 2
  TTL = 2
  NegativeTTL = 1
  Preferred = gl
  Known <- TwoOrigins
  Requests <- OneRequest
  Intents <- IssueIntent
  Budgets <- TwoBudgets
  MaxClock = 4
INVARIANT ThreeQueryVariants
CHECK_DEADLOCK FALSE
