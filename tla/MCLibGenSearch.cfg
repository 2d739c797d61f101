SPECIFICATION FairSpec
CONSTANTS
  gl = gl
  li = li
  r1 = r1
  r2 = r2
  Absent = Absent
  Nothing = Nothing
  MaxEntries = 2
  TTL = 2
  NegativeTTL = 1
  Preferred = gl
  Known <- TwoOrigins
  Requests <- TwoRequests
  Intents <- MixedIntents
  Budgets <- TwoBudgets
  MaxClock = 3
INVARIANTS
  SessionReleased
  FailoverExhausted
  PlanSound
PROPERTIES
  NegativeEarned
  Answered
CHECK_DEADLOCK FALSE
