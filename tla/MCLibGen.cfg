SPECIFICATION ServiceSpec
CONSTANTS
  gl = gl
  li = li
  r1 = r1
  r2 = r2
  Callers <- TwoRequests
  MaxConcurrency = 1
  FailureThreshold = 2
  Cooldown = 1
  Preferred = gl
  Known <- TwoOrigins
  Budgets <- ShortBudgets
  MaxClock = 2
  ProbeTimeout = 2
  CloseTimeout = 2
  HealthClock = 5
INVARIANTS
  ChallengeCost
  SolutionScoped
  UnsafeIsFinal
  Prompt
  HonestAnswer
PROPERTIES
  ResolveAnswered
  Answers
CHECK_DEADLOCK FALSE
