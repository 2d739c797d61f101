SPECIFICATION FairSpec
CONSTANTS
  c1 = c1
  c2 = c2
  c3 = c3
  Callers <- MCCallers
  MaxConcurrency = 2
  FailureThreshold = 2
  Cooldown = 2
  MaxClock = 5
  MaxCalls = 6
INVARIANTS
  TypeOK
  SlotAccounting
  CircuitConsistent
  ProbeAlone
  HalfOpenHasCooled
PROPERTIES
  ImplementsGate
  SlotReturned
CHECK_DEADLOCK FALSE
