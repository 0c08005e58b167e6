SPECIFICATION Spec
CHECK_DEADLOCK FALSE
CONSTANTS
  NULL = NULL
  MAX_INFLIGHT = 2
  MAX_UNITS = 2
  Tries = 2
  Slow = {1}
  Machines <- MCMachines
INVARIANT
  ProbeMemoryLives
