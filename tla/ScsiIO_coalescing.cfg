\* Violation: coalescing with two units.
SPECIFICATION Spec
CONSTANTS
  NULL = NULL
  q1 = q1
  q2 = q2
  q3 = q3
  Cookies <- MCCookies
  Heads = {h1, h2, h3}
  IdxMod = 8
  UseEventIdx = TRUE
  DevicePolls = FALSE
  Units = {0, 1}
  MAX_INFLIGHT = 2
  Block = {q1, q2, q3}
  Sync = {}
  Quick = {}
  Direct = {}
  UnitOf <- TwoOne
  Outcomes = {"good"}
  DmaMayFail = FALSE
  MaxTries = 2
  MaxWakes = 4
CHECK_DEADLOCK FALSE
INVARIANTS
  NoLostWakeup
