\* Violation: block I/O with all slots taken.
SPECIFICATION Spec
CONSTANTS
  NULL = NULL
  q1 = q1
  q2 = q2
  q3 = q3
  Cookies <- MCCookies
  Heads = {h1, h2, h3}
  IdxMod = 8
  UseEventIdx = FALSE
  DevicePolls = FALSE
  Units = {0}
  MAX_INFLIGHT = 2
  Block = {q1, q2, q3}
  Sync = {}
  Quick = {}
  Direct = {}
  UnitOf <- AllZero
  Outcomes = {"good"}
  DmaMayFail = FALSE
  MaxTries = 2
  MaxWakes = 4
CHECK_DEADLOCK FALSE
INVARIANTS
  TruthfulReplies
