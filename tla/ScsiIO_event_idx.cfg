\* One unit with interrupt coalescing: every request eventually replied.
SPECIFICATION FairSpec
CONSTANTS
  NULL = NULL
  q1 = q1
  q2 = q2
  q3 = q3
  Cookies <- MCCookies
  Heads = {h1, h2, h3}
  IdxMod = 8
  UseEventIdx = TRUE
  DevicePolls = FALSE
  Units = {0}
  MAX_INFLIGHT = 3
  Block = {q1, q2, q3}
  Sync = {}
  Quick = {}
  Direct = {}
  UnitOf <- AllZero
  Outcomes = {"good"}
  DmaMayFail = FALSE
  MaxTries = 2
  MaxWakes = 4
CHECK_DEADLOCK FALSE
PROPERTIES
  EveryRequestReplied
