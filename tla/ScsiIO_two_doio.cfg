\* Two units in synchronous commands, handing over each other's completions;
\* the device polls.
SPECIFICATION FairSpec
CONSTANTS
  NULL = NULL
  q1 = q1
  q2 = q2
  q3 = q3
  Cookies <- MCCookies
  Heads = {h1, h2, h3}
  IdxMod = 8
  UseEventIdx = FALSE
  DevicePolls = TRUE
  Units = {0, 1}
  MAX_INFLIGHT = 2
  Block = {}
  Sync = {q2, q3}
  Quick = {q1}
  Direct = {}
  UnitOf <- TwoOne
  Outcomes = {"good"}
  DmaMayFail = TRUE
  MaxTries = 2
  MaxWakes = 4
CHECK_DEADLOCK FALSE
PROPERTIES
  EveryRequestReplied
