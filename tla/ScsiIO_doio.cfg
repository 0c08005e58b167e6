\* A pipelining unit beside one in a synchronous command: inline harvest and cookie stash,
\* failing StartDMA, a full ring, retries.
SPECIFICATION Spec
CONSTANTS
  NULL = NULL
  q1 = q1
  q2 = q2
  q3 = q3
  Cookies <- MCCookies
  Heads = {h1, h2}
  IdxMod = 3
  UseEventIdx = FALSE
  DevicePolls = FALSE
  Units = {0, 1}
  MAX_INFLIGHT = 2
  Block = {q1, q2}
  Sync = {q3}
  Quick = {}
  Direct = {q1}
  UnitOf <- TwoOne
  Outcomes = {"check"}
  DmaMayFail = TRUE
  MaxTries = 2
  MaxWakes = 3
CHECK_DEADLOCK FALSE
INVARIANTS
  TypeOK
  SlotPartition
  CountsExact
  RepliedOnce
  MaskCoversPipeline
  TruthfulReplies
  NoLostWakeup
