\* Opens, closes and expunges in any order, with hasty and with polite clients.
SPECIFICATION FairSpec
CONSTANTS
  NULL = NULL
  c1 = c1
  c2 = c2
  i1 = i1
  i2 = i2
  h1 = h1
  h2 = h2
  Clients = {c1, c2}
  Io = {i1, i2}
  Holds = {h1, h2}
  Removers = {c1}
  ClientOf <- OneHolder
  Loads <- MCLoads
CHECK_DEADLOCK FALSE
INVARIANTS
  LTypeOK
  NoOrphan
  OpenMeansRunning
  ClosedMeansStopped
  DeviceBuffersLive
PROPERTIES
  ManagerReturns
  EveryIoReplied
