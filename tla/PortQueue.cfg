\* Three clients that send and abort while the unit task drains the port.
SPECIFICATION FairSpec
CONSTANTS
  NULL = NULL
  lh_Head = lh_Head
  lh_Tail = lh_Tail
  ReplyPort = ReplyPort
  r1 = r1
  r2 = r2
  r3 = r3
  Requests = {r1, r2, r3}
  MaxSends <- OneAgain
  PutMsgInRemove = FALSE
INVARIANTS
  PortInv
PROPERTIES
  PortIsFifo
  EveryRequestReplied
