SPECIFICATION FairSpec
CONSTANTS
  Clients = {c1, c2}
  Cap = 1
  MaxEvents = 2
INVARIANTS
  HubTypeOK
  NoSendOnClosed
PROPERTIES
  InOrder
  BroadcastEnds
  DeadWriterRemoved
CHECK_DEADLOCK FALSE
