SPECIFICATION Spec
CONSTANTS
  Sender = {net, world}
  Net = net
  MaxPackets = 3
  SocketRoom = 2
INVARIANTS
  StreamIntact
  DrainedBeforeClose
PROPERTIES
  QueuedIsSent
  CloseHappens
CHECK_DEADLOCK FALSE
