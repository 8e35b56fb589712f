SPECIFICATION Spec
CONSTANTS
  Sender = {net, world}
  Net = net
  MaxPackets = 2
  SocketRoom = 1
INVARIANTS
  KeystreamOrder
CHECK_DEADLOCK FALSE
