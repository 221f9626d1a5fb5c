\* Two connections, one packet each, with the fairness of the network thread.
CONSTANTS
  Sockets = {c1, c2}
  PacketBytes = 2
  MaxPackets = 1
SPECIFICATION FairSpec
PROPERTIES
  ClosedIsReaped
  RepliesWritten
CHECK_DEADLOCK FALSE
