\* Two connections, two packets each of two bytes: cut, blocked and resumed writes.
CONSTANTS
  Sockets = {c1, c2}
  PacketBytes = 2
  MaxPackets = 2
SPECIFICATION Spec
SYMMETRY Symmetry
INVARIANTS
  TypeOK
  RepliesInOrder
  NoReplyDropped
  OnlyClosedDestroyed
  ConnectionsCounted
  WriteWaits
CHECK_DEADLOCK FALSE
