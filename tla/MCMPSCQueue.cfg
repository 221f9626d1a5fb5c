\* Two producers with two items each, on memory for three items beside the dummy.
CONSTANTS
  Producers = {p1, p2}
  Consumer = c
  nullptr = nullptr
  Dummy = d
  Nodes = {d, n1, n2, n3}
  MaxSent = 2
SPECIFICATION FairSpec
INVARIANTS
  TypeOK
  NodesDeletedInTime
PROPERTIES
  ImplementsFifoQueue
  EveryItemLeaves
CHECK_DEADLOCK FALSE
