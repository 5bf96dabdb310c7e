SPECIFICATION FairSpec
CONSTANTS
  Senders = {a1, a2}
  MaxSends = 2
  Sizes = {1, 3, 4}
  MaxMessage = 3
  Capacity = 2
  RecvMax = 2
  Backlog = 1
  MaxConns = 2
INVARIANTS ReceivedIsSent NothingVanishes
PROPERTY PartialIsBounded
CHECK_DEADLOCK FALSE
