\* One connection and two senders. The process may stop: it crashes, or is closed.
CONSTANTS
  Connections = {c1}
  Senders = {s1, s2}
  Sizes = {1, 2}
  Room = 1
  MaxPending = 3
  MaxSends = 3
SPECIFICATION FairSpec
INVARIANTS TypeOK StreamIntact OnlyEarlyLossHurts
PROPERTIES AllSent CloseEnds
CHECK_DEADLOCK FALSE
