\* The assert of onDisconnected, with one connection that may be lost at any time.
CONSTANTS
  Connections = {c1}
  Senders = {s1}
  Sizes = {1}
  Room = 1
  MaxPending = 1
  MaxSends = 1
SPECIFICATION Spec
INVARIANT HasUserConnection
CHECK_DEADLOCK FALSE
