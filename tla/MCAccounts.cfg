\* Windows of one and two ticks, the second failure blocks, two ids in a tick.
CONSTANTS
  ip1 = ip1
  Connections = {c1}
  Addresses = {ip1}
  peerIP <- MCPeerIP
  Names = {n1}
  MaxCounter = 1
  MaxFailures = 2
  Minute = 1
  Hour = 2
  MinuteBlock = 0
  HourBlock = 1
  Duration = 1
  MaxClock = 3
  MaxIds = 3
  MaxAccounts = 2
  MaxEntries = 2
  MaxBlocks = 1
SPECIFICATION Spec
INVARIANTS IdsDiffer FailuresBlock BlockedStaysOut
CHECK_DEADLOCK FALSE
