\* Two connections, three requests each, the third one over the limit if nothing is handled.
CONSTANTS
  Connections = {c1, c2}
  MaxPending = 2
  MaxRequests = 3
SPECIFICATION FairSpec
INVARIANTS QueueMatches InOrder NoLostWakeUp
PROPERTIES AllHandled ExitEnds
