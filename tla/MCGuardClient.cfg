CONSTANTS
  MaxFaults = 2
  MaxGhosts = 2
  Cap = 1
  MaxTerminals = 2
  MaxWrites = 1
  MaxUsers = 2
  MaxJoins = 2
  MaxForced = 2
  Scopes <- MCScopes
SPECIFICATION Spec
INVARIANTS FreedOnce FramesReadable
PROPERTIES LogsInAgain EndedTerminalsGo HangsOnlyTogether KeyframeComes
CHECK_DEADLOCK FALSE
