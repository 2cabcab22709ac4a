\* A second guard of the account may log in while the first is served.
CONSTANTS
  a1 = a1
  a2 = a2
  g1 = g1
  g2 = g2
  v1 = v1
  v2 = v2
  None = None
  Accounts = {a1, a2}
  Guards = {g1, g2}
  Visitors = {v1, v2}
  accountOf <- Owners
  kindsOf <- ScreenAndFile
  kindOf <- BothFile
  Overlap = TRUE
SPECIFICATION Spec
INVARIANTS AssertsNeedFailedLogin RoomHasOwner OneViewerPerAccount
