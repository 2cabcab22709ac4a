\* Violated: the guard that was there first is cleaned up.
CONSTANTS
  a1 = a1
  a2 = a2
  g1 = g1
  g2 = g2
  v1 = v1
  v2 = v2
  None = None
  Accounts = {a1, a2}
  Guards = {g1, g2}
  Visitors = {v1, v2}
  accountOf <- Owners
  kindsOf <- ScreenAndFile
  kindOf <- OneScreenOneFile
  Overlap = TRUE
SPECIFICATION Spec
INVARIANT CleanFindsRoom
