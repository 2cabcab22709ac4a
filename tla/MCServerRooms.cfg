\* A guard that shares its screen and terminals, leaves and comes back on a second connection.
CONSTANTS
  a1 = a1
  a2 = a2
  g1 = g1
  g2 = g2
  v1 = v1
  v2 = v2
  None = None
  Accounts = {a1, a2}
  Guards = {g1, g2}
  Visitors = {v1, v2}
  accountOf <- Owners
  kindsOf <- ScreenAndTerminal
  kindOf <- OneScreenOneTerminal
  Overlap = FALSE
SPECIFICATION FairSpec
INVARIANTS AutoPublishMatches GhostsComeLate TerminalHasViewer NoViewerLeftBehind
PROPERTY ViewersFollow
