SPECIFICATION FairSpec
CONSTANTS
  Calls = {c1, c2}
  IdleTtl = 1
  MaxLifetime = 1
  Tabs = {t1, t2}
  MaxSessions = 1
  Breaks = TRUE
INVARIANTS
  BrowserIsSound
PROPERTIES
  NothingIsHeld
