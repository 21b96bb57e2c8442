\* One tab, one account; two calls at a time.
SPECIFICATION FairSpec
CONSTANTS
  Tabs = {t1}
  Calls = {c1, c2}
  Users = {u1}
  AccessLife = 1
  RefreshLife = 2
  MaxTime = 2
  MaxLost = 1
PROPERTIES
  CallsEnd
  DeadSessionEnds
