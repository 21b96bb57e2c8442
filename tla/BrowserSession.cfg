\* Two tabs, two accounts, two calls at a time; an access token lives one tick, a refresh token two.
SPECIFICATION Spec
CONSTANTS
  Tabs = {t1, t2}
  Calls = {c1, c2}
  Users = {u1, u2}
  AccessLife = 1
  RefreshLife = 2
  MaxTime = 2
  MaxLost = 1
SYMMETRY SessionSymmetry
INVARIANTS
  ExecutedOnce
  ShowsOwnAccount
PROPERTIES
  SessionEndsForCause
