CONSTANTS
  r1 = r1
  r2 = r2
  u1 = u1
  u2 = u2
  Room = {r1, r2}
  User = {u1, u2}
  Partner <- MCSamePartner
  MaxTime = 4
  MaxLaunch = 1
SPECIFICATION Spec
CHECK_DEADLOCK FALSE
PROPERTY OtherRowsStay
