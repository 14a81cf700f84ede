CONSTANTS
  u1 = u1
  u2 = u2
  User = {u1, u2}
  other = other
  Room = {other}
  NoUser = NoUser
  Members <- MCMembers
  MaxSession = 2
  MaxReload = 2
  MaxSnapshot = 2
SPECIFICATION Spec
CHECK_DEADLOCK FALSE
INVARIANTS RowsAreMine UserListIsMine ListensForMe OnlyLateOrDoubledOutlive
