CONSTANTS
  me = me
  u1 = u1
  u2 = u2
  User = {me, u1, u2}
  Me = me
  MaxTime = 3
  MaxAppear = 2
SPECIFICATION Spec
CHECK_DEADLOCK FALSE
INVARIANTS TableIsSound CrashOnlyIfRegisteredTwice SettledTableIsRight
