CONSTANTS
  r1 = r1
  r2 = r2
  u1 = u1
  u2 = u2
  Room = {r1, r2}
  User = {u1, u2}
  Partner <- MCOwnPartner
  MaxTime = 4
  MaxLaunch = 2
SPECIFICATION FairSpec
CHECK_DEADLOCK FALSE
INVARIANTS ListIsSound SettledRoomHasItsRow CrashOnlyAfterRace
PROPERTIES ListedStaysListed ReportedIsListed WrittenIsListed
