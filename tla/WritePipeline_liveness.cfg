SPECIFICATION FairSpec
CONSTANTS
  User = {alice, bob}
  NumWrites = 2
  NoUser = NoUser
  Hello = Hello
  MaxPending = 1
  MaxFaults = 1
  MaxSwitches = 2
PROPERTY QueuedIsSettled
CHECK_DEADLOCK FALSE
