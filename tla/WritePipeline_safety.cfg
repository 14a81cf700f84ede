SPECIFICATION Spec
CONSTANTS
  User = {alice, bob}
  NumWrites = 3
  NoUser = NoUser
  Hello = Hello
  MaxPending = 2
  MaxFaults = 1
  MaxSwitches = 2
SYMMETRY Users
CHECK_DEADLOCK FALSE
INVARIANTS PipelineIsSound AnswersAreTrue BlockIsOwed SentAsOwner
PROPERTIES KeepsPromise
