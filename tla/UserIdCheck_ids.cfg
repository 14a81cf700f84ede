CONSTANTS
  newcomer = newcomer
  member = member
  x = x
  y = y
  User = {newcomer, member}
  Id = {x, y}
  NoId = NoId
  NewUser = {newcomer}
  StartId <- MCStartId
  MaxCalls = 1
SPECIFICATION Spec
INVARIANTS SharedOnlyIfGrantedTwice BlindOnlyIfLate
