CONSTANTS
  User = {u1, u2}
  NoUser = NoUser
  Default = Default
  MaxSession = 2
  MaxUpdate = 2
SPECIFICATION Spec
SYMMETRY Users
CHECK_DEADLOCK FALSE
INVARIANTS DocumentsAreOwn PictureIsOwn PickedStays HudIsOwed
