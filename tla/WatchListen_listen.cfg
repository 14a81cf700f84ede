CONSTANTS
  l1 = l1
  g1 = g1
  q1 = q1
  Query = {q1}
  Listener = {l1, g1}
  Once = {g1}
  QueryOf <- MCQueryOf
  Silent = Silent
  NoView = NoView
  MaxVersion = 1
  MaxInbox = 1
SPECIFICATION FairSpec
CHECK_DEADLOCK FALSE
INVARIANTS StreamIsSound SyncedIsFresh UnknownIsTimed
PROPERTIES AnsweredOnce GetIsAnswered CatchesUp
