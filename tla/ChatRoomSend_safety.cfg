CONSTANTS
  d1 = d1
  d2 = d2
  m1 = m1
  m2 = m2
  m3 = m3
  Device = {d1, d2}
  MsgId = {m1, m2, m3}
  Sends <- BothSend
  NoMsg = NoMsg
  Skew <- MCSkew
  MaxAhead = 1
  MaxFlight = 2
SPECIFICATION Spec
SYMMETRY MCSymmetry
INVARIANTS LatestIsStored ShownIsExplained ShownOnce ScreensAgreeUnlessTied LatestIsNewestIfUndisturbed
PROPERTIES LogSpec
