SPECIFICATION Spec
CONSTANTS
  Requests = {r1, r2, r3}
  None = none
  MassLimit = 2
  MaxClicks = 3
SYMMETRY Symmetry
INVARIANTS
  FrontendTypeOK
  SettledScreenAgrees
  SubmittedIsListed
  ScreenIsLatest
  PageInv
CHECK_DEADLOCK FALSE
