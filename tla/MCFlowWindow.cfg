CONSTANTS
  c1 = c1 c2 = c2 c3 = c3 c4 = c4 b1 = b1 b2 = b2 r1 = r1
  LaneOf <- MCLane
  KindOf <- MCKind
  Job = {c1, c2, c3, c4}
  Signal = {"conf"}
  WindowInitial = 2 WindowMin = 1 WindowMax = 2
  MinGap = 1 RtoMin = 2 RtoMax = 3 ErrorPause = 2
  CollapseTimeouts = 2 GrowAcks = 3 SilentHold = 1 MaxEvents = 5
SPECIFICATION Spec
SYMMETRY MCSymmetry
INVARIANTS TypeOK PausedStaysCollapsed TimeoutsKeepCollapsed
PROPERTIES AdmissionWithinWindow
