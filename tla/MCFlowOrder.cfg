CONSTANTS
  c1 = c1 c2 = c2 c3 = c3 c4 = c4 b1 = b1 b2 = b2 r1 = r1
  LaneOf <- MCLane
  KindOf <- MCKind
  Job = {c1, b1, b2, r1}
  Signal = {"conf", "report"}
  WindowInitial = 1 WindowMin = 1 WindowMax = 2
  MinGap = 1 RtoMin = 2 RtoMax = 2 ErrorPause = 2
  CollapseTimeouts = 1 GrowAcks = 3 SilentHold = 1 MaxEvents = 2
SPECIFICATION FairSpec
INVARIANTS
  CommandsOutrankBackground
  ErrorStopsSends
PROPERTIES
  ImplementsService
