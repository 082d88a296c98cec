CONSTANTS
  f1 = f1 f2 = f2 k1 = k1 NoFrame = NoFrame NoCode = NoCode
  Frame = {f1, f2} Coded = {f1, f2} ClassOf <- LiveClass
  Codes = 2 InitFrames = 1 MaxAttempts = 3
SPECIFICATION LiveSpec
INVARIANTS AtMostOneLateResend
PROPERTIES CodesReleased CommandsHandled ReconnectsOrExits
\* A client whose controller is gone has stopped; the runs of the two components
\* on their own look for deadlocks.
CHECK_DEADLOCK FALSE
