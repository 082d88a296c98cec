CONSTANTS
  f1 = f1 f2 = f2 f3 = f3
  ClassOf <- MCClass
  NoFrame = NoFrame NoCode = NoCode
  Frame = {f1, f2, f3}
  Coded = {f1, f2, f3}
  Codes = 2 InitFrames = 2 MaxAttempts = 2
SPECIFICATION Spec
INVARIANTS
  CallOrderKept
  NeverExhausted
  InitLeadsStream
  NoFourthTransmission
