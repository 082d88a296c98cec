CONSTANTS
  f1 = f1 f2 = f2 f3 = f3
  ClassOf <- MCClass
  NoFrame = NoFrame NoCode = NoCode
  Frame = {f1, f2}
  Coded = {f1, f2}
  Codes = 3 InitFrames = 1 MaxAttempts = 3
SPECIFICATION Spec
INVARIANTS ConfirmedNeverResent
