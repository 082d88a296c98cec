CONSTANTS
  r1 = r1 r2 = r2 f1 = f1 f2 = f2 NoCode = NoCode
  Frame = {r1, r2, f1, f2} Coded = {r2, f1, f2} ResetSeq <- MCResetSeq
  Codes = 2 MaxRetries = 2
  BurstFrame = {f1, f2, f3, f4} BurstCodes = 2 BurstRetries = 1
  Caller = {a, b, c} NoOne = NoOne
  Loops = 3 Reconnect = TRUE MaxAttempts = 1 Dials = 5
  Frames = 10 Size <- MCSize KindOf <- MCKindOf Stream <- MCStream
  Raises = {2, 6} Limit = 6 MaxRead = 7
SYMMETRY MCSymmetry
SPECIFICATION ClientSpec
INVARIANTS
  RetriesEnd
  NeverExhausted
  Tracked
  OneDials
  TransportConsistent
  StreamSurvives
