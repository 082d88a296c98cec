CONSTANTS
  u1 = u1 u2 = u2 c1 = c1 c2 = c2 r1 = r1 r2 = r2 r3 = r3 f1 = f1 h1 = h1 h0 = h0
  none = none NoOne = NoOne NoJob = NoJob NoCode = NoCode NoData = NoData
SPECIFICATION FairSpec
PROPERTIES
  LockWaitersProceed
  ExchangesConclude
  DaemonProgresses
\* A transport nobody calls and a daemon that has ended are at rest.
CHECK_DEADLOCK FALSE
