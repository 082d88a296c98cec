CONSTANTS
  k1 = k1 k2 = k2
  Groups = 2 Labelled = {0}
  ConnTask = {k1, k2}
  Reconnect = TRUE MaxReconnect = 0
  Blocks <- MCBlocks
  MaxCommands = 1 MaxEvents = 1 MaxLosses = 1 MaxResyncs = 1
SPECIFICATION Spec
SYMMETRY MCSymmetry
INVARIANTS TypeOK StateHasConfig SweepOnce
