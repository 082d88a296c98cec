CONSTANTS
  Sals <- MCSals Sources = {0, 1, 255} Noise = {1, 16, 128, 255}
  Tails <- MCTails MaxSals = 3
  p1 = p1 p2 = p2 h = h i = i NoCode = NoCode
SPECIFICATION CodecSpec
INVARIANTS
  PacketsUnderstood
  NoiseIsRefused
  ScriptedPciExact
\* A packet that was decoded is at rest.
CHECK_DEADLOCK FALSE
