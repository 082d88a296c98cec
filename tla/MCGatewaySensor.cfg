CONSTANTS
  k1 = k1 k2 = k2
  Groups = 1 Labelled = {0}
  ConnTask = {k1}
  Reconnect = TRUE MaxReconnect = 0
  Blocks <- MCLights
  MaxCommands = 1 MaxEvents = 1 MaxLosses = 0 MaxResyncs = 0
SPECIFICATION Spec
INVARIANTS SensorAgreesWithState
