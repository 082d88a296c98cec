CONSTANTS
  Command = {"on", "clock_update", "clock_odd", "clock_request", "status", "levels", "pp", "cal"}
  MaxCommands = 2 MaxRetries = 1 MaxRepeats = 1
  Client = {c1, c2}
  App = {56, 57} Known <- MCKnown Text <- MCText Binary <- MCBinary
  Codes = 2 HistoryMax = 2 NoJob = NoJob SimCommands = 3 Behind = 1
  EmuCommand <- MCEmuCommand GroupCount = 2 LogMax = 2 NoCode = NoCode EmuCommands = 3
  Present = {0, 2} Nameless = {0} MaxAddress = 2 Target = 2 Attrs <- MCAttrs
  Readable = {"type_name", "serial_number"} Timeout = 2 Late = FALSE MaxLines = 3
  NoData = NoData
  Segment = {"light", "1", "set"} Topic <- MCTopic Filter <- MCFilter
  Plus = "+" Hash = "#" MaxMessages = 2 MaxSubs = 2 MaxErrors = 1
SPECIFICATION StandInSpec
SYMMETRY Symmetry
INVARIANTS
  ConfirmedMeansDone
  SimulatorRecords
  EmulatorObeys
  InterrogationRight
  BrokerDelivers
