CONSTANTS
  App <- MCApp Exists <- MCExists Labelled <- MCLabelled
  Topics <- MCTopics Payloads <- MCPayloads
  Levels = {128}
  QueueCap = 3 Esp32 = TRUE NoClock = FALSE
  MaxInputs = 3
  Req = {r1, r2, r3, r4} Host = {h1} NoHost = h0 GroupIds = {255, 256}
  LevelsIn = {0, 128, 300} None = none MaxDrops = 1
  Client = {u1, u2} Conns = 3 Responses = 3 Commands = 1
  Code = {g, h} Packets = 4 NoRecord = NoRecord
SPECIFICATION BridgeSpec
INVARIANTS
  SettledOnLastCommand
  RetainedTopicsAgree
  NothingLeftOpen
  RelayIsComplete
  SummaryIsRight
\* A daemon that has ended and a server nobody asks anything are at rest.
CHECK_DEADLOCK FALSE
