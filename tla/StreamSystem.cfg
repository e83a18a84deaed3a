SPECIFICATION Spec
CONSTANTS
  Clients <- Runs
  Ports <- RunPorts
  Port <- RunPort
  Want <- RunWant
  DefaultTickers = {"AAPL", "TSLA"}
CHECK_DEADLOCK FALSE
INVARIANTS OwnStream
PROPERTIES Answered NoStray
