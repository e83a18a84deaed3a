SPECIFICATION Spec
CONSTANTS
  Clients <- Runs
  Ports <- RunPorts
  Port <- RunPort
  Want <- RunWant
  DefaultTickers = {"AAPL", "TSLA"}
CHECK_DEADLOCK FALSE
INVARIANT OnlySubscribed
