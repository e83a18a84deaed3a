SPECIFICATION Spec
CONSTANTS
  PingTimeout = 3
  QuoteRecvTimeout = 1
  PingRecvTimeout = 2
  Slack = 1
  MaxQuotes = 2
  ChanCap = 1
  InboxCap = 1
INVARIANTS TypeOK Silence StopIsPrompt
PROPERTIES NoOrphan
