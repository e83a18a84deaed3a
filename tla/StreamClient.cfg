SPECIFICATION Spec
CONSTANTS
  Sources = {w1, w2}
  NoAddr = NoAddr
  RunFor = 3
  ReadTimeout = 1
  PingInterval = 2
  Slack = 1
  InboxCap = 1
INVARIANTS TypeOK NothingLeftBehind PingsStop PingsFirstSource EndsInTime
PROPERTIES Ends
