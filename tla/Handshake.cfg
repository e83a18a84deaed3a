SPECIFICATION RunSpec
CONSTANTS
  DefaultTickers <- MCDefault
  Names <- MCNames
  Blank <- MCBlank
  Files <- MCFiles
  SizeOf <- MCSizes
  BlankSizes = {0, 4066, 4067}
  AddrSizes = {6, 15}
CHECK_DEADLOCK FALSE
INVARIANTS Agreed NotRefused ReplyReadable
PROPERTIES Ends
