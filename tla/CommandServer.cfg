SPECIFICATION Spec
CONSTANTS
  aapl = aapl
  tsla = tsla
  zzz = zzz
  c1 = c1
  c2 = c2
  Blank = Blank
  DefaultTickers = {aapl, tsla}
  Names = {aapl, tsla, zzz}
  Conns = {c1, c2}
  Lines <- MCLines
  MaxSent <- MCMaxSent
CHECK_DEADLOCK FALSE
INVARIANTS TypeOK InOrder OkMeansSubscribed AcceptsStop
PROPERTIES Served CtrlCExits
