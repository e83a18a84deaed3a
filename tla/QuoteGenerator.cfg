SPECIFICATION Spec
CONSTANTS
  Tickers = {aapl, zzz}
  Popular = {aapl}
  StartMin = 2
  StartMod = 5
  PopularBase = 1
  PopularExtra = 2
  DefaultBase = 0
  DefaultExtra = 1
  DriftDivisor = 2
  Intervals = {0, 1, 3}
INVARIANTS VolumeInRange Paced
PROPERTIES KeepsEmitting
