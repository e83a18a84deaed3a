SPECIFICATION Spec
CONSTANTS
  EmitInterval = 3
  SendTime = 4
  Lag = 7
  MaxBusy = 7
INVARIANTS Bounded Fresh
