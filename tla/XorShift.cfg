SPECIFICATION RngSpec
CONSTANTS
  Width = 8
  Shift1 = 3
  Shift2 = 5
  Shift3 = 4
  Mul = 29
  ZeroSeedFallback <- Fallback
  Mantissa = 4
  Extra = 5
  Drift = 3
INVARIANTS NeverZero DrawsInRange
