------------------------------- MODULE XorShift ------------------------------
(***************************************************************************)
(* The pseudo-random generator XorShift64 of src/src/server/generator.rs,  *)
(* on words of Width bits.  A word is a function from bit positions to     *)
(* BOOLEAN; a draw is the number it stands for, multiplied modulo 2^Width. *)
(* QuoteGenerator chooses from the ranges of the draws; this module is     *)
(* about what the generator behind them delivers.                          *)
(***************************************************************************)
EXTENDS Integers

CONSTANTS
  Width,                   \* 64
  Shift1, Shift2, Shift3,  \* XORSHIFT_SHIFT_1 .. 3: 12, 25, 27
  Mul,                     \* XORSHIFT_MUL, odd
  ZeroSeedFallback,        \* XORSHIFT_ZERO_SEED_FALLBACK, a word
  Mantissa,                \* bits of precision of an f64: 53
  Extra, Drift             \* largest pop_extra and drift that are drawn for

Bits == 0 .. Width - 1
Words == [Bits -> BOOLEAN]
Zero == [i \in Bits |-> FALSE]

ASSUME ShiftsAssumption ==
  /\ Width \in Nat \ {0}
  /\ Shift1 \in Nat \ {0} /\ Shift2 \in Nat \ {0} /\ Shift3 \in Nat \ {0}
ASSUME FallbackAssumption == ZeroSeedFallback \in Words \ {Zero}
ASSUME DrawAssumption == Mul \in Nat /\ Mantissa \in 1 .. Width /\ Extra \in Nat /\ Drift \in Nat

VARIABLES
  state,  \* XorShift64.state
  out     \* the last value of next_u64

rngVars == <<state, out>>

\* Mutant: a shift without the xor.
ShiftedRight(x, n) == [i \in Bits |-> i + n \in Bits /\ x[i + n]]

\* XorShift64::new: zero, which the shifts would never leave, is replaced.
Seeded(seed) == IF seed = Zero THEN ZeroSeedFallback ELSE seed

\* x ^= x >> n and x ^= x << n.
XorRight(x, n) == [i \in Bits |-> x[i] # (i + n \in Bits /\ x[i + n])]
XorLeft(x, n) == [i \in Bits |-> x[i] # (i - n \in Bits /\ x[i - n])]

Step(x) == XorRight(XorLeft(XorRight(x, Shift1), Shift2), Shift3)

\* The powers of two, up to 2^64.
Pow2[n \in 0 .. Width] == IF n = 0 THEN 1 ELSE 2 * Pow2[n - 1]

\* The number a word stands for, from its lowest bits up.
Value(x) ==
  LET low[n \in 0 .. Width] ==
        IF n = 0 THEN 0 ELSE low[n - 1] + (IF x[n - 1] THEN Pow2[n - 1] ELSE 0)
  IN  low[Width]

\* wrapping_mul.
Output(x) == (Value(x) * Mul) % Pow2[Width]

New ==
  /\ \E seed \in Words : state = Seeded(seed)
  /\ out = 0

NextU64 ==
  /\ state' = Step(state)
  /\ out' = Output(state')

RngSpec == New /\ [][NextU64]_rngVars

-----------------------------------------------------------------------------
\* Mutant: a span of one too many.
IntRangeWide(v, min, max) == min + (v % (max - min + 2))

\* next_i32_range.
IntRange(v, min, max) == IF min = max THEN min ELSE min + (v % (max - min + 1))

\* next_f64_01, as a numerator over 2^Width: the conversion to f64 keeps
\* Mantissa bits and rounds to the nearest, ties to even.
Unit(v) ==
  LET ulp == CHOOSE u \in {Pow2[k] : k \in 0 .. Width} :
               v < u * Pow2[Mantissa] /\ (u = 1 \/ v >= (u \div 2) * Pow2[Mantissa])
      low == v \div ulp
      part == 2 * (v % ulp)
  IN  IF part > ulp \/ (part = ulp /\ low % 2 = 1) THEN (low + 1) * ulp ELSE low * ulp

-----------------------------------------------------------------------------
(* The state is never zero, from which every later draw would be zero. *)
NeverZero == state # Zero

(* What step_ticker makes of a draw is in the range QuoteGenerator chooses
   from: the drift in -drift .. drift, the addition in 0 .. extra, both ends
   included because a draw close to 2^64 rounds up to it as an f64. *)
DrawsInRange ==
  /\ \A d \in 0 .. Drift : IntRange(out, -d, d) \in -d .. d
  /\ \A e \in 0 .. Extra : (Unit(out) * e) \div Pow2[Width] \in 0 .. e
==============================================================================
