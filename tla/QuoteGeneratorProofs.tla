------------------------- MODULE QuoteGeneratorProofs ------------------------
(***************************************************************************)
(* Proofs about QuoteGenerator, for all tickers, volume parameters that    *)
(* satisfy VolumeAssumption, and emit intervals; and about XorShift, for   *)
(* all widths, shifts and multipliers, those of generator.rs included.     *)
(***************************************************************************)
EXTENDS QuoteGenerator, XorShift, WellFoundedInduction, TLAPS

\* Integer division by the drift divisor is monotone.
LEMMA DriftMonotone ==
  ASSUME NEW m \in Nat, NEW n \in Nat, NEW d \in Nat \ {0}, m <= n
  PROVE  m \div d \in Nat /\ m \div d <= n \div d
<1> DEFINE p == m \div d
           q == n \div d
<1>1. p \in Int /\ q \in Int /\ d * p <= m /\ n < d * (q + 1)
  OBVIOUS
<1>2. p >= 0
  OBVIOUS
<1> HIDE DEF p, q
<1>3. d * p < d * (q + 1)
  BY <1>1
<1>4. p < q + 1
  BY <1>1, <1>3
<1>5. QED
  BY <1>1, <1>2, <1>4 DEF p, q

\* One step of the walk stays in range.
LEMMA SteppedInRange ==
  ASSUME NEW t \in Tickers, NEW old \in 1 .. VolumeCap, NEW v \in Stepped(t, old)
  PROVE  v \in 1 .. VolumeCap
<1>1. VolumeCap \in Nat /\ old \in Nat /\ old <= VolumeCap /\ 1 <= VolumeCap
  BY VolumeAssumption DEF VolumeCap
<1>2. old \div DriftDivisor \in Nat /\ old \div DriftDivisor <= VolumeCap \div DriftDivisor
  BY <1>1, DriftMonotone, VolumeAssumption
<1>3. PICK add \in 0 .. ExtraOf(t),
           d \in -(old \div DriftDivisor) .. (old \div DriftDivisor) :
        v = Clamped(BaseOf(t) + add + d)
  BY DEF Stepped
<1>4. /\ BaseOf(t) \in Nat /\ ExtraOf(t) \in Nat
      /\ BaseOf(t) + ExtraOf(t) + VolumeCap \div DriftDivisor <= VolumeCap
  BY VolumeAssumption DEF BaseOf, ExtraOf
<1>5. VolumeCap \div DriftDivisor \in Int
  BY <1>1, VolumeAssumption
<1> HIDE DEF VolumeCap
<1>6. BaseOf(t) + add + d \in Int /\ BaseOf(t) + add + d <= VolumeCap
  BY <1>1, <1>2, <1>4, <1>5
<1>7. QED
  BY <1>1, <1>3, <1>6 DEF Clamped

\* A thread that has slept enough is past its deadline.
Rested == pc = "sleep" /\ sleepLeft = 0 => elapsed >= interval

\* The inductive invariant.
IInv == TypeOK /\ VolumeInRange /\ Paced /\ Rested

\* The invariant holds for a new generator.
LEMMA InitInv == Init => IInv
<1> SUFFICES ASSUME Init PROVE IInv
  OBVIOUS
<1>1. VolumeCap \in Nat /\ StartMin \in Nat \ {0}
  BY VolumeAssumption DEF VolumeCap
<1> HIDE DEF VolumeCap
<1>2. volume \in [Tickers -> StartMin .. VolumeCap] /\ quotes = volume
  BY DEF Init
<1>3. VolumeInRange /\ volume \in [Tickers -> Int] /\ quotes \in [Tickers -> Int]
  BY <1>1, <1>2 DEF VolumeInRange
<1>4. QED
  BY <1>3 DEF Init, IInv, TypeOK, Paced, Rested

\* Every step preserves it.
LEMMA NextInv == IInv /\ [Next]_vars => IInv'
<1> SUFFICES ASSUME IInv, [Next]_vars PROVE IInv'
  OBVIOUS
<1> USE IntervalsAssumption DEF IInv, TypeOK, VolumeInRange, Paced, Rested
<1> HIDE DEF VolumeCap
<1>1. CASE FirstBatch
  BY <1>1 DEF FirstBatch
<1>2. CASE Regenerate
  <2>1. PICK v \in [Tickers -> UNION {Stepped(t, volume[t]) : t \in Tickers}] :
          (\A t \in Tickers : v[t] \in Stepped(t, volume[t])) /\ volume' = v
    BY <1>2 DEF Regenerate
  <2>2. \A t \in Tickers : volume'[t] \in 1 .. VolumeCap
    <3> SUFFICES ASSUME NEW t \in Tickers PROVE volume'[t] \in 1 .. VolumeCap
      OBVIOUS
    <3>1. volume'[t] \in Stepped(t, volume[t]) /\ volume[t] \in 1 .. VolumeCap
      BY <2>1
    <3>2. QED
      BY <3>1, SteppedInRange
  <2>3. volume' \in [Tickers -> Int]
    BY <2>1, <2>2
  <2>4. pc' = "regen" /\ UNCHANGED <<interval, elapsed, sleepLeft, quotes>>
    BY <1>2 DEF Regenerate
  <2>5. QED
    BY <2>2, <2>3, <2>4
<1>3. CASE Measure
  BY <1>3 DEF Measure, Wait
<1>4. CASE WakeUp
  BY <1>4 DEF WakeUp
<1>5. CASE Emit
  BY <1>5 DEF Emit
<1>6. CASE SetEmitInterval
  BY <1>6 DEF SetEmitInterval
<1>7. CASE Tick
  BY <1>7 DEF Tick, Late
<1>8. CASE UNCHANGED vars
  BY <1>8 DEF vars
<1>9. QED
  BY <1>1, <1>2, <1>3, <1>4, <1>5, <1>6, <1>7, <1>8 DEF Next

\* A generator keeps the inductive invariant for ever.
THEOREM GeneratorInvariant == Spec => []IInv
  BY InitInv, NextInv, PTL DEF Spec

\* The state keeps its types (generator.rs:97-107).
THEOREM GeneratorTypeOK == Spec => []TypeOK
<1>1. IInv => TypeOK
  BY DEF IInv
<1>2. QED
  BY <1>1, GeneratorInvariant, PTL

\* No volume leaves 1 .. VolumeCap, for all tickers, parameters and lengths of
\* the walk (generator.rs:260-279).
THEOREM GeneratorVolumeInRange == Spec => []VolumeInRange
<1>1. IInv => VolumeInRange
  BY DEF IInv
<1>2. QED
  BY <1>1, GeneratorInvariant, PTL

\* Batches keep their distance and the thread never oversleeps, for all
\* intervals and their changes (generator.rs:184-201).
THEOREM GeneratorPaced == Spec => []Paced
<1>1. IInv => Paced
  BY DEF IInv
<1>2. QED
  BY <1>1, GeneratorInvariant, PTL

------------------------------------------------------------------------------
(* The pseudo-random generator never reaches zero. *)

\* A set of natural numbers that is not empty has a least element.
LEMMA LeastNat ==
  ASSUME NEW T, T \subseteq Nat, T # {}
  PROVE  \E n \in T : \A m \in T : n <= m
<1>1. PICK n \in T : \A m \in T : <<m, n>> \notin OpToRel(<, Nat)
  BY NatLessThanWellFounded, WFMin, Zenon
<1>2. \A m \in T : ~(m < n)
  BY <1>1 DEF OpToRel
<1>3. QED
  BY <1>2

\* The shifts take words to words.
LEMMA ShiftWords ==
  ASSUME NEW x \in Words, NEW n
  PROVE  XorRight(x, n) \in Words /\ XorLeft(x, n) \in Words
BY Zenon DEF Words, XorRight, XorLeft

\* A word that is not zero has a bit that is set.
LEMMA SetBit ==
  ASSUME NEW x \in Words, x # Zero
  PROVE  \E i \in Bits : x[i]
BY DEF Words, Zero

\* x ^ (x << n) keeps the lowest bit that is set.
LEMMA LeftNotZero ==
  ASSUME NEW x \in Words, x # Zero, NEW n \in Nat \ {0}
  PROVE  XorLeft(x, n) # Zero
<1> DEFINE T == {i \in Bits : x[i]}
<1>1. T # {} /\ T \subseteq Nat
  BY SetBit, ShiftsAssumption DEF Bits
<1>2. PICK i \in T : \A j \in T : i <= j
  BY <1>1, LeastNat
<1>3. i - n \notin T
  BY <1>1, <1>2
<1>4. XorLeft(x, n)[i]
  BY <1>2, <1>3 DEF XorLeft
<1>5. QED
  BY <1>2, <1>4 DEF Zero

\* x ^ (x >> n) keeps the highest bit that is set.
LEMMA RightNotZero ==
  ASSUME NEW x \in Words, x # Zero, NEW n \in Nat \ {0}
  PROVE  XorRight(x, n) # Zero
<1> DEFINE T == {k \in Bits : x[Width - 1 - k]}
<1>1. T # {}
  <2>1. PICK i \in Bits : x[i]
    BY SetBit
  <2>2. Width - 1 - i \in Bits /\ Width - 1 - (Width - 1 - i) = i
    BY ShiftsAssumption DEF Bits
  <2>3. QED
    BY <2>1, <2>2
<1>2. T \subseteq Nat
  BY ShiftsAssumption DEF Bits
<1>3. PICK k \in T : \A j \in T : k <= j
  BY <1>1, <1>2, LeastNat
<1> DEFINE i == Width - 1 - k
<1>4. i \in Bits /\ x[i]
  BY <1>3, ShiftsAssumption DEF Bits
<1>5. ~(i + n \in Bits /\ x[i + n])
  <2> SUFFICES ASSUME i + n \in Bits, x[i + n] PROVE FALSE
    OBVIOUS
  <2>1. k - n \in Bits /\ Width - 1 - (k - n) = i + n
    BY <1>2, <1>3, ShiftsAssumption DEF Bits
  <2>2. k - n \in T
    BY <2>1
  <2>3. QED
    BY <1>2, <1>3, <2>2
<1>6. XorRight(x, n)[i]
  BY <1>4, <1>5 DEF XorRight
<1>7. QED
  BY <1>4, <1>6 DEF Zero

(* The powers of two and the number of a word are recursive functions. *)

\* f follows from a by the steps of g.
Solves(f, a, g, k) == f = [i \in 0 .. k |-> IF i = 0 THEN a ELSE g[i][f[i - 1]]]

\* A recursion along 0 .. k has a solution.
LEMMA Recursion ==
  ASSUME NEW k \in Nat, NEW S, NEW a \in S, NEW g \in [Nat -> [S -> S]]
  PROVE  \E f \in [0 .. k -> S] : Solves(f, a, g, k)
<1> DEFINE T == {n \in Nat : ~ \E f \in [0 .. n -> S] : Solves(f, a, g, n)}
<1> SUFFICES ASSUME T # {} PROVE FALSE
  OBVIOUS
<1>1. PICK n \in T : \A m \in T : n <= m
  BY LeastNat
<1>2. CASE n = 0
  <2> DEFINE h == [i \in 0 .. 0 |-> a]
  <2>1. h \in [0 .. 0 -> S] /\ Solves(h, a, g, 0)
    BY DEF Solves
  <2>2. QED
    BY <1>1, <1>2, <2>1
<1>3. CASE n # 0
  <2>1. n \in Nat /\ n - 1 \in Nat /\ n - 1 \notin T
    BY <1>1, <1>3
  <2>2. PICK p \in [0 .. n - 1 -> S] : Solves(p, a, g, n - 1)
    BY <2>1
  <2>3. \A i \in 0 .. n - 1 : p[i] = IF i = 0 THEN a ELSE g[i][p[i - 1]]
    BY <2>2, Zenon DEF Solves
  <2>4. g[n][p[n - 1]] \in S
    BY <2>1, <2>2
  <2> DEFINE h == [i \in 0 .. n |-> IF i = n THEN g[n][p[n - 1]] ELSE p[i]]
  <2>5. h \in [0 .. n -> S]
    BY <2>1, <2>2, <2>4
  <2>6. ASSUME NEW i \in 0 .. n
        PROVE  h[i] = IF i = 0 THEN a ELSE g[i][h[i - 1]]
    <3>1. \A j \in 0 .. n - 1 : h[j] = p[j]
      BY <2>1
    <3>2. CASE i = n
      BY <3>1, <3>2, <1>3, <2>1
    <3>3. CASE i # n
      <4>1. i \in 0 .. n - 1 /\ (i # 0 => i - 1 \in 0 .. n - 1)
        BY <3>3, <2>1
      <4>2. QED
        BY <4>1, <3>1, <2>3
    <3>4. QED
      BY <3>2, <3>3
  <2> HIDE DEF h
  <2>7. DOMAIN h = 0 .. n /\ h = [i \in 0 .. n |-> h[i]]
    BY <2>5
  <2>8. Solves(h, a, g, n)
    BY <2>6, <2>7 DEF Solves
  <2>9. QED
    BY <1>1, <2>5, <2>8
<1>4. QED
  BY <1>2, <1>3

\* The powers of two are positive and double from one to the next.
LEMMA Powers ==
  /\ Pow2 \in [0 .. Width -> Nat \ {0}]
  /\ Pow2[0] = 1
  /\ \A n \in 1 .. Width : Pow2[n] = 2 * Pow2[n - 1]
<1> DEFINE S == Nat \ {0}
           g == [i \in Nat |-> [v \in S |-> 2 * v]]
           W(f) == f = [n \in 0 .. Width |-> IF n = 0 THEN 1 ELSE 2 * f[n - 1]]
<1>w. Width \in Nat
  BY ShiftsAssumption
<1>1. g \in [Nat -> [S -> S]] /\ 1 \in S
  OBVIOUS
<1>2. PICK f \in [0 .. Width -> S] : Solves(f, 1, g, Width)
  <2> HIDE DEF g, S
  <2> QED BY <1>1, <1>w, Recursion
<1>3. \A i \in 0 .. Width : f[i] = IF i = 0 THEN 1 ELSE g[i][f[i - 1]]
  <2> HIDE DEF g
  <2> QED BY <1>2, Zenon DEF Solves
<1>4. \A i \in 0 .. Width : f[i] = IF i = 0 THEN 1 ELSE 2 * f[i - 1]
  <2> SUFFICES ASSUME NEW i \in 0 .. Width, i # 0 PROVE f[i] = 2 * f[i - 1]
    BY <1>3
  <2>1. i \in Nat /\ i - 1 \in 0 .. Width
    BY <1>w
  <2>2. f[i - 1] \in S
    BY <2>1, <1>2
  <2>3. QED
    BY <2>1, <2>2, <1>3
<1>5. W(f)
  <2>1. f = [n \in 0 .. Width |-> f[n]]
    BY <1>2
  <2>2. QED
    BY <2>1, <1>4
<1>6. Pow2 = CHOOSE h : W(h)
  BY Zenon DEF Pow2
<1>7. W(Pow2)
  <2> HIDE DEF W
  <2> QED BY <1>5, <1>6, Zenon
<1>8. \A n \in 0 .. Width : Pow2[n] = IF n = 0 THEN 1 ELSE 2 * Pow2[n - 1]
  <2>1. PICK q : q = Pow2
    OBVIOUS
  <2>2. q = [n \in 0 .. Width |-> IF n = 0 THEN 1 ELSE 2 * q[n - 1]]
    BY <2>1, <1>7
  <2>3. \A n \in 0 .. Width : q[n] = IF n = 0 THEN 1 ELSE 2 * q[n - 1]
    BY <2>2, Zenon
  <2>4. QED
    BY <2>1, <2>3, Zenon
<1>9. \A n \in 0 .. Width : Pow2[n] \in S
  <2> DEFINE T == {n \in 0 .. Width : Pow2[n] \notin S}
  <2> SUFFICES ASSUME T # {} PROVE FALSE
    OBVIOUS
  <2>1. T \subseteq Nat
    BY <1>w
  <2>2. PICK n \in T : \A m \in T : n <= m
    BY <2>1, LeastNat
  <2>3. n # 0
    BY <1>8, <1>w, <2>2
  <2>4. n \in 0 .. Width /\ n - 1 \in 0 .. Width /\ n - 1 \notin T
    BY <1>w, <2>2, <2>3
  <2>5. Pow2[n - 1] \in S /\ Pow2[n] = 2 * Pow2[n - 1]
    BY <2>3, <2>4, <1>8
  <2>6. QED
    BY <2>2, <2>5
<1>10. DOMAIN Pow2 = 0 .. Width /\ Pow2 = [n \in 0 .. Width |-> Pow2[n]]
  BY <1>7
<1>11. Pow2 \in [0 .. Width -> S]
  <2>1. [n \in 0 .. Width |-> Pow2[n]] \in [0 .. Width -> S]
    BY <1>9, Zenon
  <2>2. QED
    BY ONLY <2>1, <1>10, Zenon
<1>12. Pow2[0] = 1 /\ \A n \in 1 .. Width : Pow2[n] = 2 * Pow2[n - 1]
  BY <1>8, <1>w
<1>13. QED
  BY <1>11, <1>12, Zenon

\* 2^k times 2^(Width - k) is 2^Width.
LEMMA PowersMultiply ==
  ASSUME NEW k \in 0 .. Width
  PROVE  Pow2[k] * Pow2[Width - k] = Pow2[Width]
<1> DEFINE T == {n \in 0 .. Width : Pow2[n] * Pow2[Width - n] # Pow2[Width]}
<1> SUFFICES ASSUME T # {} PROVE FALSE
  OBVIOUS
<1>w. Width \in Nat
  BY ShiftsAssumption
<1>1. T \subseteq Nat
  BY <1>w
<1>2. PICK n \in T : \A m \in T : n <= m
  BY <1>1, LeastNat
<1>3. n # 0
  BY <1>w, <1>2, Powers
<1>4. n - 1 \in 0 .. Width /\ n - 1 \notin T /\ n \in 1 .. Width
  BY <1>w, <1>2, <1>3
<1>5. Pow2[n - 1] * Pow2[Width - n + 1] = Pow2[Width]
  BY <1>4, <1>w
<1>6. Width - n \in 0 .. Width /\ Width - n + 1 \in 1 .. Width /\ (Width - n + 1) - 1 = Width - n
  BY <1>4, <1>w
<1>p. /\ Pow2[n - 1] \in Nat /\ Pow2[Width - n] \in Nat
      /\ Pow2[n] \in Nat /\ Pow2[Width - n + 1] \in Nat
  <2>1. n \in 0 .. Width /\ Width - n + 1 \in 0 .. Width
    BY <1>4, <1>6, <1>w
  <2>2. \A i \in 0 .. Width : Pow2[i] \in Nat
    BY Powers
  <2>3. QED
    BY ONLY <2>1, <2>2, <1>4, <1>6, Zenon
<1>7. PICK a, b, c, d \in Nat :
        a = Pow2[n - 1] /\ b = Pow2[Width - n] /\ c = Pow2[n] /\ d = Pow2[Width - n + 1]
  BY <1>p, Zenon
<1>8. c = 2 * a /\ d = 2 * b
  BY <1>4, <1>6, <1>7, Powers
<1>9. c * b = a * d
  BY <1>8
<1>10. QED
  BY <1>2, <1>5, <1>7, <1>9

\* A word stands for a natural number.
LEMMA ValueNat == ASSUME NEW x \in Words PROVE Value(x) \in Nat
<1> DEFINE bit(i) == IF x[i - 1] THEN Pow2[i - 1] ELSE 0
           W(f) == f = [n \in 0 .. Width |-> IF n = 0 THEN 0 ELSE f[n - 1] + bit(n)]
           g == [i \in Nat |-> IF i \in 1 .. Width THEN [v \in Nat |-> v + bit(i)] ELSE [v \in Nat |-> v]]
<1>w. Width \in Nat
  BY ShiftsAssumption
<1>b. \A i \in 1 .. Width : bit(i) \in Nat
  <2> SUFFICES ASSUME NEW i \in 1 .. Width PROVE bit(i) \in Nat
    OBVIOUS
  <2>1. i - 1 \in 0 .. Width
    BY <1>w
  <2>2. Pow2[i - 1] \in Nat
    BY <2>1, Powers
  <2>3. QED
    BY <2>2
<1> HIDE DEF bit
<1>1. g \in [Nat -> [Nat -> Nat]]
  BY <1>b
<1>2. PICK f \in [0 .. Width -> Nat] : Solves(f, 0, g, Width)
  <2> HIDE DEF g
  <2> QED BY <1>1, <1>w, Recursion
<1>3. \A i \in 0 .. Width : f[i] = IF i = 0 THEN 0 ELSE g[i][f[i - 1]]
  <2> HIDE DEF g
  <2> QED BY <1>2, Zenon DEF Solves
<1>4. \A i \in 0 .. Width : f[i] = IF i = 0 THEN 0 ELSE f[i - 1] + bit(i)
  <2> SUFFICES ASSUME NEW i \in 0 .. Width, i # 0 PROVE f[i] = f[i - 1] + bit(i)
    BY <1>3
  <2>1. i \in Nat /\ i \in 1 .. Width /\ i - 1 \in 0 .. Width
    BY <1>w
  <2>2. f[i - 1] \in Nat
    BY <2>1, <1>2
  <2>3. QED
    BY <2>1, <2>2, <1>3
<1>5. W(f)
  <2>1. f = [n \in 0 .. Width |-> f[n]]
    BY <1>2
  <2>2. QED
    BY <2>1, <1>4
<1> DEFINE v == CHOOSE h : W(h)
<1>6. Value(x) = v[Width]
  BY Zenon DEF Value, bit
<1>7. W(v)
  <2> HIDE DEF W
  <2> QED BY <1>5, Zenon
<1> HIDE DEF v
<1>8. \A n \in 0 .. Width : v[n] = IF n = 0 THEN 0 ELSE v[n - 1] + bit(n)
  BY <1>7, Zenon
<1>9. \A n \in 0 .. Width : v[n] \in Nat
  <2> DEFINE T == {n \in 0 .. Width : v[n] \notin Nat}
  <2> SUFFICES ASSUME T # {} PROVE FALSE
    OBVIOUS
  <2>1. T \subseteq Nat
    BY <1>w
  <2>2. PICK n \in T : \A m \in T : n <= m
    BY <2>1, LeastNat
  <2>3. n # 0
    BY <1>8, <1>w, <2>2
  <2>4. n \in 1 .. Width /\ n - 1 \in 0 .. Width /\ n - 1 \notin T
    BY <1>w, <2>2, <2>3
  <2>5. v[n - 1] \in Nat /\ v[n] = v[n - 1] + bit(n)
    BY <2>3, <2>4, <1>8, <1>w
  <2>6. QED
    BY <2>2, <2>4, <2>5, <1>b
<1>10. QED
  BY <1>6, <1>9, <1>w

(* The draws. *)

\* Every draw of next_u64.
Draws == 0 .. Pow2[Width] - 1

\* wrapping_mul stays in a word.
LEMMA OutputDraws == ASSUME NEW x \in Words PROVE Output(x) \in Draws
<1>1. PICK m \in Nat \ {0} : m = Pow2[Width]
  BY Powers, ShiftsAssumption
<1>2. PICK v \in Nat : v = Value(x)
  BY ValueNat
<1>3. v * Mul \in Nat
  BY DrawAssumption
<1>4. (v * Mul) % m \in 0 .. m - 1
  BY <1>1, <1>3
<1>5. QED
  BY <1>1, <1>2, <1>4 DEF Output, Draws

\* next_i32_range(-d, d) is in its range.
LEMMA IntRangeInRange ==
  ASSUME NEW v \in Nat, NEW d \in Nat
  PROVE  IntRange(v, -d, d) \in -d .. d
<1>1. CASE d = 0
  BY <1>1 DEF IntRange
<1>2. CASE d # 0
  <2>1. PICK s \in Nat \ {0} : s = d - (-d) + 1
    OBVIOUS
  <2>2. v % s \in 0 .. s - 1
    OBVIOUS
  <2>3. -d # d
    BY <1>2
  <2>4. IntRange(v, -d, d) = -d + (v % s)
    BY <2>1, <2>3 DEF IntRange
  <2>5. PICK r \in 0 .. s - 1 : r = v % s
    BY <2>2
  <2>6. QED
    BY <2>1, <2>4, <2>5
<1>3. QED
  BY <1>1, <1>2

\* The quotient and the remainder of a natural number.
LEMMA Division ==
  ASSUME NEW v \in Nat, NEW u \in Nat \ {0}
  PROVE  v \div u \in Nat /\ v % u \in Nat /\ u * (v \div u) <= v
<1>1. v \div u \in Int /\ v % u \in 0 .. u - 1 /\ u * (v \div u) <= v /\ v < u * ((v \div u) + 1)
  OBVIOUS
<1>2. PICK q \in Int : q = v \div u
  BY <1>1
<1>3. q >= 0
  BY <1>1, <1>2
<1>4. QED
  BY <1>1, <1>2, <1>3

\* The rounding of a draw to an f64 has an ulp.
LEMMA UlpExists ==
  ASSUME NEW v \in Draws
  PROVE  \E u \in {Pow2[k] : k \in 0 .. Width} :
           v < u * Pow2[Mantissa] /\ (u = 1 \/ v >= (u \div 2) * Pow2[Mantissa])
<1> DEFINE T == {k \in 0 .. Width : v < Pow2[k] * Pow2[Mantissa]}
<1>w. Width \in Nat /\ Mantissa \in 0 .. Width
  BY ShiftsAssumption, DrawAssumption
<1>1. PICK m \in Nat \ {0} : m = Pow2[Mantissa]
  BY <1>w, Powers
<1>2. Width \in T
  <2>1. PICK p \in Nat \ {0} : p = Pow2[Width]
    BY <1>w, Powers
  <2>2. v \in Nat /\ v < p
    BY <2>1 DEF Draws
  <2>3. p <= p * m
    OBVIOUS
  <2>4. v < p * m
    BY <2>2, <2>3
  <2>5. QED
    BY <2>1, <2>4, <1>1, <1>w
<1>t. T \subseteq Nat /\ T # {}
  BY <1>2, <1>w
<1>3. PICK k \in T : \A j \in T : k <= j
  <2> HIDE DEF T
  <2> QED BY <1>t, LeastNat
<1>4. CASE k = 0
  BY <1>3, <1>4, Powers
<1>5. CASE k # 0
  <2>1. k \in 1 .. Width /\ k - 1 \in 0 .. Width /\ k - 1 \notin T
    BY <1>3, <1>5, <1>w
  <2>2. PICK a \in Nat \ {0} : a = Pow2[k - 1]
    BY <2>1, Powers
  <2>3. Pow2[k] = 2 * a
    BY <2>1, <2>2, Powers
  <2>4. (2 * a) \div 2 = a
    OBVIOUS
  <2>5. ~(v < a * m)
    BY <2>1, <2>2, <1>1
  <2>6. v \in Nat
    BY <1>w, Powers DEF Draws
  <2>7. v >= a * m
    BY <2>5, <2>6
  <2>8. QED
    BY <1>1, <1>3, <2>3, <2>4, <2>7
<1>6. QED
  BY <1>4, <1>5

\* next_f64_01 is between 0 and 1, both included.
LEMMA UnitInRange == ASSUME NEW v \in Draws PROVE Unit(v) \in 0 .. Pow2[Width]
<1> DEFINE ulp == CHOOSE u \in {Pow2[k] : k \in 0 .. Width} :
                    v < u * Pow2[Mantissa] /\ (u = 1 \/ v >= (u \div 2) * Pow2[Mantissa])
<1>1. ulp \in {Pow2[k] : k \in 0 .. Width}
  BY UlpExists, Zenon
<1>2. PICK k \in 0 .. Width : ulp = Pow2[k]
  BY <1>1
<1>3. Unit(v) \in {(v \div ulp + 1) * ulp, (v \div ulp) * ulp}
  BY DEF Unit
<1> HIDE DEF ulp
<1>w. Width \in Nat /\ Width - k \in 0 .. Width
  BY ShiftsAssumption
<1>p. ulp \in Nat \ {0} /\ Pow2[Width - k] \in Nat \ {0} /\ Pow2[Width] \in Nat \ {0}
  BY <1>2, <1>w, Powers
<1>4. PICK u, c, p \in Nat \ {0} : u = ulp /\ c = Pow2[Width - k] /\ p = Pow2[Width]
  BY <1>p, Zenon
<1>5. p = u * c
  BY <1>2, <1>4, PowersMultiply
<1>6. v \in Nat /\ v < p
  BY <1>4 DEF Draws
<1>7. PICK q \in Nat : q = v \div u
  BY <1>6, Division
<1>8. u * q <= v
  BY <1>6, <1>7, Division
<1>9. u * q < u * c
  BY <1>5, <1>6, <1>8
<1>10. q + 1 <= c
  BY <1>9
<1>11. (q + 1) * u <= p /\ q * u <= p
  BY <1>5, <1>10
<1>12. (q + 1) * u \in Nat /\ q * u \in Nat
  OBVIOUS
<1>13. Unit(v) \in {(q + 1) * u, q * u}
  BY <1>3, <1>4, <1>7
<1>14. QED
  BY <1>4, <1>11, <1>12, <1>13

\* A share between 0 and 1 of e, rounded down.
LEMMA ShareInRange ==
  ASSUME NEW p \in Nat \ {0}, NEW u \in 0 .. p, NEW e \in Nat
  PROVE  (u * e) \div p \in 0 .. e
<1>1. u * e \in Nat /\ u * e <= p * e
  OBVIOUS
<1>2. PICK q \in Nat : q = (u * e) \div p
  BY <1>1, Division
<1>3. p * q <= u * e
  BY <1>1, <1>2, Division
<1>4. p * q <= p * e
  BY <1>1, <1>3
<1>5. q <= e
  BY <1>4
<1>6. QED
  BY <1>2, <1>5

\* pop_extra scaled by a draw.
LEMMA ScaledInRange ==
  ASSUME NEW v \in Draws, NEW e \in Nat
  PROVE  (Unit(v) * e) \div Pow2[Width] \in 0 .. e
<1>1. Pow2[Width] \in Nat \ {0}
  BY Powers, ShiftsAssumption
<1>2. QED
  BY <1>1, UnitInRange, ShareInRange

\* The inductive invariant of the pseudo-random generator: its state is a word
\* that is not zero, and what it returned fits a word.
RngInv == state \in Words \ {Zero} /\ out \in Draws

\* A step takes a word that is not zero to another.
LEMMA RngStepInv == RngInv /\ [NextU64]_rngVars => RngInv'
<1> SUFFICES ASSUME RngInv, NextU64 PROVE RngInv'
  BY DEF RngInv, rngVars
<1> DEFINE y == XorRight(state, Shift1)
           z == XorLeft(y, Shift2)
<1>1. y \in Words \ {Zero}
  BY ShiftWords, RightNotZero, ShiftsAssumption DEF RngInv
<1>2. z \in Words \ {Zero}
  BY <1>1, ShiftWords, LeftNotZero, ShiftsAssumption
<1>3. XorRight(z, Shift3) \in Words \ {Zero}
  BY <1>2, ShiftWords, RightNotZero, ShiftsAssumption
<1>4. state' \in Words \ {Zero}
  BY <1>3 DEF NextU64, Step
<1>5. out' \in Draws
  BY <1>4, OutputDraws DEF NextU64
<1>6. QED
  BY <1>4, <1>5 DEF RngInv

\* The generator keeps its inductive invariant for ever.
THEOREM RngInvariant == RngSpec => []RngInv
<1>1. 0 \in Draws
  <2>1. PICK p \in Nat \ {0} : p = Pow2[Width]
    BY Powers, ShiftsAssumption
  <2>2. QED
    BY <2>1 DEF Draws
<1>2. New => RngInv
  BY <1>1, FallbackAssumption DEF New, Seeded, RngInv
<1>3. QED
  BY <1>2, RngStepInv, PTL DEF RngSpec

\* Whatever the seed, the state of the generator is never zero.
THEOREM XorShiftNeverZero == RngSpec => []NeverZero
<1>1. RngInv => NeverZero
  BY DEF RngInv, NeverZero
<1>2. QED
  BY <1>1, RngInvariant, PTL

\* The draws of the drift and of the addition stay in their ranges, for all
\* widths, precisions of an f64 and bounds (generator.rs:69-82, 266-270).
THEOREM XorShiftDrawsInRange == RngSpec => []DrawsInRange
<1>1. RngInv => DrawsInRange
  <2> SUFFICES ASSUME RngInv PROVE DrawsInRange
    OBVIOUS
  <2>1. out \in Draws /\ out \in Nat
    BY Powers, ShiftsAssumption DEF RngInv, Draws
  <2>2. \A d \in 0 .. Drift : IntRange(out, -d, d) \in -d .. d
    BY <2>1, IntRangeInRange, DrawAssumption
  <2>3. \A e \in 0 .. Extra : (Unit(out) * e) \div Pow2[Width] \in 0 .. e
    BY <2>1, ScaledInRange, DrawAssumption
  <2>4. QED
    BY <2>2, <2>3 DEF DrawsInRange
<1>2. QED
  BY <1>1, RngInvariant, PTL

\* The volume step_ticker computes from an old one and two draws of next_u64.
Computed(t, old, v1, v2) ==
  LET drift == old \div DriftDivisor
  IN  Clamped(BaseOf(t) + (Unit(v1) * ExtraOf(t)) \div Pow2[Width] + IntRange(v2, -drift, drift))

\* The choice that QuoteGenerator makes in place of the pseudo-random generator
\* leaves nothing out: what step_ticker computes from any two draws is among
\* the volumes of Stepped (generator.rs:266-275).
THEOREM ComputedIsStepped ==
  ASSUME NEW t \in Tickers, NEW old \in 1 .. VolumeCap, NEW v1 \in Draws, NEW v2 \in Draws
  PROVE  Computed(t, old, v1, v2) \in Stepped(t, old)
<1> DEFINE drift == old \div DriftDivisor
           add == (Unit(v1) * ExtraOf(t)) \div Pow2[Width]
           d == IntRange(v2, -drift, drift)
<1>1. VolumeCap \in Nat /\ old \in Nat
  BY VolumeAssumption DEF VolumeCap
<1>2. drift \in Nat
  BY <1>1, Division, VolumeAssumption
<1>3. ExtraOf(t) \in Nat
  BY VolumeAssumption DEF ExtraOf
<1>4. add \in 0 .. ExtraOf(t)
  BY <1>3, ScaledInRange
<1>5. v2 \in Nat
  BY Powers, ShiftsAssumption DEF Draws
<1>6. d \in -drift .. drift
  <2> HIDE DEF drift
  <2> QED BY <1>2, <1>5, IntRangeInRange
<1> HIDE DEF add, d
<1>7. Clamped(BaseOf(t) + add + d) \in Stepped(t, old)
  BY <1>4, <1>6 DEF Stepped
<1>8. QED
  BY <1>7 DEF Computed, add, d
==============================================================================
