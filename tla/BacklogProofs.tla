---------------------------- MODULE BacklogProofs ----------------------------
(***************************************************************************)
(* Proofs about Backlog, for all rates and delays, those of a worker that  *)
(* is slower than the generator included.  The argument is the one of a    *)
(* leaky bucket: work left in the queue and time since the last batch      *)
(* together grow only by the ticks the worker is kept from running and,    *)
(* with each batch it takes, by its excess.                                *)
(***************************************************************************)
EXTENDS Backlog, TLAPS

\* The bound on a busy period counts what was taken and what is queued.
Busy == taken + Len(chan) <= MaxBusy
\* Ticks lost and ticks behind.
Lost == lag + Behind
\* Work queued, work in hand and time since the last batch, against time lost.
Bucket == Len(chan) * EmitInterval + rest + elapsed <= EmitInterval + Lost
\* The same for a batch and what is in front of it, its age in place of elapsed.
Waited == \A i \in 1 .. Len(chan) : chan[i] + rest + i * EmitInterval <= EmitInterval + Lost
HeldAge == rest > 0 => held + rest <= EmitInterval + Lost
HeldOnce == held <= EmitInterval + Lag + Behind

\* The inductive invariant.
IInv == TypeOK /\ Busy /\ Bucket /\ Waited /\ HeldAge /\ HeldOnce

\* Products with the interval.
LEMMA Products ==
  \A n \in Nat :
    /\ n * EmitInterval \in Nat
    /\ (n + 1) * EmitInterval = n * EmitInterval + EmitInterval
    /\ n > 0 => (n - 1) * EmitInterval = n * EmitInterval - EmitInterval
    /\ n > 0 => n * EmitInterval >= EmitInterval
BY RatesAssumption

\* How far behind a worker is when it has taken a batch more, and none.
LEMMA BehindGrows ==
  /\ Excess \in Nat /\ SendTime <= EmitInterval + Excess
  /\ 0 * Excess = 0
  /\ \A n \in Nat : n * Excess \in Nat /\ (n + 1) * Excess = n * Excess + Excess
<1>1. Excess \in Nat /\ SendTime <= EmitInterval + Excess
  BY RatesAssumption DEF Excess
<1>2. QED
  BY <1>1

\* A tick makes every batch in a queue a tick older.
LEMMA Aged ==
  ASSUME NEW s \in Seq(Nat)
  PROVE  LET t == [i \in 1 .. Len(s) |-> s[i] + 1]
         IN  /\ t \in Seq(Nat) /\ Len(t) = Len(s)
             /\ \A i \in 1 .. Len(t) : t[i] = s[i] + 1 /\ s[i] \in Nat
<1>1. \A i \in 1 .. Len(s) : s[i] \in Nat /\ s[i] + 1 \in Nat
  OBVIOUS
<1>2. QED
  BY <1>1

\* The invariant holds before the first batch.
LEMMA InitInv == Init => IInv
<1> SUFFICES ASSUME Init PROVE IInv
  OBVIOUS
<1>1. Behind = 0 /\ Len(chan) = 0 /\ Len(chan) * EmitInterval = 0
  BY BehindGrows, RatesAssumption DEF Init, Behind
<1>2. QED
  BY <1>1, RatesAssumption
  DEF Init, IInv, TypeOK, Busy, Lost, Bucket, Waited, HeldAge, HeldOnce

\* What the invariant says in numbers.
LEMMA Numbers ==
  ASSUME IInv
  PROVE  /\ EmitInterval \in Nat \ {0} /\ SendTime \in Nat /\ Lag \in Nat /\ MaxBusy \in Nat
         /\ elapsed \in Nat /\ elapsed <= EmitInterval /\ held \in Nat
         /\ rest \in Nat /\ rest <= SendTime /\ lag \in Nat /\ lag <= Lag
         /\ taken \in Nat /\ taken <= MaxBusy /\ Behind \in Nat
         /\ Lost \in Nat /\ Lost = lag + Behind
         /\ chan \in Seq(Nat) /\ Len(chan) \in Nat
         /\ \A i \in 1 .. Len(chan) : i \in Nat /\ i > 0 /\ chan[i] \in Nat
<1>1. /\ EmitInterval \in Nat \ {0} /\ SendTime \in Nat /\ Lag \in Nat /\ MaxBusy \in Nat
      /\ elapsed \in Nat /\ elapsed <= EmitInterval /\ held \in Nat
      /\ rest \in Nat /\ rest <= SendTime /\ lag \in Nat /\ lag <= Lag
      /\ taken \in Nat /\ taken <= MaxBusy
      /\ chan \in Seq(Nat) /\ Len(chan) \in Nat
  BY RatesAssumption DEF IInv, TypeOK
<1>2. Behind \in Nat
  BY <1>1, BehindGrows DEF Behind
<1>3. \A i \in 1 .. Len(chan) : i \in Nat /\ i > 0 /\ chan[i] \in Nat
  BY <1>1
<1>4. QED
  BY <1>1, <1>2, <1>3 DEF Lost

\* A batch more is queued when an interval is over.
LEMMA EmitInv == IInv /\ Emit => IInv'
<1> SUFFICES ASSUME IInv, Emit PROVE IInv'
  OBVIOUS
<1>n. /\ EmitInterval \in Nat \ {0} /\ SendTime \in Nat /\ Lag \in Nat /\ MaxBusy \in Nat
      /\ elapsed \in Nat /\ elapsed <= EmitInterval /\ held \in Nat
      /\ rest \in Nat /\ rest <= SendTime /\ lag \in Nat /\ lag <= Lag
      /\ taken \in Nat /\ taken <= MaxBusy /\ Behind \in Nat
      /\ Lost \in Nat /\ Lost = lag + Behind
      /\ chan \in Seq(Nat) /\ Len(chan) \in Nat
      /\ \A i \in 1 .. Len(chan) : i \in Nat /\ i > 0 /\ chan[i] \in Nat
  BY Numbers, Zenon
<1>1. /\ chan' \in Seq(Nat) /\ Len(chan') = Len(chan) + 1
      /\ \A i \in 1 .. Len(chan') : chan'[i] = IF i = Len(chan') THEN 0 ELSE chan[i]
  BY <1>n DEF Emit
<1>2. Len(chan') * EmitInterval = Len(chan) * EmitInterval + EmitInterval
  BY <1>n, <1>1, Products
<1>3. /\ elapsed = EmitInterval /\ elapsed' = 0 /\ taken + Len(chan) < MaxBusy
      /\ held' = held /\ rest' = rest /\ taken' = taken /\ lag' = lag
  BY DEF Emit, Due
<1>4. Lost' = Lost /\ Behind' = Behind
  BY <1>3 DEF Lost, Behind
<1> DEFINE work == Len(chan) * EmitInterval
<1>5. work \in Nat /\ work + rest + elapsed <= EmitInterval + Lost
  BY <1>n, Products DEF IInv, Bucket
<1>6. Len(chan') * EmitInterval = work + EmitInterval
  BY <1>2
<1> HIDE DEF work
<1>7. TypeOK' /\ Busy'
  BY <1>n, <1>1, <1>3 DEF IInv, TypeOK, Busy
<1>8. Bucket' /\ HeldAge' /\ HeldOnce'
  BY <1>n, <1>3, <1>4, <1>5, <1>6 DEF IInv, Bucket, HeldAge, HeldOnce
<1>9. ASSUME NEW i \in 1 .. Len(chan')
      PROVE chan'[i] + rest' + i * EmitInterval <= EmitInterval + Lost'
  <2>1. CASE i = Len(chan')
    <3>1. chan'[i] = 0 /\ i * EmitInterval = work + EmitInterval
      BY <1>1, <1>6, <2>1
    <3>2. QED
      BY <1>n, <1>3, <1>4, <1>5, <3>1
  <2>2. CASE i # Len(chan')
    <3>1. i \in 1 .. Len(chan) /\ chan'[i] = chan[i]
      BY <1>n, <1>1, <2>2
    <3>2. chan[i] + rest + i * EmitInterval <= EmitInterval + Lost
      BY <3>1 DEF IInv, Waited
    <3>3. QED
      BY <1>3, <1>4, <3>1, <3>2, Zenon
  <2>3. QED
    BY <2>1, <2>2
<1>10. QED
  BY <1>7, <1>8, <1>9 DEF IInv, Waited

\* The oldest batch is taken, which puts the worker behind by its excess.
LEMMA RecvInv == IInv /\ Recv => IInv'
<1> SUFFICES ASSUME IInv, Recv PROVE IInv'
  OBVIOUS
<1>n. /\ EmitInterval \in Nat \ {0} /\ SendTime \in Nat /\ Lag \in Nat /\ MaxBusy \in Nat
      /\ elapsed \in Nat /\ elapsed <= EmitInterval /\ held \in Nat
      /\ rest \in Nat /\ rest <= SendTime /\ lag \in Nat /\ lag <= Lag
      /\ taken \in Nat /\ taken <= MaxBusy /\ Behind \in Nat
      /\ Lost \in Nat /\ Lost = lag + Behind
      /\ chan \in Seq(Nat) /\ Len(chan) \in Nat
      /\ \A i \in 1 .. Len(chan) : i \in Nat /\ i > 0 /\ chan[i] \in Nat
  BY Numbers, Zenon
<1>1. /\ chan' \in Seq(Nat) /\ Len(chan') = Len(chan) - 1 /\ Len(chan) > 0
      /\ \A i \in 1 .. Len(chan') : chan'[i] = chan[i + 1]
      /\ held' = chan[1] /\ chan[1] \in Nat
  BY <1>n DEF Recv
<1>2. Len(chan') * EmitInterval = Len(chan) * EmitInterval - EmitInterval
  BY <1>n, <1>1, Products
<1>3. PICK r \in 0 .. SendTime :
        /\ rest = 0 /\ rest' = r
        /\ taken' = taken + 1 /\ lag' = lag /\ elapsed' = elapsed
  BY Zenon DEF Recv
<1>4. /\ Behind' = Behind + Excess /\ Lost' = Lost + Excess
      /\ Excess \in Nat /\ SendTime <= EmitInterval + Excess
  <2>1. Behind' = Behind + Excess
    BY <1>n, <1>3, BehindGrows DEF Behind
  <2>2. Excess \in Nat /\ SendTime <= EmitInterval + Excess
    BY BehindGrows
  <2>3. Lost' = lag + (Behind + Excess)
    BY <1>3, <2>1, Zenon DEF Lost
  <2>4. QED
    BY <1>n, <2>1, <2>2, <2>3
<1> DEFINE work == Len(chan) * EmitInterval
<1>5. work \in Nat /\ work + rest + elapsed <= EmitInterval + Lost
  BY <1>n, Products DEF IInv, Bucket
<1>6. Len(chan') * EmitInterval = work - EmitInterval
  BY <1>2
<1> HIDE DEF work
<1>7. TypeOK' /\ Busy'
  BY <1>n, <1>1, <1>3 DEF IInv, TypeOK, Busy
<1>8. Bucket'
  BY <1>n, <1>3, <1>4, <1>5, <1>6 DEF Bucket
<1>9. HeldAge' /\ HeldOnce'
  <2>1. 1 \in 1 .. Len(chan) /\ 1 * EmitInterval = EmitInterval
    BY <1>n, <1>1
  <2>2. chan[1] + rest + EmitInterval <= EmitInterval + Lost
    BY <2>1 DEF IInv, Waited
  <2>3. QED
    BY <1>n, <1>1, <1>3, <1>4, <2>2 DEF HeldAge, HeldOnce
<1>10. ASSUME NEW i \in 1 .. Len(chan')
       PROVE chan'[i] + rest' + i * EmitInterval <= EmitInterval + Lost'
  <2>1. i \in Nat /\ i + 1 \in 1 .. Len(chan) /\ chan'[i] = chan[i + 1] /\ chan[i + 1] \in Nat
    BY <1>n, <1>1
  <2>2. (i + 1) * EmitInterval = i * EmitInterval + EmitInterval /\ i * EmitInterval \in Nat
    BY <2>1, Products
  <2>3. chan[i + 1] + rest + (i + 1) * EmitInterval <= EmitInterval + Lost
    BY <2>1 DEF IInv, Waited
  <2> DEFINE ahead == i * EmitInterval
  <2>4. ahead \in Nat /\ chan[i + 1] + rest + ahead + EmitInterval <= EmitInterval + Lost
    BY <1>n, <1>3, <2>1, <2>2, <2>3
  <2> HIDE DEF ahead
  <2>5. /\ EmitInterval \in Nat /\ SendTime \in Nat /\ Lost \in Nat /\ Excess \in Nat
        /\ rest = 0 /\ r \in Nat /\ r <= SendTime /\ SendTime <= EmitInterval + Excess
        /\ chan[i + 1] \in Nat
    BY <1>n, <1>3, <1>4, <2>1
  <2>6. chan[i + 1] + r + ahead <= EmitInterval + (Lost + Excess)
    BY ONLY <2>4, <2>5
  <2>7. chan'[i] + rest' + ahead <= EmitInterval + Lost'
    BY <1>3, <1>4, <2>1, <2>6, Zenon
  <2>8. QED
    BY <2>7 DEF ahead
<1>11. QED
  BY <1>7, <1>8, <1>9, <1>10 DEF IInv, Waited

\* Time passes.
LEMMA TickInv == IInv /\ Tick => IInv'
<1> SUFFICES ASSUME IInv, Tick PROVE IInv'
  OBVIOUS
<1>n. /\ EmitInterval \in Nat \ {0} /\ SendTime \in Nat /\ Lag \in Nat /\ MaxBusy \in Nat
      /\ elapsed \in Nat /\ elapsed <= EmitInterval /\ held \in Nat
      /\ rest \in Nat /\ rest <= SendTime /\ lag \in Nat /\ lag <= Lag
      /\ taken \in Nat /\ taken <= MaxBusy /\ Behind \in Nat
      /\ Lost \in Nat /\ Lost = lag + Behind
      /\ chan \in Seq(Nat) /\ Len(chan) \in Nat
      /\ \A i \in 1 .. Len(chan) : i \in Nat /\ i > 0 /\ chan[i] \in Nat
  BY Numbers, Zenon
<1>1. /\ chan' \in Seq(Nat) /\ Len(chan') = Len(chan)
      /\ \A i \in 1 .. Len(chan') : chan'[i] = chan[i] + 1 /\ chan[i] \in Nat
  <2>1. chan \in Seq(Nat) /\ chan' = [i \in 1 .. Len(chan) |-> chan[i] + 1]
    BY Zenon DEF IInv, TypeOK, Tick
  <2>2. QED
    BY ONLY <2>1, Aged
<1>2. elapsed' = IF elapsed < EmitInterval THEN elapsed + 1 ELSE elapsed
  BY DEF Tick
<1> DEFINE work == Len(chan) * EmitInterval
<1>3. /\ work \in Nat /\ work + rest + elapsed <= EmitInterval + Lost
      /\ rest > 0 => held + rest <= EmitInterval + Lost
      /\ held <= EmitInterval + Lag + Behind
      /\ taken + Len(chan) <= MaxBusy
  BY <1>n, Products DEF IInv, Busy, Bucket, HeldAge, HeldOnce
<1>4. Len(chan') * EmitInterval = work
  BY ONLY <1>1
<1> HIDE DEF work
<1>5. CASE ~(rest > 0) /\ chan = << >> /\ held' = 0 /\ taken' = 0 /\ lag' = 0 /\ rest' = rest
  <2>1. work = 0 /\ Len(chan) = 0
    BY <1>5, <1>n DEF work
  <2>2. Behind' = 0 /\ Lost' = 0
    BY <1>5, BehindGrows DEF Behind, Lost
  <2>3. TypeOK' /\ Busy'
    BY <1>n, <1>1, <1>2, <1>5, <2>1 DEF TypeOK, Busy
  <2>4. Bucket' /\ HeldAge' /\ HeldOnce'
    BY <1>n, <1>2, <1>4, <1>5, <2>1, <2>2 DEF Bucket, HeldAge, HeldOnce
  <2>5. Waited'
    BY <1>1, <2>1 DEF Waited
  <2>6. QED
    BY <2>3, <2>4, <2>5 DEF IInv
<1>6. ASSUME NEW r \in 0 .. SendTime, NEW l \in 0 .. Lag, NEW h \in Nat,
             rest' = r, lag' = l, held' = h, taken' = taken,
             r + lag + 1 <= rest + l, r <= rest, lag <= l,
             h = IF rest > 0 THEN held + 1 ELSE held
      PROVE  IInv'
  <2>1. Behind' = Behind /\ Lost' = l + Behind /\ l + Behind \in Nat
    <3>1. Behind' = Behind
      BY <1>6, Zenon DEF Behind
    <3>2. QED
      BY <1>n, <1>6, <3>1 DEF Lost
  <2>2. TypeOK' /\ Busy'
    BY <1>n, <1>1, <1>2, <1>3, <1>6 DEF TypeOK, Busy
  <2>3. Bucket'
    <3>1. work + r + elapsed' <= EmitInterval + (l + Behind)
      BY <1>n, <1>2, <1>3, <1>6
    <3>2. QED
      BY <1>4, <1>6, <2>1, <3>1 DEF Bucket
  <2>4. HeldAge' /\ HeldOnce'
    <3>1. r > 0 => h + r <= EmitInterval + (l + Behind)
      BY <1>n, <1>3, <1>6
    <3>2. h <= EmitInterval + Lag + Behind
      BY <1>n, <1>3, <1>6
    <3>3. QED
      BY <1>6, <2>1, <3>1, <3>2 DEF HeldAge, HeldOnce
  <2>5. ASSUME NEW i \in 1 .. Len(chan')
        PROVE chan'[i] + rest' + i * EmitInterval <= EmitInterval + Lost'
    <3>1. i \in 1 .. Len(chan) /\ i \in Nat /\ chan'[i] = chan[i] + 1 /\ chan[i] \in Nat
      BY <1>n, <1>1
    <3> DEFINE ahead == i * EmitInterval
    <3>2. ahead \in Nat /\ chan[i] + rest + ahead <= EmitInterval + Lost
      BY <3>1, Products DEF IInv, Waited
    <3> HIDE DEF ahead
    <3>3. /\ EmitInterval \in Nat /\ Behind \in Nat /\ Lost = lag + Behind
          /\ rest \in Nat /\ r \in Nat /\ lag \in Nat /\ l \in Nat
          /\ r + lag + 1 <= rest + l /\ chan[i] \in Nat
      BY <1>n, <1>6, <3>1
    <3>4. chan[i] + 1 + r + ahead <= EmitInterval + (l + Behind)
      BY ONLY <3>2, <3>3
    <3>5. chan'[i] + rest' + ahead <= EmitInterval + Lost'
      BY <1>6, <2>1, <3>1, <3>4, Zenon
    <3>6. QED
      BY <3>5 DEF ahead
  <2>6. QED
    BY <2>2, <2>3, <2>4, <2>5 DEF IInv, Waited
<1>7. \/ rest > 0 /\ held' = held + 1 /\ rest' = rest - 1 /\ taken' = taken /\ lag' = lag
      \/ /\ rest > 0 \/ chan # << >>
         /\ lag < Lag /\ lag' = lag + 1 /\ held' = IF rest > 0 THEN held + 1 ELSE held
         /\ rest' = rest /\ taken' = taken
      \/ ~(rest > 0) /\ chan = << >> /\ held' = 0 /\ taken' = 0 /\ lag' = 0 /\ rest' = rest
  BY Zenon DEF Tick, Sending
<1>8. CASE rest > 0 /\ held' = held + 1 /\ rest' = rest - 1 /\ taken' = taken /\ lag' = lag
  <2>1. PICK r, l, h : r = rest - 1 /\ l = lag /\ h = held + 1
    OBVIOUS
  <2>2. /\ r \in 0 .. SendTime /\ l \in 0 .. Lag /\ h \in Nat
        /\ r + lag + 1 <= rest + l /\ r <= rest /\ lag <= l
        /\ h = IF rest > 0 THEN held + 1 ELSE held
    BY <1>n, <1>8, <2>1
  <2>3. rest' = r /\ lag' = l /\ held' = h /\ taken' = taken
    BY <1>8, <2>1, Zenon
  <2>4. QED
    BY <1>6, <2>2, <2>3, Zenon
<1>9. CASE /\ lag < Lag /\ lag' = lag + 1 /\ held' = IF rest > 0 THEN held + 1 ELSE held
           /\ rest' = rest /\ taken' = taken
  <2>1. PICK r, l, h : r = rest /\ l = lag + 1 /\ h = IF rest > 0 THEN held + 1 ELSE held
    OBVIOUS
  <2>2. /\ r \in 0 .. SendTime /\ l \in 0 .. Lag /\ h \in Nat
        /\ r + lag + 1 <= rest + l /\ r <= rest /\ lag <= l
    BY <1>n, <1>9, <2>1
  <2>3. rest' = r /\ lag' = l /\ held' = h /\ taken' = taken
    BY <1>9, <2>1, Zenon
  <2>4. QED
    BY <1>6, <2>1, <2>2, <2>3, Zenon
<1>10. QED
  BY <1>5, <1>7, <1>8, <1>9, Zenon

\* Every step preserves it.
LEMMA NextInv == IInv /\ [Next]_vars => IInv'
<1>1. ASSUME IInv, UNCHANGED vars PROVE IInv'
  BY <1>1 DEF vars, IInv, TypeOK, Busy, Behind, Lost, Bucket, Waited, HeldAge, HeldOnce
<1>2. QED
  BY <1>1, EmitInv, RecvInv, TickInv DEF Next

\* The inductive invariant holds in every reachable state.
THEOREM Invariant == Spec => []IInv
BY InitInv, NextInv, PTL DEF Spec

\* The queue and the clocks of generator and worker keep their types.
THEOREM BacklogTypeOK == Spec => []TypeOK
<1>1. IInv => TypeOK
  BY DEF IInv
<1>2. QED
  BY <1>1, Invariant, PTL

\* The invariant gives the bound on the queue and on the ages.
LEMMA WithinBounds ==
  IInv => Bounded /\ Fresh
<1> SUFFICES ASSUME IInv PROVE Bounded /\ Fresh
  OBVIOUS
<1> DEFINE work == Len(chan) * EmitInterval
<1>1. Bounded
  <2>1. work \in Nat /\ work + rest + elapsed <= EmitInterval + Lost
    BY Numbers, Products DEF IInv, Bucket
  <2> HIDE DEF work
  <2>2. lag <= Lag /\ lag \in Nat /\ Lag \in Nat /\ Behind \in Nat /\ Lost = lag + Behind
        /\ rest \in Nat /\ elapsed \in Nat /\ EmitInterval \in Nat
    BY Numbers
  <2>3. work <= EmitInterval + Lag + Behind
    BY ONLY <2>1, <2>2
  <2>4. QED
    BY <2>3 DEF Bounded, work
<1>2. ASSUME NEW i \in 1 .. Len(chan) PROVE chan[i] <= Lag + Behind
  <2>1. i \in Nat /\ i > 0 /\ chan[i] \in Nat
    BY Numbers
  <2> DEFINE ahead == i * EmitInterval
  <2>2. /\ ahead \in Nat /\ ahead >= EmitInterval
        /\ chan[i] + rest + ahead <= EmitInterval + Lost
    BY <2>1, Products DEF IInv, Waited
  <2> HIDE DEF ahead
  <2>3. lag <= Lag /\ lag \in Nat /\ Lag \in Nat /\ Behind \in Nat /\ Lost = lag + Behind
        /\ rest \in Nat /\ EmitInterval \in Nat
    BY Numbers
  <2>4. QED
    BY <2>1, <2>2, <2>3
<1>3. QED
  BY <1>1, <1>2 DEF IInv, HeldOnce, Fresh

\* For all rates and delays the channel holds at most one batch more than the
\* worker's delay and the excess of the batches it took explain (registry.rs:77,
\* streaming.rs:85-93).
THEOREM BacklogBounded == Spec => []Bounded
<1>1. IInv => Bounded
  BY WithinBounds
<1>2. QED
  BY <1>1, Invariant, PTL

\* For all rates and delays no batch waits longer than that, and none leaves
\* older than that and an interval.
THEOREM BacklogFresh == Spec => []Fresh
<1>1. IInv => Fresh
  BY WithinBounds
<1>2. QED
  BY <1>1, Invariant, PTL

\* A worker that sends a batch within an interval never has more than its delay
\* explains, however many batches it takes without a pause.  Nothing in the code
\* makes a worker one: the emit interval is an argument of the server.
THEOREM BacklogKeepsUp ==
  SendTime <= EmitInterval =>
    (Spec => [](/\ Len(chan) * EmitInterval <= EmitInterval + Lag
                /\ held <= EmitInterval + Lag
                /\ \A i \in 1 .. Len(chan) : chan[i] <= Lag))
<1> SUFFICES ASSUME SendTime <= EmitInterval
             PROVE  Spec => [](/\ Len(chan) * EmitInterval <= EmitInterval + Lag
                               /\ held <= EmitInterval + Lag
                               /\ \A i \in 1 .. Len(chan) : chan[i] <= Lag)
  OBVIOUS
<1>1. Excess = 0
  BY RatesAssumption DEF Excess
<1>2. IInv => /\ Len(chan) * EmitInterval <= EmitInterval + Lag
              /\ held <= EmitInterval + Lag
              /\ \A i \in 1 .. Len(chan) : chan[i] <= Lag
  <2> SUFFICES ASSUME IInv
               PROVE  /\ Len(chan) * EmitInterval <= EmitInterval + Lag
                      /\ held <= EmitInterval + Lag
                      /\ \A i \in 1 .. Len(chan) : chan[i] <= Lag
    OBVIOUS
  <2>1. Behind = 0
    BY <1>1, Numbers DEF Behind
  <2>2. QED
    BY <2>1, WithinBounds, Numbers DEF Bounded, Fresh
<1>3. QED
  BY <1>2, Invariant, PTL
==============================================================================
