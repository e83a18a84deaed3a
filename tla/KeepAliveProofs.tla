--------------------------- MODULE KeepAliveProofs ---------------------------
(***************************************************************************)
(* Proofs about KeepAlive, for all timeouts, intervals, delays and numbers *)
(* of lost PINGs; only Survives is about those that keep within the budget.*)
(***************************************************************************)
EXTENDS KeepAlive, TLAPS

\* Client and both threads of the worker are there.
Heard == client = "running" /\ worker = "up" /\ listening
\* Before the first quote no PING leaves, and the first quote is not late.
BeforeFirst ==
  Heard /\ ~known => age <= QuoteGap /\ pings = {}
\* With nothing under way, only lost PINGs and the current sleep made last_ping old.
SleepAge ==
  Heard /\ known /\ pings = {} => age <= QuoteGap + lost * Cycle + cycle
\* With a PING under way, it left in time.
FlightAge ==
  Heard /\ pings # {} => \E f \in pings : age <= LatestSend + f
\* The deadline was kept at the last turn of the main loop.
TurnAge == worker = "up" => age <= PingTimeout + turn
\* The PINGs under way are older than the end of the client, and so is the
\* time last_ping was set, but for the longest way of a PING.
GoneAge ==
  /\ client = "running" => since = 0
  /\ client = "gone" /\ worker = "up" => since <= NetDelay + age /\ \A f \in pings : since <= f

\* The inductive invariant.
IInv ==
  /\ TypeOK
  /\ Survives
  /\ BeforeFirst
  /\ SleepAge
  /\ FlightAge
  /\ TurnAge
  /\ GoneAge

\* The bounds are numbers, and n lost PINGs cost at most what MaxLost cost.
LEMMA Bounds ==
  /\ Turn \in Nat /\ Cycle \in Nat \ {0} /\ LatestSend \in Nat
  /\ Outlives \in Nat /\ SinceCap \in Nat
  /\ \A n \in 0 .. MaxLost :
       /\ n * Cycle \in Nat
       /\ (n + 1) * Cycle = n * Cycle + Cycle
       /\ QuoteGap + (n + 1) * Cycle <= LatestSend
<1>1. Turn \in Nat /\ Cycle \in Nat \ {0}
  BY TimesAssumption DEF Turn, Cycle
<1>2. ASSUME NEW n \in 0 .. MaxLost
      PROVE /\ n * Cycle \in Nat
            /\ (n + 1) * Cycle = n * Cycle + Cycle
            /\ (n + 1) * Cycle <= (MaxLost + 1) * Cycle
  BY <1>1, TimesAssumption
<1>3. (MaxLost + 1) * Cycle \in Nat
  BY <1>1, TimesAssumption
<1>4. QED
  BY <1>1, <1>2, <1>3, TimesAssumption DEF LatestSend, Outlives, SinceCap

\* While the client is heard, last_ping is not older than the timeout, if that
\* is within the budget.
LEMMA InBudget ==
  IInv /\ Heard /\ WithinBudget => age <= PingTimeout
<1> SUFFICES ASSUME IInv, Heard, WithinBudget PROVE age <= PingTimeout
  OBVIOUS
<1> USE Bounds, TimesAssumption DEF WithinBudget
<1>1. CASE ~known
  <2>1. QuoteGap <= LatestSend
    BY DEF LatestSend, IInv, TypeOK
  <2>2. QED
    BY <1>1, <2>1 DEF IInv, TypeOK, BeforeFirst
<1>2. CASE known /\ pings = {}
  <2>1. age <= QuoteGap + lost * Cycle + Cycle
    BY <1>2 DEF IInv, TypeOK, SleepAge
  <2>2. lost * Cycle + Cycle = (lost + 1) * Cycle /\ QuoteGap + (lost + 1) * Cycle <= LatestSend
    BY DEF IInv, TypeOK
  <2>3. lost * Cycle \in Nat
    BY DEF IInv, TypeOK
  <2>4. QED
    BY <2>1, <2>2, <2>3 DEF IInv, TypeOK
<1>3. CASE pings # {}
  BY <1>3 DEF IInv, TypeOK, FlightAge
<1>4. QED
  BY <1>1, <1>2, <1>3 DEF IInv, TypeOK

\* The invariant holds when the worker is spawned.
LEMMA InitInv == Init => IInv
<1> SUFFICES ASSUME Init PROVE IInv
  OBVIOUS
<1>1. TypeOK
  <2>1. /\ age \in 0 .. PingTimeout + Turn /\ turn \in 0 .. Turn /\ cycle \in 0 .. Cycle
        /\ lost \in 0 .. MaxLost /\ since \in 0 .. SinceCap
    BY Bounds, TimesAssumption DEF Init
  <2>2. QED
    BY <2>1, Zenon DEF Init, TypeOK
<1>2. Survives /\ BeforeFirst /\ SleepAge /\ FlightAge /\ TurnAge /\ GoneAge
  BY Bounds, TimesAssumption DEF Init, Survives, Heard, BeforeFirst, SleepAge, FlightAge, TurnAge, GoneAge
<1>3. QED
  BY <1>1, <1>2 DEF IInv

\* Every step preserves it.
LEMMA NextInv == IInv /\ [Next]_vars => IInv'
<1> SUFFICES ASSUME IInv, [Next]_vars PROVE IInv'
  OBVIOUS
<1> USE Bounds, TimesAssumption
    DEF IInv, TypeOK, Survives, Heard, BeforeFirst, SleepAge, FlightAge, TurnAge, GoneAge
<1>1. CASE LoopTurn
  <2>1. Heard /\ WithinBudget => worker' = "up"
    BY <1>1, InBudget DEF LoopTurn, PingDeadlineExceeded
  <2>2. QED
    BY <1>1, <2>1 DEF LoopTurn, PingDeadlineExceeded
<1>2. ASSUME NEW f \in pings, Deliver(f)
      PROVE IInv'
  <2>1. LatestSend \in Nat /\ f \in 0 .. NetDelay /\ pings' \subseteq 0 .. NetDelay
    BY <1>2 DEF Deliver
  <2>2. TypeOK' /\ Survives' /\ BeforeFirst' /\ TurnAge' /\ GoneAge'
    BY <1>2, <2>1 DEF Deliver, Touched
  <2>3. SleepAge'
    BY <1>2, <2>1 DEF Deliver, Touched
  <2>4. FlightAge'
    <3> SUFFICES ASSUME worker = "up", listening, NEW g \in pings' PROVE age' <= LatestSend + g
      BY <1>2 DEF Deliver
    <3>1. age' = 0 /\ g \in 0 .. NetDelay
      BY <1>2, <2>1 DEF Deliver, Touched
    <3>2. QED
      BY <2>1, <3>1
  <2>5. QED
    BY <2>2, <2>3, <2>4
<1>3. CASE SocketError
  BY <1>3 DEF SocketError
<1>4. CASE FirstQuote
  BY <1>4 DEF FirstQuote
<1>5. CASE PingLoop
  <2>1. CASE ~known /\ UNCHANGED <<pings, lost>>
    BY <1>5, <2>1 DEF PingLoop, Pinging
  <2>2. CASE known /\ pings' = pings \union {0} /\ lost' = 0
    <3>1. worker = "up" /\ listening => age <= LatestSend \/ \E f \in pings : age <= LatestSend + f
      <4>1. lost * Cycle + Cycle = (lost + 1) * Cycle /\ QuoteGap + (lost + 1) * Cycle <= LatestSend
        OBVIOUS
      <4>2. lost * Cycle \in Nat
        OBVIOUS
      <4>3. QED
        BY <1>5, <2>2, <4>1, <4>2 DEF PingLoop, Pinging
    <3>2. FlightAge'
      BY <1>5, <2>2, <3>1 DEF PingLoop, Pinging
    <3>3. QED
      BY <1>5, <2>2, <3>2 DEF PingLoop, Pinging
  <2>3. CASE known /\ lost < MaxLost /\ lost' = lost + 1 /\ UNCHANGED pings
    <3>1. lost * Cycle \in Nat /\ (lost + 1) * Cycle = lost * Cycle + Cycle
      OBVIOUS
    <3>2. SleepAge'
      BY <1>5, <2>3, <3>1 DEF PingLoop, Pinging
    <3>3. QED
      BY <1>5, <2>3, <3>2 DEF PingLoop, Pinging
  <2>4. QED
    BY <1>5, <2>1, <2>2, <2>3 DEF PingLoop
<1>6. CASE ClientGone
  BY <1>6 DEF ClientGone
<1>7. CASE Tick
  <2>1. TypeOK'
    <3>1. pings' \subseteq 0 .. NetDelay
      BY <1>7 DEF Tick
    <3>2. age' \in 0 .. PingTimeout + Turn
      BY <1>7 DEF Tick
    <3>3. QED
      BY <1>7, <3>1, <3>2 DEF Tick, Pinging
  <2>2. Survives' /\ BeforeFirst' /\ TurnAge'
    BY <1>7 DEF Tick
  <2>3. SleepAge'
    <3>1. lost * Cycle \in Nat
      OBVIOUS
    <3>2. pings' = {} => pings = {}
      BY <1>7 DEF Tick
    <3>3. QED
      BY <1>7, <3>1, <3>2 DEF Tick, Pinging
  <2>4. FlightAge'
    <3> SUFFICES ASSUME client = "running", worker = "up", listening, pings' # {}
                 PROVE \E f \in pings' : age' <= LatestSend + f
      BY <1>7 DEF Tick
    <3>1. pings # {}
      BY <1>7 DEF Tick
    <3>2. PICK f \in pings : age <= LatestSend + f
      BY <3>1
    <3>3. f + 1 \in pings' /\ age' <= LatestSend + (f + 1)
      BY <1>7, <3>2 DEF Tick
    <3>4. QED
      BY <3>3
  <2>5. GoneAge'
    BY <1>7 DEF Tick
  <2>6. QED
    BY <2>1, <2>2, <2>3, <2>4, <2>5
<1>8. CASE UNCHANGED vars
  BY <1>8 DEF vars
<1>9. QED
  BY <1>1, <1>2, <1>3, <1>4, <1>5, <1>6, <1>7, <1>8 DEF Next

\* The inductive invariant holds in every reachable state.
THEOREM Invariant == Spec => []IInv
BY InitInv, NextInv, PTL DEF Spec

\* The clocks of the keep-alive stay in their ranges, in particular the age of
\* the last PING, which the main loop of the worker bounds.
THEOREM KeepAliveTypeOK == Spec => []TypeOK
<1>1. IInv => TypeOK
  BY DEF IInv
<1>2. QED
  BY <1>1, Invariant, PTL

\* Within the budget no stream is cut while its client runs and its socket
\* works.
THEOREM KeepAliveSurvives == Spec => []Survives
<1>1. IInv => Survives
  BY DEF IInv
<1>2. QED
  BY <1>1, Invariant, PTL

\* Whatever the budget, a worker outlives its client by at most the way of a PING, the timeout and
\* one turn of its main loop.
THEOREM KeepAliveSilent == Spec => []Silent
<1>1. IInv => Silent
  BY Bounds, TimesAssumption DEF IInv, TypeOK, GoneAge, TurnAge, Silent, Outlives
<1>2. QED
  BY <1>1, Invariant, PTL
==============================================================================
