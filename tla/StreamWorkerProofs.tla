-------------------------- MODULE StreamWorkerProofs -------------------------
(***************************************************************************)
(* Proofs about StreamWorker, for all timeouts, scheduling delays and      *)
(* bounds.                                                                 *)
(***************************************************************************)
EXTENDS StreamWorker, TLAPS

\* What the wait of the main thread adds to the age that passed its test.
WaitBound == main = "recv" => age + recvTimer <= PingTimeout + QuoteRecvTimeout + busy
SendBound == main \in {"send", "put"} => age <= PingTimeout + QuoteRecvTimeout + busy
\* A quote is sent only from a batch that still has one.
PutHasQuote == main = "put" => left > 0
\* Nothing is late before stop is set, and a thread that sent something late
\* finds stop set at its next test of the flag.
NothingLate == ~stop => lateQuotes = 0 /\ latePongs = 0
LateOnce ==
  /\ main = "put" => lateQuotes = 0
  /\ ping \in {"recv", "touch", "pong"} => latePongs = 0

\* The inductive invariant.
IInv == TypeOK /\ WaitBound /\ SendBound /\ PutHasQuote /\ NothingLate /\ StopIsPrompt /\ LateOnce

\* The invariant holds when the worker is spawned.
LEMMA InitInv == Init => IInv
<1> SUFFICES ASSUME Init PROVE IInv
  OBVIOUS
<1>1. chan \in Seq(1 .. MaxQuotes) /\ inbox \in Seq({"PING", "noise"})
  BY DEF Init
<1>2. AgeCap \in Nat
  BY TimingAssumption DEF AgeCap, SilenceBound
<1>3. TypeOK
  <2>1. /\ recvTimer \in 0 .. QuoteRecvTimeout
        /\ busy \in 0 .. Slack
        /\ left \in 0 .. MaxQuotes
        /\ pingTimer \in 0 .. PingRecvTimeout
        /\ age \in 0 .. AgeCap
        /\ lateQuotes \in 0 .. 2
        /\ latePongs \in 0 .. 2
    BY <1>2, TimingAssumption, BoundsAssumption DEF Init
  <2>2. /\ main = "start" /\ ping = "off" /\ hub = "up" /\ pingers = "some"
        /\ stop \in BOOLEAN
    BY DEF Init
  <2>3. QED
    BY <1>1, <2>1, <2>2, Zenon DEF TypeOK
<1>4. WaitBound /\ SendBound /\ PutHasQuote /\ NothingLate /\ StopIsPrompt /\ LateOnce
  BY DEF Init, WaitBound, SendBound, PutHasQuote, NothingLate, StopIsPrompt, LateOnce
<1>5. QED
  BY <1>3, <1>4 DEF IInv

\* Every step of the two threads and of their environment preserves it.
LEMMA NextInv == IInv /\ [Next]_vars => IInv'
<1> SUFFICES ASSUME IInv, [Next]_vars PROVE IInv'
  OBVIOUS
<1> USE TimingAssumption, BoundsAssumption
    DEF IInv, TypeOK, WaitBound, SendBound, PutHasQuote, NothingLate, StopIsPrompt, LateOnce,
        SilenceBound, AgeCap, mainVars, pingVars, envVars, histVars
<1>1. CASE Start
  BY <1>1 DEF Start
<1>2. CASE StartFails
  BY <1>2 DEF StartFails
<1>3. CASE LoopHead
  BY <1>3 DEF LoopHead
<1>4. CASE StaleCheck
  BY <1>4 DEF StaleCheck, PingDeadlineExceeded
<1>5. CASE RecvOk
  BY <1>5 DEF RecvOk
<1>6. CASE RecvTimeout
  BY <1>6 DEF RecvTimeout
<1>7. CASE RecvDisconnected
  BY <1>7 DEF RecvDisconnected
<1>8. CASE NextQuote
  BY <1>8 DEF NextQuote, StopAsked
<1>9. CASE PutQuote
  BY <1>9 DEF PutQuote, Min2
<1>10. CASE Exit
  BY <1>10 DEF Exit, StopStored
<1>11. CASE PingHead
  BY <1>11 DEF PingHead
<1>12. CASE PingRecv
  BY <1>12 DEF PingRecv
<1>13. CASE PingRecvTimedOut
  BY <1>13 DEF PingRecvTimedOut
<1>14. CASE PingRecvError
  BY <1>14 DEF PingRecvError
<1>15. CASE Touch
  BY <1>15 DEF Touch
<1>16. CASE Pong
  BY <1>16 DEF Pong, Min2
<1>17. CASE HubSend
  BY <1>17 DEF HubSend
<1>18. CASE HubGone
  BY <1>18 DEF HubGone
<1>19. CASE Arrive
  <2>1. "PING" \in {"PING", "noise"} /\ "noise" \in {"PING", "noise"}
    OBVIOUS
  <2>2. PICK d \in {"PING", "noise"} : inbox' = Append(inbox, d)
    BY <1>19, <2>1 DEF Arrive
  <2>3. inbox' \in Seq({"PING", "noise"})
    BY <2>2
  <2>4. UNCHANGED <<mainVars, pingVars, stop, age, chan, envVars, histVars>>
    BY <1>19 DEF Arrive
  <2>5. QED
    BY <2>3, <2>4
<1>20. CASE PingersGone
  BY <1>20 DEF PingersGone
<1>21. CASE ExternalStop
  BY <1>21 DEF ExternalStop
<1>22. CASE Tick
  BY <1>22 DEF Tick, Blocked, Dec
<1>23. CASE UNCHANGED vars
  BY <1>23 DEF vars
<1>24. QED
  BY <1>1, <1>2, <1>3, <1>4, <1>5, <1>6, <1>7, <1>8, <1>9, <1>10, <1>11, <1>12, <1>13, <1>14, <1>15, <1>16, <1>17, <1>18, <1>19, <1>20, <1>21, <1>22, <1>23 DEF Next
\* A worker keeps the inductive invariant for ever.
THEOREM WorkerInvariant == Spec => []IInv
  BY InitInv, NextInv, PTL DEF Spec

\* The variables keep their types: the timers, the age, the batch that is
\* being sent and the queues stay in their ranges (streaming.rs:25-101).
THEOREM WorkerTypeOK == Spec => []TypeOK
<1>1. IInv => TypeOK
  BY DEF IInv
<1>2. QED
  BY <1>1, WorkerInvariant, PTL

\* Silence for all timeouts: no quote leaves later than the keep-alive timeout,
\* one wait on the channel and the scheduling delay after the last PING
\* (streaming.rs:76-93).
THEOREM WorkerSilence == Spec => []Silence
<1>1. IInv => Silence
  BY TimingAssumption DEF IInv, TypeOK, SendBound, Silence, SilenceBound
<1>2. QED
  BY <1>1, WorkerInvariant, PTL

\* After stop is set at most one quote and one PONG leave, for all batches and
\* timeouts (streaming.rs:54, 88).
THEOREM WorkerStopIsPrompt == Spec => []StopIsPrompt
<1>1. IInv => StopIsPrompt
  BY DEF IInv
<1>2. QED
  BY <1>1, WorkerInvariant, PTL
==============================================================================
