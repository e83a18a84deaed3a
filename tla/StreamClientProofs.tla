-------------------------- MODULE StreamClientProofs -------------------------
(***************************************************************************)
(* Proofs about StreamClient, for all sources, durations, timeouts, ping   *)
(* intervals and scheduling delays.                                        *)
(***************************************************************************)
EXTENDS StreamClient, TLAPS

\* The pinger runs only once the handshake is over.
Started == main \in {"load", "bind", "connect", "send", "answer", "setup"} => pinger = "off"
\* The main thread sets the flag before it joins.
StopFlag == main = "join" => stop
\* No time is counted before the client is told to end.
NotEnding == ~Ending /\ main # "returned" => since = 0 /\ lag = 0
\* What a wait for a datagram adds: with a duration it began before the
\* deadline, so one tick of it had passed.
ReadLate == IF mode = "timed" THEN ReadTimeout - 1 ELSE ReadTimeout
ReadBound ==
  /\ main = "recv" /\ Ending => since + readTimer <= ReadLate + lag
  /\ main \in {"head", "recv"} => since <= ReadLate + lag
\* What the pinger's last sleep adds: to the wait with a duration, beside it
\* after Ctrl+C.
JoinBound ==
  /\ main = "join" => since < ReadTimeout + PingInterval + lag
  /\ main = "join" /\ pinger = "sleep" =>
       since + sleepTimer < ReadTimeout + PingInterval + lag
  /\ mode = "ctrlc" /\ stop /\ pinger = "sleep" /\ main # "returned" =>
       since + sleepTimer <= PingInterval + lag
\* A pinger past its tests runs all the time, so its delay is scheduling.
LatePing ==
  stop /\ pinger \in {"target", "send"} =>
    since <= lag + (IF mode = "timed" THEN ReadTimeout ELSE 0)
\* The cell holds the source of the first quote, and a PING its value.
Pin ==
  /\ serverAddr = first
  /\ pinger = "send" => target = serverAddr /\ target # NoAddr

\* The inductive invariant.
IInv ==
  /\ TypeOK /\ Started /\ StopFlag /\ NotEnding /\ ReadBound /\ JoinBound
  /\ LatePing /\ Pin /\ NothingLeftBehind

\* The invariant holds when the client starts.
LEMMA InitInv == Init => IInv
<1> SUFFICES ASSUME Init PROVE IInv
  OBVIOUS
<1>1. inbox \in Seq([src : Sources, kind : {"quote", "noise"}])
  BY DEF Init
<1>2. /\ readTimer \in 0 .. ReadTimeout
      /\ runLeft \in 0 .. RunFor
      /\ sleepTimer \in 0 .. PingInterval
      /\ since \in 0 .. EndBound
      /\ lag \in 0 .. Slack
  BY TimingAssumption DEF Init, EndBound
<1>3. TypeOK
  BY <1>1, <1>2, Zenon DEF Init, TypeOK
<1>4. Started /\ StopFlag /\ NotEnding /\ Pin /\ NothingLeftBehind
  BY DEF Init, Started, StopFlag, NotEnding, Pin, NothingLeftBehind
<1>5. ReadBound /\ JoinBound /\ LatePing
  BY DEF Init, ReadBound, JoinBound, LatePing
<1>6. QED
  BY <1>3, <1>4, <1>5 DEF IInv

\* Every step of the two threads and of their environment preserves it.
LEMMA NextInv == IInv /\ [Next]_vars => IInv'
<1> SUFFICES ASSUME IInv, [Next]_vars PROVE IInv'
  OBVIOUS
<1> USE SourcesAssumption, TimingAssumption, InboxAssumption
    DEF IInv, TypeOK, Started, StopFlag, NotEnding, ReadBound, JoinBound, LatePing, Pin,
        NothingLeftBehind, Ending, Receiving, EndBound, ReadLate, mainVars, pingVars, histVars
<1>1. CASE PrepareSteps
  BY <1>1 DEF PrepareSteps, Prepare
<1>2. CASE Answer
  BY <1>2 DEF Answer
<1>3. CASE SetupFails
  BY <1>3 DEF SetupFails
<1>4. CASE Setup
  BY <1>4 DEF Setup
<1>5. CASE LoopHead
  <2>1. CASE LoopEnds
    <3>1. /\ main = "head" /\ main' = "join" /\ stop' = TRUE
          /\ UNCHANGED <<mode, result, readTimer, runLeft, serverAddr, pingVars, inbox, histVars>>
      BY <1>5, <2>1 DEF LoopHead, AfterLoop
    <3>2. CASE mode = "timed"
      BY <3>1, <3>2
    <3>3. CASE mode = "ctrlc"
      <4>1. stop = TRUE
        BY <2>1, <3>3 DEF LoopEnds
      <4>2. QED
        BY <3>1, <3>3, <4>1
    <3>4. QED
      BY <3>2, <3>3
  <2>2. CASE ~LoopEnds
    BY <1>5, <2>2 DEF LoopHead, LoopEnds
  <2>3. QED
    BY <2>1, <2>2
<1>6. CASE Recv
  <2>1. /\ Head(inbox) \in [src : Sources, kind : {"quote", "noise"}]
        /\ inbox' \in Seq([src : Sources, kind : {"quote", "noise"}])
    <3> DEFINE D == [src : Sources, kind : {"quote", "noise"}]
    <3>1. inbox \in Seq(D) /\ inbox # << >> /\ inbox' = Tail(inbox)
      BY <1>6 DEF Recv
    <3> HIDE DEF D
    <3>2. Head(inbox) \in D /\ inbox' \in Seq(D)
      BY <3>1
    <3>3. QED
      BY <3>2 DEF D
  <2>2. /\ serverAddr' \in Sources \cup {NoAddr}
        /\ serverAddr' = first'
        /\ serverAddr # NoAddr => serverAddr' = serverAddr
    BY <1>6, <2>1 DEF Recv, Pinned
  <2>3. /\ main = "recv" /\ main' = "head"
        /\ UNCHANGED <<mode, result, readTimer, runLeft, stop, pingVars, since, lag>>
    BY <1>6 DEF Recv
  <2>4. QED
    BY <2>1, <2>2, <2>3
<1>7. CASE RecvTimedOut
  BY <1>7 DEF RecvTimedOut
<1>8. CASE RecvError
  BY <1>8 DEF RecvError, AfterLoop
<1>9. CASE Join
  BY <1>9 DEF Join
<1>10. CASE PingHead
  BY <1>10 DEF PingHead, SleepFor
<1>11. CASE PingWakes
  BY <1>11 DEF PingWakes
<1>12. CASE PingCheck
  BY <1>12 DEF PingCheck, StopAfterSleep
<1>13. CASE PingTarget
  BY <1>13 DEF PingTarget
<1>14. CASE PingSend
  BY <1>14 DEF PingSend
<1>15. CASE Arrive
  BY <1>15 DEF Arrive
<1>16. CASE CtrlC
  BY <1>16 DEF CtrlC
<1>17. CASE Tick
  BY <1>17 DEF Tick, Dec, MainBlocked, PingBlocked
<1>18. CASE UNCHANGED vars
  BY <1>18 DEF vars
<1>19. QED
  BY <1>1, <1>2, <1>3, <1>4, <1>5, <1>6, <1>7, <1>8, <1>9, <1>10, <1>11, <1>12, <1>13, <1>14, <1>15, <1>16, <1>17, <1>18 DEF Next
\* A client keeps the inductive invariant for ever.
THEOREM ClientInvariant == Spec => []IInv
  BY InitInv, NextInv, PTL DEF Spec

\* The variables keep their types: the flag, the cell and the timers of both
\* threads stay in their ranges (udp_recv.rs:45-153, ping.rs:18-42).
THEOREM ClientTypeOK == Spec => []TypeOK
<1>1. IInv => TypeOK
  BY DEF IInv
<1>2. QED
  BY <1>1, ClientInvariant, PTL

\* No pinger outlives its client, for all timings (udp_recv.rs:90-99, 144-152).
THEOREM ClientNothingLeftBehind == Spec => []NothingLeftBehind
<1>1. IInv => NothingLeftBehind
  BY DEF IInv
<1>2. QED
  BY <1>1, ClientInvariant, PTL

\* PINGs go to the source of the first quote shown, for all sets of sources
\* (udp_recv.rs:82-84, ping.rs:30-38).
THEOREM ClientPingsFirstSource == Spec => []PingsFirstSource
<1>1. IInv => PingsFirstSource
  BY DEF IInv, Pin, PingsFirstSource
<1>2. QED
  BY <1>1, ClientInvariant, PTL

\* A PING that leaves after stop was set was past its tests already
\* (ping.rs:25-39).
THEOREM ClientPingsStop == Spec => []PingsStop
<1>1. IInv => PingsStop
  BY TimingAssumption DEF IInv, TypeOK, LatePing, PingsStop, EndBound
<1>2. QED
  BY <1>1, ClientInvariant, PTL

\* The client returns in less than a read timeout, a ping interval and the
\* scheduling delay after it was told to end, for all three
\* (udp_recv.rs:67, 118, ping.rs:25-29).
THEOREM ClientEndsInTime == Spec => []EndsInTime
<1>1. ASSUME IInv PROVE EndsInTime
  <2>1. CASE main = "join"
    BY <1>1, <2>1, TimingAssumption DEF IInv, TypeOK, JoinBound, EndsInTime, EndBound
  <2>2. CASE main \in {"head", "recv"}
    BY <1>1, <2>2, TimingAssumption DEF IInv, TypeOK, ReadBound, ReadLate, EndsInTime, EndBound
  <2>3. CASE main \notin {"join", "head", "recv"}
    BY <1>1, <2>3, TimingAssumption
    DEF IInv, TypeOK, NotEnding, Ending, Receiving, EndsInTime, EndBound
  <2>4. QED
    BY <2>1, <2>2, <2>3
<1>2. QED
  BY <1>1, ClientInvariant, PTL
==============================================================================
