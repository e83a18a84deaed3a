------------------------------ MODULE KeepAlive ------------------------------
(***************************************************************************)
(* The keep-alive of one stream, in time: the pinger of the client         *)
(* (src/src/client/ping.rs), which is silent until a first quote has told  *)
(* it where to send (src/src/client/udp_recv.rs), the network that delays  *)
(* and loses PINGs, and the worker that cuts the stream when the last PING *)
(* is too old (src/src/server/streaming.rs, keepalive.rs).                 *)
(*                                                                         *)
(* Time is discrete and every clock is an elapsed time.  A step that has   *)
(* to happen by a moment keeps Tick from passing that moment.              *)
(***************************************************************************)
EXTENDS Naturals

CONSTANTS
  PingTimeout,       \* DEFAULT_PING_TIMEOUT_SECS, in ticks
  QuoteRecvTimeout,  \* QUOTE_RECV_TIMEOUT, in ticks
  PingInterval,      \* the client's ping interval, at least one second
  NetDelay,          \* longest time from sending a PING to recording it
  Lag,               \* scheduling delay per turn of a loop
  MaxLost,           \* PINGs lost in a row
  QuoteGap           \* longest time from the worker's start to the first quote
                     \* that the client handles: emit interval, network, losses

ASSUME TimesAssumption ==
  /\ PingTimeout \in Nat
  /\ QuoteRecvTimeout \in Nat
  /\ PingInterval \in Nat \ {0}
  /\ NetDelay \in Nat
  /\ Lag \in Nat
  /\ MaxLost \in Nat
  /\ QuoteGap \in Nat

\* Longest turn of the worker's main loop, longest cycle of the pinger, and
\* the age of the last PING at which a PING leaves at the latest.
Turn == QuoteRecvTimeout + Lag
Cycle == PingInterval + Lag
LatestSend == QuoteGap + (MaxLost + 1) * Cycle

\* Longest time a worker outlives its client, and the cap on that clock.
Outlives == NetDelay + PingTimeout + Turn
SinceCap == Outlives + 1

\* The budget of the timeout, which nothing in the code sees to.  The defaults,
\* a timeout of five seconds and an interval of two, leave room for one lost
\* PING when the first quote and the way of a PING take less than a second
\* together.  An emit interval or a ping interval of five seconds exceeds it,
\* and so does a lost PING with three.
WithinBudget == LatestSend + NetDelay <= PingTimeout

VARIABLES
  worker,    \* "up", or "cut" when the main loop has ended
  age,       \* last_ping.elapsed(), while the worker is up
  turn,      \* time since the main loop tested the deadline
  listening, \* the worker's ping thread has not ended on a socket error
  client,    \* "running" or "gone"
  known,     \* server_addr is set
  cycle,     \* time since the pinger's sleep began
  pings,     \* PINGs under way: the time each has been travelling
  lost,      \* PINGs lost since the last one that was not
  since      \* time since the client went while the worker is up, up to SinceCap

vars == <<worker, age, turn, listening, client, known, cycle, pings, lost, since>>

TypeOK ==
  /\ worker \in {"up", "cut"}
  /\ age \in 0 .. PingTimeout + Turn
  /\ turn \in 0 .. Turn
  /\ listening \in BOOLEAN
  /\ client \in {"running", "gone"}
  /\ known \in BOOLEAN
  /\ cycle \in 0 .. Cycle
  /\ pings \subseteq 0 .. NetDelay
  /\ lost \in 0 .. MaxLost
  /\ since \in 0 .. SinceCap

\* The worker has been spawned after OK; the client's pinger may have been
\* started before it, and sleeps.
Init ==
  /\ worker = "up"
  /\ age = 0
  /\ turn = 0
  /\ listening = TRUE
  /\ client = "running"
  /\ known = FALSE
  /\ cycle \in 0 .. Cycle
  /\ pings = {}
  /\ lost = 0
  /\ since = 0

-----------------------------------------------------------------------------
\* Mutants: the timeout tested a tick late; a PING answered without recording
\* it; a pinger that nobody stops.
DeadlineLate(a) == a > PingTimeout + 1
TouchForgotten == age
PingingForEver == TRUE

PingDeadlineExceeded(a) == a > PingTimeout

\* The head of the main loop: the deadline is tested once per turn, after the
\* wait on the channel and the quotes of a batch.
LoopTurn ==
  /\ worker = "up"
  /\ turn' = 0
  /\ worker' = IF PingDeadlineExceeded(age) THEN "cut" ELSE "up"
  /\ UNCHANGED <<age, listening, client, known, cycle, pings, lost, since>>

Touched == IF worker = "up" /\ listening THEN 0 ELSE age

\* The ping thread reads a PING and records the time; PINGs overtake each
\* other on the way.  A PING to a worker or a ping thread that is gone is lost.
Deliver(f) ==
  /\ f \in pings
  /\ pings' = pings \ {f}
  /\ age' = Touched
  /\ UNCHANGED <<worker, turn, listening, client, known, cycle, lost, since>>

\* The ping thread ends on an error of the socket; the main loop is not told.
SocketError ==
  /\ worker = "up"
  /\ listening
  /\ listening' = FALSE
  /\ UNCHANGED <<worker, age, turn, client, known, cycle, pings, lost, since>>

\* The client handles its first quote and learns where PINGs go.
FirstQuote ==
  /\ worker = "up" /\ client = "running" /\ ~known
  /\ known' = TRUE
  /\ UNCHANGED <<worker, age, turn, listening, client, cycle, pings, lost, since>>

Pinging == client = "running"

\* The sleep that is over, and what follows it in one turn of the ping loop:
\* nothing without an address, else a PING, which the network may lose.
PingLoop ==
  /\ Pinging
  /\ cycle >= PingInterval
  /\ cycle' = 0
  /\ \/ ~known /\ UNCHANGED <<pings, lost>>
     \/ known /\ pings' = pings \union {0} /\ lost' = 0
     \/ known /\ lost < MaxLost /\ lost' = lost + 1 /\ UNCHANGED pings
  /\ UNCHANGED <<worker, age, turn, listening, client, known, since>>

\* The client returns or is killed: nothing tells the server.
ClientGone ==
  /\ client = "running"
  /\ client' = "gone"
  /\ UNCHANGED <<worker, age, turn, listening, known, cycle, pings, lost, since>>

\* Time passes, up to the moment at which something has to happen.
Tick ==
  /\ worker = "up" => turn < Turn
  /\ Pinging => cycle < Cycle
  /\ worker = "up" /\ client = "running" /\ ~known => age < QuoteGap
  /\ NetDelay \notin pings
  /\ age' = IF worker = "up" THEN age + 1 ELSE age
  /\ turn' = IF worker = "up" THEN turn + 1 ELSE turn
  /\ cycle' = IF Pinging THEN cycle + 1 ELSE cycle
  /\ pings' = {f + 1 : f \in pings}
  /\ since' = IF worker = "up" /\ client = "gone" /\ since < SinceCap THEN since + 1 ELSE since
  /\ UNCHANGED <<worker, listening, client, known, lost>>

Next ==
  \/ LoopTurn
  \/ \E f \in pings : Deliver(f)
  \/ SocketError
  \/ FirstQuote
  \/ PingLoop
  \/ ClientGone
  \/ Tick

\* Time passes, and what has to happen by a moment happens: the main loop turns,
\* datagrams arrive, the client takes its first quote, the sleep of its pinger
\* ends.  The client is not assumed to end.
Fairness ==
  /\ WF_vars(Tick)
  /\ WF_vars(LoopTurn)
  /\ WF_vars(\E f \in pings : Deliver(f))
  /\ WF_vars(FirstQuote)
  /\ WF_vars(PingLoop)
Spec == Init /\ [][Next]_vars /\ Fairness

-----------------------------------------------------------------------------
(* Within the budget a stream is not cut while its client runs and its socket
   works, although the client is silent until its first quote and MaxLost PINGs
   in a row may be lost: what the timeout of five seconds and the interval of
   two are chosen for. *)
Survives == WithinBudget /\ client = "running" /\ listening => worker = "up"

(* Whatever the budget, a stream ends in bounded time after its client: the
   PINGs under way may come in, then the timeout runs, and one turn of the main
   loop sees it. *)
Silent == worker = "up" => since <= Outlives

(* Every stream whose client is gone is cut. *)
CutAfterGone == client = "gone" ~> worker = "cut"
==============================================================================
