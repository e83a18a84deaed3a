----------------------------- MODULE StreamWorker ----------------------------
(***************************************************************************)
(* One UDP stream worker, spawn_udp_stream_worker of                       *)
(* src/src/server/streaming.rs: a main thread that takes batches from the  *)
(* hub's channel and sends their quotes to the client, and a detached ping *)
(* thread that reads PINGs from the same socket, refreshes last_ping and   *)
(* answers PONG.  The threads share the flag stop and the cell last_ping.  *)
(* The environment is the hub at the other end of the channel, the client  *)
(* and whoever else sends PINGs, the owner of stop, and the socket, whose  *)
(* operations may fail.                                                    *)
(*                                                                         *)
(* Time is discrete and relative: age is last_ping.elapsed(), the timers   *)
(* are what is left of the two blocking calls.  A thread that could run    *)
(* is kept from running by the scheduler for at most Slack ticks per turn  *)
(* of its loop; the time it takes to send a batch counts as such.          *)
(***************************************************************************)
EXTENDS Naturals, Sequences

CONSTANTS
  PingTimeout,       \* DEFAULT_PING_TIMEOUT_SECS, in ticks
  QuoteRecvTimeout,  \* QUOTE_RECV_TIMEOUT, in ticks
  PingRecvTimeout,   \* PING_RECV_TIMEOUT, in ticks
  Slack,             \* scheduling delay per turn of the main loop, in ticks
  MaxQuotes,         \* bound: quotes in a batch
  ChanCap,           \* bound: batches queued in the channel
  InboxCap           \* datagrams the socket buffer holds; more are lost

ASSUME TimingAssumption ==
  /\ PingTimeout \in Nat
  /\ QuoteRecvTimeout \in Nat
  /\ PingRecvTimeout \in Nat
  /\ Slack \in Nat
ASSUME BoundsAssumption == MaxQuotes \in Nat /\ ChanCap \in Nat /\ InboxCap \in Nat

VARIABLES
  main,       \* main thread: "start", "head", "check", "recv", "send",
              \* "put", "exit", "done", or "failed" when it could not start
  recvTimer,  \* what is left of recv_timeout
  busy,       \* ticks the main thread lost in this turn while it could run
  left,       \* quotes of the current batch still to be sent
  ping,       \* ping thread: "off", "head", "recv", "touch", "pong", "done"
  pingTimer,  \* what is left of recv_from
  stop,       \* the shared AtomicBool
  age,        \* last_ping.elapsed(), up to AgeCap
  chan,       \* batches queued in the mpsc channel: the size of each
  hub,        \* "up", or "gone" when every Sender was dropped
  inbox,      \* datagrams queued on the socket: "PING" or "noise"
  pingers,    \* "some" while the client, or anybody else, may send PINGs, or "none"
  lateQuotes, \* history: quotes sent since stop was set, up to 2
  latePongs   \* history: PONGs sent since stop was set, up to 2

vars == <<main, recvTimer, busy, left, ping, pingTimer, stop, age, chan, hub,
          inbox, pingers, lateQuotes, latePongs>>
mainVars == <<main, recvTimer, busy, left>>
pingVars == <<ping, pingTimer>>
envVars == <<hub, pingers>>
histVars == <<lateQuotes, latePongs>>

\* Longest age at which a quote may still leave, and the cap on age.
SilenceBound == PingTimeout + QuoteRecvTimeout + Slack
AgeCap == SilenceBound + 1

Min2(n) == IF n < 2 THEN n ELSE 2
Dec(n) == IF n = 0 THEN 0 ELSE n - 1

Init ==
  /\ main = "start"
  /\ recvTimer = 0
  /\ busy = 0
  /\ left = 0
  /\ ping = "off"
  /\ pingTimer = 0
  /\ stop = FALSE
  /\ age = 0
  /\ chan = << >>
  /\ hub = "up"
  /\ inbox = << >>
  /\ pingers = "some"
  /\ lateQuotes = 0
  /\ latePongs = 0

-------------------------------------------------------------------------------
(* The main thread. *)

\* The socket is bound and cloned, last_ping is now, the ping thread starts.
Start ==
  /\ main = "start"
  /\ main' = "head"
  /\ busy' = 0
  /\ age' = 0
  /\ ping' = "head"
  /\ UNCHANGED <<recvTimer, left, pingTimer, stop, chan, inbox, envVars, histVars>>

\* udp_bind or try_clone fails: the thread returns, which drops quote_rx;
\* stop is not set and the client, which was told OK, is not told.
StartFails ==
  /\ main = "start"
  /\ main' = "failed"
  /\ chan' = << >>
  /\ UNCHANGED <<recvTimer, busy, left, pingVars, stop, age, inbox, envVars, histVars>>

\* while !stop.load()
LoopHead ==
  /\ main = "head"
  /\ main' = IF stop THEN "exit" ELSE "check"
  /\ UNCHANGED <<recvTimer, busy, left, pingVars, stop, age, chan, inbox, envVars, histVars>>

\* Mutant: the deadline is never exceeded.
NeverStale == FALSE

\* keepalive::ping_deadline_exceeded
PingDeadlineExceeded == age > PingTimeout

\* Lock last_ping and test the deadline; then the call of recv_timeout.
StaleCheck ==
  /\ main = "check"
  /\ main' = IF PingDeadlineExceeded THEN "exit" ELSE "recv"
  /\ recvTimer' = QuoteRecvTimeout
  /\ busy' = 0
  /\ UNCHANGED <<left, pingVars, stop, age, chan, inbox, envVars, histVars>>

\* recv_timeout returns Ok(quotes).
RecvOk ==
  /\ main = "recv"
  /\ chan # << >>
  /\ left' = Head(chan)
  /\ chan' = Tail(chan)
  /\ main' = "send"
  /\ UNCHANGED <<recvTimer, busy, pingVars, stop, age, inbox, envVars, histVars>>

\* recv_timeout returns Timeout: it looks for a batch and for a lost hub first.
RecvTimeout ==
  /\ main = "recv"
  /\ chan = << >>
  /\ hub = "up"
  /\ recvTimer = 0
  /\ main' = "head"
  /\ UNCHANGED <<recvTimer, busy, left, pingVars, stop, age, chan, inbox, envVars, histVars>>

\* recv_timeout returns Disconnected: no Sender is left and nothing is queued.
RecvDisconnected ==
  /\ main = "recv"
  /\ chan = << >>
  /\ hub = "gone"
  /\ main' = "exit"
  /\ UNCHANGED <<recvTimer, busy, left, pingVars, stop, age, chan, inbox, envVars, histVars>>

\* Mutant: the batch is sent to its end whatever happens.
StopSeen == FALSE

\* if stop.load() { break }, between two quotes of a batch.
StopAsked == stop

\* The head of the loop over the batch: stop abandons what is left of it.
NextQuote ==
  /\ main = "send"
  /\ main' = IF left > 0 /\ ~StopAsked THEN "put" ELSE "head"
  /\ left' = IF left > 0 /\ ~StopAsked THEN left ELSE 0
  /\ UNCHANGED <<recvTimer, busy, pingVars, stop, age, chan, inbox, envVars, histVars>>

\* send_quote_datagram: a send that fails is logged and skipped, so the
\* step is the same whether or not the datagram leaves.
PutQuote ==
  /\ main = "put"
  /\ main' = "send"
  /\ left' = left - 1
  /\ lateQuotes' = IF stop THEN Min2(lateQuotes + 1) ELSE lateQuotes
  /\ UNCHANGED <<recvTimer, busy, pingVars, stop, age, chan, inbox, envVars, latePongs>>

\* Mutant: the main thread ends and leaves the flag alone.
ExitSilently == stop

\* stop.store(true)
StopStored == TRUE

\* After the loop: stop.store(true), and quote_rx is dropped.
Exit ==
  /\ main = "exit"
  /\ main' = "done"
  /\ stop' = StopStored
  /\ chan' = << >>
  /\ UNCHANGED <<recvTimer, busy, left, pingVars, age, inbox, envVars, histVars>>

-------------------------------------------------------------------------------
(* The ping thread. *)

\* while !stop_recv.load(), then the call of recv_from.
PingHead ==
  /\ ping = "head"
  /\ ping' = IF stop THEN "done" ELSE "recv"
  /\ pingTimer' = PingRecvTimeout
  /\ UNCHANGED <<mainVars, stop, age, chan, inbox, envVars, histVars>>

\* recv_from returns a datagram; all but PING are ignored.
PingRecv ==
  /\ ping = "recv"
  /\ inbox # << >>
  /\ ping' = IF Head(inbox) = "PING" THEN "touch" ELSE "head"
  /\ inbox' = Tail(inbox)
  /\ UNCHANGED <<mainVars, pingTimer, stop, age, chan, envVars, histVars>>

\* recv_from returns WouldBlock or TimedOut.
PingRecvTimedOut ==
  /\ ping = "recv"
  /\ inbox = << >>
  /\ pingTimer = 0
  /\ ping' = "head"
  /\ UNCHANGED <<mainVars, pingTimer, stop, age, chan, inbox, envVars, histVars>>

\* recv_from returns any other error: the thread breaks out of its loop,
\* without setting stop.
PingRecvError ==
  /\ ping = "recv"
  /\ ping' = "done"
  /\ UNCHANGED <<mainVars, pingTimer, stop, age, chan, inbox, envVars, histVars>>

\* *last_ping_recv.lock() = Instant::now()
Touch ==
  /\ ping = "touch"
  /\ age' = 0
  /\ ping' = "pong"
  /\ UNCHANGED <<mainVars, pingTimer, stop, chan, inbox, envVars, histVars>>

\* recv_sock.send_to(PONG, src); its error is ignored.
Pong ==
  /\ ping = "pong"
  /\ ping' = "head"
  /\ latePongs' = IF stop THEN Min2(latePongs + 1) ELSE latePongs
  /\ UNCHANGED <<mainVars, pingTimer, stop, age, chan, inbox, envVars, lateQuotes>>

-------------------------------------------------------------------------------
(* The environment. *)

Ended == main \in {"done", "failed"} /\ ping \in {"off", "done"}

\* Mutant: the fan-out does not skip an empty selection.
HubSendEmpty ==
  /\ hub = "up"
  /\ main \notin {"done", "failed"}
  /\ Len(chan) < ChanCap
  /\ \E n \in 0 .. MaxQuotes : chan' = Append(chan, n)
  /\ UNCHANGED <<mainVars, pingVars, stop, age, inbox, envVars, histVars>>

\* The hub's fan-out sends a batch; it never sends an empty one.
HubSend ==
  /\ hub = "up"
  /\ main \notin {"done", "failed"}
  /\ Len(chan) < ChanCap
  /\ \E n \in 1 .. MaxQuotes : chan' = Append(chan, n)
  /\ UNCHANGED <<mainVars, pingVars, stop, age, inbox, envVars, histVars>>

\* Every Sender of the channel is dropped.
HubGone ==
  /\ hub = "up"
  /\ hub' = "gone"
  /\ UNCHANGED <<mainVars, pingVars, stop, age, chan, inbox, pingers, histVars>>

\* A datagram arrives while a thread may still read it: a PING, which the
\* worker takes from any source and not only from its client, or another one.
Arrive ==
  /\ ping \notin {"off", "done"}
  /\ Len(inbox) < InboxCap
  /\ \/ pingers = "some" /\ inbox' = Append(inbox, "PING")
     \/ inbox' = Append(inbox, "noise")
  /\ UNCHANGED <<mainVars, pingVars, stop, age, chan, envVars, histVars>>

\* The client is killed, or the network stops carrying what it sends, and
\* nobody else sends PINGs here either.
PingersGone ==
  /\ pingers = "some"
  /\ pingers' = "none"
  /\ UNCHANGED <<mainVars, pingVars, stop, age, chan, inbox, hub, histVars>>

\* The owner of the Arc sets stop.
ExternalStop ==
  /\ ~stop
  /\ stop' = TRUE
  /\ UNCHANGED <<mainVars, pingVars, age, chan, inbox, envVars, histVars>>

\* The main thread waits in recv_timeout.
Blocked == main = "recv" /\ chan = << >> /\ hub = "up" /\ recvTimer > 0

\* Time passes: freely while the main thread waits or has ended, and for at
\* most Slack ticks per turn of its loop while it could run.
Tick ==
  /\ Blocked \/ main \in {"done", "failed"} \/ busy < Slack
  /\ busy' = IF Blocked \/ main \in {"done", "failed"} THEN busy ELSE busy + 1
  /\ age' = IF age < AgeCap THEN age + 1 ELSE AgeCap
  /\ recvTimer' = IF main = "recv" THEN Dec(recvTimer) ELSE recvTimer
  /\ pingTimer' = IF ping = "recv" THEN Dec(pingTimer) ELSE pingTimer
  /\ UNCHANGED <<main, left, ping, stop, chan, inbox, envVars, histVars>>

-------------------------------------------------------------------------------
MainStep == Start \/ StartFails \/ LoopHead \/ StaleCheck \/ RecvOk \/ RecvTimeout
              \/ RecvDisconnected \/ NextQuote \/ PutQuote \/ Exit

PingStep == PingHead \/ PingRecv \/ PingRecvTimedOut \/ Touch \/ Pong

Next ==
  \/ Start
  \/ StartFails
  \/ LoopHead
  \/ StaleCheck
  \/ RecvOk
  \/ RecvTimeout
  \/ RecvDisconnected
  \/ NextQuote
  \/ PutQuote
  \/ Exit
  \/ PingHead
  \/ PingRecv
  \/ PingRecvTimedOut
  \/ PingRecvError
  \/ Touch
  \/ Pong
  \/ HubSend
  \/ HubGone
  \/ Arrive
  \/ PingersGone
  \/ ExternalStop
  \/ Tick

\* The scheduler runs both threads and time goes on; nothing is asked of the
\* hub, of who sends PINGs or of the owner of stop.
Fairness == WF_vars(MainStep) /\ WF_vars(PingStep) /\ WF_vars(Tick)

Spec == Init /\ [][Next]_vars /\ Fairness

-------------------------------------------------------------------------------
(* Properties *)

TypeOK ==
  /\ main \in {"start", "head", "check", "recv", "send", "put", "exit", "done", "failed"}
  /\ recvTimer \in 0 .. QuoteRecvTimeout
  /\ busy \in 0 .. Slack
  /\ left \in 0 .. MaxQuotes
  /\ ping \in {"off", "head", "recv", "touch", "pong", "done"}
  /\ pingTimer \in 0 .. PingRecvTimeout
  /\ stop \in BOOLEAN
  /\ age \in 0 .. AgeCap
  /\ chan \in Seq(1 .. MaxQuotes)
  /\ hub \in {"up", "gone"}
  /\ inbox \in Seq({"PING", "noise"})
  /\ pingers \in {"some", "none"}
  /\ lateQuotes \in 0 .. 2
  /\ latePongs \in 0 .. 2

\* Silence after the last PING: the deadline is tested before the worker
\* waits for a batch, not before it sends one, and yet no quote leaves later
\* than the timeout plus one wait on the channel plus the scheduling delay
\* after the last PING (streaming.rs:76-93; the README and
\* tests/multi_client_integration.rs rely on the stream being silent).
Silence == main = "put" => age <= SilenceBound

\* Once stop is set, by whomever, at most the quote and the PONG that were
\* already past their test of the flag still leave (streaming.rs:54, 88).
StopIsPrompt == lateQuotes <= 1 /\ latePongs <= 1

\* No half of a worker survives: when no PINGs come any more, the hub goes, stop
\* is set or the ping thread breaks on an error, both threads end
\* (streaming.rs:54, 71, 76-99).
NoOrphan ==
  (pingers = "none" \/ hub = "gone" \/ stop \/ ping = "done") ~> Ended
==============================================================================
