----------------------------- MODULE StreamClient ----------------------------
(***************************************************************************)
(* The streaming client, src/src/client: start_stream_client (run.rs) with *)
(* its TCP handshake (tcp_command.rs), the UDP receive loop                *)
(* (udp_recv.rs, both variants) and the pinger thread (ping.rs).  The two  *)
(* threads share the flag stop and the cell server_addr.  The environment  *)
(* is the server's answer, the sources that send datagrams to the client's *)
(* port, the user's Ctrl+C and the sockets, whose operations may fail.     *)
(*                                                                         *)
(* Time is discrete.  Until the client is told to end, by Ctrl+C, by its   *)
(* deadline or by an error, threads may be delayed without bound; from     *)
(* then on they lose at most Slack ticks between them.                     *)
(***************************************************************************)
EXTENDS Naturals, Sequences

CONSTANTS
  Sources,      \* addresses that may send datagrams to the client
  NoAddr,       \* None
  RunFor,       \* --duration-secs, in ticks
  ReadTimeout,  \* UDP_READ_TIMEOUT, in ticks
  PingInterval, \* --ping-interval-secs, in ticks
  Slack,        \* scheduling delay while the client ends, in ticks
  InboxCap      \* datagrams the socket buffer holds; more are lost

ASSUME SourcesAssumption == NoAddr \notin Sources
ASSUME TimingAssumption ==
  /\ RunFor \in Nat
  /\ ReadTimeout \in Nat \ {0}
  /\ PingInterval \in Nat \ {0}   \* ping_interval_secs.max(1)
  /\ Slack \in Nat
ASSUME InboxAssumption == InboxCap \in Nat

VARIABLES
  mode,       \* "timed" with a duration, "ctrlc" without
  main,       \* main thread: "load", "bind", "connect", "send", "answer",
              \* "setup", "head", "recv", "join" or "returned"
  result,     \* what start_stream_client returns: "none" yet, "ok", "err"
  readTimer,  \* what is left of recv_from
  runLeft,    \* ticks to the deadline
  stop,       \* the shared AtomicBool
  serverAddr, \* the shared ServerAddrCell
  pinger,     \* ping thread: "off", "head", "sleep", "check", "target",
              \* "send" or "done"
  sleepTimer, \* what is left of its sleep
  target,     \* the address it read
  inbox,      \* datagrams queued on the socket: [src, kind]
  first,      \* history: source of the first quote shown to the user
  since,      \* history: ticks since the client was told to end, capped
  lag         \* ticks lost since then to threads that could run

mainVars == <<main, result, readTimer, runLeft>>
pingVars == <<pinger, sleepTimer, target>>
histVars == <<first, since, lag>>
vars == <<mode, main, result, readTimer, runLeft, stop, serverAddr, pinger, sleepTimer,
          target, inbox, first, since, lag>>

\* The client ends before this time, which is also the cap on since.
EndBound == ReadTimeout + PingInterval + Slack

Dec(n) == IF n = 0 THEN 0 ELSE n - 1

Init ==
  /\ mode \in {"timed", "ctrlc"}
  /\ main = "load"
  /\ result = "none"
  /\ readTimer = 0
  /\ runLeft = RunFor
  /\ stop = FALSE
  /\ serverAddr = NoAddr
  /\ pinger = "off"
  /\ sleepTimer = 0
  /\ target = NoAddr
  /\ inbox = << >>
  /\ first = NoAddr
  /\ since = 0
  /\ lag = 0

\* The receive loop runs.
Receiving == main \in {"head", "recv"}

\* The client was told to end and has not returned.
Ending ==
  \/ Receiving /\ (stop \/ (mode = "timed" /\ runLeft = 0))
  \/ main = "join"

-------------------------------------------------------------------------------
(* The main thread. *)

\* load_tickers_from_path, the UDP bind, the TCP connect and the write of the
\* STREAM line, in this order; each one may fail, and then the rest is skipped.
Prepare(from, to) ==
  /\ main = from
  /\ \/ main' = to /\ UNCHANGED result
     \/ main' = "returned" /\ result' = "err"
  /\ UNCHANGED <<mode, readTimer, runLeft, stop, serverAddr, pingVars, inbox, histVars>>

\* send_stream_expect_response gets its line: OK, or anything else (ERR, an
\* unexpected line, the end of the stream, a read error).  There is no read
\* timeout: without an answer this step is never taken.
Answer ==
  /\ main = "answer"
  /\ \E line \in {"OK", "ERR", "other", "eof"} :
       /\ main' = IF line = "OK" THEN "setup" ELSE "returned"
       /\ result' = IF line = "OK" THEN result ELSE "err"
  /\ UNCHANGED <<mode, readTimer, runLeft, stop, serverAddr, pingVars, inbox, histVars>>

\* set_handler or set_read_timeout or try_clone fails before the pinger starts.
SetupFails ==
  /\ main = "setup"
  /\ main' = "returned"
  /\ result' = "err"
  /\ UNCHANGED <<mode, readTimer, runLeft, stop, serverAddr, pingVars, inbox, histVars>>

\* The pinger is spawned and the deadline is fixed.
Setup ==
  /\ main = "setup"
  /\ main' = "head"
  /\ pinger' = "head"
  /\ runLeft' = RunFor
  /\ UNCHANGED <<mode, result, readTimer, stop, serverAddr, sleepTimer, target, inbox, histVars>>

\* Mutant: the main thread returns without joining the pinger.
AfterLoopNoJoin == "returned"

\* ping_handle.join() follows the loop.
AfterLoop == "join"

\* Mutant: datagrams that wait are received first.
LoopEndsWhenIdle == inbox = << >> /\ (stop \/ (mode = "timed" /\ runLeft = 0))

\* The loop condition fails: stop is set or the deadline has passed.
LoopEnds == stop \/ (mode = "timed" /\ runLeft = 0)

\* The head of the receive loop; after the loop stop is set.
LoopHead ==
  /\ main = "head"
  /\ IF LoopEnds
     THEN /\ main' = AfterLoop
          /\ stop' = TRUE
          /\ UNCHANGED readTimer
     ELSE /\ main' = "recv"
          /\ readTimer' = ReadTimeout
          /\ UNCHANGED stop
  /\ UNCHANGED <<mode, result, runLeft, serverAddr, pingVars, inbox, histVars>>

\* Mutant: the cell follows the source of every quote.
PinnedLast(src) == src

\* get_or_insert(src)
Pinned(src) == IF serverAddr = NoAddr THEN src ELSE serverAddr

\* recv_from returns a datagram.  A quote fixes the server's address, if it is
\* the first, and is shown; PING, PONG, blank lines and garbage are skipped.
Recv ==
  /\ main = "recv"
  /\ inbox # << >>
  /\ IF Head(inbox).kind = "quote"
     THEN /\ serverAddr' = Pinned(Head(inbox).src)
          /\ first' = IF first = NoAddr THEN Head(inbox).src ELSE first
     ELSE UNCHANGED <<serverAddr, first>>
  /\ inbox' = Tail(inbox)
  /\ main' = "head"
  /\ UNCHANGED <<mode, result, readTimer, runLeft, stop, pingVars, since, lag>>

\* recv_from returns WouldBlock or TimedOut.
RecvTimedOut ==
  /\ main = "recv"
  /\ inbox = << >>
  /\ readTimer = 0
  /\ main' = "head"
  /\ UNCHANGED <<mode, result, readTimer, runLeft, stop, serverAddr, pingVars, inbox, histVars>>

\* recv_from returns any other error: stop is set and the error is returned
\* after the join.
RecvError ==
  /\ main = "recv"
  /\ stop' = TRUE
  /\ result' = "err"
  /\ main' = AfterLoop
  /\ UNCHANGED <<mode, readTimer, runLeft, serverAddr, pingVars, inbox, histVars>>

\* join() returns once the pinger has ended.
Join ==
  /\ main = "join"
  /\ pinger = "done"
  /\ main' = "returned"
  /\ result' = IF result = "none" THEN "ok" ELSE result
  /\ UNCHANGED <<mode, readTimer, runLeft, stop, serverAddr, pingVars, inbox, histVars>>

-------------------------------------------------------------------------------
(* The pinger thread. *)

\* Mutant: the pinger sleeps for longer than it was told.
SleepForLonger == PingInterval + 1

\* thread::sleep(interval)
SleepFor == PingInterval

\* while !stop.load(), then the call of sleep.
PingHead ==
  /\ pinger = "head"
  /\ pinger' = IF stop THEN "done" ELSE "sleep"
  /\ sleepTimer' = SleepFor
  /\ UNCHANGED <<mode, mainVars, stop, serverAddr, target, inbox, histVars>>

PingWakes ==
  /\ pinger = "sleep"
  /\ sleepTimer = 0
  /\ pinger' = "check"
  /\ UNCHANGED <<mode, mainVars, stop, serverAddr, sleepTimer, target, inbox, histVars>>

\* Mutant: the flag is not looked at after the sleep.
StopAfterSleepIgnored == FALSE

\* if stop.load() { break }, after the sleep.
StopAfterSleep == stop

PingCheck ==
  /\ pinger = "check"
  /\ pinger' = IF StopAfterSleep THEN "done" ELSE "target"
  /\ UNCHANGED <<mode, mainVars, stop, serverAddr, sleepTimer, target, inbox, histVars>>

\* Lock server_addr and copy it; no PING as long as it is None.
PingTarget ==
  /\ pinger = "target"
  /\ target' = serverAddr
  /\ pinger' = IF serverAddr = NoAddr THEN "head" ELSE "send"
  /\ UNCHANGED <<mode, mainVars, stop, serverAddr, sleepTimer, inbox, histVars>>

\* socket.send_to(PING, target); its error is ignored.
PingSend ==
  /\ pinger = "send"
  /\ pinger' = "head"
  /\ UNCHANGED <<mode, mainVars, stop, serverAddr, sleepTimer, target, inbox, histVars>>

-------------------------------------------------------------------------------
(* The environment. *)

\* A datagram arrives from any source; the socket is bound before the STREAM.
Arrive ==
  /\ main \notin {"load", "bind", "returned"}
  /\ Len(inbox) < InboxCap
  /\ \E s \in Sources, k \in {"quote", "noise"} : inbox' = Append(inbox, [src |-> s, kind |-> k])
  /\ UNCHANGED <<mode, mainVars, stop, serverAddr, pingVars, histVars>>

\* Ctrl+C, once the handler is installed, also before the pinger is spawned;
\* with a duration there is no handler.
CtrlC ==
  /\ mode = "ctrlc"
  /\ main = "setup" \/ Receiving \/ main = "join"
  /\ ~stop
  /\ stop' = TRUE
  /\ UNCHANGED <<mode, mainVars, serverAddr, pingVars, inbox, histVars>>

MainBlocked ==
  \/ main = "recv" /\ inbox = << >> /\ readTimer > 0
  \/ main = "join" /\ pinger # "done"
PingBlocked == pinger = "done" \/ (pinger = "sleep" /\ sleepTimer > 0)

\* Time passes.
Tick ==
  /\ ~Ending \/ (MainBlocked /\ PingBlocked) \/ lag < Slack
  /\ lag' = IF Ending /\ ~(MainBlocked /\ PingBlocked) THEN lag + 1 ELSE lag
  /\ since' = IF Ending /\ since < EndBound THEN since + 1 ELSE since
  /\ runLeft' = IF Receiving THEN Dec(runLeft) ELSE runLeft
  /\ readTimer' = IF main = "recv" THEN Dec(readTimer) ELSE readTimer
  /\ sleepTimer' = IF pinger = "sleep" THEN Dec(sleepTimer) ELSE sleepTimer
  /\ UNCHANGED <<mode, main, result, stop, serverAddr, pinger, target, inbox, first>>

-------------------------------------------------------------------------------
PrepareSteps ==
  \/ Prepare("load", "bind")
  \/ Prepare("bind", "connect")
  \/ Prepare("connect", "send")
  \/ Prepare("send", "answer")

MainStep == LoopHead \/ Recv \/ RecvTimedOut \/ Join
PingStep == PingHead \/ PingWakes \/ PingCheck \/ PingTarget \/ PingSend

Next ==
  \/ PrepareSteps
  \/ Answer
  \/ SetupFails
  \/ Setup
  \/ LoopHead
  \/ Recv
  \/ RecvTimedOut
  \/ RecvError
  \/ Join
  \/ PingHead
  \/ PingWakes
  \/ PingCheck
  \/ PingTarget
  \/ PingSend
  \/ Arrive
  \/ CtrlC
  \/ Tick

\* The scheduler runs both threads and time goes on; the server, the sources
\* and the user need not do anything.
Fairness == WF_vars(MainStep) /\ WF_vars(PingStep) /\ WF_vars(Tick)

Spec == Init /\ [][Next]_vars /\ Fairness

-------------------------------------------------------------------------------
(* Properties *)

TypeOK ==
  /\ mode \in {"timed", "ctrlc"}
  /\ main \in {"load", "bind", "connect", "send", "answer", "setup", "head", "recv",
               "join", "returned"}
  /\ result \in {"none", "ok", "err"}
  /\ readTimer \in 0 .. ReadTimeout
  /\ runLeft \in 0 .. RunFor
  /\ stop \in BOOLEAN
  /\ serverAddr \in Sources \cup {NoAddr}
  /\ pinger \in {"off", "head", "sleep", "check", "target", "send", "done"}
  /\ sleepTimer \in 0 .. PingInterval
  /\ target \in Sources \cup {NoAddr}
  /\ inbox \in Seq([src : Sources, kind : {"quote", "noise"}])
  /\ first \in Sources \cup {NoAddr}
  /\ since \in 0 .. EndBound
  /\ lag \in 0 .. Slack

\* Once the client returned nothing of it is left: its pinger has ended or
\* never started, and sends no PING that would keep the server's stream alive
\* (udp_recv.rs:90-99, 144-152).
NothingLeftBehind == main = "returned" => pinger \in {"off", "done"}

\* However the stop flag falls into the pinger's turn, a PING that leaves
\* after it was past its tests already: it does so within the scheduling
\* delay and never after another sleep.  With a duration the flag itself may
\* be one read timeout late (ping.rs:25-39, udp_recv.rs:67, 97).
PingsStop ==
  stop /\ pinger = "send" => since <= Slack + (IF mode = "timed" THEN ReadTimeout ELSE 0)

\* Every PING goes to the source of the first quote that was shown, and none
\* is sent before there is one (udp_recv.rs:82-84, ping.rs:30-38).
PingsFirstSource == pinger = "send" => target = first /\ first # NoAddr

\* Told to end, by Ctrl+C, deadline or error, the client returns in less than
\* one read timeout, one ping interval and the scheduling delay, also while
\* datagrams keep arriving (udp_recv.rs:67, 118, ping.rs:25-29).
EndsInTime == main # "returned" => since < EndBound

\* The client is told to end and does return.
Ends == Ending ~> main = "returned"
==============================================================================
