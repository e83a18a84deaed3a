----------------------------- MODULE StreamSystem ----------------------------
(***************************************************************************)
(* Clients, command server and workers together, over TCP and a network    *)
(* that loses and reorders datagrams.  A client is one run of              *)
(* start_stream_client (src/src/client/run.rs); a client that is started   *)
(* again on its UDP port is another element of Clients with the same Port. *)
(* The server side of a client is its connection (handle_tcp_client of     *)
(* src/src/server/run.rs) and the worker that a granted STREAM starts      *)
(* (src/src/server/streaming.rs); worker w is the one client w asked for.  *)
(*                                                                         *)
(* Time is abstract here: KeepAlive has the clocks, this module only that  *)
(* a worker which hears no PING for long enough is cut.  PONGs, which the  *)
(* client drops, are left out.                                             *)
(***************************************************************************)
EXTENDS Naturals

CONSTANTS
  Clients,         \* runs of the client program
  Ports,           \* UDP ports of the clients' host
  Port,            \* the UDP port of each run
  Want,            \* the tickers of each run
  DefaultTickers   \* the tickers the server knows

ASSUME ClientsAssumption == Port \in [Clients -> Ports]
ASSUME WantAssumption == \A c \in Clients : Want[c] # {}

None == "none"

VARIABLES
  server,  \* "up" or "down"
  stage,   \* client: "new", "bound", "asking", "run" or "over"
  conn,    \* its connection: "none", "sent" with STREAM under way, "ok" with
           \* OK written, "done" when the handler is through, "err" or "eof"
  worker,  \* its worker: "none", "run", "over", or "failed" without a socket
  fresh,   \* the worker heard a PING recently
  addr,    \* client: the worker its PINGs go to, or None
  shown,   \* client: <<worker, ticker>> of every quote it has shown
  net,     \* datagrams under way
  clean    \* history: nothing was left of earlier runs when the client bound

vars == <<server, stage, conn, worker, fresh, addr, shown, net, clean>>
clientVars == <<stage, addr, shown, clean>>
workerVars == <<worker, fresh>>

QuoteMsg(w, t) == [kind |-> "quote", from |-> w, ticker |-> t]
PingMsg(w) == [kind |-> "PING", to |-> w]

TypeOK ==
  /\ server \in {"up", "down"}
  /\ stage \in [Clients -> {"new", "bound", "asking", "run", "over"}]
  /\ conn \in [Clients -> {"none", "sent", "ok", "done", "err", "eof"}]
  /\ worker \in [Clients -> {"none", "run", "over", "failed"}]
  /\ fresh \in [Clients -> BOOLEAN]
  /\ addr \in [Clients -> Clients \union {None}]
  /\ shown \in [Clients -> SUBSET (Clients \X DefaultTickers)]
  /\ net \subseteq {QuoteMsg(w, t) : w \in Clients, t \in DefaultTickers}
                     \union {PingMsg(w) : w \in Clients}
  /\ clean \in [Clients -> BOOLEAN]

Init ==
  /\ server = "up"
  /\ stage = [c \in Clients |-> "new"]
  /\ conn = [c \in Clients |-> "none"]
  /\ worker = [c \in Clients |-> "none"]
  /\ fresh = [c \in Clients |-> FALSE]
  /\ addr = [c \in Clients |-> None]
  /\ shown = [c \in Clients |-> {}]
  /\ net = {}
  /\ clean = [c \in Clients |-> FALSE]

-----------------------------------------------------------------------------
(* The client *)

\* Runs that hold the socket of a port.
Holding(p) == {c \in Clients : Port[c] = p /\ stage[c] \in {"bound", "asking", "run"}}

\* What an earlier run on the port of c may still cause to arrive there.
LeftOf(c, d) ==
  /\ d # c /\ Port[d] = Port[c]
  /\ \/ conn[d] \in {"sent", "ok"}
     \/ worker[d] = "run"
     \/ \E t \in DefaultTickers : QuoteMsg(d, t) \in net

\* Mutant: a socket that shares its port with others.
PortShared(c) == TRUE

PortFree(c) == Holding(Port[c]) = {}

\* The file and the addresses have been read; udp_bind succeeds or ends the run.
Bind(c) ==
  /\ stage[c] = "new"
  /\ stage' = [stage EXCEPT ![c] = IF PortFree(c) THEN "bound" ELSE "over"]
  /\ clean' = [clean EXCEPT ![c] = \A d \in Clients : ~LeftOf(c, d)]
  /\ UNCHANGED <<server, conn, workerVars, addr, shown, net>>

\* connect and the STREAM line.  Without a server the run is over.
Ask(c) ==
  /\ stage[c] = "bound"
  /\ stage' = [stage EXCEPT ![c] = IF server = "up" THEN "asking" ELSE "over"]
  /\ conn' = [conn EXCEPT ![c] = IF server = "up" THEN "sent" ELSE @]
  /\ UNCHANGED <<server, workerVars, addr, shown, net, clean>>

\* The answer is read, without a timeout: OK, or an error that ends the run.
Answer(c) ==
  /\ stage[c] = "asking"
  /\ conn[c] # "sent"
  /\ stage' = [stage EXCEPT ![c] = IF conn[c] \in {"ok", "done"} THEN "run" ELSE "over"]
  /\ UNCHANGED <<server, conn, workerVars, addr, shown, net, clean>>

\* A quote reaches the client's port: the first one fixes the address for
\* PINGs, and every one is shown, whoever sent it.
Pinned(c, w) == IF addr[c] = None THEN w ELSE addr[c]

Receive(c, w, t) ==
  /\ stage[c] = "run"
  /\ QuoteMsg(w, t) \in net
  /\ Port[w] = Port[c]
  /\ net' = net \ {QuoteMsg(w, t)}
  /\ addr' = [addr EXCEPT ![c] = Pinned(c, w)]
  /\ shown' = [shown EXCEPT ![c] = @ \union {<<w, t>>}]
  /\ UNCHANGED <<server, stage, conn, workerVars, clean>>

Ping(c) ==
  /\ stage[c] = "run"
  /\ addr[c] # None
  /\ net' = net \union {PingMsg(addr[c])}
  /\ UNCHANGED <<server, conn, clientVars, workerVars>>

\* The client returns, fails or is killed, at any point once it has started.
Leave(c) ==
  /\ stage[c] \in {"bound", "asking", "run"}
  /\ stage' = [stage EXCEPT ![c] = "over"]
  /\ UNCHANGED <<server, conn, workerVars, addr, shown, net, clean>>

-----------------------------------------------------------------------------
(* The server *)

\* Mutants: no answer to a list that is refused; a deadline never tested.
VerdictSilent(c) == IF Want[c] \subseteq DefaultTickers THEN "ok" ELSE "sent"
NeverExpired(w) == FALSE

\* What validate_stream_command makes of the list.
Verdict(c) == IF Want[c] \subseteq DefaultTickers THEN "ok" ELSE "err"

\* The handler reads STREAM, which it does for a client that is gone as well,
\* and writes OK or ERR.  The write may fail when the client is gone, and
\* then the handler ends.
Serve(c) ==
  /\ server = "up"
  /\ conn[c] = "sent"
  /\ \/ conn' = [conn EXCEPT ![c] = Verdict(c)]
     \/ stage[c] = "over" /\ conn' = [conn EXCEPT ![c] = "eof"]
  /\ UNCHANGED <<server, clientVars, workerVars, net>>

\* After OK: the subscription and the worker, which may get no socket.
Subscribe(c) ==
  /\ server = "up"
  /\ conn[c] = "ok"
  /\ conn' = [conn EXCEPT ![c] = "done"]
  /\ \/ worker' = [worker EXCEPT ![c] = "run"] /\ fresh' = [fresh EXCEPT ![c] = TRUE]
     \/ worker' = [worker EXCEPT ![c] = "failed"] /\ UNCHANGED fresh
  /\ UNCHANGED <<server, clientVars, net>>

\* A quote of a subscribed ticker leaves for the client's port.
Stream(w, t) ==
  /\ worker[w] = "run"
  /\ t \in Want[w]
  /\ net' = net \union {QuoteMsg(w, t)}
  /\ UNCHANGED <<server, conn, clientVars, workerVars>>

\* The ping thread hears a PING, whoever sent it.
Hear(w) ==
  /\ worker[w] = "run"
  /\ PingMsg(w) \in net
  /\ net' = net \ {PingMsg(w)}
  /\ fresh' = [fresh EXCEPT ![w] = TRUE]
  /\ UNCHANGED <<server, conn, clientVars, worker>>

\* Time passes without a PING, and then the deadline is seen.
Age(w) ==
  /\ worker[w] = "run"
  /\ fresh[w]
  /\ fresh' = [fresh EXCEPT ![w] = FALSE]
  /\ UNCHANGED <<server, conn, clientVars, worker, net>>

Expired(w) == ~fresh[w]

Expire(w) ==
  /\ worker[w] = "run"
  /\ Expired(w)
  /\ worker' = [worker EXCEPT ![w] = "over"]
  /\ UNCHANGED <<server, conn, clientVars, fresh, net>>

\* The server process ends, and with it its handlers and workers.
Exit ==
  /\ server = "up"
  /\ server' = "down"
  /\ conn' = [c \in Clients |-> IF conn[c] = "sent" THEN "eof" ELSE conn[c]]
  /\ worker' = [c \in Clients |-> IF worker[c] = "run" THEN "over" ELSE worker[c]]
  /\ UNCHANGED <<clientVars, fresh, net>>

\* The network loses a datagram, or nobody holds the port it is for.
Lose ==
  /\ \E m \in net : net' = net \ {m}
  /\ UNCHANGED <<server, conn, clientVars, workerVars>>

-----------------------------------------------------------------------------
Next ==
  \/ \E c \in Clients :
       \/ Bind(c) \/ Ask(c) \/ Answer(c) \/ Ping(c) \/ Leave(c)
       \/ Serve(c) \/ Subscribe(c) \/ Hear(c) \/ Age(c) \/ Expire(c)
       \/ \E t \in DefaultTickers : Stream(c, t) \/ \E w \in Clients : Receive(c, w, t)
  \/ Exit
  \/ Lose

\* The handlers run, an answer that has come is read, time passes and the
\* main loop of a worker turns.  Clients, network and server owe nothing else.
Fairness ==
  \A c \in Clients :
    /\ WF_vars(Serve(c))
    /\ WF_vars(Answer(c))
    /\ WF_vars(Subscribe(c))
    /\ WF_vars(Age(c))
    /\ WF_vars(Expire(c))
Spec == Init /\ [][Next]_vars /\ Fairness

-----------------------------------------------------------------------------
(* A client whose port was clean when it bound shows only quotes of its own
   worker: it binds before it sends STREAM, so whoever else asks for a stream
   to the port cannot get it.  A request that an earlier run left in the
   server, and a worker that still streams to it, count as not clean. *)
OwnStream ==
  \A c \in Clients : clean[c] => \A q \in shown[c] : q[1] = c

(* Every client gets an answer to STREAM, although it waits without a timeout:
   OK, ERR, or the end of the connection. *)
Answered == \A c \in Clients : stage[c] = "asking" ~> stage[c] # "asking"

(* When all clients are gone, the streams end for good, those included that a
   request they left behind starts after them. *)
NoStray ==
  []((\A c \in Clients : stage[c] = "over") => <>[](\A c \in Clients : worker[c] # "run"))

(* tests/multi_client_integration.rs: a client shows only tickers it has
   subscribed to ("not in subscription"). *)
OnlySubscribed == \A c \in Clients : \A q \in shown[c] : q[2] \in Want[c]
==============================================================================
