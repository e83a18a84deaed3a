-------------------------- MODULE StreamSystemProofs -------------------------
(***************************************************************************)
(* Proofs about StreamSystem, for any number of clients and ports: what a  *)
(* client shows when nothing was left of earlier runs on its port.         *)
(***************************************************************************)
EXTENDS StreamSystem, TLAPS

Held == {"bound", "asking", "run"}

\* A port has one socket.
Exclusive ==
  \A c, d \in Clients :
    Port[c] = Port[d] /\ stage[c] \in Held /\ stage[d] \in Held => c = d

\* Nobody else sends, or will send, to the port of a client that found it clean.
Alone ==
  \A c \in Clients : clean[c] /\ stage[c] \in Held => \A d \in Clients : ~LeftOf(c, d)

\* A worker streams what its own client asked for.
Asked ==
  /\ \A w \in Clients, t \in DefaultTickers : QuoteMsg(w, t) \in net => t \in Want[w]
  /\ \A c \in Clients : \A q \in shown[c] : q[2] \in Want[q[1]]

\* A client that has not started has shown nothing.
Unseen == \A c \in Clients : stage[c] = "new" => shown[c] = {}

\* The inductive invariant.
IInv == TypeOK /\ Exclusive /\ Alone /\ Unseen /\ OwnStream /\ Asked

Msgs == {QuoteMsg(w, t) : w \in Clients, t \in DefaultTickers} \union {PingMsg(w) : w \in Clients}

\* Messages that differ in kind, sender or ticker differ.
LEMMA Messages ==
  /\ \A w, v, t, u : QuoteMsg(w, t) = QuoteMsg(v, u) <=> w = v /\ t = u
  /\ \A w, v, t : QuoteMsg(w, t) # PingMsg(v)
BY DEF QuoteMsg, PingMsg

\* The invariant holds before the first client starts.
LEMMA InitInv == Init => IInv
<1> SUFFICES ASSUME Init PROVE IInv
  OBVIOUS
<1>1. TypeOK
  <2>1. /\ fresh \in [Clients -> BOOLEAN] /\ clean \in [Clients -> BOOLEAN]
    BY Zenon DEF Init
  <2>2. QED
    BY <2>1 DEF Init, TypeOK
<1>2. Exclusive /\ Alone /\ Unseen /\ OwnStream /\ Asked
  BY DEF Init, Exclusive, Alone, Unseen, OwnStream, Asked, Held
<1>3. QED
  BY <1>1, <1>2 DEF IInv

\* What may be left of d shrinks in a step that makes no request of d, no
\* worker for it unless one was asked for, and no quote of a worker it has not.
LEMMA NothingNew ==
  ASSUME NEW c \in Clients, NEW d \in Clients, ~LeftOf(c, d),
         conn'[d] \in {"sent", "ok"} => conn[d] \in {"sent", "ok"},
         worker'[d] = "run" => worker[d] = "run" \/ conn[d] = "ok",
         \A t \in DefaultTickers :
           QuoteMsg(d, t) \in net' => QuoteMsg(d, t) \in net \/ worker[d] = "run"
  PROVE  ~LeftOf(c, d)'
BY DEF LeftOf

\* Steps of the clients.
LEMMA BindInv == ASSUME NEW c \in Clients PROVE IInv /\ Bind(c) => IInv'
<1> SUFFICES ASSUME IInv, Bind(c) PROVE IInv'
  OBVIOUS
<1> USE DEF IInv
<1>1. TypeOK'
  BY DEF TypeOK, Bind, workerVars
<1>2. Exclusive'
  BY DEF TypeOK, Exclusive, Bind, PortFree, Holding, Held
<1>3. Alone'
  BY DEF TypeOK, Alone, Bind, LeftOf, Held, workerVars
<1>4. Unseen' /\ OwnStream' /\ Asked'
  BY DEF TypeOK, Unseen, OwnStream, Asked, Bind
<1>5. QED
  BY <1>1, <1>2, <1>3, <1>4

\* Only the client that holds the port may ask for a stream to it.
LEMMA AskInv == ASSUME NEW c \in Clients PROVE IInv /\ Ask(c) => IInv'
<1> SUFFICES ASSUME IInv, Ask(c) PROVE IInv'
  OBVIOUS
<1> USE DEF IInv
<1>1. TypeOK'
  BY DEF TypeOK, Ask, workerVars
<1>2. Exclusive'
  BY DEF TypeOK, Exclusive, Ask, Held
<1>3. Alone'
  <2> SUFFICES ASSUME NEW b \in Clients, clean'[b], stage'[b] \in Held, NEW d \in Clients
               PROVE  ~LeftOf(b, d)'
    BY DEF Alone
  <2>1. clean[b] /\ stage[b] \in Held /\ ~LeftOf(b, d)
    BY DEF TypeOK, Alone, Ask, Held
  <2>2. CASE d = c
    <3>1. b = c \/ Port[b] # Port[c]
      BY <2>1 DEF Exclusive, Ask, Held
    <3>2. QED
      BY <2>2, <3>1 DEF LeftOf
  <2>3. CASE d # c
    <3>1. conn'[d] = conn[d] /\ worker' = worker /\ net' = net
      BY <2>3 DEF TypeOK, Ask, workerVars
    <3>2. QED
      BY <2>1, <3>1, NothingNew
  <2>4. QED
    BY <2>2, <2>3
<1>4. Unseen' /\ OwnStream' /\ Asked'
  BY DEF TypeOK, Unseen, OwnStream, Asked, Ask
<1>5. QED
  BY <1>1, <1>2, <1>3, <1>4

\* A client that reads its answer, or leaves.
LEMMA AnswerInv == ASSUME NEW c \in Clients PROVE IInv /\ (Answer(c) \/ Leave(c)) => IInv'
<1> SUFFICES ASSUME IInv, Answer(c) \/ Leave(c) PROVE IInv'
  OBVIOUS
<1> USE DEF IInv
<1>1. /\ UNCHANGED <<server, conn, worker, fresh, addr, shown, net, clean>>
      /\ stage[c] \in Held
      /\ stage' = [stage EXCEPT ![c] = "run"] \/ stage' = [stage EXCEPT ![c] = "over"]
  BY DEF Answer, Leave, Held, workerVars
<1>2. TypeOK'
  BY <1>1 DEF TypeOK
<1>3. \A b \in Clients : /\ stage'[b] \in Held => stage[b] \in Held
                         /\ stage'[b] # "new" \/ stage[b] = "new"
  BY <1>1 DEF TypeOK, Held
<1>4. Exclusive' /\ Unseen' /\ OwnStream' /\ Asked'
  BY <1>1, <1>3 DEF Exclusive, Unseen, OwnStream, Asked
<1>5. Alone'
  BY <1>1, <1>3 DEF Alone, LeftOf
<1>6. QED
  BY <1>2, <1>4, <1>5

\* Quotes reach the client whose port they are for, and if that was clean only
\* its own worker has sent any.
LEMMA ReceiveInv ==
  ASSUME NEW c \in Clients, NEW w \in Clients, NEW t \in DefaultTickers
  PROVE  IInv /\ Receive(c, w, t) => IInv'
<1> SUFFICES ASSUME IInv, Receive(c, w, t) PROVE IInv'
  OBVIOUS
<1> USE DEF IInv
<1>1. /\ UNCHANGED <<server, stage, conn, worker, fresh, clean>>
      /\ stage[c] = "run" /\ QuoteMsg(w, t) \in net /\ Port[w] = Port[c]
      /\ net' = net \ {QuoteMsg(w, t)}
      /\ addr' = [addr EXCEPT ![c] = Pinned(c, w)]
      /\ shown' = [shown EXCEPT ![c] = @ \union {<<w, t>>}]
  BY DEF Receive, workerVars
<1>2. clean[c] => w = c
  BY <1>1 DEF Alone, LeftOf, Held
<1>3. TypeOK'
  <2>1. addr' \in [Clients -> Clients \union {None}]
    BY <1>1 DEF TypeOK, Pinned
  <2>2. shown' \in [Clients -> SUBSET (Clients \X DefaultTickers)]
    BY <1>1 DEF TypeOK
  <2>3. QED
    BY <1>1, <2>1, <2>2 DEF TypeOK
<1>4. Exclusive' /\ Unseen'
  BY <1>1 DEF TypeOK, Exclusive, Unseen
<1>5. Alone'
  BY <1>1 DEF Alone, LeftOf
<1>6. OwnStream'
  BY <1>1, <1>2 DEF TypeOK, OwnStream
<1>7. Asked'
  BY <1>1 DEF TypeOK, Asked
<1>8. QED
  BY <1>3, <1>4, <1>5, <1>6, <1>7

\* PINGs, quotes and losses in the network.
NetStep ==
  \/ \E c \in Clients : \/ Ping(c) \/ Hear(c) \/ Age(c)
                       \/ \E t \in DefaultTickers : Stream(c, t)
  \/ Lose

\* They preserve the invariant.
LEMMA NetInv == IInv /\ NetStep => IInv'
<1> SUFFICES ASSUME IInv, NetStep PROVE IInv'
  OBVIOUS
<1> USE DEF IInv
<1>1. UNCHANGED <<server, conn, stage, addr, shown, clean, worker>>
  BY DEF NetStep, Ping, Stream, Hear, Age, Lose, clientVars, workerVars
<1>2. \A v \in Clients, u \in DefaultTickers :
        QuoteMsg(v, u) \in net' => QuoteMsg(v, u) \in net \/ (worker[v] = "run" /\ u \in Want[v])
  BY Messages DEF NetStep, Ping, Stream, Hear, Age, Lose
<1>3. net' \subseteq Msgs /\ fresh' \in [Clients -> BOOLEAN]
  <2>1. net \subseteq Msgs /\ fresh \in [Clients -> BOOLEAN]
    BY DEF TypeOK, Msgs
  <2>2. \A c \in Clients : addr[c] # None => PingMsg(addr[c]) \in Msgs
    BY DEF TypeOK, Msgs
  <2>3. \A c \in Clients, t \in DefaultTickers : QuoteMsg(c, t) \in Msgs
    BY DEF Msgs
  <2>4. net' \subseteq Msgs
    BY <2>1, <2>2, <2>3 DEF NetStep, Ping, Stream, Hear, Age, Lose
  <2>5. fresh' \in [Clients -> BOOLEAN]
    BY <2>1 DEF NetStep, Ping, Stream, Hear, Age, Lose, workerVars
  <2>6. QED
    BY <2>4, <2>5
<1>4. TypeOK'
  BY <1>1, <1>3 DEF TypeOK, Msgs
<1>5. Exclusive' /\ Unseen' /\ OwnStream'
  BY <1>1 DEF Exclusive, Unseen, OwnStream
<1>6. Alone'
  <2> SUFFICES ASSUME NEW b \in Clients, clean'[b], stage'[b] \in Held, NEW d \in Clients
               PROVE  ~LeftOf(b, d)'
    BY DEF Alone
  <2>1. ~LeftOf(b, d)
    BY <1>1 DEF Alone
  <2>2. QED
    BY <1>1, <1>2, <2>1, NothingNew
<1>7. Asked'
  BY <1>1, <1>2 DEF Asked
<1>8. QED
  BY <1>4, <1>5, <1>6, <1>7

\* Steps of the server.
ServerStep == (\E c \in Clients : Serve(c) \/ Subscribe(c) \/ Expire(c)) \/ Exit

\* They preserve it, too.
LEMMA ServerInv == IInv /\ ServerStep => IInv'
<1> SUFFICES ASSUME IInv, ServerStep PROVE IInv'
  OBVIOUS
<1> USE DEF IInv
<1>1. UNCHANGED <<stage, addr, shown, clean, net>>
  BY DEF ServerStep, Serve, Subscribe, Expire, Exit, clientVars
<1>2. ASSUME NEW d \in Clients
      PROVE  /\ conn'[d] \in {"sent", "ok"} => conn[d] \in {"sent", "ok"}
             /\ worker'[d] = "run" => worker[d] = "run" \/ conn[d] = "ok"
  BY DEF TypeOK, ServerStep, Serve, Subscribe, Expire, Exit, workerVars
<1>3. TypeOK'
  <2>1. conn' \in [Clients -> {"none", "sent", "ok", "done", "err", "eof"}]
    BY DEF TypeOK, ServerStep, Serve, Verdict, Subscribe, Expire, Exit
  <2>2. worker' \in [Clients -> {"none", "run", "over", "failed"}] /\ server' \in {"up", "down"}
    BY DEF TypeOK, ServerStep, Serve, Subscribe, Expire, Exit, workerVars
  <2>3. fresh' \in [Clients -> BOOLEAN]
    <3>1. fresh' = fresh \/ \E c \in Clients : fresh' = [fresh EXCEPT ![c] = TRUE]
      BY DEF ServerStep, Serve, Subscribe, Expire, Exit, workerVars
    <3>2. fresh \in [Clients -> BOOLEAN]
      BY DEF TypeOK
    <3>3. QED
      BY ONLY <3>1, <3>2
  <2>4. QED
    BY <1>1, <2>1, <2>2, <2>3 DEF TypeOK
<1>4. Exclusive' /\ Unseen' /\ OwnStream' /\ Asked'
  BY <1>1 DEF Exclusive, Unseen, OwnStream, Asked
<1>5. Alone'
  <2> SUFFICES ASSUME NEW b \in Clients, clean'[b], stage'[b] \in Held, NEW d \in Clients
               PROVE  ~LeftOf(b, d)'
    BY DEF Alone
  <2>1. ~LeftOf(b, d)
    BY <1>1 DEF Alone
  <2>2. QED
    BY <1>1, <1>2, <2>1, NothingNew
<1>6. QED
  BY <1>3, <1>4, <1>5

\* Every step preserves the invariant.
LEMMA NextInv == IInv /\ [Next]_vars => IInv'
<1> SUFFICES ASSUME IInv, [Next]_vars PROVE IInv'
  OBVIOUS
<1>1. CASE UNCHANGED vars
  BY <1>1 DEF vars, IInv, TypeOK, Exclusive, Alone, LeftOf, Unseen, OwnStream, Asked
<1>2. QED
  BY <1>1, BindInv, AskInv, AnswerInv, ReceiveInv, NetInv, ServerInv DEF Next, NetStep, ServerStep

\* The inductive invariant holds in every reachable state.
THEOREM Invariant == Spec => []IInv
BY InitInv, NextInv, PTL DEF Spec

\* Clients, connections, workers and network keep their types.
THEOREM SystemTypeOK == Spec => []TypeOK
<1>1. IInv => TypeOK
  BY DEF IInv
<1>2. QED
  BY <1>1, Invariant, PTL

\* A client whose port was clean when it bound shows only quotes of its own
\* worker, whoever else comes and goes and whatever the network does with the
\* datagrams (client/run.rs:28-37: it binds before it asks).
THEOREM SystemOwnStream == Spec => []OwnStream
<1>1. IInv => OwnStream
  BY DEF IInv
<1>2. QED
  BY <1>1, Invariant, PTL

\* What tests/multi_client_integration.rs expects of every client holds for
\* those that found their port clean: they show only tickers they asked for.
CleanOnlySubscribed ==
  \A c \in Clients : clean[c] => \A q \in shown[c] : q[2] \in Want[c]

\* That is so in every reachable state, for all clients, ports and tickers.
THEOREM SystemCleanOnlySubscribed == Spec => []CleanOnlySubscribed
<1>1. IInv => CleanOnlySubscribed
  BY DEF IInv, OwnStream, Asked, CleanOnlySubscribed
<1>2. QED
  BY <1>1, Invariant, PTL
==============================================================================
