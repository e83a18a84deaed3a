---------------------------- MODULE CommandServer ----------------------------
(***************************************************************************)
(* The TCP command server, src/src/server/run.rs with tcp_accept.rs and    *)
(* the line I/O of net.rs: the accept loop of start_tcp_command_server     *)
(* with its Ctrl+C flag, one handler thread per connection                 *)
(* (handle_tcp_client), and the peers that connect, write lines in two     *)
(* writes (the text, then the line feed), and may leave at any moment.     *)
(*                                                                         *)
(* hub.subscribe followed by spawn_udp_stream_worker is one step here; the *)
(* locking inside it is the subject of QuoteHub and the worker's life that *)
(* of StreamWorker.                                                        *)
(***************************************************************************)
EXTENDS Protocol

CONSTANTS Conns,   \* connection ids
          Lines,   \* the lines the peer of each connection may send
          MaxSent  \* bound: lines sent on each connection

ASSUME LinesAssumption == Lines \in [Conns -> SUBSET Line]
ASSUME MaxSentAssumption == MaxSent \in [Conns -> Nat]

AllLines == UNION {Lines[c] : c \in Conns}

VARIABLES
  srv,      \* main thread: "boot", "head", "accept", "sleep" or "exited"
  sigint,   \* the flag the Ctrl+C handler sets
  late,     \* history: connections accepted since sigint was set, up to 2
  peer,     \* far end: "idle", "open" or "closed"
  wire,     \* lines written by the peer and not yet read
  ended,    \* whether the last line written has its line feed
  sent,     \* history: number of lines written by the peer
  pc,       \* handler: "none", "start", "read", "reply", "subscribe",
            \* "returned", "failed" or "panicked"
  cmd,      \* the command the handler is serving
  taken,    \* history: the lines read_until returned, as [line, ended]
  replies,  \* the reply lines written
  subs      \* the hub's subscriber list, one worker each: [conn, tickers]

srvVars == <<srv, sigint, late>>
peerVars == <<peer, wire, ended, sent>>
vars == <<srv, sigint, late, peer, wire, ended, sent, pc, cmd, taken, replies, subs>>

NoCommand == [cmd |-> "none"]
Over == {"returned", "failed", "panicked"}

Init ==
  /\ srv = "boot"
  /\ sigint = FALSE
  /\ late = 0
  /\ peer = [c \in Conns |-> "idle"]
  /\ wire = [c \in Conns |-> << >>]
  /\ ended = [c \in Conns |-> TRUE]
  /\ sent = [c \in Conns |-> 0]
  /\ pc = [c \in Conns |-> "none"]
  /\ cmd = [c \in Conns |-> NoCommand]
  /\ taken = [c \in Conns |-> << >>]
  /\ replies = [c \in Conns |-> << >>]
  /\ subs = << >>

Running == srv \notin {"boot", "exited"}

-------------------------------------------------------------------------------
(* The main thread.  When it returns, the process and its threads end. *)

handlerVars == <<pc, cmd, taken, replies, subs>>

\* Hub started, listener bound, READY printed, Ctrl+C handler installed; or
\* one of these fails and start_tcp_command_server returns its error.
Boot ==
  /\ srv = "boot"
  /\ srv' \in {"head", "exited"}
  /\ UNCHANGED <<sigint, late, peerVars, handlerVars>>

\* Mutant: the flag is never looked at.
StopFlagIgnored == FALSE

\* stop.load() at the head of the accept loop.
StopFlag == sigint

LoopHead ==
  /\ srv = "head"
  /\ srv' = IF StopFlag THEN "exited" ELSE "accept"
  /\ UNCHANGED <<sigint, late, peerVars, handlerVars>>

Waiting(c) == peer[c] # "idle" /\ pc[c] = "none"

\* Mutant: every connection that waits is accepted before the flag is tested.
AfterAcceptDrain == "accept"

\* Where the accept loop goes on after it spawned a handler.
AfterAccept == "head"

\* accept() returns a connection: a handler thread is spawned.
Accept(c) ==
  /\ srv = "accept"
  /\ Waiting(c)
  /\ pc' = [pc EXCEPT ![c] = "start"]
  /\ late' = IF sigint /\ late < 2 THEN late + 1 ELSE late
  /\ srv' = AfterAccept
  /\ UNCHANGED <<sigint, peerVars, cmd, taken, replies, subs>>

\* accept() returns WouldBlock: sleep for ACCEPT_POLL_INTERVAL.
AcceptEmpty ==
  /\ srv = "accept"
  /\ \A c \in Conns : ~Waiting(c)
  /\ srv' = "sleep"
  /\ UNCHANGED <<sigint, late, peerVars, handlerVars>>

WakeUp ==
  /\ srv = "sleep"
  /\ srv' = "head"
  /\ UNCHANGED <<sigint, late, peerVars, handlerVars>>

\* accept() returns any other error.
AcceptFails ==
  /\ srv = "accept"
  /\ srv' = "exited"
  /\ UNCHANGED <<sigint, late, peerVars, handlerVars>>

CtrlC ==
  /\ Running
  /\ ~sigint
  /\ sigint' = TRUE
  /\ UNCHANGED <<srv, late, peerVars, handlerVars>>

-------------------------------------------------------------------------------
(* handle_tcp_client *)

\* stream.try_clone(), which may fail.
StartHandler(c) ==
  /\ Running
  /\ pc[c] = "start"
  /\ \E next \in {"read", "failed"} : pc' = [pc EXCEPT ![c] = next]
  /\ UNCHANGED <<srvVars, peerVars, cmd, taken, replies, subs>>

\* The first line on the wire is complete, or is all there will ever be.
LineArrived(c) ==
  /\ wire[c] # << >>
  /\ Len(wire[c]) > 1 \/ ended[c] \/ peer[c] = "closed"

\* Whether the first line on the wire has its line feed.
HeadEnded(c) == Len(wire[c]) > 1 \/ ended[c]

\* Where the handler goes with a command: PONG is ignored, an unknown command
\* that cannot be echoed panics, all others are answered.
Dispatch(command) ==
  IF command.cmd = "PONG" THEN "read"
  ELSE IF EchoPanics(command) THEN "panicked" ELSE "reply"

\* read_command: a line, which ends the handler when it is not readable.
ReadCommand(c) ==
  /\ Running
  /\ pc[c] = "read"
  /\ LineArrived(c)
  /\ LET line == Head(wire[c])
         command == Parse(line)
     IN  IF Readable(line, HeadEnded(c))
         THEN /\ pc' = [pc EXCEPT ![c] = Dispatch(command)]
              /\ cmd' = [cmd EXCEPT ![c] = command]
         ELSE /\ pc' = [pc EXCEPT ![c] = "failed"]
              /\ UNCHANGED cmd
  /\ taken' = [taken EXCEPT ![c] = Append(@, [line |-> Head(wire[c]), ended |-> HeadEnded(c)])]
  /\ wire' = [wire EXCEPT ![c] = Tail(@)]
  /\ UNCHANGED <<srvVars, peer, ended, sent, replies, subs>>

\* read_command: None at the end of the stream, or an error if it was reset.
ReadEnd(c) ==
  /\ Running
  /\ pc[c] = "read"
  /\ peer[c] = "closed"
  /\ \/ wire[c] = << >> /\ pc' = [pc EXCEPT ![c] = "returned"]
     \/ pc' = [pc EXCEPT ![c] = "failed"]
  /\ UNCHANGED <<srvVars, peerVars, cmd, taken, replies, subs>>

\* Mutant: the handler answers and goes on without the subscription.
AfterReplyForgets(reply) == "read"

\* Mutant: the handler answers and joins the stream worker it started.
AfterReplyJoins(reply) == IF reply = "OK" THEN "join" ELSE "read"

\* A STREAM that was answered OK goes on to the subscription.
AfterReply(reply) == IF reply = "OK" THEN "subscribe" ELSE "read"

\* write_command_line of the answer.
WriteReply(c) ==
  /\ Running
  /\ pc[c] = "reply"
  /\ replies' = [replies EXCEPT ![c] = Append(@, ReplyTo(cmd[c]))]
  /\ pc' = [pc EXCEPT ![c] = AfterReply(ReplyTo(cmd[c]))]
  /\ UNCHANGED <<srvVars, peerVars, cmd, taken, subs>>

\* The write fails, as it may once the peer is gone.
WriteFails(c) ==
  /\ Running
  /\ pc[c] = "reply"
  /\ peer[c] = "closed"
  /\ pc' = [pc EXCEPT ![c] = "failed"]
  /\ UNCHANGED <<srvVars, peerVars, cmd, taken, replies, subs>>

\* hub.subscribe(tickers), then spawn_udp_stream_worker.
Subscribe(c) ==
  /\ Running
  /\ pc[c] = "subscribe"
  /\ subs' = Append(subs, [conn |-> c, tickers |-> cmd[c].tickers])
  /\ pc' = [pc EXCEPT ![c] = "read"]
  /\ UNCHANGED <<srvVars, peerVars, cmd, taken, replies>>

-------------------------------------------------------------------------------
(* The peers. *)

Connect(c) ==
  /\ Running
  /\ peer[c] = "idle"
  /\ peer' = [peer EXCEPT ![c] = "open"]
  /\ UNCHANGED <<srvVars, wire, ended, sent, handlerVars>>

\* First write of write_command_line: the text of a line.
PeerWrites(c) ==
  /\ Running
  /\ peer[c] = "open"
  /\ ended[c]
  /\ sent[c] < MaxSent[c]
  /\ \E line \in Lines[c] : wire' = [wire EXCEPT ![c] = Append(@, line)]
  /\ ended' = [ended EXCEPT ![c] = FALSE]
  /\ sent' = [sent EXCEPT ![c] = @ + 1]
  /\ UNCHANGED <<srvVars, peer, handlerVars>>

\* Second write of write_command_line: the line feed.
PeerEndsLine(c) ==
  /\ Running
  /\ peer[c] = "open"
  /\ ~ended[c]
  /\ ended' = [ended EXCEPT ![c] = TRUE]
  /\ UNCHANGED <<srvVars, peer, wire, sent, handlerVars>>

\* The peer closes the connection or dies, also between the two writes.
PeerCloses(c) ==
  /\ Running
  /\ peer[c] = "open"
  /\ peer' = [peer EXCEPT ![c] = "closed"]
  /\ UNCHANGED <<srvVars, wire, ended, sent, handlerVars>>

-------------------------------------------------------------------------------
Main == LoopHead \/ (\E c \in Conns : Accept(c)) \/ AcceptEmpty \/ WakeUp

Handler(c) == StartHandler(c) \/ ReadCommand(c) \/ ReadEnd(c) \/ WriteReply(c) \/ Subscribe(c)

Next ==
  \/ Boot
  \/ LoopHead
  \/ AcceptEmpty
  \/ WakeUp
  \/ AcceptFails
  \/ CtrlC
  \/ \E c \in Conns :
       \/ Accept(c)
       \/ StartHandler(c)
       \/ ReadCommand(c)
       \/ ReadEnd(c)
       \/ WriteReply(c)
       \/ WriteFails(c)
       \/ Subscribe(c)
       \/ Connect(c)
       \/ PeerWrites(c)
       \/ PeerEndsLine(c)
       \/ PeerCloses(c)

\* The scheduler runs the main thread and every handler; peers may be idle.
Fairness == WF_vars(Main) /\ \A c \in Conns : WF_vars(Handler(c))

Spec == Init /\ [][Next]_vars /\ Fairness

-------------------------------------------------------------------------------
(* Properties *)

Command ==
  [cmd : {"none", "PING", "PONG"}] \cup [cmd : {"STREAM"}, tickers : Seq(Names)]
    \cup [cmd : {"unknown"}, long : BOOLEAN, whole : BOOLEAN]
Taken == [line : AllLines, ended : BOOLEAN]

TypeOK ==
  /\ srv \in {"boot", "head", "accept", "sleep", "exited"}
  /\ sigint \in BOOLEAN
  /\ late \in 0 .. 2
  /\ peer \in [Conns -> {"idle", "open", "closed"}]
  /\ wire \in [Conns -> Seq(AllLines)]
  /\ ended \in [Conns -> BOOLEAN]
  /\ sent \in [Conns -> Nat] /\ \A c \in Conns : sent[c] <= MaxSent[c]
  /\ pc \in [Conns -> {"none", "start", "read", "reply", "subscribe"} \cup Over]
  /\ cmd \in [Conns -> Command]
  /\ taken \in [Conns -> Seq(Taken)]
  /\ replies \in [Conns -> Seq({"OK", "ERR", "PONG"})]
  /\ subs \in Seq([conn : Conns, tickers : Seq(Names)])

\* What the README promises of a STREAM line: OK when its parameters are right.
Acceptable(line) ==
  /\ line.verb = "STREAM"
  /\ line.addr = "udp"
  /\ \E i \in DOMAIN line.items : line.items[i] # Blank
  /\ \A i \in DOMAIN line.items :
       line.items[i] # Blank =>
         /\ line.items[i] \in DefaultTickers
         /\ \A j \in DOMAIN line.items : i # j => line.items[j] # line.items[i]

Answer(line) == IF line.verb = "PING" THEN "PONG" ELSE IF Acceptable(line) THEN "OK" ELSE "ERR"

\* A line within the limit, its line feed included, in UTF-8, and not a PONG.
Answerable(t) ==
  /\ t.line.utf8
  /\ t.line.size < MAX_COMMAND_LINE_BYTES \/ (t.line.size = MAX_COMMAND_LINE_BYTES /\ ~t.ended)
  /\ t.line.verb # "PONG"

Asked(c) == Keep(taken[c], {t \in Taken : Answerable(t)})
Expected(c) == [i \in DOMAIN Asked(c) |-> Answer(Asked(c)[i].line)]

\* The peer can tell which reply belongs to which command by counting: every
\* reply is the right one for its line, in the order of the lines, none is
\* missing before a later one, and only a handler that ended in the middle of
\* a command owes one (run.rs:101-133, net.rs:48-66, protocol.rs:52-83).
InOrder ==
  \A c \in Conns :
    /\ Len(replies[c]) <= Len(Expected(c))
    /\ replies[c] = SubSeq(Expected(c), 1, Len(replies[c]))
    /\ Len(Expected(c)) <= Len(replies[c]) + 1
    /\ pc[c] \in {"read", "subscribe", "returned"} => Len(replies[c]) = Len(Expected(c))

\* Lines that ask for a stream and deserve it, streams made, OKs written.
Granted(c) == Keep(taken[c], {t \in Taken : Answerable(t) /\ Acceptable(t.line)})
Streams(c) == Keep(subs, [conn : {c}, tickers : Seq(Names)])
Oks(c) == Len(Keep(replies[c], {"OK"}))

\* Every OK stands for one subscription to exactly the tickers of its line,
\* in order, at most the last one still to be made; nothing else subscribes,
\* whatever the peer does in between (run.rs:105-112).
OkMeansSubscribed ==
  \A c \in Conns :
    /\ Len(Streams(c)) = IF pc[c] = "subscribe" THEN Oks(c) - 1 ELSE Oks(c)
    /\ \A i \in DOMAIN Streams(c) :
         Streams(c)[i].tickers = Keep(Granted(c)[i].line.items, Names)

\* After Ctrl+C at most the connection that accept() was already asked for is
\* still taken (run.rs:57-76).
AcceptsStop == late <= 1

\* A connection that waits is accepted and the lines that arrived on it are
\* served, whatever happens on other connections, unless its handler ends or
\* the server exits (run.rs:57-76, 101-133).
Served ==
  \A c \in Conns :
    LineArrived(c) ~> ~LineArrived(c) \/ pc[c] \in Over \/ srv = "exited"

\* Ctrl+C ends the server although nobody connects any more (run.rs:57-61).
CtrlCExits == sigint ~> srv = "exited"

\* README.md:56-59: a STREAM with wrong parameters is answered by one ERR line;
\* so no STREAM line that was read may make its handler panic (run.rs:122-128).
MalformedIsAnswered ==
  \A c \in Conns : \A i \in DOMAIN taken[c] :
    taken[c][i].line.verb = "STREAM" /\ Answerable(taken[c][i]) => pc[c] # "panicked"
==============================================================================
