------------------------------- MODULE Handshake -----------------------------
(***************************************************************************)
(* One run of the client program up to the answer of the server: the file  *)
(* of tickers (src/src/server/tickers.rs), the command made of it          *)
(* (src/src/protocol.rs), its way over TCP (src/src/client/tcp_command.rs, *)
(* src/src/server/tcp_accept.rs), the answer of the server and what the    *)
(* client makes of that answer.  Protocol has the server's side as         *)
(* operators; here both sides read each other's lines.                     *)
(*                                                                         *)
(* A file is a sequence of lines, and a line what it is split into at the  *)
(* commas, trimmed; an empty line is <<Blank>>.  Names have their sizes,   *)
(* and the blanks around commas, which travel inside the command, a size   *)
(* of their own.                                                           *)
(***************************************************************************)
EXTENDS Protocol

CONSTANTS
  Files,       \* files a run may be given
  SizeOf,      \* size of each name in bytes
  BlankSizes,  \* sizes of all blanks around the commas inside the lines of a file
  AddrSizes    \* sizes of the text of the client's UDP address

ASSUME SizesAssumption ==
  /\ SizeOf \in [Names -> Nat \ {0}]
  /\ BlankSizes \subseteq Nat
  /\ \A n \in AddrSizes : n \in Nat /\ n >= 6  \* "[::]:0"

\* The lines of a file: splitting leaves at least one item.
FileLine == Seq(Names \cup {Blank}) \ {<< >>}
ASSUME FilesAssumption == Files \subseteq Seq(FileLine)

NoLine == [kind |-> "none", size |-> 0]
Eof == [kind |-> "eof", size |-> 0]
Reset == [kind |-> "reset", size |-> 0]

\* The errors of src/src/error.rs a run can end with.
Errors == {"Io", "AddrParse", "TcpConnectFailed", "EmptyCommand", "UnknownCommand"}

VARIABLES
  mode,      \* "stream" or "tcp-ping"
  listener,  \* what serves: the command server, or reply_pong_to_ping
  file,      \* the file given
  blanks,    \* size of the blanks around the commas inside its lines
  addrSize,  \* size of the UDP address given
  at,        \* "load", "bind", "connect", "send", "read", "report", "exited"
  request,   \* the line under way to the server
  reply,     \* the line, end of stream or reset under way to the client
  handler,   \* the other end: "read", "subscribe" with OK written, or "done"
  granted,   \* tickers of the subscription the server made
  result,    \* "none", "ok", or the error
  fault,     \* history: something outside the two programs failed
  code       \* exit code of the program

runVars ==
  <<mode, listener, file, blanks, addrSize, at, request, reply, handler, granted, result, fault, code>>
given == <<mode, listener, file, blanks, addrSize>>

\* A line has a comma with room for blanks at it that trimming the ends of the
\* line leaves alone.
HasRoom(lines) == \E i \in DOMAIN lines : Len(lines[i]) > 1 /\ lines[i] # <<Blank, Blank>>

\* main: the subcommand and its arguments.
RunInit ==
  /\ mode \in {"stream", "tcp-ping"}
  /\ listener \in {"server", "ponger"}
  /\ file \in Files
  /\ blanks \in IF HasRoom(file) THEN BlankSizes \union {0} ELSE {0}
  /\ addrSize \in AddrSizes
  /\ at = IF mode = "stream" THEN "load" ELSE "connect"
  /\ request = NoLine
  /\ reply = NoLine
  /\ handler = "read"
  /\ granted = << >>
  /\ result = "none"
  /\ fault = FALSE
  /\ code = 0

-----------------------------------------------------------------------------
(* The client *)

Fails(e) == at' = "report" /\ result' = e

\* Lines of the file that are not empty, as load_tickers_from_path returns them.
Loaded == Keep(file, FileLine \ {<<Blank>>})

Load ==
  /\ at = "load"
  /\ \/ Loaded # << >> /\ at' = "bind" /\ UNCHANGED <<result, fault>>
     \/ Loaded = << >> /\ Fails("Io") /\ UNCHANGED fault
     \/ Fails("Io") /\ fault' = TRUE
  /\ UNCHANGED <<given, request, reply, handler, granted, code>>

\* The UDP address is parsed and bound.
Bind ==
  /\ at = "bind"
  /\ \/ at' = "connect" /\ UNCHANGED <<result, fault>>
     \/ (Fails("AddrParse") \/ Fails("Io")) /\ fault' = TRUE
  /\ UNCHANGED <<given, request, reply, handler, granted, code>>

TcpConnect ==
  /\ at = "connect"
  /\ \/ at' = "send" /\ UNCHANGED <<result, fault>>
     \/ Fails("TcpConnectFailed") /\ fault' = TRUE
  /\ UNCHANGED <<given, request, reply, handler, granted, code>>

\* Mutant: only the first item of a line of the file is sent.
FirstItems == [i \in DOMAIN Loaded |-> Head(Loaded[i])]

\* Command::to_string joins the lines of the file with commas, so that commas
\* inside a line become separators, too; the blanks at these are sent with them.
Joined(lines) ==
  LET joined[i \in 0 .. Len(lines)] == IF i = 0 THEN << >> ELSE joined[i - 1] \o lines[i]
  IN  joined[Len(lines)]
Items == Joined(Loaded)

SizeOfItem(i) == IF i = Blank THEN 0 ELSE SizeOf[i]
SizeOfItems(items) ==
  LET sum[i \in 0 .. Len(items)] == IF i = 0 THEN 0 ELSE sum[i - 1] + SizeOfItem(items[i])
  IN  sum[Len(items)]
StreamLine(items) ==
  LET size == 14 + addrSize + (Len(items) - 1) + SizeOfItems(items) + blanks
  IN  [kind |-> "line", size |-> size, utf8 |-> TRUE, text |-> size, whole |-> TRUE,
       verb |-> "STREAM", addr |-> "udp", items |-> items]
PingLine == [kind |-> "line", size |-> 4, utf8 |-> TRUE, text |-> 4, whole |-> TRUE,
             verb |-> "PING", addr |-> "bad", items |-> << >>]

SendCommand ==
  /\ at = "send"
  /\ \/ /\ request' = IF mode = "stream" THEN StreamLine(Items) ELSE PingLine
        /\ at' = "read"
        /\ UNCHANGED <<result, fault>>
     \/ Fails("Io") /\ fault' = TRUE /\ UNCHANGED request
  /\ UNCHANGED <<given, reply, handler, granted, code>>

\* The line a command is answered with when all is well.
ExpectedKind == IF mode = "stream" THEN "OK" ELSE "PONG"

\* What the client makes of the answer: read_command_line fails when the
\* connection is reset or the line too long, and a line that is not the
\* expected one is an error as well.
VerdictOn(r) ==
  CASE r.kind = "eof" -> "EmptyCommand"
    [] r.kind = "reset" \/ r.size + 1 > MAX_COMMAND_LINE_BYTES -> "Io"
    [] OTHER -> IF r.kind = ExpectedKind THEN "ok" ELSE "UnknownCommand"

ReadReply ==
  /\ at = "read"
  /\ reply # NoLine
  /\ at' = "report"
  /\ result' = VerdictOn(reply)
  /\ UNCHANGED <<given, request, reply, handler, granted, fault, code>>

\* main prints an error and exits with 1.  (A stream that was granted is
\* received first, see StreamClient.)
Report ==
  /\ at = "report"
  /\ at' = "exited"
  /\ code' = IF result = "ok" THEN 0 ELSE 1
  /\ UNCHANGED <<given, request, reply, handler, granted, result, fault>>

-----------------------------------------------------------------------------
(* The other end *)

\* Mutant: the whole list in the answer.
ErrSizeList(why, ts) == 20 + SizeOfItems(ts) + Len(ts)

\* "ERR unknown ticker: " with the first such name; the other texts are short.
FirstUnknown(ts) == Keep(ts, Elements(ts) \ DefaultTickers)[1]
ErrSize(why, ts) == IF why = "unknown ticker" THEN 20 + SizeOfItem(FirstUnknown(ts)) ELSE 30

\* The answer to a command, of the server and of reply_pong_to_ping.
AnswerTo(c) ==
  CASE c.cmd = "PING" -> [kind |-> "PONG", size |-> 4]
    [] c.cmd = "STREAM" /\ listener = "server" ->
         LET why == ValidateStreamCommand(c.tickers)
         IN  IF why = "valid" THEN [kind |-> "OK", size |-> 2]
             ELSE [kind |-> "ERR", size |-> ErrSize(why, c.tickers)]
    [] OTHER -> Eof

\* Mutant: a line that cannot be read is skipped.
ServeReadable ==
  /\ request # NoLine
  /\ reply = NoLine
  /\ Readable(request, TRUE)
  /\ reply' = AnswerTo(Parse(request))
  /\ handler' = IF reply'.kind = "OK" THEN "subscribe" ELSE "done"
  /\ UNCHANGED <<given, at, request, granted, result, fault, code>>

\* The request is read and answered; a line that cannot be read ends the
\* connection.
Serve ==
  /\ request # NoLine
  /\ reply = NoLine
  /\ reply' = IF Readable(request, TRUE) THEN AnswerTo(Parse(request)) ELSE Eof
  /\ handler' = IF reply'.kind = "OK" THEN "subscribe" ELSE "done"
  /\ UNCHANGED <<given, at, request, granted, result, fault, code>>

\* After OK the handler subscribes and starts the worker.
SubscribeRun ==
  /\ handler = "subscribe"
  /\ handler' = "done"
  /\ granted' = Parse(request).tickers
  /\ UNCHANGED <<given, at, request, reply, result, fault, code>>

\* The connection breaks or the server ends before it answers.
Broken ==
  /\ request # NoLine
  /\ reply = NoLine
  /\ reply' \in {Eof, Reset}
  /\ handler' = "done"
  /\ fault' = TRUE
  /\ UNCHANGED <<given, at, request, granted, result, code>>

\* The server ends after it wrote OK and before it subscribes.
Ended ==
  /\ handler = "subscribe"
  /\ handler' = "done"
  /\ fault' = TRUE
  /\ UNCHANGED <<given, at, request, reply, granted, result, code>>

Client == Load \/ Bind \/ TcpConnect \/ SendCommand \/ ReadReply \/ Report
RunNext == Client \/ Serve \/ SubscribeRun \/ Broken \/ Ended

\* Both programs run on; what may fail does not have to.
RunSpec ==
  /\ RunInit
  /\ [][RunNext]_runVars
  /\ WF_runVars(Client)
  /\ WF_runVars(Serve \/ SubscribeRun)

-----------------------------------------------------------------------------
\* What the file says: its names, by line and place in the line.
NameAt(p) == file[p[1]][p[2]]
Places == {p \in UNION {{i} \X DOMAIN file[i] : i \in DOMAIN file} : NameAt(p) # Blank}

(* Both ends agree: once its handler is through, a client goes on to receive
   exactly when the server has subscribed it, to the names of the file, each
   once and all of them known, whatever way the names are spread over lines and
   commas; in all other cases it exits with an error. *)
Agreed ==
  at = "exited" /\ handler # "subscribe" /\ mode = "stream" /\ ~fault =>
    /\ (code = 0) <=> (granted # << >>)
    /\ code = 1 => result \in Errors
    /\ code = 0 =>
         /\ {NameAt(p) : p \in Places} = Elements(granted)
         /\ Cardinality(Places) = Len(granted)
         /\ \A p \in Places : NameAt(p) \in DefaultTickers
         /\ \A p, q \in Places : NameAt(p) = NameAt(q) => p = q

(* A file of known names without a repetition whose command fits, blanks
   included, is never refused: nothing on the way from the file to the
   subscription loses or alters a name. *)
NotRefused ==
  /\ at = "exited" /\ mode = "stream" /\ listener = "server" /\ ~fault
  /\ Places # {}
  /\ \A p \in Places : NameAt(p) \in DefaultTickers
  /\ \A p, q \in Places : NameAt(p) = NameAt(q) => p = q
  /\ StreamLine(Items).size < MAX_COMMAND_LINE_BYTES
  => code = 0

(* Every line the server answers with can be read by the client, the longest
   name that still fits into a STREAM line and comes back in the answer
   included: the words around it are no longer than those of the request. *)
ReplyReadable == reply.size + 1 <= MAX_COMMAND_LINE_BYTES

(* A run ends, with the answer, an error of its own or a broken connection, and
   the handler that said OK does what it said. *)
Ends == <>(at = "exited" /\ handler # "subscribe")
==============================================================================
