--------------------------- MODULE MCCommandServer ---------------------------
(* Instance of CommandServer for TLC: the lines peers send. *)
EXTENDS CommandServer, TLC

CONSTANTS aapl, tsla, zzz, c1, c2

Short(verb, addr, items) ==
  [size |-> 30, utf8 |-> TRUE, text |-> 30, whole |-> TRUE, verb |-> verb, addr |-> addr,
   items |-> items]

PingLine == Short("PING", "bad", << >>)
PongLine == Short("PONG", "bad", << >>)
GoodLine == Short("STREAM", "udp", <<tsla, Blank, aapl>>)
NoListLine == Short("STREAM", "udp", << >>)
\* A bad address in a text longer than what is echoed, which is cut inside a
\* character.
CutLine == [Short("STREAM", "bad", <<aapl>>) EXCEPT !.text = 201, !.size = 201, !.whole = FALSE]
\* Exactly the limit without the line feed, and so beyond it with one.
LimitLine == [GoodLine EXCEPT !.size = MAX_COMMAND_LINE_BYTES]

\* One connection with lines of every outcome but those of validation, which
\* Handshake goes through, and one beside it that is granted a stream.
Kinds == {PingLine, PongLine, GoodLine, CutLine, LimitLine, NoListLine}
MCLines == (c1 :> Kinds) @@ (c2 :> {GoodLine})
MCMaxSent == (c1 :> 2) @@ (c2 :> 1)
==============================================================================
