------------------------------- MODULE Protocol ------------------------------
(***************************************************************************)
(* The text protocol on the TCP command channel: src/src/protocol.rs,      *)
(* read_command_line of src/src/net.rs and validate_stream_command of      *)
(* src/src/server/run.rs, as operators.                                    *)
(*                                                                         *)
(* A line is a record of what the code tells apart:                        *)
(*   size   its length in bytes, without the line feed that ends it        *)
(*   utf8   whether it is valid UTF-8                                      *)
(*   text   its length in bytes once trimmed                               *)
(*   whole  whether byte ECHO_LIMIT of the trimmed text is at a character  *)
(*          boundary                                                       *)
(*   verb   "PING", "PONG" or "STREAM", in any case, or "other"            *)
(*   addr   second token: "udp" for udp:// and an address that parses,     *)
(*          "bad" for anything else                                        *)
(*   items  what the rest of the line is split into at the commas, each    *)
(*          item trimmed and Blank when nothing is left; << >> when there  *)
(*          is no third token                                              *)
(***************************************************************************)
EXTENDS Naturals, Sequences, FiniteSets

CONSTANTS DefaultTickers,  \* tickers::all_default()
          Names,           \* every name a line may hold
          Blank            \* an empty item

ASSUME NamesAssumption == DefaultTickers \subseteq Names /\ Blank \notin Names

MAX_COMMAND_LINE_BYTES == 4 * 1024
ECHO_LIMIT == 200

Line == [size : Nat, utf8 : BOOLEAN, text : Nat, whole : BOOLEAN,
         verb : {"PING", "PONG", "STREAM", "other"},
         addr : {"udp", "bad"}, items : Seq(Names \cup {Blank})]

\* Mutant: the line feed is not counted.
ReadableUncounted(line, ended) == line.utf8 /\ line.size <= MAX_COMMAND_LINE_BYTES

\* read_command_line returns the line and not an error.  read_until gives a
\* line with its line feed when it has one (ended) and, at the end of the
\* stream, a last line without; the limit counts that line feed.
Readable(line, ended) ==
  /\ (IF ended THEN line.size + 1 ELSE line.size) <= MAX_COMMAND_LINE_BYTES
  /\ line.utf8

\* Mutant: empty items are kept.
TickersOfBlank(line) == line.items

\* The elements of a sequence that are in a set, in their order.  (A recursive
\* function in place of SelectSeq, which the proofs could not look into.)
Keep(s, S) ==
  LET kept[i \in 0 .. Len(s)] ==
        IF i = 0 THEN << >>
        ELSE IF s[i] \in S THEN Append(kept[i - 1], s[i]) ELSE kept[i - 1]
  IN  kept[Len(s)]

\* The ticker list of a STREAM line: the items that are not empty.
TickersOf(line) == Keep(line.items, Names)

\* Command::parse of a readable line.  (Its own length test never fires on
\* a line that read_command_line let through.)
Parse(line) ==
  IF line.verb \in {"PING", "PONG"} THEN [cmd |-> line.verb]
  ELSE IF line.verb = "STREAM" /\ line.items # << >> /\ line.addr = "udp"
       THEN [cmd |-> "STREAM", tickers |-> TickersOf(line)]
       ELSE [cmd |-> "unknown", long |-> line.text > ECHO_LIMIT, whole |-> line.whole]

Elements(s) == {s[i] : i \in DOMAIN s}

\* validate_stream_command
ValidateStreamCommand(tickers) ==
  IF tickers = << >> THEN "empty"
  ELSE IF Cardinality(Elements(tickers)) # Len(tickers) THEN "duplicate"
  ELSE IF ~ Elements(tickers) \subseteq DefaultTickers THEN "unknown ticker"
  ELSE "valid"

\* Building the ERR line of an unknown command slices the text at byte
\* ECHO_LIMIT, which panics inside a character.
EchoPanics(c) == c.cmd = "unknown" /\ c.long /\ ~c.whole

\* The line the handler writes for a command, if it writes one.
ReplyTo(c) ==
  CASE c.cmd = "PING" -> "PONG"
    [] c.cmd = "STREAM" -> IF ValidateStreamCommand(c.tickers) = "valid" THEN "OK" ELSE "ERR"
    [] c.cmd = "unknown" -> "ERR"
==============================================================================
