----------------------------- MODULE MCHandshake -----------------------------
(***************************************************************************)
(* Instance of Handshake for TLC: all files of up to two lines with up to  *)
(* two items, and names at the limit of a line.                            *)
(***************************************************************************)
EXTENDS Handshake

MCBlank == "blank"
MCDefault == {"AAPL", "TSLA"}
MCNames == MCDefault \union {"NONE", "long", "longer"}
MCSizes == [AAPL |-> 4, TSLA |-> 4, NONE |-> 4, long |-> 4075, longer |-> 4076]

UpTo(S, n) == UNION {[1 .. k -> S] : k \in 0 .. n}
FileLines == UpTo(MCNames \union {MCBlank}, 2) \ {<< >>}
MCFiles == UpTo(FileLines, 2)
==============================================================================
