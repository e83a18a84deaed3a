--------------------------- MODULE MCQuoteGenerator --------------------------
(* Instance of QuoteGenerator for TLC, with small volumes. *)
EXTENDS QuoteGenerator

\* The constants of generator.rs:30-43 satisfy VolumeAssumption.
ASSUME SourceConstants ==
  LET cap == 1000 + 10000 - 1
  IN  1000 + 5000 + cap \div 20 <= cap /\ 100 + 1000 + cap \div 20 <= cap
==============================================================================
