----------------------------- MODULE MCQuoteHub ------------------------------
(* Instance of QuoteHub for TLC. *)
EXTENDS QuoteHub
==============================================================================
