---------------------------- MODULE MCStreamClient ---------------------------
(* Instance of StreamClient for TLC. *)
EXTENDS StreamClient
==============================================================================
