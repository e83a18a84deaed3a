---------------------------- MODULE MCStreamWorker ---------------------------
(* Instance of StreamWorker for TLC. *)
EXTENDS StreamWorker
==============================================================================
