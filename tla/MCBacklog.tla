------------------------------ MODULE MCBacklog ------------------------------
(* Instance of Backlog for TLC. *)
EXTENDS Backlog
==============================================================================
