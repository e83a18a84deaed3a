----------------------------- MODULE MCKeepAlive -----------------------------
(* Instance of KeepAlive for TLC. *)
EXTENDS KeepAlive

\* The instance keeps within the budget, so that Survives says something of it.
ASSUME SourceWithinBudget == WithinBudget
==============================================================================
