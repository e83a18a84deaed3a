---------------------------- MODULE MCStreamSystem ---------------------------
(***************************************************************************)
(* Instance of StreamSystem for TLC: a client that is run again on its     *)
(* port with another list of tickers.                                      *)
(***************************************************************************)
EXTENDS StreamSystem

RunPorts == {"34254", "34255"}
Runs == {"first", "again", "other"}
RunPort == [first |-> "34254", again |-> "34254", other |-> "34255"]
RunWant == [first |-> {"AAPL"}, again |-> {"TSLA"}, other |-> {"TSLA", "NONE"}]
==============================================================================
