------------------------------ MODULE QuoteFeed ------------------------------
(***************************************************************************)
(* What the quote hub of src/src/server/registry.rs promises, without its  *)
(* threads, mutex or channels: batches are published in numerical order,   *)
(* and from the moment it joins a subscriber is handed every batch, once,  *)
(* in order, cut down to the tickers it asked for, until it leaves.        *)
(* A subscriber that asked for nothing the generator knows gets nothing.   *)
(***************************************************************************)
EXTENDS Naturals

CONSTANTS Subs,      \* subscriptions: one id per call of QuoteHub::subscribe
          Tickers,   \* the generator's ticker list
          Symbols    \* everything a subscriber may ask for

VARIABLES published, \* number of the latest published batch
          status,    \* "new", "live" or "gone" for each subscription
          want,      \* the set of symbols each subscription asked for
          next,      \* number of the next batch owed to each subscription
          last       \* quotes of the batch last handed to each subscription

feedVars == <<published, status, want, next, last>>

Init ==
  /\ published = 0
  /\ status = [s \in Subs |-> "new"]
  /\ want = [s \in Subs |-> {}]
  /\ next = [s \in Subs |-> 0]
  /\ last = [s \in Subs |-> {}]

Publish ==
  /\ published' = published + 1
  /\ UNCHANGED <<status, want, next, last>>

Join(s, f) ==
  /\ status[s] = "new"
  /\ status' = [status EXCEPT ![s] = "live"]
  /\ want' = [want EXCEPT ![s] = f]
  /\ next' = [next EXCEPT ![s] = published + 1]
  /\ UNCHANGED <<published, last>>

Deliver(s) ==
  /\ status[s] = "live"
  /\ want[s] \cap Tickers # {}
  /\ next[s] <= published
  /\ next' = [next EXCEPT ![s] = @ + 1]
  /\ last' = [last EXCEPT ![s] =
                 {[ticker |-> t, batch |-> next[s]] : t \in want[s] \cap Tickers}]
  /\ UNCHANGED <<published, status, want>>

Leave(s) ==
  /\ status[s] = "live"
  /\ status' = [status EXCEPT ![s] = "gone"]
  /\ UNCHANGED <<published, want, next, last>>

Next ==
  \/ Publish
  \/ \E s \in Subs, f \in SUBSET Symbols : Join(s, f)
  \/ \E s \in Subs : Deliver(s) \/ Leave(s)

Spec == Init /\ [][Next]_feedVars
==============================================================================
