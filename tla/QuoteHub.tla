------------------------------- MODULE QuoteHub ------------------------------
(***************************************************************************)
(* The quote hub, src/src/server/registry.rs: one generator thread that    *)
(* produces numbered batches and fans each one out, under the mutex of     *)
(* HubInner.subscribers, to an unbounded mpsc channel per subscriber; any  *)
(* number of handler threads that call subscribe; and the stream workers   *)
(* that hold the receiving ends and may drop them at any moment, also in   *)
(* the middle of a fan-out.                                                *)
(*                                                                         *)
(* A quote is abstracted to its ticker and the number of the batch it      *)
(* belongs to: price, volume and timestamp are functions of the two.  The  *)
(* order of the quotes inside a batch is abstracted to a set.              *)
(*                                                                         *)
(* Both ends recover a poisoned mutex with into_inner, so poisoning is the *)
(* same as an ordinary acquisition and has no state here.                  *)
(***************************************************************************)
EXTENDS Naturals, Sequences

CONSTANTS Subs,       \* one id per call of QuoteHub::subscribe
          Tickers,    \* the generator's ticker_order
          Symbols,    \* everything a caller of subscribe may ask for
          MaxBatches  \* bound: the generator stops after this many batches

ASSUME TickersAssumption == Tickers \subseteq Symbols
ASSUME MaxBatchesAssumption == MaxBatches \in Nat

VARIABLES
  genPc,        \* generator thread: "advance", "lock" or "fanout"
  batch,        \* number of the batch held in QuoteGenerator.current_batch
  cursor,       \* position of the fan-out loop in subscribers
  holder,       \* who holds the subscribers mutex: "none", "gen", "sub"
  subscribers,  \* HubInner.subscribers: the ids in Vec order
  subPc,        \* each call of subscribe: "idle", "push" or "done"
  want,         \* Subscriber.tickers
  chan,         \* the queue of each mpsc channel
  rx,           \* receiving end: "none", "open" or "dropped"
  lastGot,      \* history: number of the batch last received (or, before
                \* the first one, of the last batch fanned out before joining)
  got           \* history: the quotes last received

genVars == <<genPc, batch, cursor>>
vars == <<genPc, batch, cursor, holder, subscribers, subPc, want, chan, rx,
          lastGot, got>>

Quote == [ticker : Tickers, batch : Nat]

\* last_batch_quotes() after the n-th advance_batch().
BatchQuotes(n) == {[ticker |-> t, batch |-> n] : t \in Tickers}

\* Mutant: the filter forgets its condition.
FilteredAll(n, w) == BatchQuotes(n)

\* Mutant: a quote for every ticker asked for, also for those the generator
\* does not have.
FilteredAsked(n, w) == {[ticker |-> t, batch |-> n] : t \in w}

\* The part of batch n that a subscriber with ticker set w is sent.
Filtered(n, w) == {q \in BatchQuotes(n) : q.ticker \in w}

\* Number of batches whose fan-out has begun.
Published == IF genPc = "lock" THEN batch - 1 ELSE batch

Init ==
  /\ genPc = "advance"
  /\ batch = 0
  /\ cursor = 1
  /\ holder = "none"
  /\ subscribers = << >>
  /\ subPc = [s \in Subs |-> "idle"]
  /\ want = [s \in Subs |-> {}]
  /\ chan = [s \in Subs |-> << >>]
  /\ rx = [s \in Subs |-> "none"]
  /\ lastGot = [s \in Subs |-> 0]
  /\ got = [s \in Subs |-> {}]

-------------------------------------------------------------------------------
(* The mutex of HubInner.subscribers, and a send on a channel. *)

\* Mutant: the lock is taken without waiting for whoever holds it.
LockNoWait(who) == holder' = who

\* lock(), for the generator and for subscribe.
Lock(who) == holder = "none" /\ holder' = who

\* The guard is dropped at the end of the loop body, or of subscribe.
Unlock == holder' = "none"

\* Mutant: the channel only keeps the latest batch.
SendLatest(s, m) == IF rx[s] = "open" THEN [chan EXCEPT ![s] = <<m>>] ELSE chan

\* Mutant: a batch for a receiver that is gone is queued all the same.
SendToDropped(s, m) == [chan EXCEPT ![s] = Append(@, m)]

\* let _ = sub.tx.send(..): the error of a send to a dropped receiver is
\* ignored, and nothing is queued.
Send(s, m) == IF rx[s] = "open" THEN [chan EXCEPT ![s] = Append(@, m)] ELSE chan

-------------------------------------------------------------------------------
(* The generator thread. *)

\* generator.advance_batch() and last_batch_quotes(): no lock is held.
GenAdvance ==
  /\ genPc = "advance"
  /\ batch < MaxBatches
  /\ batch' = batch + 1
  /\ genPc' = "lock"
  /\ UNCHANGED <<cursor, holder, subscribers, subPc, want, chan, rx, lastGot, got>>

\* subscribers.lock(), which waits for a caller of subscribe to leave.
GenLock ==
  /\ genPc = "lock"
  /\ Lock("gen")
  /\ genPc' = "fanout"
  /\ cursor' = 1
  /\ UNCHANGED <<batch, subscribers, subPc, want, chan, rx, lastGot, got>>

\* One turn of the loop over subs; an empty selection is skipped.
GenSend ==
  /\ genPc = "fanout"
  /\ cursor <= Len(subscribers)
  /\ LET s == subscribers[cursor]
         filtered == Filtered(batch, want[s])
     IN  chan' = IF filtered = {} THEN chan ELSE Send(s, filtered)
  /\ cursor' = cursor + 1
  /\ UNCHANGED <<genPc, batch, holder, subscribers, subPc, want, rx, lastGot, got>>

GenUnlock ==
  /\ genPc = "fanout"
  /\ cursor > Len(subscribers)
  /\ Unlock
  /\ genPc' = "advance"
  /\ UNCHANGED <<batch, cursor, subscribers, subPc, want, chan, rx, lastGot, got>>

-------------------------------------------------------------------------------
(* A call of subscribe by a handler thread. *)

\* The channel and the ticker set are made and the mutex is taken.
SubscribeLock(s) ==
  /\ subPc[s] = "idle"
  /\ Lock("sub")
  /\ subPc' = [subPc EXCEPT ![s] = "push"]
  /\ UNCHANGED <<genVars, subscribers, want, chan, rx, lastGot, got>>

\* Mutant: the new subscriber takes the place of the oldest one.
PushReplacing(s) == IF subscribers = << >> THEN <<s>> ELSE Append(Tail(subscribers), s)

\* subs.push(Subscriber { tickers, tx })
Push(s) == Append(subscribers, s)

\* The push, then the guard is dropped and rx is returned to the caller.
SubscribePush(s, f) ==
  /\ subPc[s] = "push"
  /\ subscribers' = Push(s)
  /\ want' = [want EXCEPT ![s] = f]
  /\ rx' = [rx EXCEPT ![s] = "open"]
  /\ lastGot' = [lastGot EXCEPT ![s] = Published]
  /\ Unlock
  /\ subPc' = [subPc EXCEPT ![s] = "done"]
  /\ UNCHANGED <<genVars, chan, got>>

-------------------------------------------------------------------------------
(* The stream worker at the receiving end of a channel. *)

\* quote_rx.recv_timeout() returns Ok.
Recv(s) ==
  /\ rx[s] = "open"
  /\ chan[s] # << >>
  /\ got' = [got EXCEPT ![s] = Head(chan[s])]
  /\ lastGot' = [lastGot EXCEPT ![s] = @ + 1]
  /\ chan' = [chan EXCEPT ![s] = Tail(@)]
  /\ UNCHANGED <<genVars, holder, subscribers, subPc, want, rx>>

\* The worker ends: its Receiver is dropped with all that is queued, while
\* the Subscriber and its Sender stay in the hub.
DropRx(s) ==
  /\ rx[s] = "open"
  /\ rx' = [rx EXCEPT ![s] = "dropped"]
  /\ chan' = [chan EXCEPT ![s] = << >>]
  /\ UNCHANGED <<genVars, holder, subscribers, subPc, want, lastGot, got>>

-------------------------------------------------------------------------------
\* The generator has reached the bound of the model.
BoundReached ==
  /\ genPc = "advance"
  /\ batch = MaxBatches
  /\ UNCHANGED vars

Generator == GenAdvance \/ GenLock \/ GenSend \/ GenUnlock

Next ==
  \/ GenAdvance
  \/ GenLock
  \/ GenSend
  \/ GenUnlock
  \/ \E s \in Subs : SubscribeLock(s)
  \/ \E s \in Subs, f \in SUBSET Symbols : SubscribePush(s, f)
  \/ \E s \in Subs : Recv(s)
  \/ \E s \in Subs : DropRx(s)
  \/ BoundReached

\* The generator thread and the holder of the mutex are never blocked for
\* good by the scheduler, and a worker that has a batch takes it.
Fairness ==
  /\ WF_vars(Generator)
  /\ \A s \in Subs : WF_vars(\E f \in SUBSET Symbols : SubscribePush(s, f))
  /\ \A s \in Subs : WF_vars(Recv(s))

Spec == Init /\ [][Next]_vars /\ Fairness

-------------------------------------------------------------------------------
(* Properties *)

TypeOK ==
  /\ genPc \in {"advance", "lock", "fanout"}
  /\ batch \in 0 .. MaxBatches
  /\ genPc = "lock" => batch > 0
  /\ cursor \in Nat \ {0}
  /\ holder \in {"none", "gen", "sub"}
  /\ subscribers \in Seq(Subs)
  /\ subPc \in [Subs -> {"idle", "push", "done"}]
  /\ want \in [Subs -> SUBSET Symbols]
  /\ chan \in [Subs -> Seq(SUBSET Quote)]
  /\ rx \in [Subs -> {"none", "open", "dropped"}]
  /\ lastGot \in [Subs -> 0 .. MaxBatches]
  /\ got \in [Subs -> SUBSET Quote]

\* The subscriber was already served by the fan-out that is going on.
Served(s) ==
  genPc = "fanout" /\ \E i \in 1 .. Len(subscribers) : i < cursor /\ subscribers[i] = s

\* Number of the last batch sent to subscription s.
LastSent(s) == IF genPc = "fanout" /\ ~Served(s) THEN batch - 1 ELSE Published

\* Every subscriber's stream has no gap, no repetition and nothing foreign:
\* what is queued for it are exactly the batches after the last one it
\* received, up to the last one fanned out to it, each cut down to its own
\* tickers (registry.rs:59-69 against subscribe and a worker that receives).
NoGap ==
  \A s \in Subs :
    rx[s] = "open" /\ want[s] \cap Tickers # {} =>
      /\ lastGot[s] + Len(chan[s]) = LastSent(s)
      /\ \A i \in 1 .. Len(chan[s]) : chan[s][i] = Filtered(lastGot[s] + i, want[s])

\* Nothing is queued where nobody will read it: not for a receiver that was
\* dropped, though its Subscriber stays in the hub for ever, and not for a
\* subscriber that asked for no ticker of the generator (registry.rs:65-68).
NoWaste ==
  \A s \in Subs :
    rx[s] # "open" \/ want[s] \cap Tickers = {} => chan[s] = << >>

\* The mutex excludes the fan-out and subscribe from one another, and one
\* call of subscribe from another (registry.rs:52-58, 79-87).
MutualExclusion ==
  /\ genPc = "fanout" <=> holder = "gen"
  /\ \A s \in Subs : subPc[s] = "push" => holder = "sub"
  /\ \A s, r \in Subs : subPc[s] = "push" /\ subPc[r] = "push" => s = r

\* The hub lists every subscription whose receiver exists, or existed,
\* exactly once: subscribe never loses or repeats an entry, and an entry is
\* not removed when its receiver goes (registry.rs:76-88).
ListedOnce ==
  /\ \A i, j \in 1 .. Len(subscribers) : subscribers[i] = subscribers[j] => i = j
  /\ \A s \in Subs : rx[s] # "none" <=> \E i \in 1 .. Len(subscribers) : subscribers[i] = s
  /\ \A s \in Subs : rx[s] # "none" <=> subPc[s] = "done"
  /\ genPc = "fanout" => batch > 0 /\ cursor <= Len(subscribers) + 1

\* A fan-out walks the list it started with: the list only ever grows at its
\* end, and never while the generator walks it (registry.rs:59, 86).
StableWhileWalked ==
  [][/\ genPc = "fanout" => subscribers' = subscribers
     /\ \A i \in 1 .. Len(subscribers) : subscribers'[i] = subscribers[i]]_vars

\* A batch that was produced after s joined reaches s, unless s leaves first:
\* no subscriber is starved by the others or by a receiver that is gone.
Delivered ==
  \A s \in Subs, n \in 1 .. MaxBatches :
    (rx[s] = "open" /\ want[s] \cap Tickers # {} /\ lastGot[s] < n /\ batch >= n)
      ~> (lastGot[s] >= n \/ rx[s] = "dropped")

\* The hub implements the feed: a batch counts as published when its fan-out
\* begins, a subscriber joins when it is pushed.
Feed == INSTANCE QuoteFeed WITH
  published <- Published,
  status <- [s \in Subs |-> CASE rx[s] = "none"    -> "new"
                              [] rx[s] = "open"    -> "live"
                              [] rx[s] = "dropped" -> "gone"],
  next <- [s \in Subs |-> IF rx[s] = "none" THEN 0 ELSE lastGot[s] + 1],
  last <- got

\* The hub with its threads, mutex and channels does nothing that QuoteFeed
\* does not allow.
ImplementsFeed == Feed!Spec
==============================================================================
