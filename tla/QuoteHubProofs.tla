---------------------------- MODULE QuoteHubProofs ---------------------------
(* Proofs about QuoteHub, for every set of subscriptions, every ticker list *)
(* and every bound on the number of batches.                                *)
EXTENDS QuoteHub, TLAPS

USE DEF Lock, Unlock, Send, Push

\* The inductive invariant.  NoGap alone is not inductive: it needs to know
\* that a list entry is served once per fan-out (ListedOnce) and that nobody
\* joins while the generator walks the list (MutualExclusion).
IInv == TypeOK /\ MutualExclusion /\ NoWaste /\ NoGap /\ ListedOnce

\* A selection is empty exactly when the subscriber asked for no ticker of
\* the generator (the test is_empty of registry.rs:65).
LEMMA FilteredEmpty ==
  \A n, w : Filtered(n, w) = {} <=> w \cap Tickers = {}
<1> TAKE n, w
<1>1. \A t \in w \cap Tickers : [ticker |-> t, batch |-> n] \in Filtered(n, w)
  BY DEF Filtered, BatchQuotes
<1>2. \A q \in Filtered(n, w) : q.ticker \in w \cap Tickers
  BY DEF Filtered, BatchQuotes
<1> QED BY <1>1, <1>2

\* A selection consists of quotes.
LEMMA FilteredType ==
  \A n \in Nat : \A w : Filtered(n, w) \in SUBSET Quote
BY DEF Filtered, BatchQuotes, Quote

\* A hub without subscribers satisfies the invariant.
LEMMA InitInv == Init => IInv
BY MaxBatchesAssumption
   DEF Init, IInv, TypeOK, MutualExclusion, NoWaste, NoGap, ListedOnce, Published,
       LastSent, Served

\* advance_batch preserves the invariant (registry.rs:49).
LEMMA GenAdvanceInv == IInv /\ GenAdvance => IInv'
<1> SUFFICES ASSUME IInv, GenAdvance PROVE IInv' OBVIOUS
<1> USE MaxBatchesAssumption DEF IInv, GenAdvance
<1>1. TypeOK' BY DEF TypeOK
<1>2. MutualExclusion' BY DEF MutualExclusion
<1>3. NoWaste' BY DEF NoWaste
<1>4. NoGap' BY DEF NoGap, LastSent, Served, Published, TypeOK
<1>5. ListedOnce' BY DEF ListedOnce
<1> QED BY <1>1, <1>2, <1>3, <1>4, <1>5

\* Taking the mutex for a fan-out preserves it (registry.rs:52-58).
LEMMA GenLockInv == IInv /\ GenLock => IInv'
<1> SUFFICES ASSUME IInv, GenLock PROVE IInv' OBVIOUS
<1> USE MaxBatchesAssumption DEF IInv, GenLock
<1>1. TypeOK' BY DEF TypeOK
<1>2. MutualExclusion' BY DEF MutualExclusion
<1>3. NoWaste' BY DEF NoWaste
<1>4. NoGap' BY DEF NoGap, LastSent, Served, Published, TypeOK
<1>5. ListedOnce' BY DEF ListedOnce, TypeOK
<1> QED BY <1>1, <1>2, <1>3, <1>4, <1>5

\* The end of a fan-out preserves it: every subscriber was served.
LEMMA GenUnlockInv == IInv /\ GenUnlock => IInv'
<1> SUFFICES ASSUME IInv, GenUnlock PROVE IInv' OBVIOUS
<1> USE MaxBatchesAssumption DEF IInv, GenUnlock
<1>1. TypeOK' BY DEF TypeOK
<1>2. MutualExclusion' BY DEF MutualExclusion
<1>3. NoWaste' BY DEF NoWaste
<1>4. NoGap'
  <2> SUFFICES ASSUME NEW s \in Subs, rx[s] = "open" PROVE LastSent(s)' = LastSent(s)
    BY DEF NoGap
  <2>1. PICK i \in 1 .. Len(subscribers) : subscribers[i] = s
    BY DEF ListedOnce
  <2>2. i < cursor BY <2>1 DEF TypeOK
  <2> QED BY <2>1, <2>2 DEF LastSent, Served, Published, TypeOK
<1>5. ListedOnce' BY DEF ListedOnce
<1> QED BY <1>1, <1>2, <1>3, <1>4, <1>5

\* Taking the mutex in subscribe preserves it (registry.rs:79-85).
LEMMA SubscribeLockInv ==
  ASSUME NEW s \in Subs PROVE IInv /\ SubscribeLock(s) => IInv'
<1> SUFFICES ASSUME IInv, SubscribeLock(s) PROVE IInv' OBVIOUS
<1> USE MaxBatchesAssumption DEF IInv, SubscribeLock, genVars
<1>1. TypeOK' BY DEF TypeOK
<1>2. MutualExclusion' BY DEF MutualExclusion, TypeOK
<1>3. NoWaste' BY DEF NoWaste
<1>4. NoGap' BY DEF NoGap, LastSent, Served, Published, TypeOK
<1>5. ListedOnce' BY DEF ListedOnce, TypeOK
<1> QED BY <1>1, <1>2, <1>3, <1>4, <1>5

\* A worker that drops its receiver preserves it (streaming.rs:99).
LEMMA DropRxInv ==
  ASSUME NEW s \in Subs PROVE IInv /\ DropRx(s) => IInv'
<1> SUFFICES ASSUME IInv, DropRx(s) PROVE IInv' OBVIOUS
<1> USE MaxBatchesAssumption DEF IInv, DropRx, genVars
<1>1. TypeOK' BY DEF TypeOK
<1>2. MutualExclusion' BY DEF MutualExclusion
<1>3. NoWaste' BY DEF NoWaste, TypeOK
<1>4. NoGap'
  <2>1. ASSUME NEW t \in Subs, rx'[t] = "open"
        PROVE  rx[t] = "open" /\ chan'[t] = chan[t]
    BY <2>1 DEF TypeOK
  <2>2. /\ want' = want /\ lastGot' = lastGot
        /\ \A t \in Subs : LastSent(t)' = LastSent(t)
    BY DEF LastSent, Served, Published
  <2>3. QED BY ONLY IInv, <2>1, <2>2, Zenon DEF IInv, NoGap
<1>5. ListedOnce' BY DEF ListedOnce, TypeOK
<1> QED BY <1>1, <1>2, <1>3, <1>4, <1>5

\* One turn of the fan-out loop preserves it (registry.rs:59-69).
LEMMA GenSendInv == IInv /\ GenSend => IInv'
<1> SUFFICES ASSUME IInv, GenSend PROVE IInv' OBVIOUS
<1>0. TypeOK /\ MutualExclusion /\ NoWaste /\ NoGap /\ ListedOnce BY DEF IInv
<1>u. /\ UNCHANGED <<genPc, batch, holder, subscribers, subPc, want, rx, lastGot, got>>
      /\ cursor' = cursor + 1
      /\ genPc = "fanout"
      /\ cursor <= Len(subscribers)
  BY DEF GenSend
<1> DEFINE r == subscribers[cursor]
          m == Filtered(batch, want[r])
<1>1. r \in Subs BY <1>0, <1>u DEF TypeOK
<1>2. m \in SUBSET Quote BY <1>0, FilteredType DEF TypeOK
<1>3. m = {} <=> want[r] \cap Tickers = {} BY FilteredEmpty
<1>4. chan' = IF m # {} /\ rx[r] = "open" THEN [chan EXCEPT ![r] = Append(@, m)] ELSE chan
  BY DEF GenSend
<1>m. m = Filtered(batch, want[r]) OBVIOUS
<1> HIDE DEF m, r
<1>5. TypeOK'
  <2>1. chan' \in [Subs -> Seq(SUBSET Quote)] BY <1>0, <1>1, <1>2, <1>4 DEF TypeOK
  <2>2. cursor' \in Nat \ {0} BY <1>0, <1>u DEF TypeOK
  <2> QED BY <1>0, <1>u, <2>1, <2>2 DEF TypeOK
<1>6. MutualExclusion' BY <1>0, <1>u DEF MutualExclusion
<1>7. NoWaste'
  <2> SUFFICES ASSUME NEW s \in Subs, rx[s] # "open" \/ want[s] \cap Tickers = {}
               PROVE  chan'[s] = << >>
    BY <1>u DEF NoWaste
  <2>1. chan[s] = << >> BY <1>0 DEF NoWaste
  <2>2. chan'[s] = chan[s] BY <1>0, <1>1, <1>3, <1>4 DEF TypeOK
  <2> QED BY <2>1, <2>2
<1>8. NoGap'
  <2> SUFFICES ASSUME NEW s \in Subs, rx[s] = "open", want[s] \cap Tickers # {}
               PROVE  /\ lastGot[s] + Len(chan'[s]) = LastSent(s)'
                      /\ \A i \in 1 .. Len(chan'[s]) :
                           chan'[s][i] = Filtered(lastGot[s] + i, want[s])
    BY <1>u DEF NoGap
  <2>0. /\ lastGot[s] + Len(chan[s]) = LastSent(s)
        /\ \A i \in 1 .. Len(chan[s]) : chan[s][i] = Filtered(lastGot[s] + i, want[s])
    BY <1>0 DEF NoGap
  <2>t. chan[s] \in Seq(SUBSET Quote) /\ lastGot[s] \in Nat /\ batch \in Nat
    BY <1>0, MaxBatchesAssumption DEF TypeOK
  <2>1. CASE s = r
    <3>1. chan'[s] = Append(chan[s], m) BY <1>0, <1>1, <1>3, <1>4, <2>1 DEF TypeOK
    <3>2. ~Served(s) BY <1>0, <1>u, <2>1 DEF Served, ListedOnce, TypeOK, r
    <3>3. Served(s)' BY <1>0, <1>u, <2>1 DEF Served, TypeOK, r
    <3>4. LastSent(s) = batch - 1 /\ LastSent(s)' = batch
      BY <1>u, <3>2, <3>3 DEF LastSent, Published
    <3>5. lastGot[s] + (Len(chan[s]) + 1) = batch
      <4>1. Len(chan[s]) \in Nat BY <2>t
      <4>2. lastGot[s] + Len(chan[s]) = batch - 1 BY <2>0, <3>4
      <4>3. lastGot[s] \in Nat /\ batch \in Nat BY <2>t
      <4> QED BY <4>1, <4>2, <4>3
    <3>6. m = Filtered(lastGot[s] + (Len(chan[s]) + 1), want[s])
      BY <1>m, <2>1, <3>5
    <3>7. /\ Len(chan'[s]) = Len(chan[s]) + 1
          /\ \A i \in 1 .. Len(chan[s]) : chan'[s][i] = chan[s][i]
          /\ chan'[s][Len(chan[s]) + 1] = m
      BY <1>2, <2>t, <3>1
    <3>8. \A i \in 1 .. Len(chan[s]) + 1 : i \in 1 .. Len(chan[s]) \/ i = Len(chan[s]) + 1
      BY <2>t
    <3> QED BY <2>0, <3>4, <3>5, <3>6, <3>7, <3>8
  <2>2. CASE s # r
    <3>1. chan'[s] = chan[s] BY <1>0, <1>1, <1>4, <2>2 DEF TypeOK
    <3>2. \A i \in 1 .. Len(subscribers) :
             subscribers[i] = s => (i < cursor <=> i < cursor + 1)
      BY <1>0, <1>u, <2>2 DEF TypeOK, r
    <3>3. Served(s)' <=> Served(s)
      <4>1. Served(s)' <=> \E i \in 1 .. Len(subscribers) : i < cursor + 1 /\ subscribers[i] = s
        BY <1>u DEF Served
      <4>2. Served(s) <=> \E i \in 1 .. Len(subscribers) : i < cursor /\ subscribers[i] = s
        BY <1>u DEF Served
      <4> QED BY <3>2, <4>1, <4>2, Zenon
    <3>4. LastSent(s)' = LastSent(s) BY <1>u, <3>3 DEF LastSent, Published
    <3> QED BY <2>0, <3>1, <3>4
  <2> QED BY <2>1, <2>2
<1>9. ListedOnce' BY <1>0, <1>u DEF ListedOnce, TypeOK
<1> QED BY <1>5, <1>6, <1>7, <1>8, <1>9 DEF IInv

\* The push of a new subscriber preserves it (registry.rs:86-88).
LEMMA SubscribePushInv ==
  ASSUME NEW s \in Subs, NEW f \in SUBSET Symbols
  PROVE  IInv /\ SubscribePush(s, f) => IInv'
<1> SUFFICES ASSUME IInv, SubscribePush(s, f) PROVE IInv' OBVIOUS
<1> USE DEF SubscribePush, genVars
<1>0. TypeOK /\ MutualExclusion /\ NoWaste /\ NoGap /\ ListedOnce BY DEF IInv
<1>1. holder = "sub" /\ genPc # "fanout" /\ rx[s] = "none" /\ chan[s] = << >>
  BY <1>0 DEF MutualExclusion, ListedOnce, NoWaste, TypeOK
<1>2. Published \in 0 .. MaxBatches BY <1>0, MaxBatchesAssumption DEF Published, TypeOK
<1>3. TypeOK' BY <1>0, <1>2 DEF TypeOK
<1>4. MutualExclusion' BY <1>0, <1>1 DEF MutualExclusion, TypeOK
<1>5. NoWaste' BY <1>0, <1>1 DEF NoWaste, TypeOK
<1>6. NoGap'
  <2>1. \A r \in Subs : LastSent(r) = Published /\ LastSent(r)' = Published
    BY <1>1 DEF LastSent, Published
  <2> SUFFICES ASSUME NEW r \in Subs, rx'[r] = "open", want'[r] \cap Tickers # {}
               PROVE  /\ lastGot'[r] + Len(chan[r]) = Published
                      /\ \A i \in 1 .. Len(chan[r]) :
                           chan[r][i] = Filtered(lastGot'[r] + i, want'[r])
    BY <2>1 DEF NoGap
  <2>2. CASE r = s
    <3>1. lastGot'[r] = Published BY <1>0, <2>2 DEF TypeOK
    <3>2. chan[r] = << >> BY <1>1, <2>2
    <3> QED BY <1>2, <3>1, <3>2
  <2>3. CASE r # s
    <3>1. rx'[r] = rx[r] /\ want'[r] = want[r] /\ lastGot'[r] = lastGot[r]
      BY <1>0, <2>3 DEF TypeOK
    <3> QED BY <1>0, <2>1, <3>1 DEF NoGap
  <2> QED BY <2>2, <2>3
<1>7. ListedOnce'
  <2>1. /\ Len(subscribers') = Len(subscribers) + 1
        /\ \A i \in 1 .. Len(subscribers) : subscribers'[i] = subscribers[i]
        /\ subscribers'[Len(subscribers) + 1] = s
        /\ Len(subscribers) \in Nat
    BY <1>0 DEF TypeOK
  <2>2. \A i \in 1 .. Len(subscribers) : subscribers[i] # s
    BY <1>0, <1>1 DEF ListedOnce
  <2>3. \A i \in 1 .. Len(subscribers') :
           i \in 1 .. Len(subscribers) \/ i = Len(subscribers) + 1
    BY <2>1
  <2>4. \A i, j \in 1 .. Len(subscribers') : subscribers'[i] = subscribers'[j] => i = j
    BY <1>0, <2>1, <2>2, <2>3 DEF ListedOnce
  <2>5. ASSUME NEW r \in Subs
        PROVE  /\ rx'[r] # "none" <=> \E i \in 1 .. Len(subscribers') : subscribers'[i] = r
               /\ rx'[r] # "none" <=> subPc'[r] = "done"
    <3>1. CASE r = s BY <1>0, <2>1, <3>1 DEF TypeOK
    <3>2. CASE r # s
      <4>1. rx'[r] = rx[r] /\ subPc'[r] = subPc[r] BY <1>0, <3>2 DEF TypeOK
      <4>2. \A i \in 1 .. Len(subscribers) : i \in 1 .. Len(subscribers')
        BY <2>1
      <4>3. (\E i \in 1 .. Len(subscribers') : subscribers'[i] = r)
              <=> \E i \in 1 .. Len(subscribers) : subscribers[i] = r
        BY <2>1, <2>3, <3>2, <4>2
      <4> QED BY <1>0, <4>1, <4>3 DEF ListedOnce
    <3> QED BY <3>1, <3>2
  <2> QED BY <1>1, <2>4, <2>5 DEF ListedOnce
<1> QED BY <1>3, <1>4, <1>5, <1>6, <1>7 DEF IInv

\* A worker that receives a batch preserves it (streaming.rs:85).
LEMMA RecvInv ==
  ASSUME NEW s \in Subs PROVE IInv /\ Recv(s) => IInv'
<1> SUFFICES ASSUME IInv, Recv(s) PROVE IInv' OBVIOUS
<1>0. TypeOK /\ MutualExclusion /\ NoWaste /\ NoGap /\ ListedOnce BY DEF IInv
<1>u. /\ UNCHANGED <<genPc, batch, cursor, holder, subscribers, subPc, want, rx>>
      /\ rx[s] = "open"
      /\ chan[s] # << >>
      /\ got' = [got EXCEPT ![s] = Head(chan[s])]
      /\ lastGot' = [lastGot EXCEPT ![s] = @ + 1]
      /\ chan' = [chan EXCEPT ![s] = Tail(@)]
  BY DEF Recv, genVars
<1> DEFINE c == chan[s]
<1>1. /\ c \in Seq(SUBSET Quote) /\ c # << >>
      /\ lastGot[s] + Len(c) = LastSent(s)
      /\ \A i \in 1 .. Len(c) : c[i] = Filtered(lastGot[s] + i, want[s])
  BY <1>0, <1>u DEF NoGap, NoWaste, TypeOK
<1>2. /\ Tail(c) \in Seq(SUBSET Quote)
      /\ Len(Tail(c)) = Len(c) - 1
      /\ \A i \in 1 .. Len(Tail(c)) : Tail(c)[i] = c[i + 1]
      /\ Head(c) \in SUBSET Quote
      /\ Len(c) \in Nat \ {0}
  BY <1>1
<1>3. lastGot[s] + 1 \in 0 .. MaxBatches
  BY <1>0, <1>1, <1>2, MaxBatchesAssumption DEF LastSent, Published, TypeOK, ListedOnce
<1>5. TypeOK'
  <2>1. chan' \in [Subs -> Seq(SUBSET Quote)] BY <1>0, <1>2, <1>u DEF TypeOK
  <2>2. lastGot' \in [Subs -> 0 .. MaxBatches] BY <1>0, <1>3, <1>u DEF TypeOK
  <2>3. got' \in [Subs -> SUBSET Quote] BY <1>0, <1>2, <1>u DEF TypeOK
  <2> QED BY <1>0, <1>u, <2>1, <2>2, <2>3 DEF TypeOK
<1>6. MutualExclusion' BY <1>0, <1>u DEF MutualExclusion
<1>7. NoWaste' BY <1>0, <1>u DEF NoWaste, TypeOK
<1>8. NoGap'
  <2> SUFFICES ASSUME NEW r \in Subs, rx[r] = "open", want[r] \cap Tickers # {}
               PROVE  /\ lastGot'[r] + Len(chan'[r]) = LastSent(r)
                      /\ \A i \in 1 .. Len(chan'[r]) :
                           chan'[r][i] = Filtered(lastGot'[r] + i, want[r])
    BY <1>u DEF NoGap, LastSent, Served, Published
  <2>1. CASE r = s
    <3>1. chan'[r] = Tail(c) /\ lastGot'[r] = lastGot[s] + 1
      BY <1>0, <1>u, <2>1 DEF TypeOK
    <3>2. lastGot[s] \in Nat /\ Len(c) \in Nat BY <1>0, <1>2 DEF TypeOK
    <3>3. ASSUME NEW i \in 1 .. Len(Tail(c))
          PROVE  Tail(c)[i] = Filtered((lastGot[s] + 1) + i, want[s])
      <4> HIDE DEF c
      <4>1. i \in 1 .. Len(c) - 1 BY <1>2
      <4>2. i + 1 \in 1 .. Len(c) BY <3>2, <4>1
      <4>3. lastGot[s] + (i + 1) = (lastGot[s] + 1) + i BY <3>2, <4>1
      <4>4. c[i + 1] = Filtered(lastGot[s] + (i + 1), want[s]) BY <1>1, <4>2
      <4> QED BY <1>2, <4>3, <4>4
    <3>4. (lastGot[s] + 1) + Len(Tail(c)) = LastSent(s)
      <4> HIDE DEF c
      <4> QED BY <1>1, <1>2, <3>2
    <3> HIDE DEF c
    <3> QED BY <2>1, <3>1, <3>3, <3>4
  <2>2. CASE r # s
    <3>1. chan'[r] = chan[r] /\ lastGot'[r] = lastGot[r] BY <1>0, <1>u, <2>2 DEF TypeOK
    <3> QED BY <1>0, <3>1 DEF NoGap
  <2> QED BY <2>1, <2>2
<1>9. ListedOnce' BY <1>0, <1>u DEF ListedOnce
<1> QED BY <1>5, <1>6, <1>7, <1>8, <1>9 DEF IInv

\* A step that changes nothing preserves it.
LEMMA StutterInv == IInv /\ UNCHANGED vars => IInv'
<1> SUFFICES ASSUME IInv, UNCHANGED vars PROVE IInv' OBVIOUS
<1> USE DEF IInv, vars
<1>1. TypeOK' BY DEF TypeOK
<1>2. MutualExclusion' BY DEF MutualExclusion
<1>3. NoWaste' BY DEF NoWaste
<1>4. NoGap' BY DEF NoGap, LastSent, Served, Published
<1>5. ListedOnce' BY DEF ListedOnce
<1> QED BY <1>1, <1>2, <1>3, <1>4, <1>5

\* Every step preserves the invariant.
LEMMA NextInv == IInv /\ [Next]_vars => IInv'
BY GenAdvanceInv, GenLockInv, GenSendInv, GenUnlockInv, SubscribeLockInv,
   SubscribePushInv, RecvInv, DropRxInv, StutterInv
   DEF Next, BoundReached

\* The inductive invariant holds throughout.
THEOREM HubInvariant == Spec => []IInv
BY InitInv, NextInv, PTL DEF Spec

\* Type correctness of the hub.
THEOREM HubTypeOK == Spec => []TypeOK
<1>1. IInv => TypeOK BY DEF IInv
<1> QED BY <1>1, HubInvariant, PTL

\* No subscriber of the hub ever misses a batch, gets one twice, or gets a
\* quote it did not ask for, whatever the other subscribers and workers do.
THEOREM HubNoGap == Spec => []NoGap
<1>1. IInv => NoGap BY DEF IInv
<1> QED BY <1>1, HubInvariant, PTL

\* No batch is queued for a worker that has gone.
THEOREM HubNoWaste == Spec => []NoWaste
<1>1. IInv => NoWaste BY DEF IInv
<1> QED BY <1>1, HubInvariant, PTL

\* The mutex keeps the fan-out and subscribe apart.
THEOREM HubMutualExclusion == Spec => []MutualExclusion
<1>1. IInv => MutualExclusion BY DEF IInv
<1> QED BY <1>1, HubInvariant, PTL

\* Every subscription is listed exactly once and none is ever removed.
THEOREM HubListedOnce == Spec => []ListedOnce
<1>1. IInv => ListedOnce BY DEF IInv
<1> QED BY <1>1, HubInvariant, PTL

\* What a step may never do to the subscriber list: only subscribe changes it,
\* at its end, and the mutex keeps subscribe out while the list is walked.
LEMMA ListStep ==
  ASSUME IInv, [Next]_vars
  PROVE  /\ genPc = "fanout" => subscribers' = subscribers
         /\ \A i \in 1 .. Len(subscribers) : subscribers'[i] = subscribers[i]
<1>1. CASE UNCHANGED subscribers
  BY <1>1
<1>2. CASE \E s \in Subs, f \in SUBSET Symbols : SubscribePush(s, f)
  <2>1. PICK s \in Subs : subPc[s] = "push" /\ subscribers' = Append(subscribers, s)
    BY <1>2 DEF SubscribePush, Push
  <2>2. genPc # "fanout"
    BY <2>1 DEF IInv, MutualExclusion
  <2>3. subscribers \in Seq(Subs)
    BY DEF IInv, TypeOK
  <2> QED BY <2>1, <2>2, <2>3
<1>3. UNCHANGED subscribers \/ \E s \in Subs, f \in SUBSET Symbols : SubscribePush(s, f)
  BY DEF Next, vars, GenAdvance, GenLock, GenSend, GenUnlock, SubscribeLock, Recv, DropRx,
         BoundReached
<1> QED BY <1>1, <1>2, <1>3

\* A fan-out walks the list it started with, for every number of subscribers.
THEOREM HubStableWhileWalked == Spec => StableWhileWalked
<1>1. IInv /\ [Next]_vars =>
        [/\ genPc = "fanout" => subscribers' = subscribers
         /\ \A i \in 1 .. Len(subscribers) : subscribers'[i] = subscribers[i]]_vars
  BY ListStep
<1> QED BY <1>1, HubInvariant, PTL DEF Spec, StableWhileWalked

\* What a worker receives is the part of the batch QuoteFeed hands out.
LEMMA FilteredIsHanded ==
  \A n, w : Filtered(n, w) = {[ticker |-> t, batch |-> n] : t \in w \cap Tickers}
BY DEF Filtered, BatchQuotes

\* The start of the hub is the start of the feed.
LEMMA FeedInit == Init => Feed!Init
BY DEF Init, Feed!Init, Published

\* The mapping of the steps that do not show in the feed.
LEMMA FeedStutter ==
  ASSUME UNCHANGED <<Published, want, rx, lastGot, got>>
  PROVE  UNCHANGED Feed!feedVars
BY DEF Feed!feedVars

\* Every step of the hub is a step of the feed or does not show in it: a batch
\* is published by GenLock, joined by SubscribePush, delivered by Recv.
LEMMA FeedStep == IInv /\ [Next]_vars => [Feed!Next]_(Feed!feedVars)
<1> SUFFICES ASSUME IInv, [Next]_vars PROVE [Feed!Next]_(Feed!feedVars)
  OBVIOUS
<1>0. TypeOK /\ MutualExclusion /\ NoWaste /\ NoGap /\ ListedOnce BY DEF IInv
<1>1. CASE GenAdvance \/ GenSend \/ GenUnlock \/ BoundReached \/ UNCHANGED vars
            \/ \E s \in Subs : SubscribeLock(s)
  <2>1. UNCHANGED <<Published, want, rx, lastGot, got>>
    BY <1>0, <1>1 DEF GenAdvance, GenSend, GenUnlock, BoundReached, SubscribeLock, vars,
                      genVars, Published, TypeOK
  <2> QED BY <2>1, FeedStutter
<1>2. CASE GenLock
  <2>1. Published' = Published + 1 /\ UNCHANGED <<want, rx, lastGot, got>>
    BY <1>0, <1>2 DEF GenLock, Published, TypeOK
  <2>2. Feed!Publish
    BY <2>1 DEF Feed!Publish
  <2> QED BY <2>2 DEF Feed!Next
<1>3. CASE \E s \in Subs, f \in SUBSET Symbols : SubscribePush(s, f)
  <2>1. PICK s \in Subs, f \in SUBSET Symbols : SubscribePush(s, f)
    BY <1>3
  <2>2. rx[s] = "none" /\ UNCHANGED <<Published, got>>
    BY <1>0, <2>1 DEF SubscribePush, ListedOnce, TypeOK, genVars, Published
  <2>3. Feed!Join(s, f)
    BY <1>0, <2>1, <2>2 DEF Feed!Join, SubscribePush, TypeOK
  <2> QED BY <2>3 DEF Feed!Next
<1>4. CASE \E s \in Subs : Recv(s)
  <2>1. PICK s \in Subs : Recv(s)
    BY <1>4
  <2>2. /\ rx[s] = "open" /\ chan[s] # << >>
        /\ UNCHANGED <<Published, want, rx>>
        /\ got' = [got EXCEPT ![s] = Head(chan[s])]
        /\ lastGot' = [lastGot EXCEPT ![s] = lastGot[s] + 1]
    BY <2>1 DEF Recv, genVars, Published
  <2>3. want[s] \cap Tickers # {}
    BY <1>0, <2>2 DEF NoWaste
  <2>4. chan[s] \in Seq(SUBSET Quote) /\ Len(chan[s]) \in Nat \ {0}
    BY <1>0, <2>2 DEF TypeOK
  <2>5. LastSent(s) \in Nat /\ Published \in Nat /\ LastSent(s) <= Published
    BY <1>0, MaxBatchesAssumption DEF LastSent, Published, TypeOK, ListedOnce
  <2>6. lastGot[s] + 1 <= Published
    <3>1. lastGot[s] + Len(chan[s]) = LastSent(s)
      BY <1>0, <2>2, <2>3 DEF NoGap
    <3>2. lastGot[s] \in Nat
      BY <1>0, MaxBatchesAssumption DEF TypeOK
    <3> QED BY <2>4, <2>5, <3>1, <3>2
  <2>7. Head(chan[s]) = Filtered(lastGot[s] + 1, want[s])
    BY <1>0, <2>2, <2>3, <2>4 DEF NoGap
  <2>8. Head(chan[s]) =
          {[ticker |-> t, batch |-> lastGot[s] + 1] : t \in want[s] \cap Tickers}
    BY <2>7, FilteredIsHanded
  <2>9. Feed!Deliver(s)
    BY <1>0, <2>2, <2>3, <2>6, <2>8 DEF Feed!Deliver, TypeOK
  <2> QED BY <2>9 DEF Feed!Next
<1>5. CASE \E s \in Subs : DropRx(s)
  <2>1. PICK s \in Subs : DropRx(s)
    BY <1>5
  <2>2. Feed!Leave(s)
    BY <1>0, <2>1 DEF Feed!Leave, DropRx, TypeOK, genVars, Published
  <2> QED BY <2>2 DEF Feed!Next
<1> QED BY <1>1, <1>2, <1>3, <1>4, <1>5 DEF Next

\* The hub implements what it promises, for every number of subscribers,
\* tickers and batches.
THEOREM HubImplementsFeed == Spec => ImplementsFeed
<1> QED BY FeedInit, FeedStep, HubInvariant, PTL DEF Spec, ImplementsFeed, Feed!Spec
==============================================================================
