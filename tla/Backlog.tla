------------------------------- MODULE Backlog -------------------------------
(***************************************************************************)
(* The queue between the hub and one worker, in time.  The channel made by *)
(* QuoteHub::subscribe (src/src/server/registry.rs) has no capacity: it    *)
(* fills with one batch per emit interval, whatever the worker does, and   *)
(* the worker (src/src/server/streaming.rs) empties it one batch at a time *)
(* and sends the quotes of each before it takes the next.  What bounds the *)
(* queue and the age of what is sent are only the rates of the two sides,  *)
(* which are arguments of the programs: a worker may well be the slower.   *)
(***************************************************************************)
EXTENDS Naturals, Sequences

CONSTANTS
  EmitInterval,  \* ticks between two batches of the generator, at the least
  SendTime,      \* ticks the worker needs to send a batch, at the most
  Lag,           \* ticks the worker is kept from running between two moments
                 \* at which it has nothing to do
  MaxBusy        \* bound: batches emitted between two such moments

ASSUME RatesAssumption ==
  /\ EmitInterval \in Nat \ {0}
  /\ SendTime \in Nat
  /\ Lag \in Nat
  /\ MaxBusy \in Nat

VARIABLES
  elapsed,  \* time since the generator's last_emit_end, up to EmitInterval
  chan,     \* the queue: how long ago each batch was emitted
  held,     \* how long ago the batch the worker last took was emitted, 0 if idle
  rest,     \* time the worker still needs for the batch it holds
  taken,    \* batches taken since the worker was last idle
  lag       \* ticks lost since then

vars == <<elapsed, chan, held, rest, taken, lag>>

\* What the worker needs for a batch beyond the time in which the next one comes,
\* and how far behind all the batches it took can have put it.
Excess == IF SendTime > EmitInterval THEN SendTime - EmitInterval ELSE 0
Behind == taken * Excess

TypeOK ==
  /\ elapsed \in 0 .. EmitInterval
  /\ chan \in Seq(Nat)
  /\ held \in Nat
  /\ rest \in 0 .. SendTime
  /\ taken \in 0 .. MaxBusy
  /\ lag \in 0 .. Lag

\* The first batch is emitted without a wait.
Init ==
  /\ elapsed = EmitInterval
  /\ chan = << >>
  /\ held = 0
  /\ rest = 0
  /\ taken = 0
  /\ lag = 0

-----------------------------------------------------------------------------
\* Mutants: a generator that does not wait out its interval, and a worker that
\* takes the newest batch first.
DueEarly == elapsed + 1 >= EmitInterval
RecvNewest ==
  /\ rest = 0
  /\ chan # << >>
  /\ held' = chan[Len(chan)]
  /\ chan' = SubSeq(chan, 1, Len(chan) - 1)
  /\ rest' \in 0 .. SendTime
  /\ taken' = taken + 1
  /\ UNCHANGED <<elapsed, lag>>

\* advance_batch has waited for the deadline, and the batch is queued.
Due == elapsed = EmitInterval

Emit ==
  /\ Due
  /\ taken + Len(chan) < MaxBusy
  /\ elapsed' = 0
  /\ chan' = Append(chan, 0)
  /\ UNCHANGED <<held, rest, taken, lag>>

\* recv_timeout returns the oldest batch; sending it takes some time.
Recv ==
  /\ rest = 0
  /\ chan # << >>
  /\ held' = Head(chan)
  /\ chan' = Tail(chan)
  /\ rest' \in 0 .. SendTime
  /\ taken' = taken + 1
  /\ UNCHANGED <<elapsed, lag>>

\* The worker is in the loop over the quotes of a batch.
Sending == rest > 0

\* A tick passes: the worker sends, is kept from running, or waits for a batch.
Tick ==
  /\ elapsed' = IF elapsed < EmitInterval THEN elapsed + 1 ELSE elapsed
  /\ chan' = [i \in 1 .. Len(chan) |-> chan[i] + 1]
  /\ \/ Sending /\ held' = held + 1 /\ rest' = rest - 1 /\ UNCHANGED <<taken, lag>>
     \/ /\ Sending \/ chan # << >>
        /\ lag < Lag
        /\ lag' = lag + 1
        /\ held' = IF Sending THEN held + 1 ELSE held
        /\ UNCHANGED <<rest, taken>>
     \/ ~Sending /\ chan = << >> /\ held' = 0 /\ taken' = 0 /\ lag' = 0 /\ UNCHANGED rest

Next == Emit \/ Recv \/ Tick

Spec == Init /\ [][Next]_vars

-----------------------------------------------------------------------------
(* What the channel holds has a reason: the batches in it are those of the time
   the worker was kept from running and of the time it is slower than the
   generator, for each batch it took since it was idle, and one.  A worker that
   is not slower has no more than its delay explains, however long it is busy. *)
Bounded == Len(chan) * EmitInterval <= EmitInterval + Lag + Behind

(* No batch waits in the channel longer than the worker was kept from running
   and is behind, and none leaves older than that and an interval: a delay is
   made up for and does not add up with the next one, and a slow worker falls
   behind by its excess per batch and by no more. *)
Fresh ==
  /\ held <= EmitInterval + Lag + Behind
  /\ \A i \in 1 .. Len(chan) : chan[i] <= Lag + Behind
==============================================================================
