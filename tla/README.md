# Verification of the quote-streaming server and client

TLA+ models of the programs in `src/` (a Rust server that streams generated
stock quotes over UDP to clients that asked for them over TCP), model-checked
with TLC and proved with TLAPS. Paths below are relative to `src/src/`.

## 1. The system

```
            TCP: STREAM udp://host:port AAPL,TSLA        UDP: quotes
 client ───────────────────────────────▶ command server      ▲
   ▲  ◀──────────────────────────── OK / ERR │               │
   │                                          │ subscribe     │
   │         generator ─▶ quote hub ◀─────────┘               │
   │                         │ one mpsc channel per stream    │
   └── UDP: PING ──────▶ stream worker ───────────────────────┘
       UDP: PONG ◀──────
```

| Component | State it keeps | Operations | What makes it correct |
|---|---|---|---|
| quote generator, `server/generator.rs` | last price and volume per ticker, the state of an xorshift generator, the current batch, `emit_interval`, `last_emit_end` | `advance_batch`, `set_emit_interval` | volumes stay in range whatever the draws; the draws do not degenerate; batches keep their distance; the stream of batches never dries up |
| quote hub, `server/registry.rs` | `Mutex<Vec<Subscriber>>`, one unbounded channel per subscriber | generator loop (produce, lock, fan out), `subscribe` | every subscriber gets every later batch once, in order, filtered; a worker that has gone harms nobody |
| stream worker, `server/streaming.rs`, `server/keepalive.rs` | `stop` (AtomicBool), `last_ping` (Mutex), a UDP socket shared by two threads | main loop, ping loop | silence after the client dies; prompt stop; both threads end |
| command server, `server/run.rs`, `server/tcp_accept.rs` | Ctrl+C flag, listener, one handler thread per connection | accept loop, `handle_tcp_client` | replies in order and right; OK ⇔ subscription; one connection does not harm another; Ctrl+C ends it |
| text protocol, `protocol.rs`, `net.rs` | none | read, parse, validate, answer a line; read the answer | limits of length and encoding; the README's rules for STREAM; both ends agree on what was granted |
| streaming client, `client/*.rs` | `stop`, `server_addr` cell, UDP socket shared by two threads | handshake, receive loop, pinger, join | ends in time, leaves no thread behind, pings the source of its stream and nothing after the end |
| ticker lists, `server/tickers.rs` | none | load a file | no name is lost or altered between the file and the subscription |
| command-line programs, `bin/*.rs`, errors, `error.rs` | none | arguments, exit code | who starts a client learns what became of it |
| quote format, `model.rs` | none | serialization | not modelled, see section 8 |

Interactions: the command server *calls* `hub.subscribe` and spawns a worker
with the receiving end of a *channel*; generator and `subscribe` share the hub's
*mutex*; the two threads of the worker share `stop`, `last_ping` and the socket;
the two threads of the client share `stop`, `server_addr` and the socket; client
and worker exchange *datagrams*. Nothing is persisted, so there is no crash
recovery; a client can be killed and started again on its port while the server
still streams to it. There is loss, delay and reordering (datagrams), partial
failure (sockets, peers, receivers), timeouts, and flags that are read before a
blocking call and matter after it. `PROJECT.json` lists the hazards by line.

## 2. Modules

| Module | Models | Properties proved in |
|---|---|---|
| `QuoteFeed` | what the hub promises, without threads, mutex, channels | |
| `QuoteHub` | the hub, its generator thread, callers of `subscribe`, receivers | `QuoteHubProofs` |
| `StreamWorker` | one worker: both threads, channel, socket, client, time | `StreamWorkerProofs` |
| `Protocol` | reading, parsing, validating, answering, as operators | |
| `CommandServer` (extends `Protocol`) | accept loop, handlers, peers | `ProtocolProofs` |
| `StreamClient` | one client run: handshake, both threads, sources, time | `StreamClientProofs` |
| `QuoteGenerator` | volume walk and pacing | `QuoteGeneratorProofs` |
| `XorShift` | the pseudo-random generator behind the draws | `QuoteGeneratorProofs` |
| `KeepAlive` | pinger, network and worker's deadline, composed and in time | `KeepAliveProofs` |
| `Backlog` | the channel from hub to worker, in time | `BacklogProofs` |
| `StreamSystem` | clients, handlers, workers and the network together | `StreamSystemProofs` |
| `Handshake` (extends `Protocol`) | a client run from its ticker file to its exit code, and both servers it may talk to | `ProtocolProofs` |
| `MC*` | the instances for TLC | |

Operators whose comment starts with "Mutant:" are not part of the models: each
is a plausible slip in the code, kept to show that a property would notice it.

### QuoteHub

`genPc` is where the generator thread stands in its loop (`advance` before
`advance_batch`, `lock` before the mutex, `fanout` inside), `cursor` the loop
over `subs`, `subPc[s]` the call of `subscribe` number *s*, `rx[s]` the receiver
it returned, `chan[s]` the queue. A fan-out is one step per subscriber, so
receivers may go and workers may read in its middle; `subscribe` may not, and
that is the mutex's doing. A quote is its ticker and its batch number. The two
lock sites recover a poisoned mutex with `into_inner`, so poisoning has no state.
`MaxBatches` bounds the generator, and `BoundReached` lets the model idle there.

### StreamWorker

The main thread's states follow the loop: `head` (`stop.load`), `check` (lock
`last_ping`, test the deadline), `recv` (`recv_timeout`), `send`/`put` (the loop
over the batch: test of `stop`, `send_to`), `exit` (`stop.store(true)`). The ping
thread: `head`, `recv` (`recv_from`), `touch` (refresh `last_ping`), `pong`. A
receive error ends the ping thread without setting `stop`, as in the code. PINGs
come from anybody, since the ping thread does not look at their source;
`PingersGone` is the moment from which nobody sends any, and only from then on is
the end of the worker due.

Time is discrete. `age` is `last_ping.elapsed()`, capped one above the largest
value a property names; the timers count the two blocking calls down. A thread
that could run can still be kept off the processor, for at most `Slack` ticks per
turn of the main loop, and the time a batch takes to be sent is part of that:
without such a bound no statement in real time about a thread is true.

Two environment steps are wider than the program: the hub's senders never go
while the server process lives (the generator thread holds them), and nobody but
the worker itself sets its `stop` in the server. The worker handles both and its
public interface allows both (tests use it that way), so both are modelled.

### CommandServer and Protocol

A line is a record of what the code tells apart: size, valid UTF-8, trimmed
length, whether byte 200 is a character boundary, verb, address, comma-separated
items. Peers write a line in two writes, text and line feed, and may close
between them: `read_until` then hands over the unterminated line, and the code
executes it. A handler is `start`, `read`, `reply`, `subscribe`, or over
(`returned`, `failed` with an I/O error, `panicked`). Writing the reply and
making the subscription are two steps, as in the code; `hub.subscribe` with
`spawn_udp_stream_worker` is one step here and detailed in `QuoteHub` and
`StreamWorker`. An `accept` error other than `WouldBlock` ends the whole server.
When the main thread returns, the process ends with all handlers. The failure of
`thread::spawn` (a panic of the accept loop) is not modelled.

### StreamClient

`mode` is the two receive loops, with a duration and until Ctrl+C. The main
thread goes through `load`, `bind`, `connect`, `send`, `answer` (no read timeout
there: without an answer the client waits for ever), `setup`, `head`/`recv`,
`join`, `returned`; the pinger through `head`, `sleep`, `check`, `target` (copy
of `server_addr`), `send`. Ctrl+C exists once the handler is installed; an
earlier one kills the process and needs no model. Until the client is told to
end its threads may be delayed without bound; from then on they lose at most
`Slack` ticks.

### QuoteGenerator

Every draw of the pseudo-random generator is a choice from its range (1.0
included, because a `u64` close to 2^64 rounds up to it as `f64`). A batch is
regenerated, the missing time to the deadline is measured and slept, the batch is
emitted; the interval may change between batches. Prices are left out.

### XorShift

A word is a function from bit positions to Booleans, so that the shifts and xors
of `next_u64` are what they are in the source for every width; `Output` is the
wrapping multiplication, `Unit` the conversion to f64 with its rounding, as a
numerator over 2^Width. `DrawsInRange` is the link to `QuoteGenerator`: what
`step_ticker` makes of a draw lies in the range that module chooses from.

### KeepAlive

Every clock is an elapsed time: `age` of `last_ping`, `turn` since the main loop
tested the deadline, `cycle` since the pinger went to sleep, the time each PING
has been under way, `since` the client went. A step that must happen by a moment
is a bound on `Tick`: a turn of the main loop takes at most `QUOTE_RECV_TIMEOUT`
and a scheduling delay, a cycle of the pinger the interval and such a delay, a
PING at most `NetDelay`, at most `MaxLost` in a row are lost, and the first quote
is handled within `QuoteGap`. The ping thread may end on a socket error
(`SocketError`), after which no PING renews the deadline. `WithinBudget` says that
the times add up to no more than the timeout. It is a statement about deployment
(the emit interval is part of `QuoteGap`, the ping interval an argument of the
client), not about the code: it is a hypothesis of `Survives`, not an assumption
of the module, and `Silent` and `CutAfterGone` do without it.

### Backlog

The queue as the ages of its batches, the generator as a source of at most one
batch per `EmitInterval`, the worker as a server that needs at most `SendTime`
for a batch and loses at most `Lag` ticks between two moments at which it is
idle. `SendTime` may exceed the interval. The channel, which has no capacity,
then grows as long as the worker is busy; `taken` counts the batches of that time,
`Excess` is what the worker needs for one beyond an interval, and `Behind`, their
product, is how far it has fallen behind. `MaxBusy` bounds the batches of one busy
period.

### StreamSystem

One element of `Clients` is one run of the client program; a restart is another
element with the same `Port`. For each there is the connection with its handler
(`conn`) and the worker it may get (`worker`). Datagrams are a set: they are
lost, reordered, and delivered after their sender is gone. Time is only that a
worker which is not `fresh` may be cut. `clean` records whether anything of an
earlier run on the port (a request, a worker, a datagram) was left at the bind.

### Handshake

A file is its lines, a line its comma-separated items. The client loads, binds,
connects, sends one line, reads one line and exits; the other end is the command
server or `reply_pong_to_ping`. Lines carry their size, computed from the names and from
`blanks`, the blanks around commas inside the lines of the file (loading trims
only the ends of a line, and the command is sent with the rest), so that both the
request and the answer meet the limit of 4096 bytes. `handler` is where the
server's handler stands: it writes its answer (`Serve`) and makes the subscription
in a step of its own (`SubscribeRun`), before which the process may end (`Ended`).
`fault` is set when something outside the programs failed; agreement is stated
without it and once the handler is through.
The specification is `RunSpec`, and its names differ from those of
`CommandServer`, so that one module can extend both and prove about both.

## 3. Runs

| Run | Instance | Shows |
|---|---|---|
| `hub` | 2 subscribers, 2 tickers and 1 unknown symbol, 3 batches | `NoGap`, `NoWaste`, `ListedOnce`, `StableWhileWalked`, `ImplementsFeed` (the refinement of `QuoteFeed`), `Delivered` (a batch reaches every subscriber that stays) |
| `worker` | timeouts 3, 1 and 2 ticks, slack 1, batches of up to 2 quotes, one queued batch and datagram | `Silence`, `StopIsPrompt`, `NoOrphan` |
| `commands` | 2 connections, one with up to 2 of 6 kinds of lines, one with a STREAM that is granted | `InOrder`, `OkMeansSubscribed`, `AcceptsStop`, `Served`, `CtrlCExits` |
| `commands_malformed` | the same | violated on purpose, see section 4 |
| `client` | 2 sources, both modes, duration 3, read timeout 1, ping interval 2, slack 1 | `NothingLeftBehind`, `PingsStop`, `PingsFirstSource`, `EndsInTime`, `Ends` |
| `generator` | 1 popular and 1 other ticker, small volumes, intervals 0, 1, 3 | `VolumeInRange`, `Paced`, `KeepsEmitting` |
| `keepalive` | timeouts and intervals of the source in ticks of 100 ms, 1 lost PING in a row, 0.4 s for the first quote and for a PING | `Survives`, `Silent`, `CutAfterGone` |
| `backlog` | a worker that needs 4 ticks for the batch of every 3, kept from running for more than two intervals, up to 7 batches without a pause | `Bounded`, `Fresh` |
| `system` | 3 client runs, 2 of them on one port, 1 with a ticker the server does not know | `OwnStream`, `Answered`, `NoStray` |
| `system_restart` | the same | violated on purpose, see section 4 |
| `xorshift` | words of 8 bits, every seed | `NeverZero`, `DrawsInRange` |
| `handshake` | files of up to 2 lines of up to 2 of 6 items, three sizes of blanks inside lines, two of an address | `Agreed`, `NotRefused`, `ReplyReadable`, `Ends` |

Why the bounds are enough for the cases that matter. *Hub*: two subscribers are
the least with a "before" and an "after" in the list, and three batches let one
join, receive, lag behind and leave during different fan-outs; the unknown symbol
gives the empty selection. *Worker*: the timeouts keep the order of the source
(5 s keep-alive, 250 ms on the socket, 100 ms on the channel), and with one tick
of slack a wait can end before, at and after the deadline; a batch of two has a quote before
and after a stop. *Commands*: the line kinds
hold every outcome of reading and parsing (a line that is not UTF-8 fails like
one that is too long), with the exact limit of 4096 bytes with and without its
line feed; two lines give a reply before and after
each, and the panic on one connection falls anywhere into the service of the
other. The verdicts on a list are gone through by `handshake`, with every list
of up to four items of six. *Client*: two
sources tell the first one from the last; the interval exceeds the read timeout
as in the defaults. *Generator*: small constants that meet the same assumption
as the source's (checked by `SourceConstants` in `MCQuoteGenerator`), with the
clamp at 1 reachable; the intervals include zero. *Keep-alive*: the source's own
numbers, with the budget used up to 0 ticks (4 + 2 · 21 + 4 = 50). *Backlog*: a worker
slower than the generator for long enough to fall behind by more than two
intervals, and a delay that is no multiple of the interval; the bounds without
`Behind` are violated there. That they hold for a worker that is not slower is
`BacklogKeepsUp`.
*System*: two runs on a port are the least with an old and a new one, the third
is the neighbour and the refused request. *XorShift*: shifts and multiplier of
the source do not fit eight bits; the ones chosen are as full of carries, and the
mantissa of four bits makes the rounding to 1.0 happen. *Handshake*: two
lines of two items have a comma inside a line, between lines and around blanks;
the long names and the blanks each make requests of exactly the limit and one
byte more. What these bounds leave open for the invariants is closed by the proofs: files of
any number of lines, lines of any number of items, names and blanks of any size.

Fairness. Weak fairness of each thread (the operating system schedules it, and a
mutex holder is scheduled too) and of time in the timed modules. Nothing is
assumed of peers, clients, the user, the network or the hub as seen by the
worker; `Recv` in the hub is fair because a worker that has not ended returns to
`recv_timeout` after each batch. Receive errors, failures and Ctrl+C are never
fair. `Generator` in the hub is fair as one action: lock acquisition cannot be
starved in the model beyond the finitely many calls of `subscribe`. In
`KeepAlive` fairness is of time and of what must happen by a moment, in
`StreamSystem` of handlers, workers, time and the reading of an answer, in
`Handshake` of the two programs, the handler with both its steps; clients that
end, lost datagrams and failures are never fair. `CommandServer`, `StreamSystem` and `Handshake` run without
deadlock checking: programs exit there.

## 4. Findings

Two runs are violated on purpose: each checks what the repository says of the
program and shows that the code does something else.

* `commands_malformed`: the ERR line of an unknown command echoes `&raw[..200]`
  (`server/run.rs:124`). A STREAM line whose address does not parse is such a
  command; when its trimmed text is longer than 200 bytes and byte 200 lies
  inside a multi-byte character the slice panics. The connection is closed
  without an answer, while the repository's README (lines 56 and 59) says that
  STREAM is answered by one line, `ERR` when its parameters are wrong. The panic
  stays in its handler thread: `Served` and `InOrder` hold with it.
* `system_restart`: a client takes every quote that reaches its port and pins the
  source of the first (`client/udp_recv.rs:137`). Started again on its port within
  the keep-alive timeout it shows tickers of its earlier run, against the
  assertion of `tests/multi_client_integration.rs:192`, and its PINGs keep the
  old worker alive while its own is cut. `OwnStream` says when this cannot happen.

## 5. Proofs

All theorems hold for every value of the constants that meets the named
assumptions of the modules (natural-number bounds and timings, a read timeout and
ping interval of at least one tick, `NoAddr` not a source, the volume assumption,
rates with an interval of at least one tick, sets of lines and of names, lines of a file with at
least one item as splitting leaves them, and addresses of at least the six bytes
of `[::]:0`, the shortest a `SocketAddr` is written as).

**QuoteHubProofs.** `IInv` is `TypeOK /\ MutualExclusion /\ NoWaste /\ NoGap /\
ListedOnce`. `NoGap` alone is not inductive: that a fan-out reaches each
subscriber once needs that it is listed once (`ListedOnce`), that the list does
not change under the walk (`MutualExclusion`), and that a fresh subscriber has an
empty queue (`NoWaste`). One lemma per action; `GenSend` and `SubscribePush` are
the long ones. From it: the five invariants, `StableWhileWalked` (only the push
changes the list, and the mutex excludes it during a walk), and
`HubImplementsFeed`: `GenLock` maps to `Publish`, `SubscribePush` to `Join`,
`Recv` to `Deliver` (`NoGap` gives that what is received is what is owed),
`DropRx` to `Leave`, and everything else stutters.

**StreamWorkerProofs.** `Silence` follows from `WaitBound` and `SendBound`: while
the thread waits, `age + recvTimer` is at most the two timeouts plus the ticks
lost, and while it sends so is `age`. `StopIsPrompt` needs `LateOnce` (a thread
past its test of the flag has sent nothing late yet), `NothingLate` and
`PutHasQuote`.

**StreamClientProofs.** `EndsInTime` adds up the waits: `ReadBound` for the
receive loop (with a duration, one tick of the wait lies before the deadline,
hence the strict bound), `JoinBound` for the pinger's last sleep, which runs
beside the wait after Ctrl+C and after it with a duration; `NotEnding` anchors
the clock and `StopFlag` orders flag and join. `LatePing` gives `PingsStop`,
`Pin` gives `PingsFirstSource`, `Started` gives `NothingLeftBehind`.

**QuoteGeneratorProofs.** `SteppedInRange` (from `DriftMonotone`, a fact about
integer division) keeps volumes within 1 and the largest start volume, so the
`u32`/`i32` casts of `step_ticker` are exact; `Rested` makes `Paced` inductive.

**KeepAliveProofs.** `Survives` needs an account of `age` at every moment of a
running client: before the first quote it is at most `QuoteGap` and nothing is
under way (`BeforeFirst`); with nothing under way it is what the first quote, the
lost PINGs and the current sleep cost (`SleepAge`); with PINGs under way one of
them left by `LatestSend` (`FlightAge`), all as long as the ping thread listens.
Within the budget the deadline is then never exceeded (`InBudget`); `WithinBudget`
is used for that and nowhere else. `Silent` follows from `GoneAge` (a PING under
way is older than the end of the client, so `last_ping` is set at most `NetDelay`
after it) and `TurnAge` (the deadline was kept at the last turn).

**BacklogProofs.** A leaky bucket: `Bucket` says that the work queued, the work in
hand and the time since the last batch exceed an interval by no more than the
ticks lost and `Behind`, where work is counted in intervals and what a batch costs
beyond one is put down when it is taken; `Waited` says it of each queued batch and
what is before it with its age in place of that time, `HeldAge` of the batch in
hand. `Bounded` follows from `Bucket`, `Fresh` from the other two, and
`BacklogKeepsUp` from both, because `Behind` is then 0.

The same module has the proofs about `XorShift`. A word that is not zero has a
lowest bit that is set, which an xor with a left shift by at least one keeps, and
a highest one, which an xor with a right shift keeps, so that no step gives zero,
for every width and shift. `DrawsInRange` needs that a draw is below 2^Width
(`OutputDraws`), that the rounding to an f64 has an ulp (`UlpExists`, a power of
two), and that 2^k times 2^(Width - k) is 2^Width (`PowersMultiply`): rounding up
then reaches 2^Width at the most, and a share of `e` reaches `e` at the most.
`ComputedIsStepped` joins the two modules: what `step_ticker` computes from two
draws is in the set `Stepped` from which `QuoteGenerator` chooses.

**ProtocolProofs, CommandServer.** The invariant compares, per connection, five sequences
that different steps extend: the lines that call for an answer, those of them
that are granted, the replies, the OKs among these, and the subscriptions made.
`HandlerInv` says how far each is behind the other at every place of the handler
(a reply is owed between reading and writing, a subscription between writing OK
and `subscribe`) and that the command in hand is the last line read; `StopInv`
ties the one late connection to the place of the accept loop. `InOrder` alone is
not inductive: the reply written next is right only because `cmd` is the parse of
the last line. `ParsedRight` shows that the code's parsing and validation
(`Parse`, `ValidateStreamCommand`, which compares the size of a set with the
length of a list) give the answer that the rules of the repository's README,
written separately as `Acceptable`, ask for; it rests on `SizesTellOnce` and on
lemmas about `Keep`. `OneHandler` reduces a step of one connection to that
connection, so the number of connections does not matter.

**ProtocolProofs, Handshake.** None of the three invariants is inductive: they
speak of a run that has ended, or of an answer, and not of how it came about.
`RunInv` adds that: the request is the line made of the file of this run
(`RunLine`), the answer and the grant are those the listener makes of that very
line unless the connection broke (`AnsweredBy`), where the grant is what the
handler is about to subscribe or has subscribed (`Handed`), and a run ends by the verdict on
its answer or by an error before it sent anything (`Verdict`). The rest is about
lists.
`Agreed` and `NotRefused` compare the file, place by place, with what the server
parses out of the line after empty lines were dropped, the others joined, the
whole split again and blanks removed (`Tickers`). `TickersAppend` says that a
line more adds its names to that list and nothing else, `FileAppend` that it adds
as many places, and `FilePlaces`, by induction over the file, that there are as
many tickers as places and that they are the same names. Then the comparison of
sizes in `validate_stream_command` is a statement about places: a map of a finite
set onto one of the same size is one to one (`ValidFile`). `ReplyReadable` needs
that a list is no smaller than each of its items (`SizeCovers`) and that the name
said back was in the list (`UnknownFits`): `STREAM udp://`, an address and
a space are together no shorter than `ERR unknown ticker: `, and of the same
length for the shortest address.

**StreamSystemProofs.** `OwnStream` is about what was shown, and says nothing of
what is still under way. `Exclusive` (a port has one socket) and `Alone` (while a
client that found its port clean holds it, nobody else has a request, a worker or
a datagram for that port) make it inductive: a request for a port is made only by
the client that holds it, and everything else that could arrive there comes from
a request (`NothingNew`). `Asked` (a worker streams what its own client asked
for) then gives `SystemCleanOnlySubscribed`, the part of the assertion of
`tests/multi_client_integration.rs` that section 4 leaves standing.

**Induction over data.** The library's induction theorems take an operator as a
parameter and cannot be used here. The proofs that need one argue by a least
counterexample instead, a fact about *sets* of natural numbers (`LeastNat`, from
well-foundedness), and `AppendInduction` carries that over to sequences: a set
with the empty sequence that is closed under `Append` has them all. A recursive
function is first shown to exist (`CollectsExists`, `RecursionExists`,
`Recursion`). So `Keep`, `Joined`, `SizeOfItems`, the powers of two and the value
of a word are recursive functions in the models, where `SelectSeq`, `FlattenSeq`,
`^` and a fold would be closed to the provers.

**Only model-checked:** the liveness properties (`Delivered`, `NoOrphan`,
`Served`, `CtrlCExits`, `Ends`, `KeepsEmitting`, `CutAfterGone`, `Answered`,
`NoStray`), which are beyond this prover. Every invariant and every action
property of a passing run is proved.

## 6. What the results mean for a reader of the code

* A worker may send quotes for up to the keep-alive timeout *plus* one wait on
  the channel after the last PING: the deadline is tested before the wait.
* After a stop, one quote and one PONG can still leave; not more.
* A subscriber entry is never removed from the hub (`ListedOnce`); a dead
  receiver costs a filter per batch for ever, but queues nothing (`NoWaste`).
* A client with a long ping interval ends late: it joins a sleeping pinger.
* With the defaults a stream survives one lost PING in a row, not two, and only if
  the first quote and the way of a PING take less than a second together. An
  emit interval or a ping interval of five seconds or more ends every stream.
* A worker that sends a batch within an emit interval makes up for its delays, and
  they do not add up (`BacklogKeepsUp`). A slower one falls behind by its excess
  for each batch it takes, and since nothing limits the channel, without end: the
  emit interval, an argument, has to be chosen for the slowest worker.
* A client that died before it read OK still gets a stream, for the timeout.
* A client whose worker cannot bind its UDP socket was told OK and gets nothing
  (`Subscribe` of `StreamSystem`, `server/streaming.rs:33`).
* A ticker file whose STREAM line exceeds 4096 bytes is refused by closing the
  connection, not by ERR (`net.rs:54`); blanks around commas inside a line of the
  file count (`server/tickers.rs:35` trims only its ends); the branch of `Command::parse` for such
  lines is never reached from the network.
* Prices fall without a floor. A step multiplies by 1 + k/10000 with k uniform in
  -200 .. 200 (`server/generator.rs:252`), whose mean logarithm is about -6.7e-5:
  a factor e every 15000 batches. At the default interval of 1 ms a price of 1000
  is at 1e-27 after some 17 minutes, and after about three hours, below 25 units
  of 2^-1074, no step changes it any more. This is arithmetic, not a result of a
  run.
* OK is written before the subscription exists; in between only the end of the
  process can prevent it (`OkMeansSubscribed`).

## 7. Plan

Done: all modules of section 2 and the proofs of section 5. A change to the code
starts at `PROJECT.json`, which maps each definition to its lines; the invariants
`IInv` and `RunInv` say what a changed step has to keep. Liveness stays with TLC.

## 8. Not modelled

Quote format (`model.rs`: serialization by a library, and a text format only its
tests use; data without control). The text of errors and logs, and the variants
of the error enums that no code makes. The parsing of arguments by clap, and the
READY line, which only test programs read. The wall-clock timestamp of a quote,
which may go back when the clock is set, and f64 prices, whose behaviour shows
only over millions of products. The compiled-in ticker list, a constant set here.
`udp_send_all`, whose loop runs once because a datagram is sent whole.
`set_read_timeout` on the worker's socket, whose failure the code ignores, is
assumed to succeed. Everything that is only printed or logged.
