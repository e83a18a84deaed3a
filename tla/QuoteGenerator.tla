---------------------------- MODULE QuoteGenerator ---------------------------
(***************************************************************************)
(* The quote generator, src/src/server/generator.rs: the volume walk of    *)
(* every ticker and the pacing of advance_batch, in which each batch is    *)
(* regenerated first and then held back until emit_interval has passed     *)
(* since the end of the previous one.                                      *)
(*                                                                         *)
(* The pseudo-random generator is abstracted to a choice from the range of *)
(* each draw.  next_f64_01 divides by 2^64 as an f64 and a draw close to   *)
(* 2^64 is rounded up to it, so 1.0 itself is in its range.  Prices are    *)
(* f64 and left out.  Time is discrete and relative: elapsed is measured   *)
(* from last_emit_end.                                                     *)
(***************************************************************************)
EXTENDS Integers

CONSTANTS
  Tickers,        \* ticker_order, as a set
  Popular,        \* POPULAR_TICKERS
  StartMin,       \* VOLUME_START_MIN
  StartMod,       \* VOLUME_START_MOD
  PopularBase,    \* POPULAR_VOLUME_BASE
  PopularExtra,   \* POPULAR_VOLUME_EXTRA
  DefaultBase,    \* DEFAULT_VOLUME_BASE
  DefaultExtra,   \* DEFAULT_VOLUME_EXTRA
  DriftDivisor,   \* VOLUME_DRIFT_DIVISOR
  Intervals       \* emit intervals a caller may set, in ticks

\* The largest start volume.
VolumeCap == StartMin + StartMod - 1

\* What the constants of generator.rs satisfy: no draw exceeds the largest
\* start volume.
ASSUME VolumeAssumption ==
  /\ StartMin \in Nat \ {0} /\ StartMod \in Nat \ {0} /\ DriftDivisor \in Nat \ {0}
  /\ PopularBase \in Nat /\ PopularExtra \in Nat
  /\ DefaultBase \in Nat /\ DefaultExtra \in Nat
  /\ PopularBase + PopularExtra + VolumeCap \div DriftDivisor <= VolumeCap
  /\ DefaultBase + DefaultExtra + VolumeCap \div DriftDivisor <= VolumeCap
ASSUME IntervalsAssumption == Intervals \subseteq Nat /\ Intervals # {}

VARIABLES
  pc,        \* "new" before the first batch, "idle" between two calls of
             \* advance_batch, "regen", "sleep" or "emit" inside one
  interval,  \* emit_interval
  elapsed,   \* time since last_emit_end, capped
  sleepLeft, \* what is left of thread::sleep
  volume,    \* last_volume
  quotes     \* the volumes in current_batch; last_volume at its rebuild

vars == <<pc, interval, elapsed, sleepLeft, volume, quotes>>

\* Cap on elapsed: beyond every interval all times are alike.
Late(n) == \A i \in Intervals : i < n

\* new_with_seed_interval_for; current_batch is empty, which no caller sees.
Init ==
  /\ pc = "new"
  /\ interval \in Intervals
  /\ elapsed = 0
  /\ sleepLeft = 0
  /\ volume \in [Tickers -> StartMin .. VolumeCap]
  /\ quotes = volume

BaseOf(t) == IF t \in Popular THEN PopularBase ELSE DefaultBase
ExtraOf(t) == IF t \in Popular THEN PopularExtra ELSE DefaultExtra

\* Mutant: the volume is used as it comes.
Unclamped(n) == n

\* if new_volume < 1 { new_volume = 1 }
Clamped(n) == IF n < 1 THEN 1 ELSE n

\* step_ticker: the volumes that may follow an old one.
Stepped(t, old) ==
  {Clamped(BaseOf(t) + add + d) : add \in 0 .. ExtraOf(t),
                                  d \in -(old \div DriftDivisor) .. (old \div DriftDivisor)}

\* The first advance_batch: a snapshot of the start values, at once.
FirstBatch ==
  /\ pc = "new"
  /\ quotes' = volume
  /\ elapsed' = 0
  /\ pc' = "idle"
  /\ UNCHANGED <<interval, sleepLeft, volume>>

\* A later advance_batch begins: every ticker takes a step.
Regenerate ==
  /\ pc = "idle"
  /\ \E v \in [Tickers -> UNION {Stepped(t, volume[t]) : t \in Tickers}] :
       /\ \A t \in Tickers : v[t] \in Stepped(t, volume[t])
       /\ volume' = v
  /\ pc' = "regen"
  /\ UNCHANGED <<interval, elapsed, sleepLeft, quotes>>

\* Mutant: the wait is counted from the end of the regeneration.
WaitInFull == interval

\* Mutant: the difference is not checked.
WaitUnchecked == interval - elapsed

\* checked_duration_since: what is missing to the deadline, or nothing.
Wait == IF elapsed < interval THEN interval - elapsed ELSE 0

\* after_regen is taken and the thread sleeps until the deadline.
Measure ==
  /\ pc = "regen"
  /\ sleepLeft' = Wait
  /\ pc' = "sleep"
  /\ UNCHANGED <<interval, elapsed, volume, quotes>>

WakeUp ==
  /\ pc = "sleep"
  /\ sleepLeft = 0
  /\ pc' = "emit"
  /\ UNCHANGED <<interval, elapsed, sleepLeft, volume, quotes>>

\* rebuild_batch, then last_emit_end = now.
Emit ==
  /\ pc = "emit"
  /\ quotes' = volume
  /\ elapsed' = 0
  /\ pc' = "idle"
  /\ UNCHANGED <<interval, sleepLeft, volume>>

\* set_emit_interval, between two calls.
SetEmitInterval ==
  /\ pc \in {"new", "idle"}
  /\ interval' \in Intervals
  /\ UNCHANGED <<pc, elapsed, sleepLeft, volume, quotes>>

\* Time passes, also while the thread could run.
Tick ==
  /\ elapsed' = IF Late(elapsed) THEN elapsed ELSE elapsed + 1
  /\ sleepLeft' = IF pc = "sleep" /\ sleepLeft > 0 THEN sleepLeft - 1 ELSE sleepLeft
  /\ UNCHANGED <<pc, interval, volume, quotes>>

Next ==
  \/ FirstBatch
  \/ Regenerate
  \/ Measure
  \/ WakeUp
  \/ Emit
  \/ SetEmitInterval
  \/ Tick

\* The hub's thread calls advance_batch again and again, and time goes on.
Fairness ==
  WF_vars(FirstBatch \/ Regenerate \/ Measure \/ WakeUp \/ Emit) /\ WF_vars(Tick)

Spec == Init /\ [][Next]_vars /\ Fairness

-------------------------------------------------------------------------------
(* Properties *)

TypeOK ==
  /\ pc \in {"new", "idle", "regen", "sleep", "emit"}
  /\ interval \in Intervals
  /\ elapsed \in Nat
  /\ sleepLeft \in Nat
  /\ volume \in [Tickers -> Int]
  /\ quotes \in [Tickers -> Int]

\* However long the walk, every volume is at least 1 and at most the largest
\* start volume: the casts between u32 and i32 in step_ticker are exact and
\* its additions do not overflow (generator.rs:260-279).
VolumeInRange ==
  \A t \in Tickers : volume[t] \in 1 .. VolumeCap /\ quotes[t] \in 1 .. VolumeCap

\* A batch leaves no sooner than emit_interval after the end of the previous
\* one, and the sleep the thread asks for ends at that moment: a regeneration
\* that overran its interval is neither made up for by a burst nor paid twice
\* (generator.rs:184-201).
Paced ==
  /\ pc = "emit" => elapsed >= interval
  /\ pc = "sleep" /\ sleepLeft > 0 => elapsed + sleepLeft = interval

\* The stream of batches never dries up.
KeepsEmitting == []<>(pc = "emit")
==============================================================================
