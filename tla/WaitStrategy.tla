---------------------------- MODULE WaitStrategy ----------------------------
(***************************************************************************)
(* The wait strategies of crates/core-engine/src/sync/wait_strategy.rs in  *)
(* the loop that uses them, pop_blocking of crates/core-engine/src/lib.rs: *)
(* poll, reset the strategy after an item, idle after none.  The queue is  *)
(* what SpscRing implements, a bounded FIFO queue; an item is the time it  *)
(* has waited.                                                             *)
(*                                                                         *)
(* Time passes in units, while the consumer spins, yields or sleeps.  The  *)
(* counters that saturate are cut where their value stops to matter.       *)
(*                                                                         *)
(* An observer watches for bursts, by the times of the pops alone: from a  *)
(* pop it picks it counts BurstTicks pops in less than a Window, and gives *)
(* up when they come too slowly or the strategy is promoted meanwhile.     *)
(***************************************************************************)
EXTENDS Naturals, Sequences, FiniteSetsExt

CONSTANTS UsedTiers,              \* HardwareTier: 1, 2 or 3
          SpinLimit, YieldLimit,  \* of HybridAdaptive; PowerEfficient has no yields
          MinSleep, MaxSleep,     \* current_sleep_us starts at the one, ends at the other
          ParkTimeout,            \* argument of park_timeout
          Threshold,              \* burst_threshold_ticks
          Window, Decay,          \* window_duration, burst_decay_duration
          N,                      \* capacity of the queue
          BurstTicks              \* the observer's: pops in a window that make a burst

ASSUME WaitAssumption ==
  /\ UsedTiers \subseteq 1..3
  /\ {SpinLimit, YieldLimit, MinSleep, MaxSleep, ParkTimeout, Threshold, Window, Decay, N, BurstTicks} \subseteq Nat
  /\ 0 < MinSleep /\ MinSleep <= MaxSleep /\ 0 < ParkTimeout /\ 0 < BurstTicks

VARIABLES tier,
          counter, current_sleep,         \* of the inner strategy
          window_age,                     \* time since window_start
          ticks_in_window,
          burst_left,                     \* time to burst_until; 0 when there is none or it is past
          wpc,                            \* "ready" to poll, "spinning" or "asleep"
          wake_in,                        \* rest of the sleep
          queue,                          \* the waiting items, by the time they have waited
          quiet,                          \* the producer has stopped for good
          watch                           \* observer: pops counted; time since the first of
                                          \* them, or since the last once all have come

strategyVars == <<counter, current_sleep, window_age, ticks_in_window, burst_left>>
waitVars == <<tier, strategyVars, wpc, wake_in, queue, quiet, watch>>

\* for_tier: Busy, Burst over Hybrid, Power.
Kind == CASE tier = 3 -> "Busy" [] tier = 2 -> "Burst" [] OTHER -> "Power"

NoWatch == [ticks |-> 0, age |-> 0]

WaitInit ==
  /\ tier \in UsedTiers /\ counter = 0 /\ current_sleep = MinSleep
  /\ window_age = 0 /\ ticks_in_window = 0 /\ burst_left = 0
  /\ wpc = "ready" /\ wake_in = 0 /\ queue = << >> /\ quiet = FALSE
  /\ watch = NoWatch

-----------------------------------------------------------------------------
(* The environment: the producer and time                                  *)

Arrive ==
  /\ ~quiet /\ Len(queue) < N /\ queue' = Append(queue, 0)
  /\ UNCHANGED <<tier, strategyVars, wpc, wake_in, quiet, watch>>

GoQuiet ==
  /\ ~quiet /\ quiet' = TRUE
  /\ UNCHANGED <<tier, strategyVars, wpc, wake_in, queue, watch>>

Pass ==
  /\ wpc \in {"spinning", "asleep"}
  /\ queue' = [i \in 1..Len(queue) |-> queue[i] + 1]
  /\ window_age' = Min({window_age + 1, Window})
  /\ burst_left' = IF burst_left > 0 THEN burst_left - 1 ELSE 0
  /\ watch' = [watch EXCEPT !.age = Min({watch.age + 1, Window})]
  /\ IF wake_in > 1 THEN wake_in' = wake_in - 1 /\ UNCHANGED wpc
                    ELSE wake_in' = 0 /\ wpc' = "ready"
  /\ UNCHANGED <<tier, counter, current_sleep, ticks_in_window, quiet>>

\* A spin or a yield takes less than a unit.
SpinEnds ==
  /\ wpc = "spinning" /\ wpc' = "ready"
  /\ UNCHANGED <<tier, strategyVars, wake_in, queue, quiet, watch>>

-----------------------------------------------------------------------------
(* reset                                                                   *)

\* reset of the inner strategy.
ResetInner == counter' = 0 /\ current_sleep' = MinSleep

\* Mutant: the tick that closes the window is not counted in it.
RecordTick_ClosesFirst ==
  LET ticks  == Min({ticks_in_window + 1, Threshold})
      closes == window_age >= Window
  IN  /\ burst_left' = IF closes /\ ticks_in_window >= Threshold THEN Decay ELSE burst_left
      /\ window_age' = IF closes THEN 0 ELSE window_age
      /\ ticks_in_window' = IF closes THEN 0 ELSE ticks

\* record_tick: the window is looked at only when a tick comes.
RecordTick ==
  LET ticks  == Min({ticks_in_window + 1, Threshold})
      closes == window_age >= Window
  IN  /\ burst_left' = IF closes /\ ticks >= Threshold THEN Decay ELSE burst_left
      /\ window_age' = IF closes THEN 0 ELSE window_age
      /\ ticks_in_window' = IF closes THEN 0 ELSE ticks

\* What the observer makes of a pop.
Watched(w) ==
  IF burst_left' = Decay \/ w.age >= Window THEN NoWatch
  ELSE IF w.ticks + 1 < BurstTicks THEN [w EXCEPT !.ticks = w.ticks + 1]
  ELSE IF w.ticks + 1 = BurstTicks THEN [ticks |-> BurstTicks, age |-> 0]
  ELSE w

\* It goes on watching or starts anew.
Observe == watch' \in {Watched(watch), Watched(NoWatch)}

\* pop_blocking got an item: reset, then the caller comes back for the next one.
Pop ==
  /\ wpc = "ready" /\ queue # << >> /\ queue' = Tail(queue)
  /\ CASE Kind = "Busy"  -> UNCHANGED <<strategyVars, watch>>
       [] Kind = "Power" -> ResetInner /\ UNCHANGED <<window_age, ticks_in_window, burst_left, watch>>
       [] OTHER          -> ResetInner /\ RecordTick /\ Observe
  /\ UNCHANGED <<tier, wpc, wake_in, quiet>>

-----------------------------------------------------------------------------
(* idle and park_timeout                                                   *)

\* is_in_burst_mode, or the strategy that knows nothing else.
SpinsOnly == Kind = "Busy" \/ burst_left > 0

\* Polls without an item before the first sleep.
AwakePolls == IF Kind = "Power" THEN SpinLimit ELSE SpinLimit + YieldLimit

\* Mutant: the counter wraps where it should saturate.
Counted_Wraps(n) == (n + 1) % (SpinLimit + 1)

Counted(n) == Min({n + 1, SpinLimit + YieldLimit + 1})

\* Mutant: the doubling is not capped.
Doubled_Uncapped(us) == us * 2

Doubled(us) == Min({us * 2, MaxSleep})

Idle ==
  /\ wpc = "ready" /\ queue = << >>
  /\ \/ /\ SpinsOnly /\ wpc' = "spinning" /\ UNCHANGED <<counter, current_sleep, wake_in>>
     \/ /\ ~SpinsOnly /\ counter' = Counted(counter)
        /\ IF counter' <= AwakePolls
             THEN wpc' = "spinning" /\ UNCHANGED <<current_sleep, wake_in>>
             ELSE wpc' = "asleep" /\ wake_in' = current_sleep /\ current_sleep' = Doubled(current_sleep)
  /\ UNCHANGED <<tier, window_age, ticks_in_window, burst_left, queue, quiet, watch>>

\* A caller may park instead, for a time it chooses; the counters stay.
Park ==
  /\ wpc = "ready" /\ queue = << >>
  /\ IF SpinsOnly THEN wpc' = "spinning" /\ UNCHANGED wake_in
                  ELSE wpc' = "asleep" /\ wake_in' = ParkTimeout
  /\ UNCHANGED <<tier, strategyVars, queue, quiet, watch>>

-----------------------------------------------------------------------------
Consumer == Pop \/ Idle \/ Park \/ SpinEnds

WaitNext == Arrive \/ GoQuiet \/ Pass \/ Consumer

(* Fairness: the consumer's thread runs, and time goes on even while it spins. *)
WaitSpec == WaitInit /\ [][WaitNext]_waitVars /\ WF_waitVars(Consumer) /\ SF_waitVars(Pass)

-----------------------------------------------------------------------------
(* Properties                                                              *)

LongestSleep == IF Kind = "Busy" THEN 1 ELSE Max({MaxSleep, ParkTimeout})

\* The price of sleeping is bounded: whatever happened before, an item waits no longer than
\* the longest single sleep, the capped one of the backoff or the caller's own.
WakeupBounded == \A i \in 1..Len(queue) : queue[i] <= LongestSleep

\* A burst is noticed although record_tick counts in windows that follow each other and are
\* closed only by a tick: BurstTicks pops in less than a window may be split over two of them,
\* but when there are at least 2 * Threshold - 2, one of the two has Threshold ticks.  So the
\* first pop a window later puts the strategy in burst mode, unless one before it did.
BurstNoticed ==
  [][Kind = "Burst" /\ Pop /\ watch.ticks = BurstTicks /\ watch.age >= Window => burst_left' = Decay]_waitVars

\* When the market goes quiet the strategies of tiers 1 and 2 give up the CPU: the backoff
\* gets to its sleeps, and a burst runs out, although time is only looked at when polling.
QuietSleeps == quiet /\ Kind # "Busy" ~> wpc = "asleep"
=============================================================================
