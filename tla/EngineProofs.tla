---------------------------- MODULE EngineProofs ----------------------------
(***************************************************************************)
(* Proofs about crates/core-engine and crates/amm-virtualizer.  For every  *)
(* tier, limit, sleep, window and queue length an item waits no longer     *)
(* than one sleep and no burst goes unnoticed (WaitStrategy); the          *)
(* book's best levels are the true ones, for feeds and for ladders written *)
(* over each other (OrderBook, AmmBook); roots are exact, v2 ladders show  *)
(* the pool's depth and v2 swaps are fair (AmmPools, AmmBook); for every   *)
(* host the plan that compute_plan makes fits it (Engine).                 *)
(***************************************************************************)
EXTENDS WaitStrategy, AmmBook, Engine, FiniteSetTheorems, WellFoundedInduction, TLAPS

-----------------------------------------------------------------------------
(* The smaller and the larger of two numbers                               *)

\* min of two numbers, as the caps use it.
LEMMA MinOfTwo ==
  ASSUME NEW a \in Nat, NEW b \in Nat
  PROVE  Min({a, b}) \in Nat /\ Min({a, b}) <= a /\ Min({a, b}) <= b /\ Min({a, b}) \in {a, b}
<1>1. \E x \in {a, b} : \A y \in {a, b} : x <= y
  <2>1. CASE a <= b
    BY <2>1
  <2>2. CASE b <= a
    BY <2>2
  <2> QED BY <2>1, <2>2
<1>2. Min({a, b}) \in {a, b} /\ \A y \in {a, b} : Min({a, b}) <= y
  BY <1>1 DEF Min
<1> QED BY <1>2

\* max of two numbers, as the longest sleep uses it.
LEMMA MaxOfTwo ==
  ASSUME NEW a \in Nat, NEW b \in Nat
  PROVE  Max({a, b}) \in Nat /\ a <= Max({a, b}) /\ b <= Max({a, b}) /\ Max({a, b}) \in {a, b}
<1>1. \E x \in {a, b} : \A y \in {a, b} : x >= y
  <2>1. CASE a <= b
    BY <2>1
  <2>2. CASE b <= a
    BY <2>2
  <2> QED BY <2>1, <2>2
<1>2. Max({a, b}) \in {a, b} /\ \A y \in {a, b} : Max({a, b}) >= y
  BY <1>1 DEF Max
<1> QED BY <1>2

-----------------------------------------------------------------------------
(* The inductive invariant                                                 *)

Types ==
  /\ wpc \in {"ready", "spinning", "asleep"}
  /\ current_sleep \in Nat /\ 0 < current_sleep /\ current_sleep <= MaxSleep
  /\ window_age \in Nat /\ ticks_in_window \in Nat /\ burst_left \in Nat /\ wake_in \in Nat
  /\ queue \in Seq(Nat)

\* A strategy that only spins is never asleep, and only a sleep has a rest.
SleepInv ==
  /\ wpc = "asleep" => ~SpinsOnly /\ 0 < wake_in /\ wake_in <= LongestSleep
  /\ wpc # "asleep" => wake_in = 0

\* What an item has waited and the rest of the sleep are one sleep together.  The consumer
\* leaves "ready" only with an empty queue, so that nothing has waited when it spins.
WaitInv ==
  \A i \in 1..Len(queue) : /\ queue[i] + wake_in <= LongestSleep
                           /\ wpc = "spinning" => queue[i] = 0

IndInv == Types /\ SleepInv /\ WaitInv

\* The longest sleep is a positive number, at least every sleep the strategies can start.
LEMMA LongestSleepFacts ==
  /\ LongestSleep \in Nat /\ 1 <= LongestSleep
  /\ Kind # "Busy" => MaxSleep <= LongestSleep /\ ParkTimeout <= LongestSleep
<1>1. MaxSleep \in Nat /\ ParkTimeout \in Nat /\ 1 <= MaxSleep /\ MinSleep \in Nat
  BY WaitAssumption
<1>2. /\ Max({MaxSleep, ParkTimeout}) \in Nat /\ MaxSleep <= Max({MaxSleep, ParkTimeout})
      /\ ParkTimeout <= Max({MaxSleep, ParkTimeout})
  BY <1>1, MaxOfTwo
<1> QED BY <1>1, <1>2 DEF LongestSleep

\* A new strategy polls an empty queue.
LEMMA InitIndInv == WaitInit => IndInv
BY WaitAssumption DEF WaitInit, IndInv, Types, SleepInv, WaitInv

\* Steps that keep the queue, the program counter and the rest of the sleep, and start no
\* burst, keep the bound on the waits.
LEMMA SameWait ==
  ASSUME IndInv, UNCHANGED <<tier, queue, wpc, wake_in>>, burst_left' = burst_left
  PROVE  SleepInv' /\ WaitInv'
BY DEF IndInv, SleepInv, WaitInv, SpinsOnly, Kind, LongestSleep

\* An item arrives during a sleep with no more than the rest of it to wait.
LEMMA ArriveIndInv ==
  ASSUME IndInv, Arrive
  PROVE  IndInv'
<1>1. /\ queue' = Append(queue, 0) /\ queue \in Seq(Nat) /\ wake_in \in Nat
      /\ UNCHANGED <<tier, counter, current_sleep, window_age, ticks_in_window, burst_left, wpc, wake_in>>
  BY DEF Arrive, strategyVars, IndInv, Types
<1>2. wake_in <= LongestSleep
  BY <1>1, LongestSleepFacts DEF IndInv, SleepInv
<1>3. /\ queue' \in Seq(Nat)
      /\ \A i \in 1..Len(queue') : (i \in 1..Len(queue) /\ queue'[i] = queue[i]) \/ queue'[i] = 0
  BY <1>1
<1>4. LongestSleep' = LongestSleep /\ (SpinsOnly' <=> SpinsOnly)
  BY <1>1 DEF LongestSleep, SpinsOnly, Kind
<1>5. Types' /\ SleepInv'
  BY <1>1, <1>3, <1>4 DEF IndInv, Types, SleepInv
<1>6. WaitInv'
  BY <1>1, <1>2, <1>3, <1>4 DEF IndInv, WaitInv
<1> QED BY <1>5, <1>6 DEF IndInv

\* Time goes on: what an item has waited grows as the rest of the sleep shrinks.
LEMMA PassIndInv ==
  ASSUME IndInv, Pass
  PROVE  IndInv'
<1>1. /\ Types /\ queue \in Seq(Nat) /\ wake_in \in Nat /\ wpc \in {"spinning", "asleep"}
      /\ queue' = [i \in 1..Len(queue) |-> queue[i] + 1]
      /\ window_age' = Min({window_age + 1, Window})
      /\ burst_left' = IF burst_left > 0 THEN burst_left - 1 ELSE 0
      /\ IF wake_in > 1 THEN wake_in' = wake_in - 1 /\ wpc' = wpc ELSE wake_in' = 0 /\ wpc' = "ready"
      /\ UNCHANGED <<tier, counter, current_sleep, ticks_in_window>>
  BY DEF Pass, IndInv, Types
<1>2. window_age' \in Nat
  <2>1. window_age + 1 \in Nat /\ Window \in Nat
    BY <1>1, WaitAssumption DEF Types
  <2> QED BY <1>1, <2>1, MinOfTwo
<1>3. queue' \in Seq(Nat) /\ Len(queue') = Len(queue)
      /\ \A i \in 1..Len(queue) : queue'[i] = queue[i] + 1 /\ queue[i] \in Nat
  BY <1>1
<1>4. Types'
  BY <1>1, <1>2, <1>3 DEF Types
<1>5. LongestSleep' = LongestSleep
  BY <1>1 DEF LongestSleep, Kind
<1>6. SleepInv'
  <2>1. SpinsOnly' => SpinsOnly
    BY <1>1 DEF SpinsOnly, Kind, Types
  <2> QED BY <1>1, <1>5, <2>1, LongestSleepFacts DEF IndInv, SleepInv
<1>7. WaitInv'
  <2> SUFFICES ASSUME NEW i \in 1..Len(queue')
               PROVE  queue'[i] + wake_in' <= LongestSleep /\ wpc' # "spinning"
    BY <1>5 DEF WaitInv
  <2>1. /\ i \in 1..Len(queue) /\ queue'[i] = queue[i] + 1 /\ queue[i] \in Nat
        /\ queue[i] + wake_in <= LongestSleep /\ (wpc = "spinning" => queue[i] = 0)
    BY <1>3 DEF IndInv, WaitInv
  <2>2. (wpc = "spinning" => wake_in = 0) /\ (wpc = "asleep" => 0 < wake_in)
    BY DEF IndInv, SleepInv
  <2>3. LongestSleep \in Nat /\ 1 <= LongestSleep
    BY LongestSleepFacts
  <2>4. CASE wpc = "spinning"
    <3>1. wpc' = "ready" /\ wake_in' = 0 /\ queue'[i] = 1
      BY <1>1, <2>1, <2>2, <2>4
    <3> QED BY <2>3, <3>1
  <2>5. CASE wpc = "asleep"
    <3>1. wpc' # "spinning" /\ wake_in' = wake_in - 1
      BY <1>1, <2>2, <2>5
    <3> QED BY <1>1, <2>1, <2>3, <3>1
  <2> QED BY <1>1, <2>4, <2>5
<1> QED BY <1>4, <1>6, <1>7 DEF IndInv

\* An item is taken between sleeps; the tick may begin a burst.
LEMMA PopIndInv ==
  ASSUME IndInv, Pop
  PROVE  IndInv'
<1>1. /\ Types /\ queue \in Seq(Nat) /\ queue # << >> /\ queue' = Tail(queue)
      /\ wpc = "ready" /\ wake_in = 0 /\ UNCHANGED <<tier, wpc, wake_in>>
  BY DEF Pop, IndInv, SleepInv, Types
<1>2. /\ current_sleep' \in {current_sleep, MinSleep}
      /\ \/ UNCHANGED <<window_age, ticks_in_window, burst_left>>
         \/ RecordTick
  BY DEF Pop, ResetInner, strategyVars
<1>3. window_age' \in Nat /\ ticks_in_window' \in Nat /\ burst_left' \in Nat
  <2>1. Min({ticks_in_window + 1, Threshold}) \in Nat
    <3>1. ticks_in_window + 1 \in Nat /\ Threshold \in Nat
      BY <1>1, WaitAssumption DEF Types
    <3> QED BY <3>1, MinOfTwo
  <2> QED BY <1>1, <1>2, <2>1, WaitAssumption DEF Types, RecordTick
<1>4. /\ queue' \in Seq(Nat)
      /\ \A i \in 1..Len(queue') : i + 1 \in 1..Len(queue) /\ queue'[i] = queue[i + 1]
  BY <1>1
<1>5. Types'
  BY <1>1, <1>2, <1>3, <1>4, WaitAssumption DEF Types
<1>6. SleepInv'
  BY <1>1 DEF SleepInv
<1>7. LongestSleep' = LongestSleep
  BY <1>1 DEF LongestSleep, Kind
<1>8. WaitInv'
  BY <1>1, <1>4, <1>7 DEF IndInv, WaitInv
<1> QED BY <1>5, <1>6, <1>8 DEF IndInv

\* Polls without an item: the consumer spins, or starts a sleep within its bounds.
LEMMA IdleIndInv ==
  ASSUME IndInv, Idle \/ Park \/ SpinEnds \/ GoQuiet
  PROVE  IndInv'
<1>1. Types /\ SleepInv /\ WaitInv
  BY DEF IndInv
<1>2. CASE Idle
  <2>1. /\ wpc = "ready" /\ queue = << >> /\ wake_in = 0
        /\ UNCHANGED <<tier, window_age, ticks_in_window, burst_left, queue>>
    BY <1>1, <1>2 DEF Idle, SleepInv
  <2>2. \/ wpc' = "spinning" /\ UNCHANGED <<current_sleep, wake_in>>
        \/ /\ ~SpinsOnly /\ wpc' = "asleep" /\ wake_in' = current_sleep
           /\ current_sleep' = Doubled(current_sleep)
    BY <1>2 DEF Idle
  <2>3. current_sleep \in Nat /\ 0 < current_sleep /\ current_sleep <= MaxSleep /\ MaxSleep \in Nat
    BY <1>1, WaitAssumption DEF Types
  <2>4. Doubled(current_sleep) \in Nat /\ 0 < Doubled(current_sleep) /\ Doubled(current_sleep) <= MaxSleep
    <3>1. current_sleep * 2 \in Nat /\ 0 < current_sleep * 2
      BY <2>3
    <3> QED BY <2>3, <3>1, MinOfTwo DEF Doubled
  <2>5. (SpinsOnly' <=> SpinsOnly) /\ LongestSleep' = LongestSleep
    BY <2>1 DEF SpinsOnly, Kind, LongestSleep
  <2>6. ~SpinsOnly => MaxSleep <= LongestSleep
    BY LongestSleepFacts DEF SpinsOnly
  <2>7. Types'
    BY <1>1, <2>1, <2>2, <2>3, <2>4 DEF Types
  <2>8. SleepInv'
    BY <2>1, <2>2, <2>3, <2>5, <2>6, LongestSleepFacts DEF SleepInv
  <2>9. WaitInv'
    BY <2>1 DEF WaitInv
  <2> QED BY <2>7, <2>8, <2>9 DEF IndInv
<1>3. CASE Park
  <2>1. /\ wpc = "ready" /\ queue = << >> /\ wake_in = 0
        /\ UNCHANGED <<tier, current_sleep, window_age, ticks_in_window, burst_left, queue>>
        /\ \/ wpc' = "spinning" /\ wake_in' = wake_in
           \/ ~SpinsOnly /\ wpc' = "asleep" /\ wake_in' = ParkTimeout
    BY <1>1, <1>3 DEF Park, SleepInv, strategyVars
  <2>2. ParkTimeout \in Nat /\ 0 < ParkTimeout
    BY WaitAssumption
  <2>3. (SpinsOnly' <=> SpinsOnly) /\ LongestSleep' = LongestSleep
    BY <2>1 DEF SpinsOnly, Kind, LongestSleep
  <2>4. ~SpinsOnly => ParkTimeout <= LongestSleep
    BY LongestSleepFacts DEF SpinsOnly
  <2>5. Types' /\ SleepInv' /\ WaitInv'
    BY <1>1, <2>1, <2>2, <2>3, <2>4 DEF Types, SleepInv, WaitInv
  <2> QED BY <2>5 DEF IndInv
<1>4. CASE SpinEnds
  <2>1. /\ wpc = "spinning" /\ wpc' = "ready"
        /\ UNCHANGED <<tier, current_sleep, window_age, ticks_in_window, burst_left, queue, wake_in>>
    BY <1>4 DEF SpinEnds, strategyVars
  <2>2. LongestSleep' = LongestSleep
    BY <2>1 DEF Kind, LongestSleep
  <2>3. Types' /\ SleepInv' /\ WaitInv'
    BY <1>1, <2>1, <2>2 DEF Types, SleepInv, WaitInv
  <2> QED BY <2>3 DEF IndInv
<1>5. CASE GoQuiet
  BY <1>1, <1>5, SameWait DEF GoQuiet, strategyVars, IndInv, Types
<1> QED BY <1>2, <1>3, <1>4, <1>5

\* Every step keeps the invariant.
LEMMA NextIndInv == IndInv /\ [WaitNext]_waitVars => IndInv'
<1> SUFFICES ASSUME IndInv, [WaitNext]_waitVars PROVE IndInv'
  OBVIOUS
<1>1. CASE UNCHANGED waitVars
  BY <1>1, SameWait DEF waitVars, strategyVars, IndInv, Types
<1> QED BY <1>1, ArriveIndInv, PassIndInv, PopIndInv, IdleIndInv DEF WaitNext, Consumer

-----------------------------------------------------------------------------
(* Theorems                                                                *)

\* The inductive invariant holds of every behaviour of pop_blocking.
THEOREM Invariance == WaitSpec => []IndInv
BY InitIndInv, NextIndInv, PTL DEF WaitSpec

\* idle and park_timeout never cost an item more than the longest single sleep, whatever
\* the strategy did before: the doubling of current_sleep_us is capped, and a sleep is
\* only started on an empty queue.
THEOREM WaitsBounded == WaitSpec => []WakeupBounded
<1>1. IndInv => WakeupBounded
  <2> SUFFICES ASSUME IndInv, NEW i \in 1..Len(queue) PROVE queue[i] <= LongestSleep
    BY DEF WakeupBounded
  <2>1. queue[i] \in Nat /\ wake_in \in Nat /\ queue[i] + wake_in <= LongestSleep
    BY DEF IndInv, Types, WaitInv
  <2> QED BY <2>1, LongestSleepFacts
<1> QED BY <1>1, Invariance, PTL

-----------------------------------------------------------------------------
(* Bursts                                                                  *)

\* While the observer counts, the window under way (opened `age' ago, with `ticks') has all the
\* ticks it has counted, or it was opened after the first of them and misses fewer than
\* Threshold; a full one misses nothing.
Counting(w, age, ticks) ==
  ticks = Threshold \/ w.ticks <= ticks \/ (age <= w.age /\ w.ticks < ticks + Threshold)

\* Once all have come, the window under way lacks at most its closing tick, and it was opened
\* before the last of them.
AllCome(w, age, ticks) == Threshold <= ticks + 1 /\ w.age <= age

WatchOk(w, age, ticks) ==
  /\ w \in [ticks : 0..BurstTicks, age : 0..Window]
  /\ w.ticks < BurstTicks => Counting(w, age, ticks)
  /\ w.ticks = BurstTicks => AllCome(w, age, ticks)

BurstInv ==
  /\ window_age \in 0..Window /\ ticks_in_window \in 0..Threshold
  /\ WatchOk(watch, window_age, ticks_in_window)

\* A tick closes the window or is counted in it.
Ticked(age, ticks, left, age2, ticks2) ==
  IF age >= Window
    THEN age2 = 0 /\ ticks2 = 0 /\ (ticks + 1 >= Threshold => left = Decay)
    ELSE age2 = age /\ ticks2 = IF ticks < Threshold THEN ticks + 1 ELSE Threshold

\* What record_tick makes of the window.
LEMMA TickFacts ==
  ASSUME BurstInv, RecordTick
  PROVE  Ticked(window_age, ticks_in_window, burst_left', window_age', ticks_in_window')
<1> USE WaitAssumption
<1>1. ticks_in_window \in 0..Threshold /\ window_age \in 0..Window /\ Threshold \in Nat /\ Window \in Nat
  BY DEF BurstInv
<1> DEFINE t == Min({ticks_in_window + 1, Threshold})
<1>2. t \in Nat /\ t <= ticks_in_window + 1 /\ t <= Threshold /\ t \in {ticks_in_window + 1, Threshold}
  <2>1. ticks_in_window + 1 \in Nat
    BY <1>1
  <2> QED BY <1>1, <2>1, MinOfTwo
<1>3. /\ burst_left' = IF window_age >= Window /\ t >= Threshold THEN Decay ELSE burst_left
      /\ window_age' = IF window_age >= Window THEN 0 ELSE window_age
      /\ ticks_in_window' = IF window_age >= Window THEN 0 ELSE t
  BY DEF RecordTick
<1> HIDE DEF t
<1> QED BY <1>1, <1>2, <1>3 DEF Ticked

\* A pop keeps what the observer knows.  When a window is closed while it counts, that window
\* had fewer than Threshold of its ticks, or the strategy was promoted.
LEMMA WatchedOk ==
  ASSUME 2 * Threshold - 2 <= BurstTicks,
         NEW age \in 0..Window, NEW ticks \in 0..Threshold, NEW left,
         NEW age2, NEW ticks2, Ticked(age, ticks, left, age2, ticks2),
         NEW w, WatchOk(w, age, ticks), NEW v,
         v = IF left = Decay \/ w.age >= Window THEN NoWatch
             ELSE IF w.ticks + 1 < BurstTicks THEN [w EXCEPT !.ticks = w.ticks + 1]
             ELSE IF w.ticks + 1 = BurstTicks THEN [ticks |-> BurstTicks, age |-> 0]
             ELSE w
  PROVE  WatchOk(v, age2, ticks2)
<1> USE WaitAssumption DEF Ticked, Counting, AllCome
<1>1. /\ Threshold \in Nat /\ Window \in Nat /\ BurstTicks \in Nat /\ 0 < BurstTicks
      /\ w \in [ticks : 0..BurstTicks, age : 0..Window] /\ w.ticks \in 0..BurstTicks /\ w.age \in 0..Window
  BY DEF WatchOk
<1>2. age2 \in 0..Window /\ ticks2 \in 0..Threshold
  BY <1>1
<1>3. CASE left = Decay \/ w.age >= Window
  BY <1>1, <1>2, <1>3 DEF NoWatch, WatchOk
<1>4. CASE left # Decay /\ w.age < Window /\ w.ticks < BurstTicks
  <2>1. \/ ticks2 = Threshold \/ w.ticks + 1 <= ticks2
        \/ age2 <= w.age /\ w.ticks + 1 < ticks2 + Threshold
    <3>1. Counting(w, age, ticks)
      BY <1>4 DEF WatchOk
    <3> QED BY <1>1, <1>4, <3>1
  <2>2. CASE w.ticks + 1 < BurstTicks
    <3>1. v = [w EXCEPT !.ticks = w.ticks + 1]
      BY <1>1, <1>4, <2>2
    <3>2. v \in [ticks : 0..BurstTicks, age : 0..Window] /\ v.ticks = w.ticks + 1 /\ v.age = w.age
      BY <1>1, <2>2, <3>1
    <3> QED BY <1>1, <2>1, <2>2, <3>2 DEF WatchOk
  <2>3. CASE w.ticks + 1 = BurstTicks
    <3>1. v = [ticks |-> BurstTicks, age |-> 0]
      BY <1>1, <1>4, <2>3
    <3>2. v \in [ticks : 0..BurstTicks, age : 0..Window] /\ v.ticks = BurstTicks /\ v.age = 0
      BY <1>1, <3>1
    <3>3. Threshold <= ticks2 + 1
      BY <1>1, <1>2, <2>1, <2>3
    <3> QED BY <1>1, <1>2, <3>2, <3>3 DEF WatchOk
  <2> QED BY <1>1, <1>4, <2>2, <2>3
<1>5. CASE left # Decay /\ w.age < Window /\ w.ticks = BurstTicks
  <2>1. v = w
    BY <1>1, <1>5
  <2>2. AllCome(w, age, ticks)
    BY <1>5 DEF WatchOk
  <2> QED BY <1>1, <1>5, <2>1, <2>2 DEF WatchOk
<1> QED BY <1>1, <1>3, <1>4, <1>5

\* Every step keeps the observer's invariant.
LEMMA NextBurstInv ==
  ASSUME 2 * Threshold - 2 <= BurstTicks, BurstInv, [WaitNext]_waitVars
  PROVE  BurstInv'
<1> USE WaitAssumption
<1>1. /\ window_age \in 0..Window /\ ticks_in_window \in 0..Threshold /\ Window \in Nat /\ Threshold \in Nat
      /\ BurstTicks \in Nat /\ 0 < BurstTicks /\ WatchOk(watch, window_age, ticks_in_window)
  BY DEF BurstInv
<1>2. CASE UNCHANGED <<window_age, ticks_in_window, watch>>
  BY <1>2 DEF BurstInv
<1>3. CASE Pass
  <2> DEFINE age == Min({window_age + 1, Window})
             wage == Min({watch.age + 1, Window})
  <2>1. watch \in [ticks : 0..BurstTicks, age : 0..Window] /\ watch.age \in 0..Window
    BY <1>1 DEF WatchOk
  <2>2. /\ age \in {window_age + 1, Window} /\ age <= window_age + 1 /\ age <= Window
        /\ wage \in {watch.age + 1, Window} /\ wage <= watch.age + 1 /\ wage <= Window
    <3>1. window_age + 1 \in Nat /\ watch.age + 1 \in Nat
      BY <1>1, <2>1
    <3> QED BY <1>1, <3>1, MinOfTwo
  <2>3. window_age' = age /\ ticks_in_window' = ticks_in_window /\ watch' = [watch EXCEPT !.age = wage]
    BY <1>3 DEF Pass
  <2> HIDE DEF age, wage
  <2>4. /\ watch' \in [ticks : 0..BurstTicks, age : 0..Window]
        /\ watch'.ticks = watch.ticks /\ watch'.age = wage
    BY <1>1, <2>1, <2>2, <2>3
  <2> QED BY <1>1, <2>1, <2>2, <2>3, <2>4 DEF BurstInv, WatchOk, Counting, AllCome
<1>4. CASE RecordTick /\ Observe
  <2>1. Ticked(window_age, ticks_in_window, burst_left', window_age', ticks_in_window')
    BY <1>4, TickFacts
  <2>2. window_age' \in 0..Window /\ ticks_in_window' \in 0..Threshold
    BY <1>1, <2>1 DEF Ticked
  <2>3. WatchOk(NoWatch, window_age, ticks_in_window)
    BY <1>1 DEF WatchOk, NoWatch, Counting
  <2>4. PICK w \in {watch, NoWatch} : watch' = Watched(w)
    BY <1>4 DEF Observe
  <2>5. WatchOk(w, window_age, ticks_in_window)
    BY <1>1, <2>3, <2>4
  <2>6. WatchOk(watch', window_age', ticks_in_window')
    BY <1>1, <2>1, <2>4, <2>5, WatchedOk DEF Watched
  <2> QED BY <2>2, <2>6 DEF BurstInv
<1>5. CASE UNCHANGED waitVars
  BY <1>2, <1>5 DEF waitVars, strategyVars
<1>6. CASE Pop
  BY <1>2, <1>4, <1>6 DEF Pop, strategyVars
<1>7. CASE Arrive \/ GoQuiet \/ Idle \/ Park \/ SpinEnds
  BY <1>2, <1>7 DEF Arrive, GoQuiet, Idle, Park, SpinEnds, strategyVars
<1> QED BY <1>3, <1>5, <1>6, <1>7 DEF WaitNext, Consumer

\* For every threshold, window and decay: when 2 * Threshold - 2 ticks or more came in less
\* than a window and record_tick has not promoted the strategy since the first of them, the
\* first tick a window later does.  The windows follow each other and may split the burst.
THEOREM BurstsNoticed ==
  ASSUME 2 * Threshold - 2 <= BurstTicks
  PROVE  WaitSpec => BurstNoticed
<1> USE WaitAssumption
<1>1. WaitInit => BurstInv
  BY DEF WaitInit, BurstInv, WatchOk, NoWatch, Counting
<1>2. ASSUME BurstInv, Kind = "Burst", Pop, watch.ticks = BurstTicks, watch.age >= Window
      PROVE  burst_left' = Decay
  <2>1. RecordTick
    BY <1>2 DEF Pop
  <2>2. Ticked(window_age, ticks_in_window, burst_left', window_age', ticks_in_window')
    BY <1>2, <2>1, TickFacts
  <2>3. Threshold <= ticks_in_window + 1 /\ window_age >= Window
    BY <1>2 DEF BurstInv, WatchOk, AllCome
  <2> QED BY <2>2, <2>3 DEF Ticked
<1>3. BurstInv /\ [WaitNext]_waitVars =>
        [Kind = "Burst" /\ Pop /\ watch.ticks = BurstTicks /\ watch.age >= Window => burst_left' = Decay]_waitVars
  BY <1>2
<1> QED BY <1>1, <1>3, NextBurstInv, PTL DEF WaitSpec, BurstNoticed

-----------------------------------------------------------------------------
(* Products, squares and quotients                                         *)

\* Products keep the order of their factors.
LEMMA ProductOrder ==
  ASSUME NEW a \in Nat, NEW b \in Nat, NEW c \in Nat
  PROVE  /\ a * c \in Nat
         /\ a <= b => a * c <= b * c
         /\ a < b /\ c > 0 => a * c < b * c
         /\ a * c < b * c => a < b
         /\ a * c <= b * c /\ c > 0 => a <= b
<1>1. a * c \in Nat /\ b * c \in Nat
  BY SMT
<1>2. a <= b => a * c <= b * c
  BY SMT
<1>3. a < b /\ c > 0 => a * c < b * c
  BY SMT
<1>4. b <= a => b * c <= a * c
  BY SMT
<1>5. b < a /\ c > 0 => b * c < a * c
  BY SMT
<1> QED BY <1>1, <1>2, <1>3, <1>4, <1>5, SMT

\* So do squares.
LEMMA SquareOrder ==
  ASSUME NEW a \in Nat, NEW b \in Nat
  PROVE  (a <= b => a * a <= b * b) /\ (a < b => a * a < b * b)
<1>1. a <= b => a * a <= a * b /\ a * b <= b * b
  BY SMT
<1>2. a < b => a * a <= a * b /\ a * b < b * b
  BY SMT
<1> QED BY <1>1, <1>2, SMT

\* Division cuts: a quotient is within one of the exact one.
LEMMA Quotient ==
  ASSUME NEW a \in Nat, NEW b \in Nat \ {0}
  PROVE  /\ a \div b \in Nat
         /\ (a \div b) * b <= a /\ a < ((a \div b) + 1) * b
<1>1. a \div b \in Nat /\ a = b * (a \div b) + (a % b) /\ a % b \in 0..b-1
  BY SMT
<1>2. (a \div b) * b = b * (a \div b) /\ ((a \div b) + 1) * b = b * (a \div b) + b
  BY <1>1, SMT
<1> QED BY <1>1, <1>2, SMT

-----------------------------------------------------------------------------
(* The order book                                                          *)

\* Every nonempty set of numbers has a least one.
LEMMA LeastOfSet ==
  ASSUME NEW S \in SUBSET Nat, S # {}
  PROVE  \E x \in S : \A y \in S : x <= y
<1> DEFINE R == {ss \in Nat \X Nat : ss[1] < ss[2]}
<1>1. IsWellFoundedOn(R, Nat)
  BY NatLessThanWellFounded, Zenon DEF OpToRel
<1>2. \A x, y \in Nat : <<x, y>> \in R <=> x < y
  OBVIOUS
<1> HIDE DEF R
<1>3. PICK x \in S : \A y \in S : ~(<<y, x>> \in R)
  BY <1>1, WFMin
<1>4. \A y \in S : x \in Nat /\ y \in Nat /\ ~(y < x)
  BY <1>2, <1>3
<1> QED BY <1>4

Level == [price : Nat, quantity : Nat]
BookFields == {"bids", "best_bid_idx", "asks", "best_ask_idx"}

\* The levels with a quantity have prices that the recalculations look for.
Priced(side) ==
  \A i \in Indices : side[i].quantity > 0 => 0 < side[i].price /\ side[i].price < MaxPrice

\* at is the level with the best price; any level will do while none has a quantity.
Highest(side, at) ==
  \A j \in Indices : side[j].quantity > 0 => side[at].quantity > 0 /\ side[j].price <= side[at].price
Lowest(side, at) ==
  \A j \in Indices : side[j].quantity > 0 => side[at].quantity > 0 /\ side[at].price <= side[j].price

\* The level at has a quantity while any has, and every price is at its own level.
LiveAt(side, at) == \A j \in Indices : side[j].quantity > 0 => side[at].quantity > 0
Placed(side) == \A i \in Indices : side[i].quantity > 0 => Diff(side[i].price) = i

\* A side of a book, with its best index.
BidSide(b) ==
  /\ b.bids \in [Indices -> Level] /\ b.best_bid_idx \in Indices
  /\ Priced(b.bids) /\ Placed(b.bids) /\ LiveAt(b.bids, b.best_bid_idx)
AskSide(b) ==
  /\ b.asks \in [Indices -> Level] /\ b.best_ask_idx \in Indices
  /\ Priced(b.asks) /\ Placed(b.asks) /\ LiveAt(b.asks, b.best_ask_idx)

\* The best index of a side where no price has replaced one across the anchor.
BidBest(b, f) == "bids" \notin f => Highest(b.bids, b.best_bid_idx)
AskBest(b, f) == "asks" \notin f => Lowest(b.asks, b.best_ask_idx)

\* The side with a level written to it.
Written(side, p, q) == [side EXCEPT ![Diff(p)] = [price |-> p, quantity |-> q]]

\* Where p replaces the price of its level, levels below that one are below p, or above.
StaysAbove(side, p) ==
  \A j \in Indices \ {Diff(p)} :
    side[j].quantity > 0 /\ side[Diff(p)].quantity > 0 /\ side[j].price <= side[Diff(p)].price => side[j].price <= p
StaysBelow(side, p) ==
  \A j \in Indices \ {Diff(p)} :
    side[j].quantity > 0 /\ side[Diff(p)].quantity > 0 /\ side[Diff(p)].price <= side[j].price => p <= side[j].price

\* A price of the window has a level.
LEMMA LevelOfPrice ==
  ASSUME NEW p \in Nat
  PROVE  /\ Diff(p) \in Nat /\ (InWindow(p) => Diff(p) \in Indices)
         /\ Prices \subseteq 1..MaxPrice - 1 /\ MaxPrice \in Nat
<1>1. /\ MaxPrice \in Nat /\ Levels \in Nat /\ TickSize \in Nat \ {0} /\ BasePrice \in Nat
      /\ Prices \subseteq 1..MaxPrice - 1
  BY BookAssumption
<1>2. \A n \in Nat : n \div TickSize \in Nat
  BY <1>1
<1>3. Diff(p) \in Nat
  BY <1>1, <1>2 DEF Diff
<1> QED BY <1>1, <1>3 DEF InWindow, Indices

\* Writing a level changes that level.
LEMMA WrittenFacts ==
  ASSUME NEW side \in [Indices -> Level], Priced(side), Placed(side),
         NEW p \in 1..MaxPrice - 1, NEW q \in Nat, InWindow(p)
  PROVE  /\ Diff(p) \in Indices /\ Written(side, p, q) \in [Indices -> Level]
         /\ Priced(Written(side, p, q)) /\ Placed(Written(side, p, q))
         /\ Written(side, p, q)[Diff(p)] = [price |-> p, quantity |-> q]
         /\ \A i \in Indices \ {Diff(p)} : Written(side, p, q)[i] = side[i]
<1> DEFINE l == [price |-> p, quantity |-> q]
<1>1. MaxPrice \in Nat /\ p \in Nat /\ 0 < p /\ p < MaxPrice
  BY BookAssumption
<1>2. Diff(p) \in Indices /\ l \in Level /\ l.price = p
  BY <1>1, LevelOfPrice DEF Level
<1> HIDE DEF l
<1>3. /\ Written(side, p, q) \in [Indices -> Level] /\ Written(side, p, q)[Diff(p)] = l
      /\ \A i \in Indices \ {Diff(p)} : Written(side, p, q)[i] = side[i]
  BY <1>2 DEF Written, l
<1>4. Priced(Written(side, p, q)) /\ Placed(Written(side, p, q))
  BY <1>1, <1>2, <1>3 DEF Priced, Placed
<1> QED BY <1>2, <1>3, <1>4 DEF l

\* recalculate_best_bid and recalculate_best_ask find the best of the levels with a
\* quantity, where there are such levels.
LEMMA Recalculated ==
  ASSUME NEW side \in [Indices -> Level], Priced(side)
  PROVE  /\ RecalculateBestBid(side) \in Indices /\ Highest(side, RecalculateBestBid(side))
         /\ RecalculateBestAsk(side) \in Indices /\ Lowest(side, RecalculateBestAsk(side))
<1> DEFINE live == {i \in Indices : side[i].quantity > 0}
           bid == {i \in Indices : /\ side[i].quantity > 0 /\ side[i].price > 0
                                   /\ \A j \in Indices : side[j].quantity > 0 => side[j].price <= side[i].price}
           ask == {i \in Indices : /\ side[i].quantity > 0 /\ side[i].price < MaxPrice
                                   /\ \A j \in Indices : side[j].quantity > 0 => side[i].price <= side[j].price}
<1>1. /\ \A i \in Indices : side[i].price \in Nat /\ side[i].quantity \in Nat
      /\ \A i \in live : 0 < side[i].price /\ side[i].price < MaxPrice
      /\ MaxPrice \in Nat /\ Indices \subseteq Nat /\ 0 \in Indices
  BY BookAssumption DEF Level, Priced, Indices
<1>2. RecalculateBestBid(side) = IF bid # {} THEN Min(bid) ELSE 0
  <2>1. (\E i \in Indices : /\ side[i].quantity > 0 /\ side[i].price > 0
                            /\ \A j \in Indices : side[j].quantity > 0 => side[j].price <= side[i].price) <=> bid # {}
    OBVIOUS
  <2> QED BY <2>1, Zenon DEF RecalculateBestBid, FirstIndex
<1>3. RecalculateBestAsk(side) = IF ask # {} THEN Min(ask) ELSE 0
  <2>1. (\E i \in Indices : /\ side[i].quantity > 0 /\ side[i].price < MaxPrice
                            /\ \A j \in Indices : side[j].quantity > 0 => side[i].price <= side[j].price) <=> ask # {}
    OBVIOUS
  <2> QED BY <2>1, Zenon DEF RecalculateBestAsk, FirstIndex
<1>4. ASSUME NEW S \in SUBSET Indices, S # {}
      PROVE  Min(S) \in S
  <2>1. \E x \in S : \A y \in S : x <= y
    BY <1>1, <1>4, LeastOfSet
  <2> QED BY <2>1 DEF Min
<1>5. live # {} => ask # {}
  <2> SUFFICES ASSUME live # {} PROVE ask # {}
    OBVIOUS
  <2> DEFINE prices == {side[i].price : i \in live}
  <2>1. prices \in SUBSET Nat /\ prices # {}
    BY <1>1
  <2>2. PICK x \in prices : \A y \in prices : x <= y
    BY <2>1, LeastOfSet
  <2>3. PICK i \in live : side[i].price = x
    OBVIOUS
  <2>4. i \in ask
    BY <1>1, <2>2, <2>3
  <2> QED BY <2>4
<1>6. live # {} => bid # {}
  <2> SUFFICES ASSUME live # {} PROVE bid # {}
    OBVIOUS
  <2> DEFINE gaps == {MaxPrice - side[i].price : i \in live}
  <2>1. gaps \in SUBSET Nat /\ gaps # {}
    <3>1. \A i \in live : MaxPrice - side[i].price \in Nat
      BY <1>1
    <3> QED BY <3>1
  <2>2. PICK x \in gaps : \A y \in gaps : x <= y
    BY <2>1, LeastOfSet
  <2>3. PICK i \in live : MaxPrice - side[i].price = x
    OBVIOUS
  <2>4. \A j \in live : MaxPrice - side[i].price <= MaxPrice - side[j].price
    BY <2>2, <2>3
  <2>5. \A j \in live : side[j].price <= side[i].price
    BY <1>1, <2>4
  <2>6. i \in bid
    BY <1>1, <2>5
  <2> QED BY <2>6
<1>7. RecalculateBestBid(side) \in Indices /\ Highest(side, RecalculateBestBid(side))
  <2>1. CASE bid # {}
    <3>1. Min(bid) \in bid
      BY <1>4, <2>1
    <3> QED BY <1>2, <2>1, <3>1 DEF Highest
  <2>2. CASE bid = {}
    BY <1>1, <1>2, <1>6, <2>2 DEF Highest
  <2> QED BY <2>1, <2>2
<1>8. RecalculateBestAsk(side) \in Indices /\ Lowest(side, RecalculateBestAsk(side))
  <2>1. CASE ask # {}
    <3>1. Min(ask) \in ask
      BY <1>4, <2>1
    <3> QED BY <1>3, <2>1, <3>1 DEF Lowest
  <2>2. CASE ask = {}
    BY <1>1, <1>3, <1>5, <2>2 DEF Lowest
  <2> QED BY <2>1, <2>2
<1> QED BY <1>7, <1>8

\* update_bid keeps the best index on a level with a quantity, and on the highest bid: a new
\* best, a change or a removal.
LEMMA UpdateBidKeeps ==
  ASSUME NEW b, DOMAIN b = BookFields, BidSide(b), NEW p \in 1..MaxPrice - 1, NEW q \in Nat, InWindow(p)
  PROVE  /\ DOMAIN UpdateBid(b, p, q) = BookFields /\ BidSide(UpdateBid(b, p, q))
         /\ UpdateBid(b, p, q).bids = Written(b.bids, p, q)
         /\ UpdateBid(b, p, q).asks = b.asks /\ UpdateBid(b, p, q).best_ask_idx = b.best_ask_idx
         /\ StaysAbove(b.bids, p) /\ Highest(b.bids, b.best_bid_idx)
              => Highest(UpdateBid(b, p, q).bids, UpdateBid(b, p, q).best_bid_idx)
<1> DEFINE at == Diff(p)
           m == b.best_bid_idx
           old == b.bids
           side == Written(old, p, q)
           idx == CASE q > 0 /\ (side[m].quantity = 0 \/ p > side[m].price) -> at
                    [] q = 0 /\ at = m -> RecalculateBestBid(side)
                    [] OTHER -> m
<1>1. old \in [Indices -> Level] /\ m \in Indices /\ Priced(old) /\ Placed(old) /\ LiveAt(old, m)
  BY DEF BidSide
<1>2. /\ at \in Indices /\ side \in [Indices -> Level] /\ Priced(side) /\ Placed(side)
      /\ side[at] = [price |-> p, quantity |-> q] /\ \A i \in Indices \ {at} : side[i] = old[i]
  BY <1>1, WrittenFacts
<1>3. UpdateBid(b, p, q) = [b EXCEPT !.bids = side, !.best_bid_idx = idx]
  BY DEF UpdateBid, Written
<1>4. /\ side[at].price = p /\ side[at].quantity = q /\ p \in Nat
      /\ \A i \in Indices : /\ old[i].price \in Nat /\ old[i].quantity \in Nat
                            /\ side[i].price \in Nat /\ side[i].quantity \in Nat
  BY <1>1, <1>2 DEF Level
<1>5. RecalculateBestBid(side) \in Indices /\ Highest(side, RecalculateBestBid(side))
  BY <1>2, Recalculated
<1> HIDE DEF at, m, old, side
<1>6. idx \in Indices /\ LiveAt(side, idx)
  <2>1. CASE q > 0 /\ (side[m].quantity = 0 \/ p > side[m].price)
    <3>1. idx = at
      BY <2>1
    <3> QED BY <1>2, <1>4, <2>1, <3>1 DEF LiveAt
  <2>2. CASE q = 0 /\ at = m
    <3>1. idx = RecalculateBestBid(side)
      BY <2>2
    <3> QED BY <1>5, <3>1 DEF Highest, LiveAt
  <2>3. CASE ~(q > 0 /\ (side[m].quantity = 0 \/ p > side[m].price)) /\ ~(q = 0 /\ at = m)
    <3>1. idx = m
      BY <2>3
    <3>2. ASSUME NEW j \in Indices, side[j].quantity > 0
          PROVE  side[m].quantity > 0
      <4>1. CASE j = at
        BY <1>1, <1>4, <2>3, <3>2, <4>1
      <4>2. CASE j # at
        <5>1. old[m].quantity > 0
          BY <1>1, <1>2, <3>2, <4>2 DEF LiveAt
        <5>2. CASE m = at
          BY <1>4, <2>3, <5>2
        <5>3. CASE m # at
          BY <1>1, <1>2, <5>1, <5>3
        <5> QED BY <5>2, <5>3
      <4> QED BY <4>1, <4>2
    <3> QED BY <1>1, <3>1, <3>2 DEF LiveAt
  <2> QED BY <2>1, <2>2, <2>3
<1>7. ASSUME StaysAbove(b.bids, p), Highest(old, m) PROVE Highest(side, idx)
  <2>4. \A j \in Indices \ {at} :
          old[j].quantity > 0 /\ old[at].quantity > 0 /\ old[j].price <= old[at].price => old[j].price <= p
    BY <1>7 DEF StaysAbove, at, old
  <2>1. CASE q > 0 /\ (side[m].quantity = 0 \/ p > side[m].price)
    <3>1. idx = at /\ m # at
      BY <1>1, <1>4, <2>1
    <3>2. side[m] = old[m]
      BY <1>1, <1>2, <3>1
    <3>3. ASSUME NEW j \in Indices, side[j].quantity > 0
          PROVE  side[j].price <= p
      <4>1. CASE j = at
        BY <1>4, <4>1
      <4>2. CASE j # at
        <5>1. old[m].quantity > 0 /\ old[j].price <= old[m].price /\ side[j] = old[j]
          BY <1>1, <1>2, <1>7, <3>3, <4>2 DEF Highest
        <5> QED BY <1>1, <1>4, <2>1, <3>2, <5>1
      <4> QED BY <4>1, <4>2
    <3> QED BY <1>2, <1>4, <2>1, <3>1, <3>3 DEF Highest
  <2>2. CASE q = 0 /\ at = m
    BY <1>5, <2>2
  <2>3. CASE ~(q > 0 /\ (side[m].quantity = 0 \/ p > side[m].price)) /\ ~(q = 0 /\ at = m)
    <3>1. idx = m
      BY <2>3
    <3>2. ASSUME NEW j \in Indices, side[j].quantity > 0
          PROVE  side[m].quantity > 0 /\ side[j].price <= side[m].price
      <4>1. CASE j = at
        BY <1>1, <1>4, <2>3, <3>2, <4>1
      <4>2. CASE j # at
        <5>1. old[m].quantity > 0 /\ old[j].price <= old[m].price /\ side[j] = old[j] /\ old[j].quantity > 0
          BY <1>1, <1>2, <1>7, <3>2, <4>2 DEF Highest
        <5>2. CASE m = at
          BY <1>4, <2>3, <2>4, <4>2, <5>1, <5>2
        <5>3. CASE m # at
          BY <1>1, <1>2, <5>1, <5>3
        <5> QED BY <5>2, <5>3
      <4> QED BY <4>1, <4>2
    <3> QED BY <1>1, <3>1, <3>2 DEF Highest
  <2> QED BY <2>1, <2>2, <2>3
<1> HIDE DEF idx
<1>8. /\ DOMAIN UpdateBid(b, p, q) = BookFields
      /\ UpdateBid(b, p, q).asks = b.asks /\ UpdateBid(b, p, q).best_ask_idx = b.best_ask_idx
      /\ UpdateBid(b, p, q).bids = side /\ UpdateBid(b, p, q).best_bid_idx = idx
  BY <1>3 DEF BookFields
<1> QED BY <1>2, <1>6, <1>7, <1>8 DEF BidSide, side, old, m

\* update_ask keeps the best index on a level with a quantity, and on the lowest ask: a new
\* best, a change or a removal.
LEMMA UpdateAskKeeps ==
  ASSUME NEW b, DOMAIN b = BookFields, AskSide(b), NEW p \in 1..MaxPrice - 1, NEW q \in Nat, InWindow(p)
  PROVE  /\ DOMAIN UpdateAsk(b, p, q) = BookFields /\ AskSide(UpdateAsk(b, p, q))
         /\ UpdateAsk(b, p, q).asks = Written(b.asks, p, q)
         /\ UpdateAsk(b, p, q).bids = b.bids /\ UpdateAsk(b, p, q).best_bid_idx = b.best_bid_idx
         /\ StaysBelow(b.asks, p) /\ Lowest(b.asks, b.best_ask_idx)
              => Lowest(UpdateAsk(b, p, q).asks, UpdateAsk(b, p, q).best_ask_idx)
<1> DEFINE at == Diff(p)
           m == b.best_ask_idx
           old == b.asks
           side == Written(old, p, q)
           idx == CASE q > 0 /\ (side[m].quantity = 0 \/ p < side[m].price) -> at
                    [] q = 0 /\ at = m -> RecalculateBestAsk(side)
                    [] OTHER -> m
<1>1. old \in [Indices -> Level] /\ m \in Indices /\ Priced(old) /\ Placed(old) /\ LiveAt(old, m)
  BY DEF AskSide
<1>2. /\ at \in Indices /\ side \in [Indices -> Level] /\ Priced(side) /\ Placed(side)
      /\ side[at] = [price |-> p, quantity |-> q] /\ \A i \in Indices \ {at} : side[i] = old[i]
  BY <1>1, WrittenFacts
<1>3. UpdateAsk(b, p, q) = [b EXCEPT !.asks = side, !.best_ask_idx = idx]
  BY DEF UpdateAsk, Written
<1>4. /\ side[at].price = p /\ side[at].quantity = q /\ p \in Nat
      /\ \A i \in Indices : /\ old[i].price \in Nat /\ old[i].quantity \in Nat
                            /\ side[i].price \in Nat /\ side[i].quantity \in Nat
  BY <1>1, <1>2 DEF Level
<1>5. RecalculateBestAsk(side) \in Indices /\ Lowest(side, RecalculateBestAsk(side))
  BY <1>2, Recalculated
<1> HIDE DEF at, m, old, side
<1>6. idx \in Indices /\ LiveAt(side, idx)
  <2>1. CASE q > 0 /\ (side[m].quantity = 0 \/ p < side[m].price)
    <3>1. idx = at
      BY <2>1
    <3> QED BY <1>2, <1>4, <2>1, <3>1 DEF LiveAt
  <2>2. CASE q = 0 /\ at = m
    <3>1. idx = RecalculateBestAsk(side)
      BY <2>2
    <3> QED BY <1>5, <3>1 DEF Lowest, LiveAt
  <2>3. CASE ~(q > 0 /\ (side[m].quantity = 0 \/ p < side[m].price)) /\ ~(q = 0 /\ at = m)
    <3>1. idx = m
      BY <2>3
    <3>2. ASSUME NEW j \in Indices, side[j].quantity > 0
          PROVE  side[m].quantity > 0
      <4>1. CASE j = at
        BY <1>1, <1>4, <2>3, <3>2, <4>1
      <4>2. CASE j # at
        <5>1. old[m].quantity > 0
          BY <1>1, <1>2, <3>2, <4>2 DEF LiveAt
        <5>2. CASE m = at
          BY <1>4, <2>3, <5>2
        <5>3. CASE m # at
          BY <1>1, <1>2, <5>1, <5>3
        <5> QED BY <5>2, <5>3
      <4> QED BY <4>1, <4>2
    <3> QED BY <1>1, <3>1, <3>2 DEF LiveAt
  <2> QED BY <2>1, <2>2, <2>3
<1>7. ASSUME StaysBelow(b.asks, p), Lowest(old, m) PROVE Lowest(side, idx)
  <2>4. \A j \in Indices \ {at} :
          old[j].quantity > 0 /\ old[at].quantity > 0 /\ old[at].price <= old[j].price => p <= old[j].price
    BY <1>7 DEF StaysBelow, at, old
  <2>1. CASE q > 0 /\ (side[m].quantity = 0 \/ p < side[m].price)
    <3>1. idx = at /\ m # at
      BY <1>1, <1>4, <2>1
    <3>2. side[m] = old[m]
      BY <1>1, <1>2, <3>1
    <3>3. ASSUME NEW j \in Indices, side[j].quantity > 0
          PROVE  p <= side[j].price
      <4>1. CASE j = at
        BY <1>4, <4>1
      <4>2. CASE j # at
        <5>1. old[m].quantity > 0 /\ old[m].price <= old[j].price /\ side[j] = old[j]
          BY <1>1, <1>2, <1>7, <3>3, <4>2 DEF Lowest
        <5> QED BY <1>1, <1>4, <2>1, <3>2, <5>1
      <4> QED BY <4>1, <4>2
    <3> QED BY <1>2, <1>4, <2>1, <3>1, <3>3 DEF Lowest
  <2>2. CASE q = 0 /\ at = m
    BY <1>5, <2>2
  <2>3. CASE ~(q > 0 /\ (side[m].quantity = 0 \/ p < side[m].price)) /\ ~(q = 0 /\ at = m)
    <3>1. idx = m
      BY <2>3
    <3>2. ASSUME NEW j \in Indices, side[j].quantity > 0
          PROVE  side[m].quantity > 0 /\ side[m].price <= side[j].price
      <4>1. CASE j = at
        BY <1>1, <1>4, <2>3, <3>2, <4>1
      <4>2. CASE j # at
        <5>1. old[m].quantity > 0 /\ old[m].price <= old[j].price /\ side[j] = old[j] /\ old[j].quantity > 0
          BY <1>1, <1>2, <1>7, <3>2, <4>2 DEF Lowest
        <5>2. CASE m = at
          BY <1>4, <2>3, <2>4, <4>2, <5>1, <5>2
        <5>3. CASE m # at
          BY <1>1, <1>2, <5>1, <5>3
        <5> QED BY <5>2, <5>3
      <4> QED BY <4>1, <4>2
    <3> QED BY <1>1, <3>1, <3>2 DEF Lowest
  <2> QED BY <2>1, <2>2, <2>3
<1> HIDE DEF idx
<1>8. /\ DOMAIN UpdateAsk(b, p, q) = BookFields
      /\ UpdateAsk(b, p, q).bids = b.bids /\ UpdateAsk(b, p, q).best_bid_idx = b.best_bid_idx
      /\ UpdateAsk(b, p, q).asks = side /\ UpdateAsk(b, p, q).best_ask_idx = idx
  BY <1>3 DEF BookFields
<1> QED BY <1>2, <1>6, <1>7, <1>8 DEF AskSide, side, old, m

\* The best level of a side is the one at the best index; no two levels share a price.
LEMMA BestOfLive ==
  ASSUME NEW side \in [Indices -> Level], NEW at \in Indices, Placed(side)
  PROVE  /\ Highest(side, at) =>
              (IF side[at].quantity > 0 THEN side[at] ELSE NoLevel) = Best(Live(side), LAMBDA x, y : x > y)
         /\ Lowest(side, at) =>
              (IF side[at].quantity > 0 THEN side[at] ELSE NoLevel) = Best(Live(side), LAMBDA x, y : x < y)
<1> DEFINE G == Live(side)
<1>1. \A i \in Indices : side[i] \in Level /\ side[i].price \in Nat /\ side[i].quantity \in Nat
  BY DEF Level
<1>2. \A i \in Indices : side[i].quantity > 0 => side[i] \in G
  BY DEF Live
<1>3. \A l \in G : \E i \in Indices : side[i].quantity > 0 /\ side[i] = l
  BY DEF Live
<1>4. \A l, n \in G : l.price \in Nat /\ (l.price = n.price => l = n)
  BY <1>1, <1>3 DEF Placed
<1> HIDE DEF G
<1>5. ASSUME G = {}
      PROVE  (IF side[at].quantity > 0 THEN side[at] ELSE NoLevel) = NoLevel
  BY <1>2, <1>5
<1>6. ASSUME G # {}, Highest(side, at)
      PROVE  side[at].quantity > 0 /\ side[at] = CHOOSE l \in G : \A n \in G : n = l \/ l.price > n.price
  <2>1. side[at].quantity > 0 /\ side[at] \in G
    BY <1>2, <1>3, <1>6 DEF Highest
  <2>2. \A n \in G : n.price <= side[at].price
    BY <1>3, <1>6 DEF Highest
  <2>3. \A n \in G : n = side[at] \/ side[at].price > n.price
    BY <1>4, <2>1, <2>2
  <2>4. \A l \in G : (\A n \in G : n = l \/ l.price > n.price) => l = side[at]
    BY <1>4, <2>1, <2>2
  <2> QED BY <2>1, <2>3, <2>4
<1>7. ASSUME G # {}, Lowest(side, at)
      PROVE  side[at].quantity > 0 /\ side[at] = CHOOSE l \in G : \A n \in G : n = l \/ l.price < n.price
  <2>1. side[at].quantity > 0 /\ side[at] \in G
    BY <1>2, <1>3, <1>7 DEF Lowest
  <2>2. \A n \in G : side[at].price <= n.price
    BY <1>3, <1>7 DEF Lowest
  <2>3. \A n \in G : n = side[at] \/ side[at].price < n.price
    BY <1>4, <2>1, <2>2
  <2>4. \A l \in G : (\A n \in G : n = l \/ l.price < n.price) => l = side[at]
    BY <1>4, <2>1, <2>2
  <2> QED BY <2>1, <2>3, <2>4
<1> QED BY <1>5, <1>6, <1>7 DEF Best, G

\* Of a side whose prices are at their own levels, bbo_bid and bbo_ask answer a level with a
\* quantity while there is one.
LEMMA LiveAnswer ==
  ASSUME NEW side \in [Indices -> Level], NEW at \in Indices, LiveAt(side, at)
  PROVE  AnswersLive(IF side[at].quantity > 0 THEN side[at] ELSE NoLevel, side)
<1>1. \A i \in Indices : side[i].quantity > 0 => side[i] \in Live(side)
  BY DEF Live
<1>2. \A l \in Live(side) : \E i \in Indices : side[i].quantity > 0
  BY DEF Live
<1>3. CASE side[at].quantity > 0
  BY <1>1, <1>3 DEF AnswersLive
<1>4. CASE ~(side[at].quantity > 0)
  <2>1. Live(side) = {}
    BY <1>2, <1>4 DEF LiveAt
  <2> QED BY <1>4, <2>1 DEF AnswersLive
<1> QED BY <1>3, <1>4

\* A quotient grows with what is divided.
LEMMA QuotientOrder ==
  ASSUME NEW x \in Nat, NEW y \in Nat, NEW T \in Nat \ {0}, x <= y
  PROVE  x \div T <= y \div T
<1> DEFINE i == x \div T
           j == y \div T
<1>1. i \in Nat /\ i * T <= x /\ j \in Nat /\ y < (j + 1) * T
  BY Quotient
<1> HIDE DEF i, j
<1>2. i * T < (j + 1) * T
  <2>1. i * T \in Nat /\ (j + 1) * T \in Nat
    BY <1>1, ProductOrder
  <2> QED BY <1>1, <2>1
<1>3. i < j + 1
  <2>1. j + 1 \in Nat
    BY <1>1
  <2> QED BY <1>1, <1>2, <2>1, ProductOrder
<1>4. i <= j
  BY <1>1, <1>3
<1> QED BY <1>4 DEF i, j

\* Above the anchor a higher price has a higher level, below it a lower one.
LEMMA FurtherLevel ==
  ASSUME NEW a \in Nat, NEW b \in Nat, a <= b
  PROVE  /\ a >= BasePrice => Diff(a) <= Diff(b)
         /\ b < BasePrice => Diff(b) <= Diff(a)
<1>1. BasePrice \in Nat /\ TickSize \in Nat \ {0}
  BY BookAssumption
<1>2. ASSUME a >= BasePrice PROVE Diff(a) <= Diff(b)
  <2>1. /\ a - BasePrice \in Nat /\ b - BasePrice \in Nat /\ a - BasePrice <= b - BasePrice
        /\ Diff(a) = (a - BasePrice) \div TickSize /\ Diff(b) = (b - BasePrice) \div TickSize
    BY <1>1, <1>2 DEF Diff
  <2>2. (a - BasePrice) \div TickSize <= (b - BasePrice) \div TickSize
    BY <1>1, <2>1, QuotientOrder
  <2> QED BY <2>1, <2>2
<1>3. ASSUME b < BasePrice PROVE Diff(b) <= Diff(a)
  <2>1. /\ BasePrice - a \in Nat /\ BasePrice - b \in Nat /\ BasePrice - b <= BasePrice - a
        /\ Diff(a) = (BasePrice - a) \div TickSize /\ Diff(b) = (BasePrice - b) \div TickSize
    BY <1>1, <1>3 DEF Diff
  <2>2. (BasePrice - b) \div TickSize <= (BasePrice - a) \div TickSize
    BY <1>1, <2>1, QuotientOrder
  <2> QED BY <2>1, <2>2
<1> QED BY <1>2, <1>3

\* A price that replaces none across the anchor leaves the order of the levels: the prices of
\* its level are between those of the levels on either side.
LEMMA KeepsOrder ==
  ASSUME NEW side \in [Indices -> Level], Placed(side),
         NEW p \in Nat, InWindow(p), ~Folds(side, p)
  PROVE  StaysAbove(side, p) /\ StaysBelow(side, p)
<1> DEFINE at == Diff(p)
<1>1. at \in Indices /\ Indices \subseteq Nat /\ BasePrice \in Nat
  BY LevelOfPrice, BookAssumption DEF Indices
<1>2. /\ \A i \in Indices : side[i].price \in Nat
      /\ \A i \in Indices : side[i].quantity > 0 => Diff(side[i].price) = i
  BY DEF Level, Placed
<1>3. ASSUME NEW j \in Indices \ {at}, side[j].quantity > 0, side[at].quantity > 0
      PROVE  /\ side[j].price <= side[at].price => side[j].price <= p
             /\ side[at].price <= side[j].price => p <= side[j].price
  <2> DEFINE old == side[at].price
             x == side[j].price
  <2>1. old \in Nat /\ x \in Nat /\ Diff(old) = at /\ Diff(x) = j /\ j \in Nat /\ at \in Nat /\ j # at
    BY <1>1, <1>2, <1>3
  <2>2. old = p \/ ~Across(old, p)
    BY <1>3 DEF Folds, Replaces
  <2>3. /\ x <= old /\ x >= BasePrice => j <= at
        /\ x <= old /\ old < BasePrice => at <= j
        /\ old <= x /\ old >= BasePrice => at <= j
        /\ old <= x /\ x < BasePrice => j <= at
    BY <2>1, FurtherLevel
  <2>4. /\ x <= p /\ x >= BasePrice => j <= at
        /\ x <= p /\ p < BasePrice => at <= j
        /\ p <= x /\ p >= BasePrice => at <= j
        /\ p <= x /\ x < BasePrice => j <= at
    BY <2>1, FurtherLevel
  <2> HIDE DEF at, old, x
  <2>5. (old >= BasePrice) <=> (p >= BasePrice)
    BY <1>1, <2>1, <2>2 DEF Across
  <2>6. (x <= old => x <= p) /\ (old <= x => p <= x)
    BY <1>1, <2>1, <2>3, <2>4, <2>5
  <2> QED BY <2>6 DEF old, x
<1> QED BY <1>3 DEF StaysAbove, StaysBelow

-----------------------------------------------------------------------------
(* A feed's book                                                           *)

\* A side of the array holds what the feed gave, each price at its own level.
Holds(side, given) ==
  /\ \A p \in Prices : given[p] > 0 => InWindow(p) /\ side[Diff(p)] = [price |-> p, quantity |-> given[p]]
  /\ \A i \in Indices : side[i].quantity > 0 =>
       side[i].price \in Prices /\ InWindow(side[i].price) /\ given[side[i].price] = side[i].quantity

BookInv ==
  /\ DOMAIN book = BookFields /\ BidSide(book) /\ AskSide(book)
  /\ BidBest(book, folded) /\ AskBest(book, folded)
  /\ bid_quantity \in [Prices -> Nat] /\ ask_quantity \in [Prices -> Nat]
  /\ "bids" \notin folded \cup crowded => Holds(book.bids, bid_quantity)
  /\ "asks" \notin folded \cup crowded => Holds(book.asks, ask_quantity)

\* Storing a level that no other price has keeps the array and the feed's book in step.
LEMMA StoredLevel ==
  ASSUME NEW side \in [Indices -> Level], Priced(side), Placed(side),
         NEW given \in [Prices -> Nat], Holds(side, given),
         NEW p \in Prices, NEW q \in Nat, InWindow(p), ~Replaces(side, p)
  PROVE  Holds(Written(side, p, q), [given EXCEPT ![p] = q])
<1> DEFINE at == Diff(p)
           l == [price |-> p, quantity |-> q]
           new == Written(side, p, q)
           now == [given EXCEPT ![p] = q]
<1>1. p \in 1..MaxPrice - 1 /\ l.price = p /\ l.quantity = q
  BY BookAssumption
<1>2. at \in Indices /\ new \in [Indices -> Level] /\ new[at] = l /\ \A i \in Indices \ {at} : new[i] = side[i]
  BY <1>1, WrittenFacts
<1>3. now[p] = q /\ \A r \in Prices \ {p} : now[r] = given[r]
  OBVIOUS
<1>4. ASSUME NEW r \in Prices, now[r] > 0
      PROVE  InWindow(r) /\ new[Diff(r)] = [price |-> r, quantity |-> now[r]]
  <2>1. CASE r = p
    BY <1>2, <1>3, <2>1
  <2>2. CASE r # p
    <3>1. /\ InWindow(r) /\ side[Diff(r)] = [price |-> r, quantity |-> given[r]]
          /\ now[r] = given[r] /\ given[r] > 0
      BY <1>3, <1>4, <2>2 DEF Holds
    <3>2. r \in Nat
      BY BookAssumption
    <3>3. Diff(r) # at
      BY <2>2, <3>1 DEF Replaces
    <3>4. Diff(r) \in Indices
      BY <3>1, <3>2, LevelOfPrice
    <3> QED BY <1>2, <3>1, <3>3, <3>4
  <2> QED BY <2>1, <2>2
<1>5. ASSUME NEW i \in Indices, new[i].quantity > 0
      PROVE  new[i].price \in Prices /\ InWindow(new[i].price) /\ now[new[i].price] = new[i].quantity
  <2>1. CASE i = at
    BY <1>1, <1>2, <1>3, <2>1
  <2>2. CASE i # at
    <3>1. new[i] = side[i]
      BY <1>2, <2>2
    <3>2. /\ side[i].price \in Prices /\ InWindow(side[i].price)
          /\ Diff(side[i].price) = i /\ given[side[i].price] = side[i].quantity
      BY <1>5, <3>1 DEF Holds, Placed
    <3>3. side[i].price # p
      BY <2>2, <3>2
    <3> QED BY <1>3, <3>1, <3>2, <3>3
  <2> QED BY <2>1, <2>2
<1> HIDE DEF at, l, new, now
<1>6. Holds(new, now)
  BY <1>4, <1>5 DEF Holds
<1> QED BY <1>6 DEF new, now

\* A feed's update of either side.
LEMMA FeedKeepsBook ==
  ASSUME BookInv, NEW p \in Prices, NEW q \in Quantities, FeedBid(p, q) \/ FeedAsk(p, q)
  PROVE  BookInv'
<1>1. q \in Nat /\ p \in Nat /\ p \in 1..MaxPrice - 1
  BY BookAssumption
<1>2. /\ DOMAIN book = BookFields /\ BidSide(book) /\ AskSide(book)
      /\ BidBest(book, folded) /\ AskBest(book, folded)
      /\ bid_quantity \in [Prices -> Nat] /\ ask_quantity \in [Prices -> Nat]
      /\ "bids" \notin folded \cup crowded => Holds(book.bids, bid_quantity)
      /\ "asks" \notin folded \cup crowded => Holds(book.asks, ask_quantity)
      /\ book.bids \in [Indices -> Level] /\ Priced(book.bids) /\ Placed(book.bids)
      /\ book.asks \in [Indices -> Level] /\ Priced(book.asks) /\ Placed(book.asks)
  BY DEF BookInv, BidSide, AskSide
<1>3. CASE FeedBid(p, q) /\ InWindow(p)
  <2>1. /\ book' = UpdateBid(book, p, q) /\ bid_quantity' = [bid_quantity EXCEPT ![p] = q]
        /\ ask_quantity' = ask_quantity
        /\ "bids" \notin folded' => "bids" \notin folded /\ ~Folds(book.bids, p)
        /\ "bids" \notin crowded' => "bids" \notin crowded /\ ~Crowds(book.bids, p)
        /\ "asks" \notin folded' => "asks" \notin folded
        /\ "asks" \notin crowded' => "asks" \notin crowded
    BY <1>3 DEF FeedBid
  <2>2. /\ DOMAIN book' = BookFields /\ BidSide(book') /\ book'.bids = Written(book.bids, p, q)
        /\ book'.asks = book.asks /\ book'.best_ask_idx = book.best_ask_idx
        /\ StaysAbove(book.bids, p) /\ Highest(book.bids, book.best_bid_idx)
             => Highest(book'.bids, book'.best_bid_idx)
    BY <1>1, <1>2, <1>3, <2>1, UpdateBidKeeps
  <2>3. ASSUME "bids" \notin folded' PROVE Highest(book'.bids, book'.best_bid_idx)
    <3>1. StaysAbove(book.bids, p)
      BY <1>1, <1>2, <1>3, <2>1, <2>3, KeepsOrder
    <3> QED BY <1>2, <2>1, <2>2, <2>3, <3>1 DEF BidBest
  <2>4. ASSUME "bids" \notin folded' \cup crowded' PROVE Holds(book'.bids, bid_quantity')
    <3>1. ~Replaces(book.bids, p) /\ Holds(book.bids, bid_quantity)
      BY <1>2, <2>1, <2>4 DEF Folds, Crowds
    <3>2. Holds(Written(book.bids, p, q), [bid_quantity EXCEPT ![p] = q])
      BY <1>1, <1>2, <1>3, <3>1, StoredLevel
    <3> QED BY <2>1, <2>2, <3>2
  <2>5. /\ AskSide(book') /\ BidBest(book', folded') /\ AskBest(book', folded')
        /\ "asks" \notin folded' \cup crowded' => Holds(book'.asks, ask_quantity')
    BY <1>2, <2>1, <2>2, <2>3 DEF AskSide, BidBest, AskBest
  <2>6. bid_quantity' \in [Prices -> Nat] /\ ask_quantity' \in [Prices -> Nat]
    BY <1>1, <1>2, <2>1
  <2> QED BY <2>2, <2>4, <2>5, <2>6 DEF BookInv
<1>4. CASE FeedAsk(p, q) /\ InWindow(p)
  <2>1. /\ book' = UpdateAsk(book, p, q) /\ ask_quantity' = [ask_quantity EXCEPT ![p] = q]
        /\ bid_quantity' = bid_quantity
        /\ "asks" \notin folded' => "asks" \notin folded /\ ~Folds(book.asks, p)
        /\ "asks" \notin crowded' => "asks" \notin crowded /\ ~Crowds(book.asks, p)
        /\ "bids" \notin folded' => "bids" \notin folded
        /\ "bids" \notin crowded' => "bids" \notin crowded
    BY <1>4 DEF FeedAsk
  <2>2. /\ DOMAIN book' = BookFields /\ AskSide(book') /\ book'.asks = Written(book.asks, p, q)
        /\ book'.bids = book.bids /\ book'.best_bid_idx = book.best_bid_idx
        /\ StaysBelow(book.asks, p) /\ Lowest(book.asks, book.best_ask_idx)
             => Lowest(book'.asks, book'.best_ask_idx)
    BY <1>1, <1>2, <1>4, <2>1, UpdateAskKeeps
  <2>3. ASSUME "asks" \notin folded' PROVE Lowest(book'.asks, book'.best_ask_idx)
    <3>1. StaysBelow(book.asks, p)
      BY <1>1, <1>2, <1>4, <2>1, <2>3, KeepsOrder
    <3> QED BY <1>2, <2>1, <2>2, <2>3, <3>1 DEF AskBest
  <2>4. ASSUME "asks" \notin folded' \cup crowded' PROVE Holds(book'.asks, ask_quantity')
    <3>1. ~Replaces(book.asks, p) /\ Holds(book.asks, ask_quantity)
      BY <1>2, <2>1, <2>4 DEF Folds, Crowds
    <3>2. Holds(Written(book.asks, p, q), [ask_quantity EXCEPT ![p] = q])
      BY <1>1, <1>2, <1>4, <3>1, StoredLevel
    <3> QED BY <2>1, <2>2, <3>2
  <2>5. /\ BidSide(book') /\ BidBest(book', folded') /\ AskBest(book', folded')
        /\ "bids" \notin folded' \cup crowded' => Holds(book'.bids, bid_quantity')
    BY <1>2, <2>1, <2>2, <2>3 DEF BidSide, BidBest, AskBest
  <2>6. bid_quantity' \in [Prices -> Nat] /\ ask_quantity' \in [Prices -> Nat]
    BY <1>1, <1>2, <2>1
  <2> QED BY <2>2, <2>4, <2>5, <2>6 DEF BookInv
<1>5. CASE ~InWindow(p)
  <2>1. book' = book /\ folded' = folded /\ crowded' = crowded
    BY <1>5 DEF FeedBid, FeedAsk, UpdateBid, UpdateAsk, Folds, Crowds, Replaces
  <2>2. /\ bid_quantity' \in [Prices -> Nat] /\ ask_quantity' \in [Prices -> Nat]
        /\ bid_quantity' \in {bid_quantity, [bid_quantity EXCEPT ![p] = 0]}
        /\ ask_quantity' \in {ask_quantity, [ask_quantity EXCEPT ![p] = 0]}
    BY <1>2, <1>5 DEF FeedBid, FeedAsk
  <2>3. ASSUME NEW side, NEW given \in [Prices -> Nat], Holds(side, given)
        PROVE  [given EXCEPT ![p] = 0] = given
    <3>1. ~(given[p] > 0) /\ given[p] \in Nat
      BY <1>5, <2>3 DEF Holds
    <3>2. given[p] = 0
      BY <3>1
    <3> QED BY <3>2
  <2>4. /\ "bids" \notin folded' \cup crowded' => Holds(book'.bids, bid_quantity')
        /\ "asks" \notin folded' \cup crowded' => Holds(book'.asks, ask_quantity')
    BY <1>2, <2>1, <2>2, <2>3
  <2> QED BY <1>2, <2>1, <2>2, <2>4 DEF BookInv
<1> QED BY <1>3, <1>4, <1>5

\* A new book has no level on either side.
LEMMA EmptySides ==
  ASSUME BookInit
  PROVE  /\ DOMAIN book = BookFields /\ BidSide(book) /\ AskSide(book)
         /\ BidBest(book, folded) /\ AskBest(book, folded)
         /\ \A i \in Indices : book.bids[i].quantity = 0 /\ book.asks[i].quantity = 0
<1>1. /\ 0 \in Indices /\ Levels - 1 \in Indices /\ NoLevel \in Level /\ NoLevel.quantity = 0
  BY BookAssumption DEF Indices, NoLevel, Level
<1>2. /\ DOMAIN book = BookFields
      /\ book.bids \in [Indices -> Level] /\ book.best_bid_idx \in Indices
      /\ book.asks \in [Indices -> Level] /\ book.best_ask_idx \in Indices
      /\ \A i \in Indices : book.bids[i].quantity = 0 /\ book.asks[i].quantity = 0
  BY <1>1 DEF BookInit, EmptyBook, BookFields
<1> QED BY <1>2 DEF BidSide, AskSide, Priced, Placed, LiveAt, BidBest, AskBest, Highest, Lowest

\* The feed starts from an empty book.
LEMMA FeedStarts ==
  ASSUME BookInit PROVE BookInv
<1>1. /\ bid_quantity \in [Prices -> Nat] /\ ask_quantity \in [Prices -> Nat]
      /\ \A p \in Prices : bid_quantity[p] = 0 /\ ask_quantity[p] = 0
  BY DEF BookInit
<1> QED BY <1>1, EmptySides DEF BookInv, Holds

\* What the feed gave is what the arrays offer.
LEMMA GivenIsLive ==
  ASSUME NEW side \in [Indices -> Level], NEW given \in [Prices -> Nat], Holds(side, given)
  PROVE  Given(given) = Live(side)
<1>1. \A i \in Indices : side[i] \in Level /\ side[i].price \in Nat /\ side[i].quantity \in Nat
  BY DEF Level
<1>2. ASSUME NEW i \in Indices, side[i].quantity > 0
      PROVE  side[i] \in Given(given)
  <2>1. side[i].price \in Prices /\ given[side[i].price] = side[i].quantity
    BY <1>2 DEF Holds
  <2>2. side[i] = [price |-> side[i].price, quantity |-> given[side[i].price]]
    BY <1>1, <2>1 DEF Level
  <2> QED BY <1>2, <2>1, <2>2 DEF Given
<1>3. ASSUME NEW l \in Given(given)
      PROVE  l \in Live(side)
  <2>1. PICK p \in Prices : given[p] > 0 /\ l = [price |-> p, quantity |-> given[p]]
    BY DEF Given
  <2>2. p \in Nat
    BY BookAssumption
  <2>3. InWindow(p) /\ side[Diff(p)] = l /\ Diff(p) \in Indices
    BY <2>1, <2>2, LevelOfPrice DEF Holds
  <2> QED BY <2>1, <2>3 DEF Live
<1> QED BY <1>2, <1>3 DEF Live

\* The answers of a side in order.
LEMMA BidAnswers ==
  ASSUME BidSide(book), BidBest(book, folded) PROVE BidsExact
<1>1. /\ book.bids \in [Indices -> Level] /\ book.best_bid_idx \in Indices
      /\ LiveAt(book.bids, book.best_bid_idx) /\ Placed(book.bids)
      /\ "bids" \notin folded => Highest(book.bids, book.best_bid_idx)
  BY DEF BidSide, BidBest
<1>2. AnswersLive(BboBid(book), book.bids)
  BY <1>1, LiveAnswer, Zenon DEF BboBid
<1>3. "bids" \notin folded => BboBid(book) = Best(Live(book.bids), LAMBDA x, y : x > y)
  <2>1. Highest(book.bids, book.best_bid_idx) =>
          (IF book.bids[book.best_bid_idx].quantity > 0 THEN book.bids[book.best_bid_idx] ELSE NoLevel)
            = Best(Live(book.bids), LAMBDA x, y : x > y)
    BY <1>1, BestOfLive, Zenon
  <2> QED BY <1>1, <2>1, Zenon DEF BboBid
<1> QED BY <1>2, <1>3, Zenon DEF BidsExact

LEMMA AskAnswers ==
  ASSUME AskSide(book), AskBest(book, folded) PROVE AsksExact
<1>1. /\ book.asks \in [Indices -> Level] /\ book.best_ask_idx \in Indices
      /\ LiveAt(book.asks, book.best_ask_idx) /\ Placed(book.asks)
      /\ "asks" \notin folded => Lowest(book.asks, book.best_ask_idx)
  BY DEF AskSide, AskBest
<1>2. AnswersLive(BboAsk(book), book.asks)
  BY <1>1, LiveAnswer, Zenon DEF BboAsk
<1>3. "asks" \notin folded => BboAsk(book) = Best(Live(book.asks), LAMBDA x, y : x < y)
  <2>1. Lowest(book.asks, book.best_ask_idx) =>
          (IF book.asks[book.best_ask_idx].quantity > 0 THEN book.asks[book.best_ask_idx] ELSE NoLevel)
            = Best(Live(book.asks), LAMBDA x, y : x < y)
    BY <1>1, BestOfLive, Zenon
  <2> QED BY <1>1, <2>1, Zenon DEF BboAsk
<1> QED BY <1>2, <1>3, Zenon DEF AsksExact

\* The best levels of a book in step with its feed are the feed's.
LEMMA FeedAnswers ==
  ASSUME BookInv PROVE BidsExact /\ AsksExact /\ FeedExact
<1>1. BidsExact /\ AsksExact
  BY BidAnswers, AskAnswers DEF BookInv
<1>2. /\ book.bids \in [Indices -> Level] /\ book.asks \in [Indices -> Level]
      /\ bid_quantity \in [Prices -> Nat] /\ ask_quantity \in [Prices -> Nat]
      /\ "bids" \notin folded \cup crowded => Holds(book.bids, bid_quantity)
      /\ "asks" \notin folded \cup crowded => Holds(book.asks, ask_quantity)
  BY DEF BookInv, BidSide, AskSide
<1>3. /\ "bids" \notin folded \cup crowded => Given(bid_quantity) = Live(book.bids)
      /\ "asks" \notin folded \cup crowded => Given(ask_quantity) = Live(book.asks)
  BY <1>2, GivenIsLive
<1>4. /\ "bids" \notin folded \cup crowded => BboBid(book) = Best(Live(book.bids), LAMBDA x, y : x > y)
      /\ "asks" \notin folded \cup crowded => BboAsk(book) = Best(Live(book.asks), LAMBDA x, y : x < y)
  <2>1. ("bids" \notin folded \cup crowded => "bids" \notin folded) /\ ("asks" \notin folded \cup crowded => "asks" \notin folded)
    OBVIOUS
  <2> QED BY <1>1, <2>1, Zenon DEF BidsExact, AsksExact
<1>5. FeedExact
  BY <1>3, <1>4, Zenon DEF FeedExact
<1> QED BY <1>1, <1>5

\* The best levels bbo_bid and bbo_ask answer after any updates, for every anchor, tick size,
\* number of levels and set of prices: always a level with a quantity while the side has one,
\* the best of the array until a price replaces one across the anchor, and the feed's own best
\* until a price replaces another at all.
THEOREM BestOfFeed == BookSpec => [](BidsExact /\ AsksExact /\ FeedExact)
<1>1. BookInit => BookInv
  BY FeedStarts
<1>2. BookInv /\ [FeedNext]_bookVars => BookInv'
  <2> SUFFICES ASSUME BookInv, [FeedNext]_bookVars PROVE BookInv'
    OBVIOUS
  <2>1. CASE FeedNext
    BY <2>1, FeedKeepsBook DEF FeedNext
  <2>2. CASE UNCHANGED bookVars
    BY <2>2 DEF BookInv, bookVars
  <2> QED BY <2>1, <2>2
<1>3. BookInv => BidsExact /\ AsksExact /\ FeedExact
  BY FeedAnswers
<1> QED BY <1>1, <1>2, <1>3, PTL DEF BookSpec

-----------------------------------------------------------------------------
(* Ladders written over each other                                         *)

Ladder(b, p) == WriteAll(b, Rungs(p))

\* Levels as ladders write them: those that go through update_bid and update_ask have prices
\* that fit, above 0 and below i64::MAX, on either side of the anchor.
FittingRungs ==
  {r \in [way : {"update_bid", "update_ask", "store_ask"}, price : Int, quantity : Nat \cup {NoAnswer}] :
     r.way # "store_ask" /\ IsWritten(r) => r.price \in 1..MaxPrice - 1}
RungsFit == pool.kind # "feed" => Rungs(pool) \in Seq(FittingRungs)

AmmInv ==
  /\ "kind" \in DOMAIN pool
  /\ pool.kind = "feed" => BookInv
  /\ pool.kind # "feed" => DOMAIN book = BookFields /\ BidSide(book) /\ BidBest(book, folded)
  /\ pool.kind = "v2" => AskSide(book) /\ AskBest(book, folded)

\* A level of a ladder leaves the bids in place; and the best index on the highest, unless it
\* replaces a price across the anchor.
LEMMA WriteKeepsBids ==
  ASSUME NEW b, DOMAIN b = BookFields, BidSide(b), NEW r \in FittingRungs
  PROVE  /\ DOMAIN Write(b, r) = BookFields /\ BidSide(Write(b, r))
         /\ Highest(b.bids, b.best_bid_idx) /\ ~(r.way = "update_bid" /\ IsWritten(r) /\ Folds(b.bids, r.price))
              => Highest(Write(b, r).bids, Write(b, r).best_bid_idx)
<1>1. CASE Write(b, r) = b
  BY <1>1
<1>2. CASE Write(b, r) # b /\ r.way = "update_bid"
  <2>1. Write(b, r) = UpdateBid(b, r.price, r.quantity) /\ InWindow(r.price) /\ IsWritten(r)
    BY <1>2 DEF Write, UpdateBid
  <2>2. r.price \in 1..MaxPrice - 1 /\ r.price \in Nat /\ r.quantity \in Nat
    BY <1>2, <2>1, BookAssumption DEF FittingRungs, IsWritten
  <2>3. b.bids \in [Indices -> Level] /\ Placed(b.bids)
    BY DEF BidSide
  <2>4. ~Folds(b.bids, r.price) => StaysAbove(b.bids, r.price)
    BY <2>1, <2>2, <2>3, KeepsOrder
  <2>5. /\ DOMAIN UpdateBid(b, r.price, r.quantity) = BookFields /\ BidSide(UpdateBid(b, r.price, r.quantity))
        /\ StaysAbove(b.bids, r.price) /\ Highest(b.bids, b.best_bid_idx)
             => Highest(UpdateBid(b, r.price, r.quantity).bids, UpdateBid(b, r.price, r.quantity).best_bid_idx)
    BY <2>1, <2>2, UpdateBidKeeps
  <2> QED BY <1>2, <2>1, <2>4, <2>5
<1>3. CASE Write(b, r) # b /\ r.way # "update_bid"
  <2>1. /\ DOMAIN Write(b, r) = BookFields
        /\ Write(b, r).bids = b.bids /\ Write(b, r).best_bid_idx = b.best_bid_idx
    <3>1. CASE r.way = "update_ask"
      BY <1>3, <3>1 DEF Write, UpdateAsk, BookFields
    <3>2. CASE r.way = "store_ask"
      BY <1>3, <3>2 DEF Write, StoreAsk, BookFields
    <3> QED BY <1>3, <3>1, <3>2 DEF FittingRungs
  <2> QED BY <2>1 DEF BidSide
<1> QED BY <1>1, <1>2, <1>3

\* So does a level that goes through update_bid or update_ask with the asks.
LEMMA WriteKeepsAsks ==
  ASSUME NEW b, DOMAIN b = BookFields, AskSide(b), NEW r \in FittingRungs, r.way # "store_ask"
  PROVE  /\ AskSide(Write(b, r))
         /\ Lowest(b.asks, b.best_ask_idx) /\ ~(r.way = "update_ask" /\ IsWritten(r) /\ Folds(b.asks, r.price))
              => Lowest(Write(b, r).asks, Write(b, r).best_ask_idx)
<1>1. CASE Write(b, r) = b
  BY <1>1
<1>2. CASE Write(b, r) # b /\ r.way = "update_ask"
  <2>1. Write(b, r) = UpdateAsk(b, r.price, r.quantity) /\ InWindow(r.price) /\ IsWritten(r)
    BY <1>2 DEF Write, UpdateAsk
  <2>2. r.price \in 1..MaxPrice - 1 /\ r.price \in Nat /\ r.quantity \in Nat
    BY <1>2, <2>1, BookAssumption DEF FittingRungs, IsWritten
  <2>3. b.asks \in [Indices -> Level] /\ Placed(b.asks)
    BY DEF AskSide
  <2>4. ~Folds(b.asks, r.price) => StaysBelow(b.asks, r.price)
    BY <2>1, <2>2, <2>3, KeepsOrder
  <2>5. /\ AskSide(UpdateAsk(b, r.price, r.quantity))
        /\ StaysBelow(b.asks, r.price) /\ Lowest(b.asks, b.best_ask_idx)
             => Lowest(UpdateAsk(b, r.price, r.quantity).asks, UpdateAsk(b, r.price, r.quantity).best_ask_idx)
    BY <2>1, <2>2, UpdateAskKeeps
  <2> QED BY <1>2, <2>1, <2>4, <2>5
<1>3. CASE Write(b, r) # b /\ r.way = "update_bid"
  <2>1. Write(b, r).asks = b.asks /\ Write(b, r).best_ask_idx = b.best_ask_idx
    BY <1>3 DEF Write, UpdateBid, BookFields
  <2> QED BY <2>1 DEF AskSide
<1> QED BY <1>1, <1>2, <1>3 DEF FittingRungs

\* g is the book after each of the first n levels of a ladder.
IsWriting(g, b, rungs, n) ==
  /\ DOMAIN g = 0..n /\ g = [m \in DOMAIN g |-> g[m]]
  /\ g[0] = b /\ \A m \in 1..n : g[m] = Write(g[m - 1], rungs[m])

\* A ladder can be written to any of its levels.
LEMMA WritingExists ==
  ASSUME NEW b, NEW rungs, NEW c \in Nat
  PROVE  \E g : IsWriting(g, b, rungs, c)
<1> DEFINE S == {n \in Nat : ~ \E g : IsWriting(g, b, rungs, n)}
<1>1. SUFFICES ASSUME S # {} PROVE FALSE
  OBVIOUS
<1>2. PICK n \in S : \A y \in S : n <= y
  BY <1>1, LeastOfSet
<1>3. n \in Nat /\ ~ \E g : IsWriting(g, b, rungs, n)
  OBVIOUS
<1>4. n # 0
  <2> DEFINE g == [m \in 0..0 |-> b]
  <2>1. IsWriting(g, b, rungs, 0)
    BY DEF IsWriting
  <2> QED BY <1>3, <2>1
<1>5. PICK g : IsWriting(g, b, rungs, n - 1)
  <2>1. n - 1 \in Nat /\ ~(n <= n - 1)
    BY <1>3, <1>4
  <2> QED BY <1>2, <2>1
<1> DEFINE h == [m \in 0..n |-> IF m = n THEN Write(g[n - 1], rungs[n]) ELSE g[m]]
<1>6. IsWriting(h, b, rungs, n)
  <2>1. DOMAIN h = 0..n /\ h = [m \in DOMAIN h |-> h[m]] /\ h[0] = b
    BY <1>3, <1>4, <1>5 DEF IsWriting
  <2>2. ASSUME NEW m \in 1..n PROVE h[m] = Write(h[m - 1], rungs[m])
    <3>1. CASE m = n
      <4>1. h[m - 1] = g[n - 1] /\ h[m] = Write(g[n - 1], rungs[n])
        BY <1>3, <1>4, <3>1
      <4> QED BY <3>1, <4>1
    <3>2. CASE m # n
      <4>1. m \in 1..n - 1 /\ h[m] = g[m] /\ h[m - 1] = g[m - 1]
        BY <1>3, <1>4, <3>2
      <4>2. g[m] = Write(g[m - 1], rungs[m])
        BY <1>5, <4>1 DEF IsWriting
      <4> QED BY <4>1, <4>2
    <3> QED BY <3>1, <3>2
  <2> HIDE DEF h
  <2> QED BY <2>1, <2>2 DEF IsWriting
<1> QED BY <1>3, <1>6

\* A ladder is such a writing, to its last level.
LEMMA LadderIsWriting ==
  ASSUME NEW b, NEW p, Len(Rungs(p)) \in Nat
  PROVE  /\ IsWriting(Writing(b, Rungs(p)), b, Rungs(p), Len(Rungs(p)))
         /\ Ladder(b, p) = Writing(b, Rungs(p))[Len(Rungs(p))]
<1> DEFINE rungs == Rungs(p)
           n == Len(rungs)
           f == CHOOSE f : f = [m \in 0..n |-> IF m = 0 THEN b ELSE Write(f[m - 1], rungs[m])]
<1>1. PICK g : IsWriting(g, b, rungs, n)
  BY WritingExists
<1>2. Writing(b, rungs) = f /\ Ladder(b, p) = f[n]
  BY Zenon DEF Ladder, WriteAll, Writing
<1> HIDE DEF rungs, n
<1>3. g = [m \in 0..n |-> IF m = 0 THEN b ELSE Write(g[m - 1], rungs[m])]
  BY <1>1 DEF IsWriting
<1>4. f = [m \in 0..n |-> IF m = 0 THEN b ELSE Write(f[m - 1], rungs[m])]
  BY <1>3, Zenon
<1> HIDE DEF f
<1>5. n \in Nat
  BY DEF n, rungs
<1>6. IsWriting(f, b, rungs, n)
  BY <1>4, <1>5 DEF IsWriting
<1> QED BY <1>2, <1>6 DEF n, rungs

\* A v2 ladder goes through update_ask and update_bid only.
LEMMA WaysOfV2 ==
  ASSUME NEW p, p.kind = "v2", NEW m \in DOMAIN Rungs(p)
  PROVE  Rungs(p)[m].way # "store_ask"
<1>1. Rungs(p) = V2Rungs(p)
  BY DEF Rungs
<1>2. CASE V2Spot(p) <= 0
  BY <1>1, <1>2 DEF V2Rungs
<1>3. CASE ~(V2Spot(p) <= 0)
  <2>1. /\ DOMAIN V2Rungs(p) = 1..2 * Len(Bands)
        /\ \A i \in 1..2 * Len(Bands) : V2Rungs(p)[i].way \in {"update_ask", "update_bid"}
    BY <1>3 DEF V2Rungs, Banded, Rung
  <2> QED BY <1>1, <2>1
<1> QED BY <1>2, <1>3

\* A whole ladder leaves the sides in place, over whatever ladders are there, and the best
\* indices on the best levels, unless one of its levels replaces a price across the anchor.
LEMMA LadderKeeps ==
  ASSUME NEW b, NEW p, NEW f, Rungs(p) \in Seq(FittingRungs), DOMAIN b = BookFields, BidSide(b), BidBest(b, f)
  PROVE  LET now == f \cup FoldedBy(b, Rungs(p))
         IN  /\ DOMAIN Ladder(b, p) = BookFields /\ BidSide(Ladder(b, p)) /\ BidBest(Ladder(b, p), now)
             /\ p.kind = "v2" /\ AskSide(b) /\ AskBest(b, f)
                  => AskSide(Ladder(b, p)) /\ AskBest(Ladder(b, p), now)
<1> DEFINE rungs == Rungs(p)
           n == Len(rungs)
           g == Writing(b, rungs)
           now == f \cup FoldedBy(b, rungs)
<1>1. n \in Nat /\ DOMAIN rungs = 1..n /\ \A m \in 1..n : rungs[m] \in FittingRungs
  OBVIOUS
<1>2. IsWriting(g, b, rungs, n) /\ Ladder(b, p) = g[n]
  BY <1>1, LadderIsWriting
<1>3. p.kind = "v2" => \A m \in 1..n : rungs[m].way # "store_ask"
  BY <1>1, WaysOfV2
<1> HIDE DEF rungs, n
<1>4. ASSUME NEW m \in 1..n, IsWritten(rungs[m])
      PROVE  /\ rungs[m].way = "update_bid" /\ Folds(g[m - 1].bids, rungs[m].price) => "bids" \in now
             /\ rungs[m].way = "update_ask" /\ Folds(g[m - 1].asks, rungs[m].price) => "asks" \in now
  <2>1. m \in DOMAIN rungs
    BY <1>1
  <2>2. ASSUME rungs[m].way = "update_bid", Folds(g[m - 1].bids, rungs[m].price) PROVE "bids" \in now
    <3>1. SideOf(rungs[m].way) = "bids"
      BY <2>2 DEF SideOf
    <3> QED BY <1>4, <2>1, <2>2, <3>1 DEF FoldedBy
  <2>3. ASSUME rungs[m].way = "update_ask", Folds(g[m - 1].asks, rungs[m].price) PROVE "asks" \in now
    <3>1. SideOf(rungs[m].way) = "asks"
      BY <2>3 DEF SideOf
    <3> QED BY <1>4, <2>1, <2>3, <3>1 DEF FoldedBy
  <2> QED BY <2>2, <2>3
<1>5. f \subseteq now
  OBVIOUS
<1> HIDE DEF g, now
<1> DEFINE Asks == p.kind = "v2" /\ AskSide(b) /\ AskBest(b, f)
           Good(m) == /\ DOMAIN g[m] = BookFields /\ BidSide(g[m]) /\ BidBest(g[m], now)
                      /\ Asks => AskSide(g[m]) /\ AskBest(g[m], now)
           S == {m \in 0..n : ~Good(m)}
<1>6. Good(0)
  BY <1>2, <1>5 DEF IsWriting, BidBest, AskBest
<1>7. ASSUME NEW m \in 1..n, Good(m - 1) PROVE Good(m)
  <2>1. g[m] = Write(g[m - 1], rungs[m]) /\ rungs[m] \in FittingRungs
    BY <1>1, <1>2 DEF IsWriting
  <2>2. /\ DOMAIN g[m] = BookFields /\ BidSide(g[m])
        /\ Highest(g[m - 1].bids, g[m - 1].best_bid_idx)
             /\ ~(rungs[m].way = "update_bid" /\ IsWritten(rungs[m]) /\ Folds(g[m - 1].bids, rungs[m].price))
             => Highest(g[m].bids, g[m].best_bid_idx)
    BY <1>7, <2>1, WriteKeepsBids
  <2>3. BidBest(g[m], now)
    BY <1>4, <1>7, <2>2 DEF BidBest
  <2>4. ASSUME Asks PROVE AskSide(g[m]) /\ AskBest(g[m], now)
    <3>1. rungs[m].way # "store_ask"
      BY <1>3, <2>4
    <3>2. /\ AskSide(g[m])
          /\ Lowest(g[m - 1].asks, g[m - 1].best_ask_idx)
               /\ ~(rungs[m].way = "update_ask" /\ IsWritten(rungs[m]) /\ Folds(g[m - 1].asks, rungs[m].price))
               => Lowest(g[m].asks, g[m].best_ask_idx)
      BY <1>7, <2>1, <2>4, <3>1, WriteKeepsAsks
    <3> QED BY <1>4, <1>7, <2>4, <3>2 DEF AskBest
  <2> QED BY <2>2, <2>3, <2>4
<1> HIDE DEF Good, Asks
<1>8. S = {}
  <2> SUFFICES ASSUME S # {} PROVE FALSE
    OBVIOUS
  <2>1. S \in SUBSET Nat
    BY <1>1
  <2>2. PICK m \in S : \A y \in S : m <= y
    BY <2>1, LeastOfSet
  <2>3. m \in 0..n /\ ~Good(m) /\ m # 0
    BY <1>6
  <2>4. m \in 1..n /\ m - 1 \in 0..n /\ ~(m <= m - 1)
    BY <1>1, <2>3
  <2>5. Good(m - 1)
    BY <2>2, <2>4
  <2> QED BY <1>7, <2>3, <2>4, <2>5
<1>9. Good(n)
  BY <1>1, <1>8
<1> QED BY <1>2, <1>9 DEF Good, Asks, now, rungs

\* Every step keeps the invariant of the book; the chain leaves the book alone and no pool
\* becomes a pool of another kind.
LEMMA AmmStep ==
  ASSUME AmmInv, RungsFit, [AmmNext]_ammVars
  PROVE  AmmInv'
<1>1. CASE UNCHANGED ammVars
  BY <1>1 DEF ammVars, AmmInv, BookInv
<1>2. CASE FeedUpdate
  <2>1. pool.kind = "feed" /\ pool' = pool /\ BookInv
    BY <1>2 DEF FeedUpdate, AmmInv
  <2>2. BookInv'
    BY <1>2, <2>1, FeedKeepsBook DEF FeedUpdate, FeedNext
  <2> QED BY <2>1, <2>2 DEF AmmInv
<1>3. CASE Populate
  <2>1. /\ pool.kind # "feed" /\ pool' = pool /\ book' = Ladder(book, pool)
        /\ folded' = folded \cup FoldedBy(book, Rungs(pool))
        /\ Rungs(pool) \in Seq(FittingRungs) /\ DOMAIN book = BookFields /\ BidSide(book) /\ BidBest(book, folded)
        /\ pool.kind = "v2" => AskSide(book) /\ AskBest(book, folded)
    BY <1>3 DEF Populate, Ladder, AmmInv, RungsFit
  <2>2. /\ DOMAIN book' = BookFields /\ BidSide(book') /\ BidBest(book', folded')
        /\ pool.kind = "v2" => AskSide(book') /\ AskBest(book', folded')
    BY <2>1, LadderKeeps
  <2> QED BY <2>1, <2>2 DEF AmmInv
<1>4. ASSUME UNCHANGED bookVars, "kind" \in DOMAIN pool', pool'.kind = pool.kind
      PROVE  AmmInv'
  BY <1>4 DEF AmmInv, BookInv, bookVars
<1>5. ASSUME NEW is_buy \in BOOLEAN, NEW a \in SwapAmounts, V2Swap(is_buy, a)
      PROVE  AmmInv'
  <2>1. UNCHANGED bookVars /\ pool' = SimulatedPool(pool, is_buy, a)
    BY <1>5 DEF V2Swap, MovePool
  <2>2. "kind" \in DOMAIN pool' /\ pool'.kind = pool.kind
    <3>1. "kind" \in DOMAIN pool
      BY DEF AmmInv
    <3> QED BY <2>1, <3>1 DEF SimulatedPool
  <2> QED BY <1>4, <2>1, <2>2
<1>6. ASSUME NEW t \in DOMAIN SqrtPriceOf, TickMove(t)
      PROVE  AmmInv'
  <2>1. UNCHANGED bookVars /\ pool' = [pool EXCEPT !.tick = t, !.sqrt_price = SqrtPriceOf[t]]
    BY <1>6 DEF TickMove, MovePool
  <2>2. "kind" \in DOMAIN pool' /\ pool'.kind = pool.kind
    BY <2>1 DEF AmmInv
  <2> QED BY <1>4, <2>1, <2>2
<1>7. ASSUME NEW i \in Coins(pool), NEW j \in Coins(pool), NEW a \in SwapAmounts, CurveSwap(i, j, a)
      PROVE  AmmInv'
  <2>1. /\ UNCHANGED bookVars
        /\ pool' = [pool EXCEPT !.raw_reserves[i] = @ + a, !.raw_reserves[j] = @ - SwapOutput(pool, i, j, a)]
    BY <1>7 DEF CurveSwap, MovePool
  <2>2. "kind" \in DOMAIN pool' /\ pool'.kind = pool.kind
    BY <2>1 DEF AmmInv
  <2> QED BY <1>4, <2>1, <2>2
<1> QED BY <1>1, <1>2, <1>3, <1>5, <1>6, <1>7 DEF AmmNext

\* The best levels that the book answers are those BestLevelsExact says for every feed, pool,
\* sequence of swaps and number of ladders written over each other, with any anchor and any
\* parameters, as long as the prices that ladders write are above 0 and below i64::MAX.
THEOREM BestOfLadders == AmmSpec /\ []RungsFit => []BestLevelsExact
<1>1. AmmInit => AmmInv
  <2> SUFFICES ASSUME AmmInit PROVE AmmInv
    OBVIOUS
  <2>1. BookInit /\ "kind" \in DOMAIN pool
    BY PoolsAssumption DEF AmmInit
  <2> QED BY <2>1, EmptySides, FeedStarts DEF AmmInv
<1>2. AmmInv /\ RungsFit /\ [AmmNext]_ammVars => AmmInv'
  BY AmmStep
<1>3. AmmInv => BestLevelsExact
  <2> SUFFICES ASSUME AmmInv PROVE BestLevelsExact
    OBVIOUS
  <2>1. pool.kind = "feed" => BidsExact /\ AsksExact /\ FeedExact
    BY FeedAnswers DEF AmmInv
  <2>2. pool.kind # "feed" => BidsExact
    BY BidAnswers DEF AmmInv
  <2>3. pool.kind = "v2" => AsksExact
    BY AskAnswers DEF AmmInv
  <2> QED BY <2>1, <2>2, <2>3, Zenon DEF BestLevelsExact
<1> QED BY <1>1, <1>2, <1>3, PTL DEF AmmSpec

-----------------------------------------------------------------------------
(* Roots, and the reserves of constant product pools                       *)

\* A step of Newton's iteration does not go below the root, and falls while above it.
LEMMA NewtonStep ==
  ASSUME NEW n \in Nat, NEW x \in Nat \ {0}
  PROVE  LET next == (x + (n \div x)) \div 2
         IN  /\ next \in Nat /\ n < (next + 1) * (next + 1)
             /\ x * x <= n => ~(next < x)
             /\ n < x * x => next < x
<1> DEFINE q == n \div x
           s == (x + q) \div 2
<1>1. q \in Nat /\ q * x <= n /\ n < (q + 1) * x
  BY Quotient
<1> HIDE DEF q
<1>2. s \in Nat /\ x + q + 1 <= 2 * (s + 1) /\ 2 * s <= x + q
  BY <1>1, SMT
<1> HIDE DEF s
<1>3. n < (s + 1) * (s + 1)
  <2>1. (x + q + 1) * (x + q + 1) <= (2 * (s + 1)) * (2 * (s + 1))
    BY <1>1, <1>2, SquareOrder
  <2>2. (2 * (s + 1)) * (2 * (s + 1)) = 4 * ((s + 1) * (s + 1))
    BY <1>2, SMT
  <2>3. (x + q + 1) * (x + q + 1) >= 4 * ((q + 1) * x)
    <3> DEFINE d == x - (q + 1)
    <3>1. d \in Int /\ d * d >= 0
      BY <1>1, SMT
    <3>2. (x + q + 1) * (x + q + 1) = 4 * ((q + 1) * x) + d * d
      BY <1>1, SMT
    <3>3. (q + 1) * x \in Nat /\ (x + q + 1) * (x + q + 1) \in Nat /\ d * d \in Int
      BY <1>1, <3>1, SMT
    <3> HIDE DEF d
    <3> QED BY <3>1, <3>2, <3>3, SMT
  <2>4. (q + 1) * x \in Nat /\ (s + 1) * (s + 1) \in Nat /\ (x + q + 1) * (x + q + 1) \in Nat
    BY <1>1, <1>2, SMT
  <2> QED BY <1>1, <2>1, <2>2, <2>3, <2>4, SMT
<1>4. x * x <= n => ~(s < x)
  <2> SUFFICES ASSUME x * x <= n PROVE x <= s
    BY <1>2, SMT
  <2>1. x * x < (q + 1) * x /\ x * x \in Nat
    BY <1>1, SMT
  <2>2. x < q + 1
    BY <1>1, <2>1, ProductOrder
  <2> QED BY <1>1, <1>2, <2>2, SMT
<1>5. n < x * x => s < x
  <2> SUFFICES ASSUME n < x * x PROVE s < x
    OBVIOUS
  <2>1. q * x < x * x
    BY <1>1, SMT
  <2>2. q < x
    BY <1>1, <2>1, ProductOrder
  <2> QED BY <1>1, <1>2, <2>2, SMT
<1> QED BY <1>2, <1>3, <1>4, <1>5 DEF q, s

\* r is the root of n, cut to an integer.
IsRoot(r, n) == r \in Nat /\ r * r <= n /\ n < (r + 1) * (r + 1)

\* Every number has one.
LEMMA RootExists ==
  ASSUME NEW n \in Nat
  PROVE  \E r : IsRoot(r, n)
<1> DEFINE S == {m \in Nat : n < (m + 1) * (m + 1)}
<1>1. n \in S
  <2>1. (n + 1) * (n + 1) = n * n + 2 * n + 1 /\ n * n >= 0
    BY SMT
  <2> QED BY <2>1, SMT
<1>2. PICK r \in S : \A m \in S : r <= m
  BY <1>1, LeastOfSet
<1>3. r \in Nat /\ n < (r + 1) * (r + 1)
  OBVIOUS
<1>4. CASE r = 0
  BY <1>3, <1>4 DEF IsRoot
<1>5. CASE r > 0
  <2>1. r - 1 \in Nat /\ ~(r <= r - 1) /\ (r - 1) + 1 = r
    BY <1>3, <1>5
  <2>2. ~(n < r * r)
    BY <1>2, <2>1
  <2>3. r * r \in Nat
    BY <1>3, SMT
  <2>4. r * r <= n
    BY <2>2, <2>3, SMT
  <2> QED BY <1>3, <2>4 DEF IsRoot
<1> QED BY <1>3, <1>4, <1>5

\* And only one.
LEMMA RootUnique ==
  ASSUME NEW n \in Nat, NEW r, NEW s, IsRoot(r, n), IsRoot(s, n)
  PROVE  r = s
<1>1. /\ r \in Nat /\ s \in Nat /\ r * r \in Nat /\ s * s \in Nat
      /\ (r + 1) * (r + 1) \in Nat /\ (s + 1) * (s + 1) \in Nat
  BY SMT DEF IsRoot
<1>2. r + 1 <= s => (r + 1) * (r + 1) <= s * s
  BY <1>1, SquareOrder
<1>3. s + 1 <= r => (s + 1) * (s + 1) <= r * r
  BY <1>1, SquareOrder
<1> QED BY <1>1, <1>2, <1>3, SMT DEF IsRoot

\* integer_sqrt finds the root, for every number: Newton's iteration from n / 2 neither
\* stops above it nor steps below it.
THEOREM RootExact == \A n \in Nat : IsRoot(IntegerSqrt(n), n)
<1> SUFFICES ASSUME NEW n \in Nat PROVE IsRoot(IntegerSqrt(n), n)
  OBVIOUS
<1>1. CASE n \in {0, 1}
  <2>1. IntegerSqrt(n) = n
    BY <1>1 DEF IntegerSqrt
  <2> QED BY <1>1, <2>1 DEF IsRoot
<1>2. CASE n \notin {0, 1}
  <2> DEFINE X1(x) == (x + (n \div x)) \div 2
             Iteration(f) == f = [x \in 1..n |-> IF X1(x) < x THEN f[X1(x)] ELSE x]
             from == CHOOSE f : Iteration(f)
             half == n \div 2
  <2>1. PICK r : IsRoot(r, n)
    BY RootExists
  <2>2. ASSUME NEW x \in 1..n
        PROVE  /\ x \in Nat \ {0} /\ X1(x) \in Nat /\ n < (X1(x) + 1) * (X1(x) + 1)
               /\ x * x <= n <=> ~(X1(x) < x)
               /\ X1(x) < x => X1(x) \in 1..n
    <3>1. x \in Nat \ {0} /\ x * x \in Nat
      BY SMT
    <3>2. /\ X1(x) \in Nat /\ n < (X1(x) + 1) * (X1(x) + 1)
          /\ (x * x <= n => ~(X1(x) < x)) /\ (n < x * x => X1(x) < x)
      BY <3>1, NewtonStep
    <3> HIDE DEF X1
    <3>3. x * x <= n <=> ~(X1(x) < x)
      BY <3>1, <3>2, SMT
    <3>4. X1(x) # 0
      BY <1>2, <3>2, SMT
    <3> QED BY <3>1, <3>2, <3>3, <3>4
  <2> HIDE DEF X1
  <2> DEFINE g == [x \in 1..n |-> IF x * x <= n THEN x ELSE r]
  <2>3. ASSUME NEW x \in 1..n
        PROVE  g[x] = IF X1(x) < x THEN g[X1(x)] ELSE x
    <3>1. CASE X1(x) < x
      <4>1. X1(x) \in 1..n /\ g[x] = r
        BY <2>2, <3>1
      <4>2. X1(x) * X1(x) <= n => X1(x) = r
        BY <2>1, <2>2, RootUnique DEF IsRoot
      <4> QED BY <3>1, <4>1, <4>2
    <3>2. CASE ~(X1(x) < x)
      BY <2>2, <3>2
    <3> QED BY <3>1, <3>2
  <2>4. Iteration(g)
    <3>1. g = [x \in 1..n |-> g[x]]
      OBVIOUS
    <3> HIDE DEF g
    <3>2. [x \in 1..n |-> g[x]] = [x \in 1..n |-> IF X1(x) < x THEN g[X1(x)] ELSE x]
      BY <2>3
    <3> QED BY <3>1, <3>2
  <2>5. Iteration(from)
    BY <2>4, Zenon
  <2>6. IntegerSqrt(n) = from[half]
    BY <1>2, Zenon DEF IntegerSqrt, X1
  <2> HIDE DEF from
  <2>7. \A x \in 1..n : from[x] = g[x]
    <3> DEFINE S == {x \in 1..n : from[x] # g[x]}
    <3> SUFFICES ASSUME S # {} PROVE FALSE
      OBVIOUS
    <3>0. S \in SUBSET Nat
      OBVIOUS
    <3>1. PICK x \in S : \A y \in S : x <= y
      BY <3>0, LeastOfSet
    <3>2. x \in 1..n /\ from[x] # g[x] /\ from[x] = IF X1(x) < x THEN from[X1(x)] ELSE x
      BY <2>5
    <3>3. CASE X1(x) < x
      <4>1. X1(x) \in 1..n /\ ~(x <= X1(x))
        BY <2>2, <3>2, <3>3
      <4>2. from[X1(x)] = g[X1(x)]
        BY <3>1, <4>1
      <4> QED BY <2>3, <3>2, <3>3, <4>2
    <3>4. CASE ~(X1(x) < x)
      BY <2>3, <3>2, <3>4
    <3> QED BY <3>3, <3>4
  <2>8. half \in 1..n /\ n <= 2 * half + 1
    BY <1>2, SMT
  <2> HIDE DEF half
  <2>9. IntegerSqrt(n) = IF half * half <= n THEN half ELSE r
    BY <2>6, <2>7, <2>8
  <2>10. n < (half + 1) * (half + 1)
    <3>1. (half + 1) * (half + 1) = half * half + 2 * half + 1 /\ half * half >= 1
      BY <2>8, SMT
    <3>2. half * half \in Nat /\ half \in Nat
      BY <2>8, SMT
    <3> QED BY <2>8, <3>1, <3>2, SMT
  <2> QED BY <2>1, <2>8, <2>9, <2>10 DEF IsRoot
<1> QED BY <1>1, <1>2

\* A v2 pool: u128 reserves, the share of the input that is left after the fee, and a unit of
\* each token.
V2Pool == [kind : {"v2"}, reserve_base : Nat, reserve_quote : Nat, fee_numerator : 0..Bps,
           base_unit : Nat \ {0}, quote_unit : Nat \ {0}]

\* The widths: i64 is within u64, and u64 within u128.
LEMMA Widths ==
  /\ {PriceScale, Bps, RatioScale, Word, U64} \subseteq Nat \ {0} /\ U64 <= Word
  /\ I64Max \in Int /\ I64Max < U64
BY ScaleAssumption DEF I64Max

\* What fits in i64 is not cut.
LEMMA Fits64 ==
  ASSUME NEW n \in 0..I64Max
  PROVE  AsI64(n) = n /\ Saturated(n) = n
<1>1. n \in Nat /\ n <= I64Max /\ n < U64 /\ U64 \in Nat \ {0} /\ I64Max \in Int
  BY Widths
<1>2. n % U64 = n
  BY <1>1
<1> QED BY <1>1, <1>2 DEF AsI64, Saturated

\* A spot price is a number, of either sign once it is cut to i64.
LEMMA SpotParts ==
  ASSUME NEW p \in V2Pool
  PROVE  /\ SpotNumerator(p) \in Nat /\ SpotDenominator(p) \in Nat
         /\ p.reserve_base > 0 => SpotDenominator(p) > 0
<1>1. /\ p.reserve_base \in Nat /\ p.reserve_quote \in Nat /\ PriceScale \in Nat \ {0}
      /\ p.base_unit \in Nat \ {0} /\ p.quote_unit \in Nat \ {0}
  BY ScaleAssumption DEF V2Pool
<1> DEFINE up == p.base_unit \div p.quote_unit
           down == p.quote_unit \div p.base_unit
           more == IF p.base_unit >= p.quote_unit THEN up ELSE 1
           less == IF p.base_unit >= p.quote_unit THEN 1 ELSE down
<1>2. up \in Nat /\ down \in Nat
  BY <1>1, Quotient
<1>3. p.base_unit < p.quote_unit => down # 0
  BY <1>1, <1>2, Quotient, SMT
<1>4. SpotNumerator(p) = p.reserve_quote * more * PriceScale /\ SpotDenominator(p) = p.reserve_base * less
  BY DEF SpotNumerator, SpotDenominator
<1> HIDE DEF up, down
<1>5. more \in Nat /\ less \in Nat \ {0}
  BY <1>1, <1>2, <1>3
<1> HIDE DEF more, less
<1> QED BY <1>1, <1>4, <1>5, SMT

LEMMA SpotIsInt ==
  ASSUME NEW p \in V2Pool
  PROVE  V2Spot(p) \in Int
<1> DEFINE num == SpotNumerator(p) % Word
           den == SpotDenominator(p) % Word
<1>1. num \in Nat /\ den \in Nat
  BY SpotParts, Widths
<1>2. V2Spot(p) = IF den = 0 THEN 0 ELSE AsI64(num \div den)
  BY DEF V2Spot
<1> HIDE DEF num, den
<1>3. \A n \in Nat : AsI64(n) \in Int
  BY Widths DEF AsI64
<1> QED BY <1>1, <1>2, <1>3, Quotient

\* Where the products fit their widths, the spot price is the quotient of the reserves.
LEMMA SpotOfFit ==
  ASSUME NEW p \in V2Pool, SpotFits(p)
  PROVE  V2Spot(p) = SpotNumerator(p) \div SpotDenominator(p) /\ V2Spot(p) \in 1..I64Max
<1> DEFINE num == SpotNumerator(p)
           den == SpotDenominator(p)
<1>1. num \in Nat /\ den \in Nat \ {0} /\ num < Word /\ den < Word /\ num \div den \in 1..I64Max
  BY SpotParts DEF SpotFits
<1>2. V2Spot(p) = IF den % Word = 0 THEN 0 ELSE AsI64((num % Word) \div (den % Word))
  BY DEF V2Spot
<1> HIDE DEF num, den
<1>3. num % Word = num /\ den % Word = den
  BY <1>1, Widths
<1>4. AsI64(num \div den) = num \div den
  <2>1. num \div den \in 0..I64Max
    BY <1>1
  <2> QED BY <2>1, Fits64
<1> QED BY <1>1, <1>2, <1>3, <1>4 DEF num, den

\* The reserve that populate_virtual_order_book computes for a target price is on the pool's
\* curve, whatever the reserves, decimals and prices, as long as reserve_base * ratio is within
\* u128 (beyond it the release build wraps): the root and the two divisions that it goes
\* through cost at most what OnCurve allows.
THEOREM TargetOnCurve ==
  \A p \in V2Pool, t \in 1..Word - 1 :
    V2Spot(p) > 0 /\ p.reserve_base * Ratio(p, t) < Word => TargetBase(p, t) \in Nat /\ OnCurve(p, TargetBase(p, t), t)
<1> SUFFICES ASSUME NEW p \in V2Pool, NEW t \in 1..Word - 1, V2Spot(p) > 0, p.reserve_base * Ratio(p, t) < Word
             PROVE  TargetBase(p, t) \in Nat /\ OnCurve(p, TargetBase(p, t), t)
  OBVIOUS
<1> DEFINE r == p.reserve_base
           spot == V2Spot(p)
           s == RatioScale
           q == (spot * s * s) \div t
           root == IntegerSqrt(q)
           x == (r * root) \div s
           part == r \div s
           above == x + 1 + part + 1
<1>1. r \in Nat /\ spot \in Nat /\ s \in Nat \ {0} /\ spot * s * s \in Nat /\ t \in Nat \ {0} /\ Word \in Nat \ {0}
  <2>1. r \in Nat /\ s \in Nat \ {0} /\ t \in Nat \ {0} /\ Word \in Nat \ {0}
    BY ScaleAssumption DEF V2Pool
  <2>2. spot \in Nat
    BY SpotIsInt
  <2> HIDE DEF r, spot, s
  <2> QED BY <2>1, <2>2, SMT
<1>2. r * root < Word /\ TargetBase(p, t) = ((r * root) % Word) \div s
  <2>1. t % Word = t
    BY <1>1
  <2> QED BY <2>1 DEF TargetBase, Ratio
<1>3. OnCurve(p, x, t) <=> x * x * t <= r * r * spot /\ r * r * spot < above * above * t
  BY DEF OnCurve
<1> HIDE DEF r, spot, s
<1>4. q \in Nat /\ q * t <= spot * s * s /\ spot * s * s < (q + 1) * t
  BY <1>1, Quotient
<1> HIDE DEF q
<1>5. root \in Nat /\ root * root <= q /\ q < (root + 1) * (root + 1) /\ r * root \in Nat
  <2>1. IsRoot(root, q)
    BY <1>4, RootExact
  <2> QED BY <1>1, <2>1, SMT DEF IsRoot
<1> HIDE DEF root
<1>6. x \in Nat /\ x * s <= r * root /\ r * root < (x + 1) * s /\ TargetBase(p, t) = x
  <2>1. (r * root) % Word = r * root
    BY <1>1, <1>2, <1>5
  <2> QED BY <1>1, <1>2, <1>5, <2>1, Quotient
<1>7. part \in Nat /\ part * s <= r /\ r < (part + 1) * s
  BY <1>1, Quotient
<1> HIDE DEF x, part
<1>8. /\ above \in Nat /\ s * s \in Nat \ {0}
      /\ x * x * t \in Nat /\ r * r * spot \in Nat /\ above * above * t \in Nat
  BY <1>1, <1>6, <1>7, SMT
<1>9. x * x * t <= r * r * spot
  <2>1. (x * s) * (x * s) <= (r * root) * (r * root)
    <3>1. x * s \in Nat
      BY <1>1, <1>6, SMT
    <3> QED BY <1>5, <1>6, <3>1, SquareOrder
  <2>2. (root * root) * (r * r) <= q * (r * r)
    <3>1. root * root \in Nat /\ r * r \in Nat
      BY <1>1, <1>5, SMT
    <3> QED BY <1>4, <1>5, <3>1, ProductOrder
  <2>3. (r * root) * (r * root) = (root * root) * (r * r)
    BY <1>1, <1>5, SMT
  <2>4. ((x * s) * (x * s)) * t <= (q * (r * r)) * t
    <3>1. (x * s) * (x * s) \in Nat /\ q * (r * r) \in Nat /\ (r * root) * (r * root) \in Nat
      BY <1>1, <1>4, <1>5, <1>6, SMT
    <3>2. (x * s) * (x * s) <= q * (r * r)
      BY <2>1, <2>2, <2>3, <3>1, SMT
    <3> QED BY <3>1, <3>2, ProductOrder
  <2>5. (q * t) * (r * r) <= (spot * s * s) * (r * r)
    <3>1. q * t \in Nat /\ r * r \in Nat
      BY <1>1, <1>4, SMT
    <3> QED BY <1>1, <1>4, <3>1, ProductOrder
  <2>6. /\ ((x * s) * (x * s)) * t = (x * x * t) * (s * s)
        /\ (q * (r * r)) * t = (q * t) * (r * r)
        /\ (spot * s * s) * (r * r) = (r * r * spot) * (s * s)
    BY <1>1, <1>4, <1>6, SMT
  <2>7. (x * x * t) * (s * s) <= (r * r * spot) * (s * s)
    <3>1. (x * x * t) * (s * s) \in Nat /\ (q * t) * (r * r) \in Nat /\ (r * r * spot) * (s * s) \in Nat
      BY <1>1, <1>4, <1>8, SMT
    <3> QED BY <2>4, <2>5, <2>6, <3>1, SMT
  <2> QED BY <1>8, <2>7, ProductOrder
<1>10. r * r * spot < above * above * t
  <2> DEFINE up == root + 1
  <2>1. up \in Nat /\ up * up \in Nat /\ q + 1 <= up * up
    BY <1>4, <1>5, SMT
  <2>2. spot * s * s < (up * up) * t
    <3>1. (q + 1) * t <= (up * up) * t /\ (q + 1) * t \in Nat
      BY <1>4, <2>1, ProductOrder
    <3>2. (up * up) * t \in Nat
      BY <2>1, SMT
    <3> QED BY <1>1, <1>4, <3>1, <3>2, SMT
  <2>3. r * up <= above * s
    <3>1. r * up = r * root + r /\ above * s = (x + 1) * s + (part + 1) * s
      BY <1>1, <1>5, <1>6, <1>7, SMT
    <3>2. (x + 1) * s \in Nat /\ (part + 1) * s \in Nat
      BY <1>1, <1>6, <1>7, SMT
    <3> QED BY <1>1, <1>5, <1>6, <1>7, <3>1, <3>2, SMT
  <2> HIDE DEF up
  <2>4. (r * up) * (r * up) <= (above * s) * (above * s)
    <3>1. r * up \in Nat /\ above * s \in Nat
      BY <1>1, <1>8, <2>1, SMT
    <3> QED BY <2>3, <3>1, SquareOrder
  <2> HIDE DEF above
  <2>5. ((r * up) * (r * up)) * t <= ((above * s) * (above * s)) * t
    <3>1. (r * up) * (r * up) \in Nat /\ (above * s) * (above * s) \in Nat
      BY <1>1, <1>8, <2>1, SMT
    <3> QED BY <2>4, <3>1, ProductOrder
  <2>6. ((r * up) * (r * up)) * t = ((up * up) * t) * (r * r)
    BY <1>1, <2>1, SMT
  <2>7. ((above * s) * (above * s)) * t = (above * above * t) * (s * s)
    BY <1>1, <1>8, SMT
  <2>8. CASE r = 0
    <3>1. r * r * spot = 0
      BY <1>1, <2>8, SMT
    <3>2. above > 0
      BY <1>6, <1>7 DEF above
    <3> QED BY <1>8, <3>1, <3>2, SMT
  <2>9. CASE r # 0
    <3>1. (spot * s * s) * (r * r) < ((up * up) * t) * (r * r)
      <4>1. r * r \in Nat /\ r * r > 0 /\ (up * up) * t \in Nat
        BY <1>1, <2>1, <2>9, SMT
      <4> QED BY <1>1, <2>2, <4>1, ProductOrder
    <3>2. (spot * s * s) * (r * r) = (r * r * spot) * (s * s)
      BY <1>1, SMT
    <3>3. (r * r * spot) * (s * s) < (above * above * t) * (s * s)
      <4>1. /\ (r * r * spot) * (s * s) \in Nat /\ (above * above * t) * (s * s) \in Nat
            /\ ((up * up) * t) * (r * r) \in Nat
        BY <1>1, <1>8, <2>1, SMT
      <4> QED BY <2>5, <2>6, <2>7, <3>1, <3>2, <4>1, SMT
    <3> QED BY <1>8, <3>3, ProductOrder
  <2> QED BY <2>8, <2>9
<1> QED BY <1>3, <1>6, <1>9, <1>10

-----------------------------------------------------------------------------
(* Ladders of constant product pools                                       *)

\* v2 pools as they are made; of any reserves and decimals.
V2PoolsTyped ==
  /\ Bands \in Seq(Nat) /\ SwapAmounts \subseteq Nat
  /\ \A p \in Pools : p.kind = "v2" => p \in V2Pool

AskOf(p, i) == AskTarget(V2Spot(p), Bands[i])
BidOf(p, i) == BidTarget(V2Spot(p), Bands[i])

\* No later band shares the level of band i.
LastAsk(p, i) == \A m \in DOMAIN Bands : m > i => Diff(AskOf(p, m)) # Diff(AskOf(p, i))
LastBid(p, i) == \A m \in DOMAIN Bands : m > i => Diff(BidOf(p, m)) # Diff(BidOf(p, i))

\* The bands that answer a level of the window, which no later band shares.
ShownAsks(p) ==
  {i \in DOMAIN Bands : /\ AskOf(p, i) \in Nat \ {0} /\ V2AskQuantity(p, AskOf(p, i)) # NoAnswer
                        /\ InWindow(AskOf(p, i)) /\ LastAsk(p, i)}
ShownBids(p) ==
  {i \in DOMAIN Bands : /\ BidOf(p, i) \in Nat \ {0} /\ V2BidQuantity(p, BidOf(p, i)) # NoAnswer
                        /\ InWindow(BidOf(p, i)) /\ LastBid(p, i)}

\* The book shows those of the first n rungs.
Shows(b, p, n) ==
  /\ DOMAIN b = BookFields /\ DOMAIN b.asks = Indices /\ DOMAIN b.bids = Indices
  /\ \A i \in ShownAsks(p) : 2 * i - 1 <= n =>
       b.asks[Diff(AskOf(p, i))] = [price |-> AskOf(p, i), quantity |-> V2AskQuantity(p, AskOf(p, i))]
  /\ \A i \in ShownBids(p) : 2 * i <= n =>
       b.bids[Diff(BidOf(p, i))] = [price |-> BidOf(p, i), quantity |-> V2BidQuantity(p, BidOf(p, i))]

\* A level that is written is the only one that changes.
LEMMA WriteOne ==
  ASSUME NEW b, DOMAIN b = BookFields, DOMAIN b.asks = Indices, DOMAIN b.bids = Indices, NEW x, NEW q
  PROVE  LET up == Write(b, Rung("update_ask", x, q))
             down == Write(b, Rung("update_bid", x, q))
         IN  /\ DOMAIN up = BookFields /\ DOMAIN up.asks = Indices /\ up.bids = b.bids
             /\ q # NoAnswer /\ x \in Nat /\ InWindow(x) => up.asks[Diff(x)] = [price |-> x, quantity |-> q]
             /\ \A i \in Indices : i # Diff(x) => up.asks[i] = b.asks[i]
             /\ DOMAIN down = BookFields /\ DOMAIN down.bids = Indices /\ down.asks = b.asks
             /\ q # NoAnswer /\ x \in Nat \ {0} /\ InWindow(x) => down.bids[Diff(x)] = [price |-> x, quantity |-> q]
             /\ \A i \in Indices : i # Diff(x) => down.bids[i] = b.bids[i]
<1> DEFINE l == [price |-> x, quantity |-> q]
           up == Write(b, Rung("update_ask", x, q))
           down == Write(b, Rung("update_bid", x, q))
<1>1. /\ up = IF q # NoAnswer THEN UpdateAsk(b, x, q) ELSE b
      /\ down = IF q # NoAnswer /\ x > 0 THEN UpdateBid(b, x, q) ELSE b
  BY DEF Write, IsWritten, Rung
<1>2. x \in Nat /\ InWindow(x) => Diff(x) \in Indices
  BY LevelOfPrice
<1>3. /\ DOMAIN up = BookFields /\ up.bids = b.bids
      /\ up.asks = IF q # NoAnswer /\ InWindow(x) THEN [b.asks EXCEPT ![Diff(x)] = l] ELSE b.asks
  BY <1>1 DEF UpdateAsk, BookFields
<1>4. /\ DOMAIN down = BookFields /\ down.asks = b.asks
      /\ down.bids = IF q # NoAnswer /\ x > 0 /\ InWindow(x) THEN [b.bids EXCEPT ![Diff(x)] = l] ELSE b.bids
  BY <1>1 DEF UpdateBid, BookFields
<1> HIDE DEF up, down, l
<1>5. /\ DOMAIN up.asks = Indices /\ (q # NoAnswer /\ x \in Nat /\ InWindow(x) => up.asks[Diff(x)] = l)
      /\ \A i \in Indices : i # Diff(x) => up.asks[i] = b.asks[i]
  BY <1>2, <1>3
<1>6. /\ DOMAIN down.bids = Indices
      /\ q # NoAnswer /\ x \in Nat \ {0} /\ InWindow(x) => down.bids[Diff(x)] = l
      /\ \A i \in Indices : i # Diff(x) => down.bids[i] = b.bids[i]
  <2>1. x \in Nat \ {0} => x > 0
    OBVIOUS
  <2> QED BY <1>2, <1>4, <2>1
<1> QED BY <1>3, <1>4, <1>5, <1>6 DEF up, down, l

\* The rungs of a v2 ladder: ask and bid of each band in turn.
LEMMA RungsOfV2 ==
  ASSUME V2PoolsTyped, NEW p \in V2Pool, V2Spot(p) > 0
  PROVE  /\ Len(Bands) \in Nat /\ DOMAIN Bands = 1..Len(Bands)
         /\ Len(Rungs(p)) = 2 * Len(Bands) /\ Len(Rungs(p)) \in Nat
         /\ \A i \in DOMAIN Bands :
              /\ Rungs(p)[2 * i - 1] = Rung("update_ask", AskOf(p, i), V2AskQuantity(p, AskOf(p, i)))
              /\ Rungs(p)[2 * i] = Rung("update_bid", BidOf(p, i), V2BidQuantity(p, BidOf(p, i)))
<1> DEFINE ask(bps) == Rung("update_ask", AskTarget(V2Spot(p), bps), V2AskQuantity(p, AskTarget(V2Spot(p), bps)))
           bid(bps) == Rung("update_bid", BidTarget(V2Spot(p), bps), V2BidQuantity(p, BidTarget(V2Spot(p), bps)))
           n == 2 * Len(Bands)
<1>1. Len(Bands) \in Nat /\ DOMAIN Bands = 1..Len(Bands) /\ n \in Nat
  BY DEF V2PoolsTyped
<1>2. V2Spot(p) \in Int /\ ~(V2Spot(p) <= 0) /\ p.kind = "v2"
  BY SpotIsInt DEF V2Pool
<1>3. Rungs(p) = [m \in 1..n |-> IF m % 2 = 1 THEN ask(Bands[(m + 1) \div 2]) ELSE bid(Bands[m \div 2])]
  BY <1>2 DEF Rungs, V2Rungs, Banded
<1> HIDE DEF ask, bid
<1>4. Len(Rungs(p)) = n
  BY <1>1, <1>3
<1>5. ASSUME NEW i \in DOMAIN Bands
      PROVE  Rungs(p)[2 * i - 1] = ask(Bands[i]) /\ Rungs(p)[2 * i] = bid(Bands[i])
  <2>1. i \in Nat /\ 2 * i - 1 \in 1..n /\ 2 * i \in 1..n
    BY <1>1
  <2>2. (2 * i - 1) % 2 = 1 /\ (2 * i) % 2 # 1
    BY <2>1
  <2>3. (2 * i) \div 2 = i /\ (2 * i - 1) + 1 = 2 * i
    BY <2>1
  <2> QED BY <1>3, <2>1, <2>2, <2>3
<1> QED BY <1>1, <1>4, <1>5 DEF ask, bid, AskOf, BidOf

\* Writing a v2 ladder over an empty book leaves every such band of the window at its levels.
LEMMA V2LadderShows ==
  ASSUME V2PoolsTyped, NEW p \in V2Pool, V2Spot(p) > 0
  PROVE  Shows(Ladder(EmptyBook, p), p, 2 * Len(Bands))
<1> DEFINE rungs == Rungs(p)
           n == 2 * Len(Bands)
           g == Writing(EmptyBook, rungs)
<1>1. /\ n \in Nat /\ DOMAIN Bands = 1..Len(Bands) /\ Len(Bands) \in Nat /\ Len(rungs) = n /\ Len(rungs) \in Nat
      /\ \A i \in DOMAIN Bands :
           /\ rungs[2 * i - 1] = Rung("update_ask", AskOf(p, i), V2AskQuantity(p, AskOf(p, i)))
           /\ rungs[2 * i] = Rung("update_bid", BidOf(p, i), V2BidQuantity(p, BidOf(p, i)))
  BY RungsOfV2
<1>2. IsWriting(g, EmptyBook, rungs, n) /\ Ladder(EmptyBook, p) = g[n]
  BY <1>1, LadderIsWriting
<1> HIDE DEF rungs, n, g
<1>3. \A i \in DOMAIN Bands : i \in Nat \ {0}
  BY <1>1
<1> DEFINE S == {m \in 0..n : ~Shows(g[m], p, m)}
<1>4. Shows(g[0], p, 0)
  <2>1. g[0] = EmptyBook
    BY <1>2 DEF IsWriting
  <2>2. DOMAIN EmptyBook = BookFields /\ DOMAIN EmptyBook.asks = Indices /\ DOMAIN EmptyBook.bids = Indices
    BY DEF EmptyBook, BookFields
  <2>3. (\A i \in ShownAsks(p) : ~(2 * i - 1 <= 0)) /\ (\A i \in ShownBids(p) : ~(2 * i <= 0))
    BY <1>3 DEF ShownAsks, ShownBids
  <2> QED BY <2>1, <2>2, <2>3 DEF Shows
<1>5. ASSUME NEW m \in 1..n, Shows(g[m - 1], p, m - 1) PROVE Shows(g[m], p, m)
  <2> DEFINE b == g[m - 1]
             c == g[m]
  <2>1. /\ c = Write(b, rungs[m]) /\ DOMAIN b = BookFields /\ DOMAIN b.asks = Indices /\ DOMAIN b.bids = Indices
    BY <1>2, <1>5 DEF IsWriting, Shows
  <2>2. PICK j \in DOMAIN Bands : m = 2 * j - 1 \/ m = 2 * j
    <3>1. CASE m % 2 = 1
      <4>1. (m + 1) \div 2 \in DOMAIN Bands /\ m = 2 * ((m + 1) \div 2) - 1
        BY <1>1, <3>1 DEF n
      <4> QED BY <4>1
    <3>2. CASE m % 2 # 1
      <4>1. m \div 2 \in DOMAIN Bands /\ m = 2 * (m \div 2)
        BY <1>1, <3>2 DEF n
      <4> QED BY <4>1
    <3> QED BY <3>1, <3>2
  <2>3. j \in Nat \ {0} /\ m \in Nat
    BY <1>3, <1>1
  <2> HIDE DEF b, c
  <2>4. /\ \A i \in ShownAsks(p) : 2 * i - 1 <= m - 1 =>
             b.asks[Diff(AskOf(p, i))] = [price |-> AskOf(p, i), quantity |-> V2AskQuantity(p, AskOf(p, i))]
        /\ \A i \in ShownBids(p) : 2 * i <= m - 1 =>
             b.bids[Diff(BidOf(p, i))] = [price |-> BidOf(p, i), quantity |-> V2BidQuantity(p, BidOf(p, i))]
    BY <1>5 DEF Shows, b
  <2>5. CASE m = 2 * j - 1
    <3> DEFINE x == AskOf(p, j)
               q == V2AskQuantity(p, AskOf(p, j))
    <3>1. c = Write(b, Rung("update_ask", x, q))
      BY <1>1, <2>1, <2>5
    <3>2. /\ DOMAIN c = BookFields /\ DOMAIN c.asks = Indices /\ c.bids = b.bids
          /\ q # NoAnswer /\ x \in Nat \ {0} /\ InWindow(x) => c.asks[Diff(x)] = [price |-> x, quantity |-> q]
          /\ \A i \in Indices : i # Diff(x) => c.asks[i] = b.asks[i]
      BY <2>1, <3>1, WriteOne
    <3>3. ASSUME NEW i \in ShownAsks(p), 2 * i - 1 <= m
          PROVE  c.asks[Diff(AskOf(p, i))] = [price |-> AskOf(p, i), quantity |-> V2AskQuantity(p, AskOf(p, i))]
      <4>1. CASE i = j
        BY <3>2, <4>1 DEF ShownAsks
      <4>2. CASE i # j
        <5>1. i \in DOMAIN Bands /\ 2 * i - 1 <= m - 1 /\ j > i
          BY <1>3, <2>3, <2>5, <3>3, <4>2 DEF ShownAsks
        <5>2. Diff(AskOf(p, i)) # Diff(x) /\ Diff(AskOf(p, i)) \in Indices
          <6>1. AskOf(p, i) \in Nat /\ InWindow(AskOf(p, i)) /\ LastAsk(p, i)
            BY DEF ShownAsks
          <6>2. Diff(AskOf(p, i)) \in Indices
            BY <6>1, LevelOfPrice
          <6> QED BY <5>1, <6>1, <6>2 DEF LastAsk
        <5> QED BY <2>4, <3>2, <5>1, <5>2
      <4> QED BY <4>1, <4>2
    <3>4. \A i \in ShownBids(p) : 2 * i <= m => 2 * i <= m - 1
      BY <1>3, <2>3, <2>5 DEF ShownBids
    <3> HIDE DEF x, q
    <3> QED BY <2>1, <2>4, <3>2, <3>3, <3>4 DEF Shows, c
  <2>6. CASE m = 2 * j
    <3> DEFINE x == BidOf(p, j)
               q == V2BidQuantity(p, BidOf(p, j))
    <3>1. c = Write(b, Rung("update_bid", x, q))
      BY <1>1, <2>1, <2>6
    <3>2. /\ DOMAIN c = BookFields /\ DOMAIN c.bids = Indices /\ c.asks = b.asks
          /\ q # NoAnswer /\ x \in Nat \ {0} /\ InWindow(x) => c.bids[Diff(x)] = [price |-> x, quantity |-> q]
          /\ \A i \in Indices : i # Diff(x) => c.bids[i] = b.bids[i]
      BY <2>1, <3>1, WriteOne
    <3>3. ASSUME NEW i \in ShownBids(p), 2 * i <= m
          PROVE  c.bids[Diff(BidOf(p, i))] = [price |-> BidOf(p, i), quantity |-> V2BidQuantity(p, BidOf(p, i))]
      <4>1. CASE i = j
        BY <3>2, <4>1 DEF ShownBids
      <4>2. CASE i # j
        <5>1. i \in DOMAIN Bands /\ 2 * i <= m - 1 /\ j > i
          BY <1>3, <2>3, <2>6, <3>3, <4>2 DEF ShownBids
        <5>2. Diff(BidOf(p, i)) # Diff(x) /\ Diff(BidOf(p, i)) \in Indices
          <6>1. BidOf(p, i) \in Nat /\ InWindow(BidOf(p, i)) /\ LastBid(p, i)
            BY DEF ShownBids
          <6>2. Diff(BidOf(p, i)) \in Indices
            BY <6>1, LevelOfPrice
          <6> QED BY <5>1, <6>1, <6>2 DEF LastBid
        <5> QED BY <2>4, <3>2, <5>1, <5>2
      <4> QED BY <4>1, <4>2
    <3>4. \A i \in ShownAsks(p) : 2 * i - 1 <= m => 2 * i - 1 <= m - 1
      BY <1>3, <2>3, <2>6 DEF ShownAsks
    <3> HIDE DEF x, q
    <3> QED BY <2>1, <2>4, <3>2, <3>3, <3>4 DEF Shows, c
  <2> QED BY <2>2, <2>5, <2>6
<1>6. S = {}
  <2> SUFFICES ASSUME S # {} PROVE FALSE
    OBVIOUS
  <2>1. S \in SUBSET Nat
    BY <1>1
  <2>2. PICK m \in S : \A y \in S : m <= y
    BY <2>1, LeastOfSet
  <2>3. m \in 0..n /\ ~Shows(g[m], p, m) /\ m # 0
    BY <1>4
  <2>4. m \in 1..n /\ m - 1 \in 0..n /\ ~(m <= m - 1)
    BY <1>1, <2>3
  <2>5. Shows(g[m - 1], p, m - 1)
    BY <2>2, <2>4
  <2> QED BY <1>5, <2>3, <2>4, <2>5
<1>7. Shows(g[n], p, n)
  BY <1>1, <1>6
<1> QED BY <1>2, <1>7 DEF n

\* The prices of a band whose products fit: at or above the spot price, and at or below it.
LEMMA BandPrices ==
  ASSUME V2PoolsTyped, NEW p \in V2Pool, SpotFits(p), NEW i \in DOMAIN Bands, ShareFits(p, Bands[i])
  PROVE  AskOf(p, i) \in Nat /\ V2Spot(p) <= AskOf(p, i) /\ BidOf(p, i) <= V2Spot(p)
<1> DEFINE spot == V2Spot(p)
           bps == Bands[i]
           part == (spot * bps) \div Bps
<1>1. spot \in 1..I64Max /\ bps \in Nat /\ Bps \in Nat \ {0} /\ I64Max \in Int /\ spot * bps + spot <= I64Max
  BY SpotOfFit, Widths DEF V2PoolsTyped, ShareFits
<1>2. AskOf(p, i) = AsI64(spot + Share(spot, bps, Bps)) /\ BidOf(p, i) = Saturated(spot - Share(spot, bps, Bps))
  BY DEF AskOf, BidOf, AskTarget, BidTarget
<1> HIDE DEF spot, bps
<1>3. spot * bps \in Nat /\ spot \in Nat \ {0}
  BY <1>1, ProductOrder
<1>4. part \in Nat /\ part * Bps <= spot * bps
  BY <1>1, <1>3, Quotient
<1>5. part <= spot * bps
  <2>1. part <= part * Bps
    BY <1>1, <1>4, SMT
  <2> QED BY <1>1, <1>3, <1>4, <2>1
<1>6. Share(spot, bps, Bps) = part
  <2>1. AsI64(spot * bps) = spot * bps
    BY <1>1, <1>3, Fits64
  <2> QED BY <1>3, <2>1 DEF Share, Truncated
<1> HIDE DEF part
<1>7. AskOf(p, i) = spot + part
  <2>1. spot + part \in 0..I64Max
    BY <1>1, <1>3, <1>4, <1>5
  <2> QED BY <1>2, <1>6, <2>1, Fits64
<1>8. BidOf(p, i) <= spot
  BY <1>1, <1>2, <1>3, <1>4, <1>6 DEF Saturated
<1> QED BY <1>3, <1>4, <1>7, <1>8 DEF spot

\* A band without a level has the price of the pool, up to the rounding.
LEMMA SpotIsOnCurve ==
  ASSUME NEW p \in V2Pool, NEW t \in Nat \ {0}, V2Spot(p) > 0, NEW x \in Nat, OnCurve(p, x, t),
         (V2Spot(p) <= t /\ p.reserve_base <= x) \/ (t <= V2Spot(p) /\ x <= p.reserve_base)
  PROVE  OnCurve(p, p.reserve_base, t)
<1> DEFINE r == p.reserve_base
           spot == V2Spot(p)
           part == r \div RatioScale
           above(y) == y + 1 + part + 1
           exact == r * r * spot
           atSpot == r * r * t
           atX == x * x * t
           overSpot == above(r) * above(r) * t
           overX == above(x) * above(x) * t
<1>1. r \in Nat /\ spot \in Nat /\ part \in Nat
  <2>1. r \in Nat /\ RatioScale \in Nat \ {0}
    BY Widths DEF V2Pool
  <2> QED BY <2>1, SpotIsInt, Quotient
<1>2. /\ atX <= exact /\ exact < overX
      /\ OnCurve(p, r, t) <=> atSpot <= exact /\ exact < overSpot
      /\ (spot <= t /\ r <= x) \/ (t <= spot /\ x <= r)
  BY DEF OnCurve
<1> HIDE DEF r, spot, part
<1>3. r * r \in Nat /\ x * x \in Nat /\ above(r) \in Nat /\ above(x) \in Nat
  BY <1>1, ProductOrder
<1>4. /\ atSpot \in Nat /\ exact \in Nat /\ atX \in Nat /\ overSpot \in Nat /\ overX \in Nat
      /\ above(r) * above(r) \in Nat /\ above(x) * above(x) \in Nat /\ r * r < above(r) * above(r)
  <2>1. r < above(r)
    BY <1>1
  <2>2. above(r) * above(r) \in Nat /\ above(x) * above(x) \in Nat
    BY <1>3, ProductOrder
  <2> QED BY <1>1, <1>3, <2>1, <2>2, ProductOrder, SquareOrder
<1> HIDE DEF above
<1>5. CASE spot <= t /\ r <= x
  <2>1. atSpot <= atX
    <3>1. r * r <= x * x
      BY <1>1, <1>5, SquareOrder
    <3> QED BY <1>3, <3>1, ProductOrder
  <2>2. exact <= atSpot
    <3>1. spot * (r * r) <= t * (r * r)
      BY <1>1, <1>3, <1>5, ProductOrder
    <3> QED BY <1>1, <1>3, <3>1, SMT
  <2>3. atSpot < overSpot
    BY <1>3, <1>4, ProductOrder
  <2> HIDE DEF exact, atSpot, atX, overSpot, overX
  <2> QED BY <1>2, <1>4, <2>1, <2>2, <2>3 DEF r
<1>6. CASE t <= spot /\ x <= r
  <2>1. atSpot <= exact
    <3>1. t * (r * r) <= spot * (r * r)
      BY <1>1, <1>3, <1>6, ProductOrder
    <3> QED BY <1>1, <1>3, <3>1, SMT
  <2>2. overX <= overSpot
    <3>1. above(x) <= above(r)
      BY <1>1, <1>6 DEF above
    <3>2. above(x) * above(x) <= above(r) * above(r)
      BY <1>3, <3>1, SquareOrder
    <3> QED BY <1>4, <3>2, ProductOrder
  <2> HIDE DEF exact, atSpot, atX, overSpot, overX
  <2> QED BY <1>2, <1>4, <2>1, <2>2 DEF r
<1> QED BY <1>2, <1>5, <1>6

\* The quantity of an amount that fits is its quotient, and the amounts of a quantity are
\* those that ShowsMove looks through.
LEMMA AmountOfQuantity ==
  ASSUME NEW p \in V2Pool, NEW d \in Nat, d * PriceScale < Word, (d * PriceScale) \div p.base_unit < U64
  PROVE  /\ Quantity(p, d) = (d * PriceScale) \div p.base_unit
         /\ d \in ((Quantity(p, d) * p.base_unit) \div PriceScale)..(((Quantity(p, d) + 1) * p.base_unit) \div PriceScale)
         /\ Quantity(p, d) # NoAnswer
<1> DEFINE u == p.base_unit
           s == PriceScale
           q == (d * s) \div u
           low == (q * u) \div s
           high == ((q + 1) * u) \div s
<1>1. u \in Nat \ {0} /\ s \in Nat \ {0} /\ Word \in Nat \ {0} /\ U64 \in Nat \ {0} /\ d * s < Word /\ q < U64
  BY Widths DEF V2Pool
<1>2. Quantity(p, d) = (((d * s) % Word) \div u) % U64
  BY DEF Quantity
<1> HIDE DEF u, s
<1>3. d * s \in Nat
  BY <1>1, ProductOrder
<1>4. q \in Nat /\ q * u <= d * s /\ d * s < (q + 1) * u
  BY <1>1, <1>3, Quotient
<1>5. Quantity(p, d) = q
  <2>1. (d * s) % Word = d * s
    BY <1>1, <1>3
  <2>2. q % U64 = q
    BY <1>1, <1>4
  <2> QED BY <1>2, <2>1, <2>2
<1> HIDE DEF q
<1>6. q * u \in Nat /\ (q + 1) * u \in Nat
  <2>1. q + 1 \in Nat
    BY <1>4
  <2> QED BY <1>1, <1>4, <2>1, ProductOrder
<1>7. /\ low \in Nat /\ low * s <= q * u
      /\ high \in Nat /\ (q + 1) * u < (high + 1) * s
  BY <1>1, <1>6, Quotient
<1> HIDE DEF low, high
<1>8. low <= d
  <2>1. low * s <= d * s
    <3>1. low * s \in Nat
      BY <1>1, <1>7, ProductOrder
    <3> QED BY <1>3, <1>4, <1>6, <1>7, <3>1
  <2> QED BY <1>1, <1>7, <2>1, ProductOrder
<1>9. d <= high
  <2>1. d * s < (high + 1) * s /\ high + 1 \in Nat
    <3>1. (high + 1) * s \in Nat
      BY <1>1, <1>7, ProductOrder
    <3> QED BY <1>3, <1>4, <1>6, <1>7, <3>1
  <2>2. d < high + 1
    BY <1>1, <2>1, ProductOrder
  <2> QED BY <1>7, <2>2
<1>10. q # NoAnswer
  BY <1>4 DEF NoAnswer
<1> QED BY <1>5, <1>7, <1>8, <1>9, <1>10 DEF low, high, q, u, s

\* simulate_pending_swap leaves a pool with numbers for reserves.
LEMMA SwapKeepsPool ==
  ASSUME NEW p \in V2Pool, NEW is_buy \in BOOLEAN, NEW a \in Nat
  PROVE  SimulatedPool(p, is_buy, a) \in V2Pool
<1> DEFINE in == IF is_buy THEN "reserve_quote" ELSE "reserve_base"
           out == IF is_buy THEN "reserve_base" ELSE "reserve_quote"
           o == AmountOut(p, p[in], p[out], a)
<1>1. p[in] \in Nat /\ p[out] \in Nat /\ p.fee_numerator \in Nat
  BY ScaleAssumption DEF V2Pool
<1>2. o # NoAnswer => o \in Nat
  <2> DEFINE w == (a * p.fee_numerator) % Word
             d == (p[in] * Bps + w) % Word
  <2>1. Word \in Nat \ {0} /\ Bps \in Nat
    BY ScaleAssumption
  <2>2. \A x \in Nat : x % Word \in Nat
    BY <2>1
  <2>3. a * p.fee_numerator \in Nat /\ p[in] * Bps \in Nat
    BY <1>1, <2>1, ProductOrder
  <2>4. w \in Nat
    BY <2>2, <2>3
  <2> HIDE DEF in, out, w
  <2>5. d \in Nat /\ (w * p[out]) % Word \in Nat
    <3>1. p[in] * Bps + w \in Nat
      BY <2>3, <2>4
    <3>2. w * p[out] \in Nat
      BY <1>1, <2>4, ProductOrder
    <3> QED BY <2>2, <3>1, <3>2
  <2>6. o = IF d > 0 THEN ((w * p[out]) % Word) \div d ELSE NoAnswer
    BY DEF AmountOut, w
  <2> HIDE DEF d
  <2> QED BY <2>5, <2>6, Quotient
<1>3. SimulatedPool(p, is_buy, a) = IF o # NoAnswer /\ p[out] > o THEN [p EXCEPT ![out] = @ - o, ![in] = @ + a] ELSE p
  BY DEF SimulatedPool
<1> HIDE DEF o
<1>4. CASE o # NoAnswer /\ p[out] > o
  <2>1. p[out] - o \in Nat /\ p[in] + a \in Nat
    BY <1>1, <1>2, <1>4
  <2>2. SimulatedPool(p, is_buy, a) = [p EXCEPT ![out] = p[out] - o, ![in] = p[in] + a]
    BY <1>3, <1>4
  <2> QED BY <1>1, <2>1, <2>2 DEF V2Pool
<1>5. CASE ~(o # NoAnswer /\ p[out] > o)
  BY <1>3, <1>5
<1> QED BY <1>4, <1>5

\* Between ladders only swaps move the pool, and a swap leaves it a pool.
CurveInv ==
  /\ "kind" \in DOMAIN pool /\ ladders \in Nat
  /\ pool.kind = "v2" => /\ pool \in V2Pool
                         /\ ladders = 0 => book = EmptyBook
                         /\ Fresh => book = Ladder(EmptyBook, pool)

\* Every step keeps what the book of a v2 pool shows.
LEMMA CurveStep ==
  ASSUME V2PoolsTyped, CurveInv, [AmmNext]_ammVars
  PROVE  CurveInv'
<1>1. CASE UNCHANGED ammVars
  BY <1>1 DEF ammVars, CurveInv, Fresh
<1>2. CASE FeedUpdate
  BY <1>2 DEF FeedUpdate, CurveInv
<1>3. CASE Populate
  <2>1. /\ pool' = pool /\ book' = Ladder(book, pool) /\ ladders' = ladders + 1 /\ ladders \in Nat
        /\ "kind" \in DOMAIN pool
    BY <1>3 DEF Populate, CurveInv, Ladder
  <2>2. ASSUME pool.kind = "v2", Fresh' PROVE book' = Ladder(EmptyBook, pool)
    <3>1. ladders = 0
      BY <2>1, <2>2 DEF Fresh
    <3> QED BY <2>1, <2>2, <3>1 DEF CurveInv
  <2> QED BY <2>1, <2>2 DEF CurveInv
<1>4. ASSUME pool.kind # "v2", ladders' = ladders, "kind" \in DOMAIN pool', pool'.kind = pool.kind
      PROVE  CurveInv'
  BY <1>4 DEF CurveInv
<1>5. ASSUME NEW is_buy \in BOOLEAN, NEW a \in SwapAmounts, V2Swap(is_buy, a)
      PROVE  CurveInv'
  <2>1. /\ pool.kind = "v2" /\ pool' = SimulatedPool(pool, is_buy, a) /\ synced' = FALSE
        /\ book' = book /\ ladders' = ladders /\ a \in Nat
    BY <1>5 DEF V2Swap, MovePool, V2PoolsTyped, bookVars
  <2>2. pool' \in V2Pool /\ "kind" \in DOMAIN pool'
    <3>1. pool \in V2Pool
      BY <2>1 DEF CurveInv
    <3>2. pool' \in V2Pool
      BY <2>1, <3>1, SwapKeepsPool
    <3> QED BY <3>2 DEF V2Pool
  <2>3. pool'.kind = "v2"
    BY <2>2 DEF V2Pool
  <2> QED BY <2>1, <2>2, <2>3 DEF CurveInv, Fresh
<1>6. ASSUME NEW t \in DOMAIN SqrtPriceOf, TickMove(t)
      PROVE  CurveInv'
  <2>1. /\ pool.kind # "v2" /\ ladders' = ladders /\ "kind" \in DOMAIN pool
        /\ pool' = [pool EXCEPT !.tick = t, !.sqrt_price = SqrtPriceOf[t]]
    BY <1>6 DEF TickMove, MovePool, CurveInv
  <2> QED BY <1>4, <2>1
<1>7. ASSUME NEW i \in Coins(pool), NEW j \in Coins(pool), NEW a \in SwapAmounts, CurveSwap(i, j, a)
      PROVE  CurveInv'
  <2>1. /\ pool.kind # "v2" /\ ladders' = ladders /\ "kind" \in DOMAIN pool
        /\ pool' = [pool EXCEPT !.raw_reserves[i] = @ + a, !.raw_reserves[j] = @ - SwapOutput(pool, i, j, a)]
    BY <1>7 DEF CurveSwap, MovePool, CurveInv
  <2> QED BY <1>4, <2>1
<1> QED BY <1>1, <1>2, <1>3, <1>5, <1>6, <1>7 DEF AmmNext

\* The depth of a v2 ladder is the pool's, for every pool, swap and band and for tokens of any
\* decimals: each level's quantity stands for an amount of base that moves the pool to that
\* level's price on its curve.  Where the products fit u128, i64 and u64; the release build
\* wraps beyond that.
THEOREM LaddersOnCurve == V2PoolsTyped => (AmmSpec => []LadderOnCurve)
<1> SUFFICES ASSUME V2PoolsTyped PROVE AmmSpec => []LadderOnCurve
  OBVIOUS
<1>1. AmmInit => CurveInv
  <2> SUFFICES ASSUME AmmInit PROVE CurveInv
    OBVIOUS
  <2>1. /\ pool \in Pools /\ ladders = 0 /\ book = EmptyBook /\ "kind" \in DOMAIN pool
    BY PoolsAssumption DEF AmmInit, BookInit
  <2> QED BY <2>1 DEF CurveInv, Fresh, V2PoolsTyped
<1>2. CurveInv /\ [AmmNext]_ammVars => CurveInv'
  BY CurveStep
<1>3. CurveInv => LadderOnCurve
  <2> SUFFICES ASSUME CurveInv, Fresh, pool.kind = "v2", SpotFits(pool),
                      NEW i \in DOMAIN Bands, ShareFits(pool, Bands[i])
               PROVE  /\ BandFits(pool, AskOf(pool, i)) /\ InWindow(AskOf(pool, i)) /\ LastAsk(pool, i)
                         => \/ ShowsMove(pool, book.asks[Diff(AskOf(pool, i))], AskOf(pool, i), -1)
                            \/ OnCurve(pool, pool.reserve_base, AskOf(pool, i))
                      /\ BandFits(pool, BidOf(pool, i)) /\ InWindow(BidOf(pool, i)) /\ LastBid(pool, i)
                         => \/ ShowsMove(pool, book.bids[Diff(BidOf(pool, i))], BidOf(pool, i), 1)
                            \/ OnCurve(pool, pool.reserve_base, BidOf(pool, i))
    BY Zenon DEF LadderOnCurve, AskOf, BidOf, LastAsk, LastBid
  <2>1. /\ pool \in V2Pool /\ book = Ladder(EmptyBook, pool) /\ pool.reserve_base \in Nat
        /\ V2Spot(pool) > 0 /\ V2Spot(pool) \in Int
    <3>1. pool \in V2Pool /\ book = Ladder(EmptyBook, pool)
      BY DEF CurveInv
    <3>2. V2Spot(pool) \in 1..I64Max
      BY <3>1, SpotOfFit
    <3> QED BY <3>1, <3>2 DEF V2Pool
  <2>2. AskOf(pool, i) \in Nat /\ V2Spot(pool) <= AskOf(pool, i) /\ BidOf(pool, i) <= V2Spot(pool)
    BY <2>1, BandPrices
  <2>3. Shows(book, pool, 2 * Len(Bands))
    BY <2>1, V2LadderShows
  <2>4. 2 * i - 1 <= 2 * Len(Bands) /\ 2 * i <= 2 * Len(Bands)
    BY DEF V2PoolsTyped
  <2>5. ASSUME BandFits(pool, AskOf(pool, i)), InWindow(AskOf(pool, i)), LastAsk(pool, i)
        PROVE  \/ ShowsMove(pool, book.asks[Diff(AskOf(pool, i))], AskOf(pool, i), -1)
               \/ OnCurve(pool, pool.reserve_base, AskOf(pool, i))
    <3> DEFINE t == AskOf(pool, i)
               d == pool.reserve_base - TargetBase(pool, t)
    <3>1. t \in Nat \ {0} /\ t \in 1..Word - 1 /\ t > 0 /\ t % Word = t
      <4>1. t \in 1..I64Max
        BY <2>5 DEF BandFits
      <4> HIDE DEF t
      <4> QED BY <4>1, Widths
    <3>2. TargetBase(pool, t) \in Nat /\ OnCurve(pool, TargetBase(pool, t), t)
      <4>1. pool.reserve_base * Ratio(pool, t) < Word
        BY <2>5 DEF BandFits
      <4> QED BY <2>1, <3>1, <4>1, TargetOnCurve
    <3>3. CASE pool.reserve_base > TargetBase(pool, t)
      <4>1. d \in Nat /\ d * PriceScale < Word /\ (d * PriceScale) \div pool.base_unit < U64
        BY <2>1, <2>5, <3>2, <3>3 DEF BandFits
      <4> DEFINE q == Quantity(pool, d)
      <4>2. V2AskQuantity(pool, t) = q
        BY <3>1, <3>3 DEF V2AskQuantity
      <4>3. /\ q = (d * PriceScale) \div pool.base_unit /\ q # NoAnswer
            /\ d \in ((q * pool.base_unit) \div PriceScale)..(((q + 1) * pool.base_unit) \div PriceScale)
        BY <2>1, <4>1, AmountOfQuantity
      <4>4. i \in ShownAsks(pool)
        BY <2>5, <3>1, <4>2, <4>3 DEF ShownAsks
      <4>5. book.asks[Diff(t)] = [price |-> t, quantity |-> q]
        BY <2>3, <2>4, <4>2, <4>4 DEF Shows
      <4>6. pool.reserve_base + -1 * d = TargetBase(pool, t)
        BY <2>1, <3>2
      <4> HIDE DEF t, d, q
      <4>7. OnCurve(pool, pool.reserve_base + -1 * d, t)
        BY <3>2, <4>6
      <4>8. ShowsMove(pool, book.asks[Diff(t)], t, -1)
        BY <4>3, <4>5, <4>7 DEF ShowsMove
      <4> QED BY <4>8 DEF t
    <3>4. CASE ~(pool.reserve_base > TargetBase(pool, t))
      <4>1. V2Spot(pool) <= t /\ pool.reserve_base <= TargetBase(pool, t)
        BY <2>1, <2>2, <3>2, <3>4
      <4> HIDE DEF t
      <4>2. OnCurve(pool, pool.reserve_base, t)
        BY <2>1, <3>1, <3>2, <4>1, SpotIsOnCurve
      <4> QED BY <4>2 DEF t
    <3> QED BY <3>3, <3>4
  <2>6. ASSUME BandFits(pool, BidOf(pool, i)), InWindow(BidOf(pool, i)), LastBid(pool, i)
        PROVE  \/ ShowsMove(pool, book.bids[Diff(BidOf(pool, i))], BidOf(pool, i), 1)
               \/ OnCurve(pool, pool.reserve_base, BidOf(pool, i))
    <3> DEFINE t == BidOf(pool, i)
               d == TargetBase(pool, t) - pool.reserve_base
    <3>1. t \in Nat \ {0} /\ t \in 1..Word - 1 /\ t > 0 /\ t % Word = t
      <4>1. t \in 1..I64Max
        BY <2>6 DEF BandFits
      <4> HIDE DEF t
      <4> QED BY <4>1, Widths
    <3>2. TargetBase(pool, t) \in Nat /\ OnCurve(pool, TargetBase(pool, t), t)
      <4>1. pool.reserve_base * Ratio(pool, t) < Word
        BY <2>6 DEF BandFits
      <4> QED BY <2>1, <3>1, <4>1, TargetOnCurve
    <3>3. CASE TargetBase(pool, t) > pool.reserve_base
      <4>1. d \in Nat /\ d * PriceScale < Word /\ (d * PriceScale) \div pool.base_unit < U64
        BY <2>1, <2>6, <3>2, <3>3 DEF BandFits
      <4> DEFINE q == Quantity(pool, d)
      <4>2. V2BidQuantity(pool, t) = q
        BY <3>1, <3>3 DEF V2BidQuantity
      <4>3. /\ q = (d * PriceScale) \div pool.base_unit /\ q # NoAnswer
            /\ d \in ((q * pool.base_unit) \div PriceScale)..(((q + 1) * pool.base_unit) \div PriceScale)
        BY <2>1, <4>1, AmountOfQuantity
      <4>4. i \in ShownBids(pool)
        BY <2>6, <3>1, <4>2, <4>3 DEF ShownBids
      <4>5. book.bids[Diff(t)] = [price |-> t, quantity |-> q]
        BY <2>3, <2>4, <4>2, <4>4 DEF Shows
      <4>6. pool.reserve_base + 1 * d = TargetBase(pool, t)
        BY <2>1, <3>2
      <4> HIDE DEF t, d, q
      <4>7. OnCurve(pool, pool.reserve_base + 1 * d, t)
        BY <3>2, <4>6
      <4>8. ShowsMove(pool, book.bids[Diff(t)], t, 1)
        BY <4>3, <4>5, <4>7 DEF ShowsMove
      <4> QED BY <4>8 DEF t
    <3>4. CASE ~(TargetBase(pool, t) > pool.reserve_base)
      <4>1. t <= V2Spot(pool) /\ TargetBase(pool, t) <= pool.reserve_base
        BY <2>1, <2>2, <3>2, <3>4
      <4> HIDE DEF t
      <4>2. OnCurve(pool, pool.reserve_base, t)
        BY <2>1, <3>1, <3>2, <4>1, SpotIsOnCurve
      <4> QED BY <4>2 DEF t
    <3> QED BY <3>3, <3>4
  <2> QED BY <2>5, <2>6
<1> QED BY <1>1, <1>2, <1>3, PTL DEF AmmSpec

-----------------------------------------------------------------------------
(* Swaps of constant product pools                                         *)

\* Pools of any kind but Curve's, whose swaps go through 256-bit iterations.
NoCurvePools ==
  /\ SwapAmounts \subseteq Nat
  /\ \A p \in Pools : p.kind # "curve" /\ (p.kind = "v2" => p \in V2Pool)

\* No product of a swap leaves u128.
NoWrap ==
  pool.kind = "v2" =>
    \A a \in SwapAmounts :
      LET w == a * pool.fee_numerator
      IN  /\ pool.reserve_base * Bps + w < Word /\ w * pool.reserve_base < Word
          /\ pool.reserve_quote * Bps + w < Word /\ w * pool.reserve_quote < Word

\* The quotient that amount_out is cut from: the largest output that keeps the product.
LEMMA LargestOutput ==
  ASSUME NEW x \in Nat, NEW y \in Nat, NEW w \in Nat, NEW o \in Nat, x + w > 0, o = (w * y) \div (x + w)
  PROVE  (x + w) * (y - o) >= x * y /\ (x + w) * (y - o - 1) < x * y
<1> DEFINE d == x + w
<1>1. d \in Nat \ {0} /\ w * y \in Nat /\ x * y \in Nat
  BY ProductOrder
<1>2. o * d <= w * y /\ w * y < (o + 1) * d
  BY <1>1, Quotient
<1>3. /\ d * (y - o) = x * y + w * y - o * d
      /\ d * (y - o - 1) = x * y + w * y - (o + 1) * d
  BY SMT
<1>4. o * d \in Nat /\ (o + 1) * d \in Nat /\ d * (y - o) \in Int /\ d * (y - o - 1) \in Int
  BY <1>1, SMT
<1> HIDE DEF d
<1>5. d * (y - o) >= x * y /\ d * (y - o - 1) < x * y
  BY <1>1, <1>2, <1>3, <1>4
<1> QED BY <1>5 DEF d

\* simulate_pending_swap gives exactly that, when no product wraps.
LEMMA SwapIsFair ==
  ASSUME NEW p \in V2Pool, NEW is_buy \in BOOLEAN, NEW a \in Nat,
         p.reserve_base * Bps + a * p.fee_numerator < Word, (a * p.fee_numerator) * p.reserve_base < Word,
         p.reserve_quote * Bps + a * p.fee_numerator < Word, (a * p.fee_numerator) * p.reserve_quote < Word
  PROVE  LET q == SimulatedPool(p, is_buy, a)
             in == IF is_buy THEN "reserve_quote" ELSE "reserve_base"
             out == IF is_buy THEN "reserve_base" ELSE "reserve_quote"
         IN  q # p => a > 0 /\ q[in] = p[in] + a /\ q[out] <= p[out] /\ FairSwap(p, q, in, out)
<1> DEFINE in == IF is_buy THEN "reserve_quote" ELSE "reserve_base"
           out == IF is_buy THEN "reserve_base" ELSE "reserve_quote"
           q == SimulatedPool(p, is_buy, a)
           w == a * p.fee_numerator
           x == p[in] * Bps
           y == p[out]
           o == AmountOut(p, p[in], p[out], a)
<1>1. p[in] \in Nat /\ y \in Nat /\ w \in Nat /\ x \in Nat /\ w * y \in Nat
  <2>1. p[in] \in Nat /\ y \in Nat /\ p.fee_numerator \in Nat /\ Bps \in Nat
    BY ScaleAssumption DEF V2Pool
  <2>2. w \in Nat /\ x \in Nat
    BY <2>1, ProductOrder
  <2> QED BY <2>1, <2>2, ProductOrder
<1>2. x + w < Word /\ w * y < Word
  OBVIOUS
<1>3. Word \in Nat \ {0}
  BY ScaleAssumption
<1>4. o = IF x + w > 0 THEN (w * y) \div (x + w) ELSE NoAnswer
  <2> HIDE DEF in, out, w, x, y
  <2>1. w < Word /\ \A n \in Nat : n < Word => n % Word = n
    BY <1>1, <1>2, <1>3
  <2>2. w % Word = w /\ (x + w) % Word = x + w /\ (w * y) % Word = w * y
    BY <1>1, <1>2, <2>1
  <2>3. o = IF (x + (w % Word)) % Word > 0
            THEN (((w % Word) * y) % Word) \div ((x + (w % Word)) % Word) ELSE NoAnswer
    BY DEF AmountOut, w, x, y
  <2> QED BY <2>2, <2>3
<1>5. q = IF o # NoAnswer /\ y > o THEN [p EXCEPT ![out] = @ - o, ![in] = @ + a] ELSE p
  BY DEF SimulatedPool
<1> SUFFICES ASSUME q # p PROVE a > 0 /\ q[in] = p[in] + a /\ q[out] <= p[out] /\ FairSwap(p, q, in, out)
  OBVIOUS
<1> HIDE DEF q, o
<1>6. /\ o # NoAnswer /\ y > o /\ x + w > 0 /\ o = (w * y) \div (x + w)
      /\ q = [p EXCEPT ![out] = y - o, ![in] = p[in] + a]
  BY <1>4, <1>5
<1>7. q[in] = p[in] + a /\ q[out] = y - o
  BY <1>6 DEF V2Pool
<1>8. o \in Nat
  <2> HIDE DEF in, out, w, x, y
  <2>1. x + w \in Nat \ {0}
    BY <1>1, <1>6
  <2> QED BY <1>1, <1>6, <2>1, Quotient
<1>9. (x + w) * (y - o) >= x * y /\ (x + w) * (y - o - 1) < x * y
  <2> HIDE DEF in, out, w, x, y
  <2> QED BY <1>1, <1>6, <1>8, LargestOutput
<1>10. q[in] - p[in] = a /\ q[out] <= p[out]
  BY <1>1, <1>7, <1>8
<1>11. a > 0
  <2> SUFFICES ASSUME a = 0 PROVE q = p
    OBVIOUS
  <2>1. w = 0 /\ w * y = 0
    <3>1. p.fee_numerator \in Nat /\ y \in Nat
      BY ScaleAssumption DEF V2Pool
    <3> QED BY <3>1
  <2>2. o = 0
    <3> HIDE DEF in, out, w, x, y
    <3>1. \A d \in Nat \ {0} : 0 \div d = 0
      BY SMT
    <3>2. x + w \in Nat \ {0}
      BY <1>1, <1>6
    <3> QED BY <1>6, <2>1, <3>1, <3>2
  <2>3. y - o = p[out] /\ p[in] + a = p[in]
    BY <1>1, <2>2
  <2> QED BY <1>6, <2>3 DEF V2Pool
<1> HIDE DEF in, out
<1> QED BY <1>7, <1>9, <1>10, <1>11 DEF FairSwap

\* No swap of a v2 pool costs the pool and none short-changes the trader, for every pool, fee
\* and amount whose products fit in u128: simulate_pending_swap gives out the largest amount
\* that keeps the fee-weighted product of the reserves.
THEOREM SwapsFair == NoCurvePools => (AmmSpec /\ []NoWrap => SwapsKeepValue)
<1> SUFFICES ASSUME NoCurvePools PROVE AmmSpec /\ []NoWrap => SwapsKeepValue
  OBVIOUS
<1> DEFINE Inv == "kind" \in DOMAIN pool /\ pool.kind # "curve" /\ (pool.kind = "v2" => pool \in V2Pool)
           Fair == /\ pool.kind = "v2" =>
                        IF pool'.reserve_quote > pool.reserve_quote
                        THEN FairSwap(pool, pool', "reserve_quote", "reserve_base")
                        ELSE FairSwap(pool, pool', "reserve_base", "reserve_quote")
                   /\ pool.kind = "curve" =>
                        LET xp == Normalized(pool')
                            topped == [i \in Coins(pool) |->
                                         IF pool'.raw_reserves[i] < pool.raw_reserves[i] THEN xp[i] + 2 ELSE xp[i]]
                        IN  GetD(pool', topped) >= GetD(pool, Normalized(pool))
<1>1. AmmInit => Inv
  BY PoolsAssumption DEF AmmInit, NoCurvePools
<1>2. Inv /\ NoWrap /\ [AmmNext]_ammVars => Inv' /\ [Fair]_pool
  <2> SUFFICES ASSUME Inv, NoWrap, [AmmNext]_ammVars PROVE Inv' /\ [Fair]_pool
    OBVIOUS
  <2>1. CASE UNCHANGED pool
    BY <2>1
  <2>2. ASSUME NEW is_buy \in BOOLEAN, NEW a \in SwapAmounts, V2Swap(is_buy, a), pool' # pool
        PROVE  Inv' /\ Fair
    <3>1. pool.kind = "v2" /\ pool \in V2Pool /\ pool' = SimulatedPool(pool, is_buy, a) /\ a \in Nat
      BY <2>2 DEF V2Swap, MovePool, NoCurvePools
    <3>2. pool' \in V2Pool
      BY <3>1, SwapKeepsPool
    <3>3. /\ pool.reserve_base * Bps + a * pool.fee_numerator < Word
          /\ (a * pool.fee_numerator) * pool.reserve_base < Word
          /\ pool.reserve_quote * Bps + a * pool.fee_numerator < Word
          /\ (a * pool.fee_numerator) * pool.reserve_quote < Word
      BY <3>1 DEF NoWrap
    <3>4. /\ pool.reserve_quote \in Nat /\ pool'.reserve_quote \in Nat
          /\ pool.reserve_base \in Nat /\ pool'.reserve_base \in Nat
      BY <3>1, <3>2 DEF V2Pool
    <3>5. CASE is_buy
      <4>1. /\ pool'.reserve_quote = pool.reserve_quote + a /\ a > 0
            /\ FairSwap(pool, pool', "reserve_quote", "reserve_base")
        BY <2>2, <3>1, <3>3, <3>5, SwapIsFair
      <4> QED BY <3>1, <3>2, <3>4, <4>1 DEF V2Pool
    <3>6. CASE ~is_buy
      <4>1. /\ pool'.reserve_quote <= pool.reserve_quote
            /\ FairSwap(pool, pool', "reserve_base", "reserve_quote")
        BY <2>2, <3>1, <3>3, <3>6, SwapIsFair
      <4> QED BY <3>1, <3>2, <3>4, <4>1 DEF V2Pool
    <3> QED BY <3>5, <3>6
  <2>3. CASE FeedUpdate \/ Populate \/ UNCHANGED ammVars
    BY <2>1, <2>3 DEF FeedUpdate, Populate, ammVars
  <2>4. ASSUME NEW t \in DOMAIN SqrtPriceOf, TickMove(t) PROVE Inv' /\ Fair
    <3>1. pool.kind \in {"clmm", "v4"} /\ pool' = [pool EXCEPT !.tick = t, !.sqrt_price = SqrtPriceOf[t]]
      BY <2>4 DEF TickMove, MovePool
    <3> QED BY <3>1
  <2>5. ASSUME NEW i \in Coins(pool), NEW j \in Coins(pool), NEW a \in SwapAmounts, CurveSwap(i, j, a) PROVE FALSE
    BY <2>5 DEF CurveSwap
  <2> HIDE DEF Inv, Fair
  <2> QED BY <2>1, <2>2, <2>3, <2>4, <2>5 DEF AmmNext
<1> QED BY <1>1, <1>2, PTL DEF AmmSpec, SwapsKeepValue

-----------------------------------------------------------------------------
(* compute_plan                                                            *)

\* What compute_plan can be given: a core at least, and a quota in quarters of a core.
PlanInput(h) ==
  /\ h.cores \in Nat \ {0} /\ h.quota \in Nat
  /\ h.bare_metal \in BOOLEAN /\ h.affinity \in BOOLEAN

\* The parts of PlanFits, of a plan p for the host h.
AllRoles(p) == UNION {w.roles : w \in p} = Roles
OwnCores(p) == \A v, w \in p : v # w /\ v.core # AnyCore => v.core # w.core
CoresExist(p, h) == \A w \in p : w.core < h.cores
AsManyAs(p, n) == Cardinality(p) \in Nat /\ Cardinality(p) <= n

\* The cores a plan may count on: one at least, no more than there are, and no more than
\* the quota pays for, although it is rounded up to one.
LEMMA EffectiveCoresFacts ==
  ASSUME NEW h, PlanInput(h)
  PROVE  /\ EffectiveCores(h) \in Nat /\ 1 <= EffectiveCores(h) /\ EffectiveCores(h) <= h.cores
         /\ h.quota # NoQuota => 4 * EffectiveCores(h) <= Max({4, h.quota})
<1> DEFINE q == h.quota \div 4
<1>1. h.cores \in Nat /\ 1 <= h.cores /\ h.quota \in Nat /\ q \in Nat /\ 4 * q <= h.quota
  BY DEF PlanInput
<1>2. CASE h.quota = NoQuota
  BY <1>1, <1>2 DEF EffectiveCores
<1>3. CASE h.quota # NoQuota
  <2> DEFINE m == Max({1, q})
  <2>1. m \in Nat /\ 1 <= m /\ m \in {1, q}
    BY <1>1, MaxOfTwo
  <2>2. Max({4, h.quota}) \in Nat /\ 4 <= Max({4, h.quota}) /\ h.quota <= Max({4, h.quota})
    BY <1>1, MaxOfTwo
  <2> DEFINE n == Min({h.cores, m})
  <2> HIDE DEF m
  <2>3. n \in Nat /\ n <= h.cores /\ n <= m /\ n \in {h.cores, m}
    BY <1>1, <2>1, MinOfTwo
  <2>4. EffectiveCores(h) = n
    BY <1>3 DEF EffectiveCores, m
  <2> HIDE DEF n, q
  <2>5. 4 * n <= Max({4, h.quota})
    BY <1>1, <2>1, <2>2, <2>3
  <2> QED BY <1>1, <2>1, <2>3, <2>4, <2>5
<1> QED BY <1>2, <1>3

\* A set grows by one element at most.
LEMMA OneMore ==
  ASSUME NEW S, NEW x, NEW n \in Nat, NEW m \in Nat, m = n + 1, IsFiniteSet(S), AsManyAs(S, n)
  PROVE  IsFiniteSet(S \cup {x}) /\ AsManyAs(S \cup {x}, m)
BY FS_AddElement DEF AsManyAs

\* The number of threads of each kind of plan.
LEMMA UpToSix ==
  ASSUME NEW a, NEW b, NEW c, NEW d, NEW e, NEW f
  PROVE  /\ AsManyAs({a}, 1) /\ AsManyAs({a, b}, 2) /\ AsManyAs({a, b, c}, 3)
         /\ AsManyAs({a, b, c, d, e, f}, 6)
<1>1. IsFiniteSet({a}) /\ AsManyAs({a}, 1)
  BY FS_Singleton DEF AsManyAs
<1>2. IsFiniteSet({a} \cup {b}) /\ AsManyAs({a} \cup {b}, 2)
  BY <1>1, 2 = 1 + 1, OneMore
<1>3. IsFiniteSet({a} \cup {b} \cup {c}) /\ AsManyAs({a} \cup {b} \cup {c}, 3)
  BY <1>2, 3 = 2 + 1, OneMore
<1>4. IsFiniteSet({a} \cup {b} \cup {c} \cup {d}) /\ AsManyAs({a} \cup {b} \cup {c} \cup {d}, 4)
  BY <1>3, 4 = 3 + 1, OneMore
<1>5. /\ IsFiniteSet({a} \cup {b} \cup {c} \cup {d} \cup {e})
      /\ AsManyAs({a} \cup {b} \cup {c} \cup {d} \cup {e}, 5)
  BY <1>4, 5 = 4 + 1, OneMore
<1>6. AsManyAs({a} \cup {b} \cup {c} \cup {d} \cup {e} \cup {f}, 6)
  BY <1>5, 6 = 5 + 1, OneMore
<1>7. /\ {a, b} = {a} \cup {b} /\ {a, b, c} = {a} \cup {b} \cup {c}
      /\ {a, b, c, d, e, f} = {a} \cup {b} \cup {c} \cup {d} \cup {e} \cup {f}
  OBVIOUS
<1> QED BY <1>1, <1>2, <1>3, <1>6, <1>7

\* A thread of a pinned plan has the roles and the core it was made with.
LEMMA GroupFields ==
  ASSUME NEW r, NEW c
  PROVE  Group(r, c).roles = r /\ Group(r, c).core = c
BY DEF Group

\* Six threads, one stage each: bare metal with eight cores and more.
LEMMA PlanOfSix ==
  LET p == {Group({"Ingestion"}, 1), Group({"ParserNormalizer"}, 2), Group({"SequencerOrderBook"}, 3),
            Group({"ShmEgress"}, 4), Group({"NetworkEgress"}, 5), Group({"Telemetry"}, 6)}
  IN  AllRoles(p) /\ OwnCores(p) /\ (\A w \in p : w.core < 8) /\ AsManyAs(p, 6)
<1> DEFINE a == Group({"Ingestion"}, 1)
           b == Group({"ParserNormalizer"}, 2)
           c == Group({"SequencerOrderBook"}, 3)
           d == Group({"ShmEgress"}, 4)
           e == Group({"NetworkEgress"}, 5)
           f == Group({"Telemetry"}, 6)
           p == {a, b, c, d, e, f}
<1>1. /\ a.core = 1 /\ b.core = 2 /\ c.core = 3 /\ d.core = 4 /\ e.core = 5 /\ f.core = 6
      /\ a.roles = {"Ingestion"} /\ b.roles = {"ParserNormalizer"} /\ c.roles = {"SequencerOrderBook"}
      /\ d.roles = {"ShmEgress"} /\ e.roles = {"NetworkEgress"} /\ f.roles = {"Telemetry"}
  BY GroupFields
<1> HIDE DEF a, b, c, d, e, f
<1>2. AllRoles(p)
  BY <1>1 DEF AllRoles, Roles
<1>3. OwnCores(p) /\ \A w \in p : w.core < 8
  BY <1>1 DEF OwnCores
<1>4. AsManyAs(p, 6)
  BY UpToSix
<1> QED BY <1>2, <1>3, <1>4 DEF a, b, c, d, e, f

\* Three threads: at least four cores that threads can be pinned to.
LEMMA PlanOfThree ==
  LET p == {Group({"Ingestion", "ParserNormalizer"}, 0), Group({"SequencerOrderBook"}, 1),
            Group({"ShmEgress", "NetworkEgress", "Telemetry"}, 2)}
  IN  AllRoles(p) /\ OwnCores(p) /\ (\A w \in p : w.core < 4) /\ AsManyAs(p, 3)
<1> DEFINE a == Group({"Ingestion", "ParserNormalizer"}, 0)
           b == Group({"SequencerOrderBook"}, 1)
           c == Group({"ShmEgress", "NetworkEgress", "Telemetry"}, 2)
           p == {a, b, c}
<1>1. /\ a.core = 0 /\ b.core = 1 /\ c.core = 2
      /\ a.roles = {"Ingestion", "ParserNormalizer"} /\ b.roles = {"SequencerOrderBook"}
      /\ c.roles = {"ShmEgress", "NetworkEgress", "Telemetry"}
  BY GroupFields
<1> HIDE DEF a, b, c
<1>2. AllRoles(p)
  BY <1>1 DEF AllRoles, Roles
<1>3. OwnCores(p) /\ \A w \in p : w.core < 4
  BY <1>1 DEF OwnCores
<1>4. AsManyAs(p, 3)
  BY UpToSix
<1> QED BY <1>2, <1>3, <1>4 DEF a, b, c

\* One thread or two of the cooperative loop, each with every role and no core of its own.
LEMMA PlanOfLoop ==
  ASSUME NEW n \in Nat, 1 <= n
  PROVE  LET p == {[roles |-> Roles, core |-> AnyCore, thread |-> i] : i \in 1..Max({1, Min({n, 2})})}
         IN  AllRoles(p) /\ OwnCores(p) /\ (\A w \in p : w.core < 1) /\ AsManyAs(p, n)
<1> DEFINE T(i) == [roles |-> Roles, core |-> AnyCore, thread |-> i]
           m == Max({1, Min({n, 2})})
           p == {T(i) : i \in 1..m}
<1>1. Min({n, 2}) \in Nat /\ Min({n, 2}) <= n /\ Min({n, 2}) <= 2 /\ Min({n, 2}) \in {n, 2}
  BY MinOfTwo
<1>2. m \in {1, 2} /\ m <= n
  BY <1>1, MaxOfTwo
<1>3. \A i : T(i).roles = Roles /\ T(i).core = -1
  BY DEF AnyCore
<1> HIDE DEF T, m
<1>4. p = {T(1)} \/ (p = {T(1), T(2)} /\ 2 <= n)
  <2>1. CASE m = 1
    BY <2>1
  <2>2. CASE m = 2
    <3>1. 1..m = {1, 2}
      BY <2>2
    <3> QED BY <1>2, <2>2, <3>1
  <2> QED BY <1>2, <2>1, <2>2
<1>5. AllRoles(p)
  <2>1. T(1) \in p /\ \A w \in p : w.roles = Roles
    BY <1>3, <1>4
  <2> HIDE DEF p
  <2> QED BY <2>1 DEF AllRoles
<1>6. OwnCores(p) /\ \A w \in p : w.core < 1
  BY <1>3 DEF OwnCores, AnyCore
<1>7. AsManyAs(p, n)
  <2>1. AsManyAs({T(1)}, 1) /\ AsManyAs({T(1), T(2)}, 2)
    BY UpToSix
  <2> HIDE DEF p
  <2> QED BY <1>4, <2>1 DEF AsManyAs
<1> QED BY <1>5, <1>6, <1>7 DEF T, m

\* compute_plan, whatever it is given: each of its three answers fits the cores it counts on.
LEMMA PlanOfAnyHost ==
  ASSUME NEW h, PlanInput(h)
  PROVE  /\ AllRoles(ComputePlan(h)) /\ OwnCores(ComputePlan(h)) /\ CoresExist(ComputePlan(h), h)
         /\ AsManyAs(ComputePlan(h), EffectiveCores(h))
<1> DEFINE n == EffectiveCores(h)
<1>1. n \in Nat /\ 1 <= n /\ n <= h.cores /\ h.cores \in Nat
  BY EffectiveCoresFacts DEF PlanInput
<1> HIDE DEF n
<1>2. CASE h.bare_metal /\ n >= 8 /\ h.affinity
  <2> DEFINE p == {Group({"Ingestion"}, 1), Group({"ParserNormalizer"}, 2), Group({"SequencerOrderBook"}, 3),
                   Group({"ShmEgress"}, 4), Group({"NetworkEgress"}, 5), Group({"Telemetry"}, 6)}
  <2>1. ComputePlan(h) = p
    BY <1>2 DEF ComputePlan, n
  <2>2. AllRoles(p) /\ OwnCores(p) /\ (\A w \in p : w.core < 8 /\ w.core \in Int) /\ AsManyAs(p, 6)
    BY PlanOfSix, GroupFields
  <2> HIDE DEF p
  <2> QED BY <1>1, <1>2, <2>1, <2>2 DEF CoresExist, AsManyAs, n
<1>3. CASE n >= 4 /\ h.affinity /\ ~(h.bare_metal /\ n >= 8)
  <2> DEFINE p == {Group({"Ingestion", "ParserNormalizer"}, 0), Group({"SequencerOrderBook"}, 1),
                   Group({"ShmEgress", "NetworkEgress", "Telemetry"}, 2)}
  <2>1. ComputePlan(h) = p
    BY <1>3 DEF ComputePlan, n
  <2>2. AllRoles(p) /\ OwnCores(p) /\ (\A w \in p : w.core < 4 /\ w.core \in Int) /\ AsManyAs(p, 3)
    BY PlanOfThree, GroupFields
  <2> HIDE DEF p
  <2> QED BY <1>1, <1>3, <2>1, <2>2 DEF CoresExist, AsManyAs, n
<1>4. CASE ~(h.bare_metal /\ n >= 8 /\ h.affinity) /\ ~(n >= 4 /\ h.affinity /\ ~(h.bare_metal /\ n >= 8))
  <2> DEFINE p == {[roles |-> Roles, core |-> AnyCore, thread |-> i] : i \in 1..Max({1, Min({n, 2})})}
  <2>1. ComputePlan(h) = p
    BY <1>4 DEF ComputePlan, n
  <2>2. AllRoles(p) /\ OwnCores(p) /\ AsManyAs(p, n)
    BY <1>1, PlanOfLoop
  <2>3. \A w \in p : w.core = -1
    BY DEF AnyCore
  <2> HIDE DEF p
  <2> QED BY <1>1, <2>1, <2>2, <2>3 DEF CoresExist, n
<1> QED BY <1>2, <1>3, <1>4

-----------------------------------------------------------------------------
(* The engine                                                              *)

\* Only planned engines have a plan to speak of, and the host is one there is.
PlanInv == hw \in Hosts /\ PlanFits

\* What negotiate_profile finds on a host is something compute_plan can be given.
LEMMA ArgumentsOfHost ==
  ASSUME NEW h \in Hosts, NEW argument, NEW env, NEW affinity \in BOOLEAN
  PROVE  PlanInput(PlanArguments(NegotiateProfile(h, argument, env), affinity))
<1>1. h.processors \in Nat /\ h.quota \in Nat
  BY CalibrationAssumption
<1>2. DetectCpuTopology(h).logical \in Nat \ {0}
  BY <1>1 DEF DetectCpuTopology, Or
<1>3. DetectCapabilities(h).quota \in Nat
  BY <1>1 DEF DetectCapabilities, NoQuota
<1>4. /\ NegotiateProfile(h, argument, env).cpu = DetectCpuTopology(h)
      /\ NegotiateProfile(h, argument, env).caps = DetectCapabilities(h)
  BY DEF NegotiateProfile
<1> QED BY <1>2, <1>3, <1>4 DEF PlanInput, PlanArguments, IsVirtualized

\* The plan of a host that was probed.
LEMMA BootFits ==
  ASSUME PlanInv, Boot
  PROVE  PlanInv'
<1>1. hw' = hw /\ hw \in Hosts
  BY DEF Boot, calibrationVars, PlanInv
<1>2. PICK affinity \in BOOLEAN : host' = PlanArguments(NegotiateProfile(hw, NoTier, env_tier), affinity)
  BY DEF Boot
<1>3. PlanInput(host')
  BY <1>1, <1>2, ArgumentsOfHost
<1>4. plan' = ComputePlan(host')
  BY DEF Boot
<1> DEFINE h == host'
           p == plan'
<1> HIDE DEF h, p
<1>5. /\ AllRoles(p) /\ OwnCores(p) /\ CoresExist(p, h) /\ AsManyAs(p, EffectiveCores(h))
  BY <1>3, <1>4, PlanOfAnyHost DEF h, p
<1>6. /\ EffectiveCores(h) \in Nat /\ EffectiveCores(h) <= h.cores /\ h.cores \in Nat
      /\ h.quota # NoQuota => 4 * EffectiveCores(h) <= Max({4, h.quota})
  BY <1>3, EffectiveCoresFacts DEF h, PlanInput
<1>7. Max({4, h.quota}) \in Nat
  BY <1>3, MaxOfTwo DEF h, PlanInput
<1>8. /\ Cardinality(p) <= h.cores
      /\ h.quota # NoQuota => 4 * Cardinality(p) <= Max({4, h.quota})
  BY <1>5, <1>6, <1>7 DEF AsManyAs
<1> QED BY <1>1, <1>5, <1>8 DEF PlanInv, PlanFits, AllRoles, OwnCores, CoresExist, h, p

\* No other step makes a plan or changes the one there is before the threads start.
LEMMA OthersKeepPlan ==
  ASSUME PlanInv, [Next]_vars, ~Boot
  PROVE  PlanInv'
<1>1. CASE UNCHANGED <<hw, host, plan, pc>>
  BY <1>1 DEF PlanInv, PlanFits
<1>2. CASE Start
  <2>1. pc' # "planned" /\ hw' = AnyHw
    BY <1>2 DEF Start
  <2>2. AnyHw \in Hosts
    BY DEF AnyHw, PlanInv
  <2> QED BY <2>1, <2>2 DEF PlanInv, PlanFits
<1>3. CASE RunLoop
  <2>1. hw' = hw /\ pc \notin {"off", "planned"} /\ (Loop \/ Pipeline)
    BY <1>3 DEF RunLoop, Running, calibrationVars
  <2>2. pc' = pc \/ pc' \in {"shutdown", "step", "check", "done"}
    BY <2>1 DEF Loop, Pipeline, CheckStop, SkipStage, StepStage, EndRound, Shutdown, Stop, Feed
  <2> QED BY <2>1, <2>2 DEF PlanInv, PlanFits
<1>4. CASE Calibrate
  BY <1>1, <1>4 DEF Calibrate, Main, Peer, schedulerVars
<1>5. CASE Ready \/ Serve \/ Probe \/ Drop
  BY <1>1, <1>5 DEF Ready, Serve, Probe, Drop, calibrationVars, schedulerVars
<1>6. CASE UNCHANGED vars
  BY <1>1, <1>6 DEF vars, calibrationVars, schedulerVars
<1> QED BY <1>2, <1>3, <1>4, <1>5, <1>6 DEF Next

\* compute_plan of an engine that has probed its host: for every set of hosts, with any
\* number of cores and any quota, every stage has a thread, no two pinned threads share a
\* core, and the plan has no more threads than the cores, or than the quota pays for.
THEOREM PlansFit == Spec => []PlanFits
<1>1. Init => PlanInv
  BY DEF Init, CalibrationInit, LoopInit, PlanInv, PlanFits
<1>2. PlanInv /\ [Next]_vars => PlanInv'
  BY BootFits, OthersKeepPlan
<1>3. PlanInv => PlanFits
  BY DEF PlanInv
<1> QED BY <1>1, <1>2, <1>3, PTL DEF Spec
=============================================================================
