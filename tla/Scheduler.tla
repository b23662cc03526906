----------------------------- MODULE Scheduler -----------------------------
(***************************************************************************)
(* ElasticScheduler of crates/core-engine/src/scheduler: compute_plan, and *)
(* the cooperative event loop that drives the pipeline's stages until a    *)
(* stop flag is set or no stage is active.                                 *)
(*                                                                         *)
(* Stages are other code (the PipelineStage trait): a step processes a     *)
(* waiting item if there is one; a stage without work may become inactive. *)
(* idle_counter is an i32, and the release profile has no overflow checks: *)
(* it wraps.  The loop is what a cooperative plan calls for.               *)
(***************************************************************************)
EXTENDS Topology, FiniteSets, FiniteSetsExt

CONSTANTS Stages,           \* number of stages; stage i is the i-th of the vector
          YieldAfter,       \* 64
          SleepAfter,       \* 256
          CounterMax,       \* i32::MAX
          MaxWaiting        \* bound: items that wait for one stage

ASSUME SchedulerAssumption ==
  /\ {Stages, MaxWaiting} \subseteq Nat
  /\ {YieldAfter, SleepAfter, CounterMax} \subseteq Nat
  /\ YieldAfter < SleepAfter /\ SleepAfter < CounterMax

VARIABLES
  host, plan,               \* what compute_plan was given, and its answer
  stop_signal,
  active, items,            \* per stage: is_active, items waiting for it
  pc,                       \* of the loop's thread
  k,                        \* the stage whose turn it is
  work_done, all_exhausted, \* locals of step_cooperative
  idle_counter,
  pause,                    \* how the last idle round ended: "none", "yield" or "sleep"
  shut                      \* history: stages whose shutdown was called

schedulerVars == <<host, plan, stop_signal, active, items, pc, k, work_done, all_exhausted, idle_counter,
          pause, shut>>

-----------------------------------------------------------------------------
(* compute_plan                                                            *)

Roles == {"Ingestion", "ParserNormalizer", "SequencerOrderBook", "ShmEgress", "NetworkEgress",
          "Telemetry"}

\* Mutant: the quota is rounded up.
EffectiveCores_RoundedUp(h) ==
  IF h.quota = NoQuota THEN h.cores ELSE Min({h.cores, (h.quota + 3) \div 4})

\* floor of the quota, at least one, at most the cores there are.
EffectiveCores(h) ==
  IF h.quota = NoQuota THEN h.cores ELSE Min({h.cores, Max({1, h.quota \div 4})})

\* compute_plan is given the profile's cores, no hypervisor for bare metal, and the quota of
\* the cgroup; whether threads may be pinned is another answer of the host.
PlanArguments(profile, affinity) ==
  [cores |-> profile.cpu.logical, bare_metal |-> ~IsVirtualized(profile.hypervisor), affinity |-> affinity,
   quota |-> profile.caps.quota]
NoHost == [cores |-> 0]

Group(roles, core) == [roles |-> roles, core |-> core]
AnyCore == -1

\* A plan is its threads, each with its roles and its core, if it has one.  The threads of
\* the cooperative loop have all roles.
ComputePlan(h) ==
  LET n == EffectiveCores(h)
  IN  CASE h.bare_metal /\ n >= 8 /\ h.affinity ->
             {Group({"Ingestion"}, 1), Group({"ParserNormalizer"}, 2), Group({"SequencerOrderBook"}, 3),
              Group({"ShmEgress"}, 4), Group({"NetworkEgress"}, 5), Group({"Telemetry"}, 6)}
        [] n >= 4 /\ h.affinity /\ ~(h.bare_metal /\ n >= 8) ->
             {Group({"Ingestion", "ParserNormalizer"}, 0), Group({"SequencerOrderBook"}, 1),
              Group({"ShmEgress", "NetworkEgress", "Telemetry"}, 2)}
        [] OTHER -> {[roles |-> Roles, core |-> AnyCore, thread |-> i] :
                       i \in 1..Max({1, Min({n, 2})})}

Cooperative(p) == \A w \in p : w.core = AnyCore

-----------------------------------------------------------------------------
\* Before there is a plan.
LoopInit ==
  /\ host = NoHost /\ plan = {} /\ pc = "off" /\ stop_signal = FALSE
  /\ active = [s \in 1..Stages |-> TRUE] /\ items = [s \in 1..Stages |-> 0] /\ shut = {}
  /\ k = 1 /\ work_done = FALSE /\ all_exhausted = TRUE /\ idle_counter = 0 /\ pause = "none"

\* Work for a stage, from the stage before it or from outside.
Feed(s) ==
  /\ pc \notin {"off", "planned", "pinned"} /\ active[s] /\ items[s] < MaxWaiting
  /\ items' = [items EXCEPT ![s] = @ + 1]
  /\ UNCHANGED <<host, plan, stop_signal, active, pc, k, work_done, all_exhausted, idle_counter,
                 pause, shut>>

\* Another thread sets the flag.
Stop ==
  /\ pc \notin {"off", "planned"} /\ ~stop_signal /\ stop_signal' = TRUE
  /\ UNCHANGED <<host, plan, active, items, pc, k, work_done, all_exhausted, idle_counter, pause, shut>>

\* Mutant: the flag is looked at only after an idle round.
Stopping_WhenIdle == stop_signal /\ ~work_done

Stopping == stop_signal

\* The head of run_cooperative_loop, and of step_cooperative.
CheckStop ==
  /\ pc = "check"
  /\ pc' = IF Stopping THEN "shutdown" ELSE "step"
  /\ k' = 1 /\ work_done' = FALSE /\ all_exhausted' = TRUE
  /\ UNCHANGED <<host, plan, stop_signal, active, items, idle_counter, pause, shut>>

\* Mutant: a stage with work ends the round.
NextStage_AfterWork(done) == IF done THEN Stages + 1 ELSE k + 1

NextStage(done) == k + 1

\* step_cooperative passes over an inactive stage ...
SkipStage ==
  /\ pc = "step" /\ k <= Stages /\ ~active[k]
  /\ k' = NextStage(work_done)
  /\ UNCHANGED <<host, plan, stop_signal, active, items, pc, work_done, all_exhausted,
                 idle_counter, pause, shut>>

\* ... and steps an active one: Continue when it processed an item, Yield or Exhausted, which
\* count the same, when it did not.
StepStage ==
  /\ pc = "step" /\ k <= Stages /\ active[k]
  /\ all_exhausted' = FALSE
  /\ \/ /\ items[k] > 0 /\ items' = [items EXCEPT ![k] = @ - 1]
        /\ work_done' = TRUE /\ UNCHANGED active
     \/ /\ items[k] = 0 /\ UNCHANGED <<items, work_done>>
        /\ \E still \in BOOLEAN : active' = [active EXCEPT ![k] = still]
  /\ k' = NextStage(work_done')
  /\ UNCHANGED <<host, plan, stop_signal, pc, idle_counter, pause, shut>>

\* i32 addition as the release build does it.
Wrapped(n) == IF n > CounterMax THEN -CounterMax - 1 ELSE n

\* What run_cooperative_loop makes of a round: leave when no stage was active, start over
\* after work, back off after none.
EndRound ==
  LET idle == Wrapped(idle_counter + 1)
  IN  /\ pc = "step" /\ k > Stages /\ k' = 1
      /\ pc' = IF all_exhausted THEN "shutdown" ELSE "check"
      /\ idle_counter' = IF all_exhausted THEN idle_counter ELSE IF work_done THEN 0 ELSE idle
      /\ pause' = IF all_exhausted \/ work_done \/ idle <= YieldAfter THEN "none"
                  ELSE IF idle > SleepAfter THEN "sleep" ELSE "yield"
      /\ UNCHANGED <<host, plan, stop_signal, active, items, work_done, all_exhausted, shut>>

\* Graceful shutdown: every stage in turn, active or not.
Shutdown ==
  /\ pc = "shutdown"
  /\ \/ /\ k <= Stages /\ k' = k + 1 /\ UNCHANGED pc
        /\ active' = [active EXCEPT ![k] = FALSE] /\ shut' = shut \cup {k}
     \/ /\ k > Stages /\ pc' = "done" /\ UNCHANGED <<k, active, shut>>
  /\ UNCHANGED <<host, plan, stop_signal, items, work_done, all_exhausted, idle_counter, pause>>

loopVars == <<stop_signal, active, items, k, work_done, all_exhausted, idle_counter, pause, shut>>

Loop == CheckStop \/ SkipStage \/ StepStage \/ EndRound \/ Shutdown

Pipeline == Stop \/ \E s \in 1..Stages : Feed(s)
=============================================================================
