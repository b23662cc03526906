------------------------------- MODULE Engine -------------------------------
(***************************************************************************)
(* The two programs of crates/core-engine on one host: cmp-calibrate, and  *)
(* an engine that probes the host, plans its threads, runs the cooperative *)
(* loop and serves health probes.  The order in which an engine uses these *)
(* parts is its caller's: bind the health server, negotiate, plan, run,    *)
(* and drop the server last.                                               *)
(***************************************************************************)
EXTENDS Calibration, HealthServer, Scheduler

VARIABLES program,         \* "cmp-calibrate" or "engine"
          policy           \* the scheduling policy of the engine's main thread

vars == <<program, policy, calibrationVars, healthVars, schedulerVars>>

Init ==
  /\ CalibrationInit /\ HealthInit /\ LoopInit
  /\ program \in {"cmp-calibrate", "engine"} /\ policy \in {"SCHED_OTHER", "SCHED_FIFO"}
  /\ program = "cmp-calibrate" => policy = "SCHED_OTHER"
  /\ program = "engine" => command = "tsc"            \* nothing of the calibration is going on

Calibrate == program = "cmp-calibrate" /\ (Main \/ Peer) /\ UNCHANGED <<program, policy, healthVars, schedulerVars>>

\* negotiate_profile, set_tier and compute_plan.
Boot ==
  LET profile == NegotiateProfile(hw, NoTier, env_tier)
  IN  /\ program = "engine" /\ pc = "off" /\ pc' = "planned"
      /\ \E affinity \in BOOLEAN : host' = PlanArguments(profile, affinity)
      /\ plan' = ComputePlan(host')
      /\ policy' = PolicyAfterProbe(hw, policy)
      /\ SetTier(profile.tier)
      /\ UNCHANGED <<program, calibrationVars, loopVars>>
      /\ UNCHANGED <<is_ready, stop_server, hpc, backlog, current, sent, wanted, answer>>

AnyHw == CHOOSE h \in Hosts : TRUE

\* The threads start.  What they no longer depend on is forgotten, to keep the states few.
Start ==
  /\ pc = "planned" /\ pc' = IF Cooperative(plan) THEN "check" ELSE "pinned"
  /\ host' = NoHost /\ plan' = {} /\ hw' = AnyHw /\ env_tier' = NoTier /\ policy' = "SCHED_OTHER"
  /\ UNCHANGED <<program, command, phase, config, pingVars, loopVars>>
  /\ UNCHANGED healthVars

Running == pc \notin {"off", "planned"}

\* Bound: probes come while the threads are pinned.  The server shares nothing with the
\* loop, so its steps are not interleaved with the loop's.
ProbesCome == pc = "pinned"

\* The engine calls mark_ready when its pipeline is up.
Ready ==
  /\ ProbesCome /\ ~is_ready /\ MarkReady
  /\ UNCHANGED <<program, policy, calibrationVars, schedulerVars>>
  /\ UNCHANGED <<tier_code, stop_server, hpc, backlog, current, sent, wanted, answer>>

Serve == /\ program = "engine" /\ ServerThread
         /\ UNCHANGED <<program, policy, calibrationVars, schedulerVars>>

Probe == /\ ProbesCome /\ Network
         /\ UNCHANGED <<program, policy, calibrationVars, schedulerVars>>

RunLoop == Running /\ (Loop \/ Pipeline) /\ UNCHANGED <<program, policy, calibrationVars, healthVars>>

\* The owner drops the server once the loop has returned, or the pinned threads were stopped.
Drop ==
  /\ ~stop_server /\ (pc = "done" \/ (pc = "pinned" /\ stop_signal))
  /\ StopServer
  /\ UNCHANGED <<program, policy, calibrationVars, schedulerVars>>

Next == Calibrate \/ Boot \/ Start \/ Ready \/ Serve \/ Probe \/ RunLoop \/ Drop

(* Fairness: the threads of both programs run, sleeps and the read timeout end; nothing is *)
(* asked of the network or of whoever sets the stop flag.                                 *)
Spec == /\ Init /\ [][Next]_vars
        /\ WF_vars(Main /\ Calibrate) /\ WF_vars(Peer /\ Calibrate)
        /\ WF_vars(Boot) /\ WF_vars(Start) /\ WF_vars(Serve) /\ WF_vars(Drop)
        /\ WF_vars(Loop /\ RunLoop)

-----------------------------------------------------------------------------
(* Properties                                                              *)

\* compute_plan: whatever host was probed, every stage of the pipeline has a thread, pinned
\* threads have a core each that the host has, and there are no more threads than the
\* cores, or than the cgroup quota pays for (one at least).
PlanFits ==
  pc = "planned" =>
    /\ UNION {w.roles : w \in plan} = Roles
    /\ \A v, w \in plan : v # w /\ v.core # AnyCore => v.core # w.core
    /\ \A w \in plan : w.core < host.cores
    /\ Cardinality(plan) <= host.cores
    /\ host.quota # NoQuota => 4 * Cardinality(plan) <= Max({4, host.quota})

\* Once the flag is set every stage is shut down, the loop returns and the health server is
\* joined, however busy the stages are and whatever its clients do.
StopShutsDown ==
  stop_signal ~> ((pc = "pinned" \/ (pc = "done" /\ shut = 1..Stages)) /\ hpc = "joined")

\* A stage that always has work never keeps the others from their turn.
NoStageStarved ==
  \A s \in 1..Stages : []<>((pc = "step" /\ k = s) \/ ~Running \/ pc \in {"pinned", "done"})

\* Every probe is answered or closed, behind clients that send nothing and come back
\* again and again, unless the server was dropped.
ProbesAnswered == \A c \in Conns : wanted[c] # "none" ~> (wanted[c] = "none" \/ answer[c] # "none" \/ hpc = "joined")

\* The two threads of the ping-pong never wait for each other for ever, and a configuration
\* recommends tier 3 only where the probe negotiated it.
CalibrationEnds ==
  [](program = "cmp-calibrate" =>
       <>(phase = "exit" /\ peer = "ended"
          /\ (config.recommended_tier = 3 => NegotiateProfile(hw, NoTier, env_tier).tier = 3)))

\* The documentation of tier 3 asks for 16 cores and more (not a property of the code: NUMA
\* nodes within a socket are counted as sockets).
TierThreeHasCores ==
  pc = "planned" /\ hw.os = "linux" /\ env_tier = NoTier /\ tier_code = 3 => hw.processors >= 16

\* Probing leaves the calling thread's scheduling as it was (not a property of the code).
ProbeKeepsPolicy == [][pc = "off" /\ pc' = "planned" => policy' = policy]_vars

\* A probe of an engine that is ready is told so (not a property of the code: a request that
\* arrives in two parts is read once).
ReadyIsSaid == \A c \in Conns : is_ready /\ wanted[c] = "/readyz" => answer[c] \notin {"404"}
=============================================================================
