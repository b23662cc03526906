---------------------------- MODULE Calibration -----------------------------
(***************************************************************************)
(* cmp-calibrate (crates/core-engine/src/bin/cmp_calibrate.rs): measure,   *)
(* grade, write the configuration.  The benchmark of two threads that wait *)
(* for each other's flags is modelled load by load and store by store; a   *)
(* measured value is any of a set (external).                              *)
(***************************************************************************)
EXTENDS Topology

CONSTANTS Iterations,      \* bound: 10000 rounds of the ping-pong
          Hosts,           \* the hosts there are
          P50s, Jitters    \* values a measurement may have

ASSUME CalibrationAssumption ==
  /\ Iterations \in Nat \ {0} /\ P50s \subseteq Nat /\ Jitters \subseteq Nat
  /\ \A h \in Hosts : {h.processors, h.quota} \subseteq Nat

VARIABLES hw,              \* the host
          env_tier,        \* CMP_HARDWARE_PROFILE or CMP_PROFILE, NoTier when it says nothing
          command,         \* of the command line
          phase,           \* of the main thread
          flag1, flag2, stop_peer, round,   \* benchmark_core_ping_pong
          peer, val,       \* the second thread: its next step, what it loaded
          config           \* cmp-config.toml, or none

pingVars == <<flag1, flag2, stop_peer, round, peer, val>>
calibrationVars == <<hw, env_tier, command, phase, config, pingVars>>

NoConfig == [recommended_tier |-> NoTier]

CalibrationInit ==
  /\ hw \in Hosts /\ env_tier \in {NoTier} \cup Tiers /\ command \in {"full", "core-latency", "tsc"}
  /\ phase = IF command = "tsc" THEN "exit" ELSE "store"
  /\ flag1 = 0 /\ flag2 = 0 /\ stop_peer = FALSE /\ round = 1 /\ val = 0 /\ config = NoConfig
  /\ peer = IF command = "tsc" THEN "ended" ELSE "check"

-----------------------------------------------------------------------------
(* The second thread.                                                      *)

PeerCheck ==
  /\ peer = "check" /\ peer' = IF stop_peer THEN "ended" ELSE "load"
  /\ UNCHANGED <<flag1, flag2, stop_peer, round, val>>

PeerLoad ==
  /\ peer = "load" /\ peer' = "echo" /\ val' = flag1
  /\ UNCHANGED <<flag1, flag2, stop_peer, round>>

\* Mutant: an echo is given once only.
Echo_Once == IF val > flag2 /\ flag2 = 0 THEN val ELSE flag2

Echo == IF val > flag2 THEN val ELSE flag2

PeerEcho ==
  /\ peer = "echo" /\ peer' = "check" /\ flag2' = Echo
  /\ UNCHANGED <<flag1, stop_peer, round, val>>

Peer == (PeerCheck \/ PeerLoad \/ PeerEcho) /\ UNCHANGED <<hw, env_tier, command, phase, config>>

-----------------------------------------------------------------------------
(* The main thread.                                                        *)

Store ==
  /\ phase = "store" /\ phase' = "wait" /\ flag1' = round
  /\ UNCHANGED <<flag2, stop_peer, round, peer, val, config>>

\* The spin on flag2 is a guard; after the last round the peer is told to stop.
Seen ==
  /\ phase = "wait" /\ flag2 >= round
  /\ IF round < Iterations THEN phase' = "store" /\ round' = round + 1 /\ UNCHANGED stop_peer
     ELSE phase' = "nudge" /\ stop_peer' = TRUE /\ UNCHANGED round
  /\ UNCHANGED <<flag1, flag2, peer, val, config>>

\* flag1.fetch_add, once the flag is set.
Nudge ==
  /\ phase = "nudge" /\ phase' = "join" /\ flag1' = flag1 + 1
  /\ UNCHANGED <<flag2, stop_peer, round, peer, val, config>>

Join ==
  /\ phase = "join" /\ peer = "ended"
  /\ phase' = IF command = "full" THEN "grade" ELSE "exit"
  /\ UNCHANGED <<pingVars, config>>

\* The other benchmarks, compute_scorecard and generate_config_toml, whose error is only
\* a warning.
Finish ==
  /\ phase = "grade" /\ phase' = "exit"
  /\ \E p50 \in P50s, jitter \in Jitters, written \in BOOLEAN :
       config' = IF written THEN ConfigOf(Grade(p50, jitter, NegotiateProfile(hw, NoTier, env_tier).tier))
                 ELSE config
  /\ UNCHANGED pingVars

Main == (Store \/ Seen \/ Nudge \/ Join \/ Finish) /\ UNCHANGED <<hw, env_tier, command>>
=============================================================================
