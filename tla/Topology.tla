------------------------------ MODULE Topology ------------------------------
(***************************************************************************)
(* The hardware probe of crates/core-engine/src/topology/mod.rs and the    *)
(* grading of bin/cmp_calibrate.rs, as functions of the host.  A host      *)
(* (external) is what its files and system calls tell:                     *)
(*   os, container, product, vendor   names are known by what they contain *)
(*   hv            the cpuinfo flag, or kern.hv_vmm_present                *)
(*   processors, core_ids, nodes      counted in /proc and /sys; 0: none   *)
(*   physical, p_cores, e_cores       of sysctl; 0: unreadable             *)
(*   quota, period cpu.max in quarters of a core; NoQuota: "max"           *)
(*   hugepages     nr_hugepages > 0                                        *)
(*   fifo          sched_setscheduler(SCHED_FIFO) succeeds                 *)
(***************************************************************************)
EXTENDS Integers

Linux(h) == h.os = "linux"
Mac(h) == h.os = "macos"
NoQuota == 0

Products == [amazon |-> "AwsNitro", google |-> "GcpCompute", qemu |-> "KVM", vmware |-> "VMware", hyperv |-> "HyperV"]
Vendors == [amazon |-> "AwsNitro", google |-> "GcpCompute", qemu |-> "KVM", xen |-> "Xen"]

\* The first of: container files, product name, vendor, processor flag.
DetectHypervisor(h) ==
  IF h.container THEN "DockerContainer"
  ELSE IF Linux(h) /\ h.product \in DOMAIN Products THEN Products[h.product]
  ELSE IF Linux(h) /\ h.vendor \in DOMAIN Vendors THEN Vendors[h.vendor]
  ELSE IF Linux(h) /\ h.hv THEN "KVM"
  ELSE IF Mac(h) /\ h.hv THEN "AppleHypervisorGuest"
  ELSE "None"

IsVirtualized(hypervisor) == hypervisor # "None"

Or(n, default) == IF n > 0 THEN n ELSE default

\* Distinct core ids times NUMA nodes stand for the physical cores of Linux.
DetectCpuTopology(h) ==
  LET logical == IF Linux(h) \/ Mac(h) THEN Or(h.processors, 4) ELSE 4
      nodes == IF Linux(h) THEN Or(h.nodes, 1) ELSE 1
      hybrid == Mac(h) /\ h.p_cores > 0 /\ h.e_cores > 0
  IN  [logical |-> logical, numa_nodes |-> nodes, is_hybrid |-> hybrid,
       physical |-> CASE Linux(h) -> IF h.core_ids > 0 THEN h.core_ids * nodes ELSE logical
                      [] Mac(h) -> Or(h.physical, logical)
                      [] OTHER -> logical,
       performance |-> IF hybrid THEN h.e_cores..h.e_cores + h.p_cores - 1 ELSE 0..logical - 1,
       efficiency |-> IF hybrid THEN 0..h.e_cores - 1 ELSE {}]

DetectCapabilities(h) ==
  [has_hugetlb |-> Linux(h) /\ h.hugepages, has_sched_fifo |-> Linux(h) /\ h.fifo,
   quota |-> IF Linux(h) THEN h.quota ELSE NoQuota]

\* The probe tries SCHED_FIFO on the calling thread and then sets SCHED_OTHER, whatever the
\* thread had before.
PolicyAfterProbe(h, policy) == IF Linux(h) /\ h.fifo THEN "SCHED_OTHER" ELSE policy

NoTier == 0
Tiers == 1..3

\* The argument, then the environment, then the rules; NoTier is no override.
NegotiateProfile(h, argument, env) ==
  LET hypervisor == DetectHypervisor(h)
      cpu == DetectCpuTopology(h)
      caps == DetectCapabilities(h)
      override == IF argument # NoTier THEN argument ELSE env
      rules == IF ~IsVirtualized(hypervisor) /\ cpu.physical >= 16 /\ caps.has_hugetlb /\ caps.has_sched_fifo THEN 3
               ELSE IF IsVirtualized(hypervisor) \/ caps.quota # NoQuota THEN 2 ELSE 1
  IN  [tier |-> IF override # NoTier THEN override ELSE rules, auto_detected |-> override = NoTier,
       hypervisor |-> hypervisor, cpu |-> cpu, caps |-> caps]

-----------------------------------------------------------------------------
(* compute_scorecard: p50 in ns, jitter in us                              *)

Grade(p50, jitter, tier) ==
  IF p50 < 35 /\ jitter < 5 /\ tier = 3 THEN [grade |-> "A+", tier |-> 3]
  ELSE IF p50 < 75 /\ jitter < 50 THEN [grade |-> "A", tier |-> 2]
  ELSE IF p50 < 150 /\ jitter < 200 THEN [grade |-> "B", tier |-> 2]
  ELSE IF jitter < 1000 THEN [grade |-> "C", tier |-> 1]
  ELSE [grade |-> "F", tier |-> 1]

\* generate_config_toml; the detected tier it writes is the recommended one.
ConfigOf(card) ==
  [detected_tier |-> card.tier, recommended_tier |-> card.tier,
   wait_strategy |-> <<"PowerEfficient", "HybridAdaptive", "BusySpin">>[card.tier],
   ring_slots |-> <<4096, 16384, 65536>>[card.tier]]
=============================================================================
