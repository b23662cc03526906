------------------------------ MODULE MCEngine ------------------------------
\* An instance of Engine: laptops, cloud machines and servers.
EXTENDS Engine

Server == [os |-> "linux", container |-> FALSE, product |-> "other", vendor |-> "other", hv |-> FALSE,
           processors |-> 32, core_ids |-> 16, nodes |-> 1, physical |-> 0, p_cores |-> 0, e_cores |-> 0,
           quota |-> NoQuota, hugepages |-> TRUE, fifo |-> TRUE]
Laptop == [Server EXCEPT !.processors = 8, !.core_ids = 4, !.hugepages = FALSE, !.fifo = FALSE]
Mac1 == [Laptop EXCEPT !.os = "macos", !.physical = 8, !.p_cores = 4, !.e_cores = 4]

MCHosts ==
  {Server, Mac1, [Mac1 EXCEPT !.hv = TRUE, !.processors = 0], [Server EXCEPT !.core_ids = 8, !.nodes = 2],
   [Server EXCEPT !.container = TRUE], [Laptop EXCEPT !.os = "windows"]}
  \cup {[Laptop EXCEPT !.processors = n, !.quota = q] : n \in {0, 1, 4, 8}, q \in {NoQuota, 2, 6, 16, 33}}
  \cup {[Server EXCEPT !.product = x, !.quota = q] : x \in {"amazon", "vmware", "other"}, q \in {NoQuota, 6, 33}}
  \cup {[Server EXCEPT !.vendor = x] : x \in {"google", "xen"}}

\* One socket whose 8 cores are split into two NUMA nodes.
MCSplitSocket == {[Server EXCEPT !.processors = 8, !.core_ids = 8, !.nodes = 2]}
=============================================================================
