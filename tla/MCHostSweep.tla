---------------------------- MODULE MCHostSweep -----------------------------
(* VMs v1 and v3 belong to p1, v2 to p2. *)
EXTENDS HostSweep

CONSTANTS p1, p2, v2

MCProcOf == [v \in Vms |-> IF v = v2 THEN p2 ELSE p1]

=============================================================================
