------------------------------- MODULE MCVm -------------------------------
(***************************************************************************)
(* What a host holds for its VMs: id claims, the life of a MicroVm with    *)
(* its scratch directory and CID, its network, its VMM processes, and the  *)
(* NAT engine.  They share no state here: a behaviour moves one of them,   *)
(* which part says.                                                        *)
(***************************************************************************)
EXTENDS IdClaim, MicroVm, HostNet, VmmProcess, Nat, TLC

CONSTANTS p1, p2, a1, a2, a3, i1

\* Allocators of two processes: a3 lives in p2, the others share p1.
MCPidOf == [a \in Allocs |-> IF a = a3 THEN p2 ELSE p1]

\* Firecracker; crosvm; Cloud Hypervisor and QEMU, which rotate both.
MCBackends == {[path |-> TRUE, cid |-> TRUE], [path |-> FALSE, cid |-> TRUE],
               [path |-> FALSE, cid |-> FALSE]}

\* VMs are interchangeable, and so are their ids; the run gives the parts the
\* same ones.
VmSymmetry == Permutations(MicroVms) \cup Permutations(Vmids)

\* Bounds: one VM at a time has respawned its control plane; a third VM starts
\* only where snapshots bake an identity; a third VM is on the network at once
\* only to fill a segment, while no call has failed; the NAT dials a second time
\* after at most one byte.
FewAtOnce ==
  /\ Cardinality({v \in MicroVms : micro[v].respawns > 0}) <= 1
  /\ backend.cid \/ \E v \in MicroVms : microStage[v] = "new"
  /\ (\A v \in Vms : vm[v].pc # "idle") =>
       faults = 0 /\ \A v \in Vms : vm[v].net = "segment"
  /\ Len(dials) = MaxDials => Traffic <= 1

VARIABLE part

vmVars == <<part, vars, microVars, hostNetVars, vmmVars, natVars>>

\* A part that does not move starts in one state.
VmInit ==
  /\ part \in {"claims", "micro", "net", "vmm", "nat"}
  /\ Init /\ MicroVmInit /\ HostNetInit /\ VmmInit /\ NatInit
  /\ part = "micro" \/ (~backend.path /\ ~backend.cid)

VmNext ==
  /\ \/ part = "claims" /\ Next /\ UNCHANGED <<microVars, hostNetVars, vmmVars, natVars>>
     \/ part = "micro" /\ MicroVmNext /\ UNCHANGED <<vars, hostNetVars, vmmVars, natVars>>
     \/ part = "net" /\ HostNetNext /\ UNCHANGED <<vars, microVars, vmmVars, natVars>>
     \/ part = "vmm" /\ VmmNext /\ UNCHANGED <<vars, microVars, hostNetVars, natVars>>
     \/ part = "nat" /\ NatNext /\ UNCHANGED <<vars, microVars, hostNetVars, vmmVars>>
  /\ UNCHANGED part

VmSpec == VmInit /\ [][VmNext]_vmVars

\* The processes of an instance are owned and its guest comes back (VmmSafe), and
\* so does the host's driver of its USB device (DriverGivenBack).
VmmKeeps == [][VmmSafe /\ VmmSafe' /\ DriverGivenBack]_vmmVars
===========================================================================
