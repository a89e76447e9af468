------------------------------ MODULE HostNet ------------------------------
(***************************************************************************)
(* The privileged network of VMs: the namespaces, taps and egress rules    *)
(* that MicroVm::setup_env stages and release_net_before_netns gives back  *)
(* (vmcell/src/orchestrator.rs, net/tap.rs), and the VM-to-VM segments     *)
(* that several VMs share (net/segment.rs).                                *)
(*                                                                         *)
(* VMs start and stop concurrently.  Every call to the kernel may fail, as *)
(* often as MaxFaults; what could not be deleted stays.                    *)
(***************************************************************************)
EXTENDS Naturals, FiniteSets, FiniteSetsExt

CONSTANTS
  Vms, Segs,
  Vmids,      \* ids of VMs; VMs of two HostEnvs may have the same
  Modes,      \* the networks VMs are given
  MaxSlot,    \* MAX_SEGMENT_SLOT
  MaxFaults   \* bound: failing calls

ASSUME HostNetConstants ==
  /\ MaxSlot \in Nat \ {0} /\ MaxFaults \in Nat /\ Vmids \cap Segs = {}
  /\ Modes \subseteq {"open", "blocked", "filtered", "segment", "nat"}

VARIABLES
  netns,    \* [Vmids \cup Segs -> namespace]: <prefix>-vm-<id>, <prefix>-seg-<id>
  seg,      \* [Segs -> [state, user, slots]]: SegmentInner
  vm,       \* [Vms -> setup_env, the VM and its teardown]
  faults,
  leaked    \* what a failed deletion left: <<namespace, tap>>, tap 0 for the namespace itself

hostNetVars == <<netns, seg, vm, faults, leaked>>

MemberSlots == 1..MaxSlot
NoNetns == [up |-> FALSE, bridge |-> FALSE, taps |-> {}, ports |-> {}, rules |-> "none", routed |-> FALSE]
NoVm == [pc |-> "idle", id |-> 0, net |-> "open", seg |-> 0,
         slot |-> 0, ns |-> FALSE, nat |-> FALSE, proxy |-> FALSE, vmm |-> FALSE]
NoSegment == [state |-> "none", user |-> FALSE, slots |-> [s \in MemberSlots |-> 0]]

Privileged == {"open", "blocked", "filtered"}

HostNetTypeOK ==
  /\ \A n \in Vmids \cup Segs :
       netns[n].taps \subseteq Vmids /\ netns[n].ports \subseteq Vmids
       /\ netns[n].rules \in {"none", "blocked", "tproxy"}
  /\ \A s \in Segs : seg[s].state \in {"none", "bridge", "ready", "dropping"}
                     /\ \A k \in MemberSlots : seg[s].slots[k] \in Vmids \cup {0}
  /\ \A v \in Vms : vm[v].net \in Modes \cup {"open"} /\ vm[v].slot \in 0..MaxSlot /\ vm[v].id \in Vmids \cup {0}
  /\ faults \in 0..MaxFaults

HostNetInit ==
  /\ netns = [n \in Vmids \cup Segs |-> NoNetns]
  /\ seg = [s \in Segs |-> NoSegment]
  /\ vm = [v \in Vms |-> NoVm]
  /\ faults = 0 /\ leaked = {}

VmAt(v, pc) == vm[v].pc = pc
VmGo(v, pc) == vm' = [vm EXCEPT ![v].pc = pc]
KernelFault == faults < MaxFaults /\ faults' = faults + 1

\* setup_env returns an error: StagedNet is dropped.
Unwind(v) == VmGo(v, "release")

\* The namespace v's tap is in.
Home(v) == IF vm[v].net = "segment" THEN vm[v].seg ELSE vm[v].id

-----------------------------------------------------------------------------
(* Segments: NetSegment::create_with_netlink and the drop of the last Arc *)

\* SegmentIdGuard::claim, add_netns
NewSegment(s) ==
  /\ seg[s].state = "none" /\ ~netns[s].up
  /\ seg' = [seg EXCEPT ![s] = [NoSegment EXCEPT !.state = "bridge", !.user = TRUE]]
  /\ netns' = [netns EXCEPT ![s] = [NoNetns EXCEPT !.up = TRUE]]
  /\ UNCHANGED <<vm, faults, leaked>>

CreateBridge(s) ==
  /\ seg[s].state = "bridge"
  /\ \/ /\ seg' = [seg EXCEPT ![s].state = "ready"]
        /\ netns' = [netns EXCEPT ![s].bridge = TRUE]
        /\ UNCHANGED faults
     \/ /\ KernelFault
        /\ seg' = [seg EXCEPT ![s] = [@ EXCEPT !.state = "dropping", !.user = FALSE]]
        /\ UNCHANGED netns
  /\ UNCHANGED <<vm, leaked>>

\* Members hold an Arc of their segment from the claim to the end of their drop.
MemberPcs == {"tap_on_bridge", "enslave", "undo", "env", "boot", "running", "release", "release_slot"}

Holders(s) ==
  (IF seg[s].user THEN {s} ELSE {})
    \cup {v \in Vms : vm[v].net = "segment" /\ vm[v].seg = s /\ vm[v].slot # 0 /\ vm[v].pc \in MemberPcs}

\* The creator lets go; a start that is going on borrows the handle.
DropHandle(s) ==
  /\ seg[s].user /\ seg[s].state = "ready"
  /\ ~\E v \in Vms : VmAt(v, "claim") /\ vm[v].seg = s
  /\ seg' = [seg EXCEPT ![s].user = FALSE]
  /\ UNCHANGED <<netns, vm, faults, leaked>>

\* Drop for SegmentInner: delete_netns, then the segid.
DropSegment(s) ==
  /\ seg[s].state = "dropping" \/ (seg[s].state = "ready" /\ Holders(s) = {})
  /\ seg' = [seg EXCEPT ![s] = NoSegment]
  /\ \/ netns' = [netns EXCEPT ![s] = NoNetns] /\ UNCHANGED <<faults, leaked>>
     \/ KernelFault /\ leaked' = leaked \cup {<<s, 0>>} /\ UNCHANGED netns
  /\ UNCHANGED vm

-----------------------------------------------------------------------------
(* setup_env *)

StartVm(v, i, net, s) ==
  /\ VmAt(v, "idle")
  /\ net # "segment" => \A w \in Vms : vm[w].pc # "idle" => vm[w].id # i
  /\ net = "segment" => seg[s].state = "ready" /\ seg[s].user
  /\ vm' = [vm EXCEPT ![v] =
       [NoVm EXCEPT !.id = i, !.net = net, !.seg = s,
          !.pc = CASE net \in Privileged -> "add_netns" [] net = "segment" -> "claim" [] OTHER -> "proxy"]]
  /\ UNCHANGED <<netns, seg, faults, leaked>>

\* A namespace that is there already is not taken over.
AddNetns(v) ==
  /\ VmAt(v, "add_netns")
  /\ \/ /\ ~netns[vm[v].id].up
        /\ netns' = [netns EXCEPT ![vm[v].id] = [NoNetns EXCEPT !.up = TRUE]]
        /\ VmGo(v, "tap") /\ UNCHANGED faults
     \/ netns[vm[v].id].up /\ Unwind(v) /\ UNCHANGED <<netns, faults>>
     \/ KernelFault /\ Unwind(v) /\ UNCHANGED netns
  /\ UNCHANGED <<seg, leaked>>

AfterTap(net) == CASE net = "open" -> "env" [] net = "blocked" -> "rules" [] OTHER -> "proxy"

\* delete_netns after a failed setup_tap, which may fail too.
TapFailed(v) ==
  /\ KernelFault
  /\ \/ netns' = [netns EXCEPT ![vm[v].id] = NoNetns] /\ UNCHANGED leaked
     \/ leaked' = leaked \cup {<<vm[v].id, 0>>} /\ UNCHANGED netns

SetupTap(v) ==
  /\ VmAt(v, "tap")
  /\ \/ /\ netns' = [netns EXCEPT ![vm[v].id].taps = {vm[v].id}]
        /\ vm' = [vm EXCEPT ![v].pc = AfterTap(vm[v].net), ![v].ns = TRUE]
        /\ UNCHANGED <<faults, leaked>>
     \/ TapFailed(v) /\ Unwind(v)
  /\ UNCHANGED seg

\* EgressProxy::start and start_transparent, SmoltcpProcess::start
StartProxy(v) ==
  /\ VmAt(v, "proxy")
  /\ \/ vm' = [vm EXCEPT ![v].proxy = TRUE, ![v].pc = IF vm[v].net = "nat" THEN "nat" ELSE "rules"] /\ UNCHANGED faults
     \/ Unwind(v) /\ KernelFault
  /\ UNCHANGED <<netns, seg, leaked>>

StartNat(v) ==
  /\ VmAt(v, "nat")
  /\ vm' = [vm EXCEPT ![v].nat = TRUE, ![v].pc = "env"]
  /\ UNCHANGED <<netns, seg, faults, leaked>>

RulesFor(net) == CASE net = "filtered" -> "tproxy" [] net = "blocked" -> "blocked" [] OTHER -> "none"

RulesFailed(v) == Unwind(v)

\* emit_proxy_rules, emit_blocked_rules
EmitRules(v) ==
  /\ VmAt(v, "rules")
  /\ \/ /\ netns' = [netns EXCEPT ![vm[v].id].rules = RulesFor(vm[v].net)]
        /\ VmGo(v, IF vm[v].net = "filtered" THEN "routing" ELSE "env")
        /\ UNCHANGED faults
     \/ RulesFailed(v) /\ KernelFault /\ UNCHANGED netns
  /\ UNCHANGED <<seg, leaked>>

SetupTproxyRouting(v) ==
  /\ VmAt(v, "routing")
  /\ \/ netns' = [netns EXCEPT ![vm[v].id].routed = TRUE] /\ VmGo(v, "env") /\ UNCHANGED faults
     \/ RulesFailed(v) /\ KernelFault /\ UNCHANGED netns
  /\ UNCHANGED <<seg, leaked>>

FreeSlot(m) == LET free == {k \in MemberSlots : m[k] = 0} IN IF free = {} THEN {} ELSE {Min(free)}

\* Mutant: any vmid may join.
NotMemberAny(m, i) == TRUE
NotMember(m, i) == \A k \in MemberSlots : m[k] # i

\* claim_member, under the lock of the slots
ClaimSlot(v) ==
  LET s == vm[v].seg
      m == seg[s].slots IN
  /\ VmAt(v, "claim")
  /\ \/ \E k \in FreeSlot(m) :
          /\ NotMember(m, vm[v].id)
          /\ seg' = [seg EXCEPT ![s].slots[k] = vm[v].id]
          /\ vm' = [vm EXCEPT ![v].slot = k, ![v].pc = "tap_on_bridge"]
     \/ /\ ~NotMember(m, vm[v].id) \/ FreeSlot(m) = {}
        /\ Unwind(v)
        /\ UNCHANGED seg
  /\ UNCHANGED <<netns, faults, leaked>>

\* create_persistent_tap_in_ns: a tap no one has open is opened again, one that
\* is open is refused.  setup_tap_on_bridge deletes only what it created.
Busy(n, i) == \E w \in Vms : vm[w].vmm /\ Home(w) = n /\ vm[w].id = i

TapOnBridge(v) ==
  LET s == vm[v].seg IN
  /\ VmAt(v, "tap_on_bridge")
  /\ \/ /\ ~Busy(s, vm[v].id)
        /\ netns' = [netns EXCEPT ![s].taps = @ \cup {vm[v].id}]
        /\ VmGo(v, "enslave") /\ UNCHANGED faults
     \/ KernelFault /\ VmGo(v, "release_slot") /\ UNCHANGED netns
  /\ UNCHANGED <<seg, leaked>>

Enslave(v) ==
  LET s == vm[v].seg IN
  /\ VmAt(v, "enslave")
  /\ \/ netns' = [netns EXCEPT ![s].ports = @ \cup {vm[v].id}] /\ VmGo(v, "env") /\ UNCHANGED faults
     \/ KernelFault /\ VmGo(v, "undo") /\ UNCHANGED netns
  /\ UNCHANGED <<seg, leaked>>

\* create_slice and the guest's CID
SetupRest(v) ==
  /\ VmAt(v, "env")
  /\ (VmGo(v, "boot") /\ UNCHANGED faults) \/ (Unwind(v) /\ KernelFault)
  /\ UNCHANGED <<netns, seg, leaked>>

\* The VMM enters the namespace and opens the tap.
BootVmm(v) ==
  LET there == vm[v].net = "nat" \/ (netns[Home(v)].up /\ vm[v].id \in netns[Home(v)].taps) IN
  /\ VmAt(v, "boot")
  /\ \/ there /\ vm' = [vm EXCEPT ![v].vmm = TRUE, ![v].pc = "running"] /\ UNCHANGED faults
     \/ Unwind(v) /\ KernelFault
  /\ UNCHANGED <<netns, seg, leaked>>

-----------------------------------------------------------------------------
(* The teardown *)

\* The VMM is reaped before the network goes.
ReapVmm(v) ==
  /\ VmAt(v, "running")
  /\ vm' = [vm EXCEPT ![v].vmm = FALSE, ![v].pc = "release"]
  /\ UNCHANGED <<netns, seg, faults, leaked>>

\* release_net_before_netns
NextReleased(v) == CASE vm[v].nat -> "nat" [] vm[v].proxy -> "proxy" [] vm[v].ns -> "ns"
                     [] vm[v].slot # 0 -> "segment" [] OTHER -> "none"

ReleaseNat(v) ==
  /\ VmAt(v, "release") /\ NextReleased(v) = "nat"
  /\ vm' = [vm EXCEPT ![v].nat = FALSE]
  /\ UNCHANGED <<netns, seg, faults, leaked>>

ReleaseProxy(v) ==
  /\ VmAt(v, "release") /\ NextReleased(v) = "proxy"
  /\ vm' = [vm EXCEPT ![v].proxy = FALSE]
  /\ UNCHANGED <<netns, seg, faults, leaked>>

\* Drop for NetNamespace
ReleaseNetns(v) ==
  /\ VmAt(v, "release") /\ NextReleased(v) = "ns"
  /\ vm' = [vm EXCEPT ![v].ns = FALSE]
  /\ \/ netns' = [netns EXCEPT ![vm[v].id] = NoNetns] /\ UNCHANGED <<faults, leaked>>
     \/ KernelFault /\ leaked' = leaked \cup {<<vm[v].id, 0>>} /\ UNCHANGED netns
  /\ UNCHANGED seg

\* delete_link, of Drop for SegmentMember and of a tap that was not enslaved.
DeleteLink(v) ==
  LET s == vm[v].seg
      i == vm[v].id IN
  /\ VmAt(v, "undo") \/ (VmAt(v, "release") /\ NextReleased(v) = "segment")
  /\ VmGo(v, "release_slot")
  /\ \/ /\ netns' = [netns EXCEPT ![s] = [@ EXCEPT !.taps = @ \ {i}, !.ports = @ \ {i}]]
        /\ UNCHANGED <<faults, leaked>>
     \/ KernelFault /\ leaked' = leaked \cup {<<s, i>>} /\ UNCHANGED netns
  /\ UNCHANGED seg

\* release_slot, and the member's Arc
ReleaseSlot(v) ==
  /\ VmAt(v, "release_slot")
  /\ seg' = [seg EXCEPT ![vm[v].seg].slots[vm[v].slot] = 0]
  /\ vm' = [vm EXCEPT ![v].slot = 0, ![v].pc = "release"]
  /\ UNCHANGED <<netns, faults, leaked>>

\* The slice, the CID and the vmid go last.
VmReleased(v) ==
  /\ VmAt(v, "release") /\ NextReleased(v) = "none"
  /\ vm' = [vm EXCEPT ![v] = NoVm]
  /\ UNCHANGED <<netns, seg, faults, leaked>>

-----------------------------------------------------------------------------
SetupEnv(v) ==
  \/ \E i \in Vmids, net \in Modes : \E s \in IF net = "segment" THEN Segs ELSE {0} : StartVm(v, i, net, s)
  \/ AddNetns(v) \/ SetupTap(v) \/ StartProxy(v) \/ StartNat(v) \/ EmitRules(v) \/ SetupTproxyRouting(v)
  \/ ClaimSlot(v) \/ TapOnBridge(v) \/ Enslave(v) \/ SetupRest(v) \/ BootVmm(v)

Teardown(v) ==
  ReapVmm(v) \/ ReleaseNat(v) \/ ReleaseProxy(v) \/ ReleaseNetns(v) \/ DeleteLink(v) \/ ReleaseSlot(v) \/ VmReleased(v)

HostNetNext ==
  \/ \E s \in Segs : NewSegment(s) \/ CreateBridge(s) \/ DropHandle(s) \/ DropSegment(s)
  \/ \E v \in Vms : SetupEnv(v) \/ Teardown(v)

HostNetSpec == HostNetInit /\ [][HostNetNext]_hostNetVars

-----------------------------------------------------------------------------
\* A VM that runs has its namespace, its tap in it and, on a segment, the tap on
\* the bridge, whatever other VMs and the segment's creator do meanwhile: a
\* segment goes with its last member, and a start that fails removes only what
\* it created (NetSegment, claim_member, setup_tap_on_bridge).
RunningVmHasItsLink ==
  \A v \in Vms : vm[v].vmm /\ vm[v].net # "nat" =>
    /\ netns[Home(v)].up /\ vm[v].id \in netns[Home(v)].taps
    /\ vm[v].net = "segment" => vm[v].id \in netns[Home(v)].ports

\* No VMM runs under an egress policy whose rules are not in force: a rule, a
\* route or a proxy that fails ends the start (emit_proxy_rules, setup_env).
EgressRulesBeforeVmm ==
  \A v \in Vms : vm[v].vmm /\ vm[v].net \in Privileged =>
    /\ netns[vm[v].id].rules = RulesFor(vm[v].net)
    /\ vm[v].net = "filtered" => netns[vm[v].id].routed /\ vm[v].proxy

\* The slots of a segment are those its members hold: no two members share an
\* address, and a failed claim keeps none (claim_member).
SlotsAreTheMembers ==
  \A s \in Segs : \A k \in MemberSlots :
    Cardinality({v \in Vms : vm[v].net = "segment" /\ vm[v].seg = s /\ vm[v].slot = k})
      = IF seg[s].slots[k] = 0 THEN 0 ELSE 1

\* Every namespace and every tap on a bridge belongs to a VM or a segment that
\* is there, but for those whose deletion failed (NetNamespace::create,
\* create_with_netlink, the drops).
HasOwner(n) ==
  \/ n \in Segs /\ seg[n].state # "none"
  \/ \E v \in Vms : vm[v].id = n /\ vm[v].net \in Privileged /\ (vm[v].ns \/ VmAt(v, "tap"))
NothingIsLeftBehind ==
  /\ \A n \in Vmids \cup Segs : netns[n].up => HasOwner(n) \/ <<n, 0>> \in leaked
  /\ \A s \in Segs : \A i \in netns[s].taps :
       <<s, i>> \in leaked \/ <<s, 0>> \in leaked \/ \E k \in MemberSlots : seg[s].slots[k] = i

\* What talks through the network ends before what it talks through: a proxy
\* has its namespace, and the NAT its proxy (release_net_before_netns).
ReleasedInOrder ==
  \A v \in Vms :
    /\ vm[v].proxy /\ vm[v].net = "filtered" => netns[vm[v].id].up
    /\ vm[v].nat => vm[v].proxy

\* The host's network around a VM, through every start that fails and every
\* teardown: a link and its rules while it runs, nothing when it is gone.
HostNetSafe ==
  /\ HostNetTypeOK
  /\ RunningVmHasItsLink
  /\ EgressRulesBeforeVmm
  /\ SlotsAreTheMembers
  /\ NothingIsLeftBehind
  /\ ReleasedInOrder
=============================================================================
