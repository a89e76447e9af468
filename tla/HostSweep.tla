----------------------------- MODULE HostSweep ------------------------------
(***************************************************************************)
(* Host resources named after a vmid, the VMs that own them, and the       *)
(* orphan sweeps that reclaim what a crashed run left behind               *)
(* (orchestrator.rs: MicroVm's start, error unwinding and teardown_post_   *)
(* instance, sweep_orphans; vmcell-daemon/src/sweep.rs: sweep_pass and the *)
(* periodic sweeper).                                                      *)
(*                                                                         *)
(* Several processes share one host and one resource prefix.  Claiming and *)
(* releasing an id are single steps here: IdClaim shows that the lock-file *)
(* protocol behind them implements one pool (RefinesIdPool) and that an id *)
(* that is out reads LiveOwner (HeldHasLiveOwner).                         *)
(***************************************************************************)
EXTENDS FiniteSets

CONSTANTS
  Procs,
  Vms,        \* VM incarnations, each started at most once
  ProcOf,     \* [Vms -> Procs]
  Ids,
  Sweepers,   \* the processes that run the periodic sweeper
  Mortal,     \* the processes that may crash
  None

ASSUME HostSweepConstants ==
  /\ ProcOf \in [Vms -> Procs]
  /\ Sweepers \subseteq Procs
  /\ Mortal \subseteq Procs
  /\ None \notin Procs \cup Vms \cup Ids

VARIABLES
  alive,    \* the live processes
  owner,    \* [Ids -> the process the claim registry names]
  vpc,      \* [Vms -> "new", "start", "up", "unwind", "stop", "ended",
            \*  "crashed"]
  vmid,     \* [Vms -> the id it drew]
  held,     \* [Vms -> the kinds of resource it owns]
  vmm,      \* the VMs whose VMM process runs, as a member of the slice
  host,     \* [resource name -> the VM it was last made for]
  spc,      \* [Sweepers -> "idle", "scan", "check", "delete"]
  kind,     \* [Sweepers -> the kind of resource being swept]
  listed,   \* [Sweepers -> the names the scan returned and not yet looked at]
  target,   \* [Sweepers -> the name that may_reclaim let through]
  live,     \* [Sweepers -> the ids live_ids() reported to the pass]
  standing  \* [Sweepers -> history: the VMs that held an id when the pass began]

vmVars == <<vpc, vmid, held, vmm>>
sweepVars == <<spc, kind, listed, target, live, standing>>
vars == <<alive, owner, vmVars, host, sweepVars>>

Kinds == {"netns", "slice", "scratch"}

\* A namespace and a cgroup slice are named after the id, a scratch directory
\* after the pid and the id.
Resources ==
  ({"netns", "slice"} \X {None} \X Ids) \cup ({"scratch"} \X Procs \X Ids)

NameOf(k, v) == <<k, IF k = "scratch" THEN ProcOf[v] ELSE None, vmid[v]>>

TrailingId(x) == x[3]

\* The claim registry's answer for the id: LiveOwner, or NoLiveOwner.
LiveOwner(id) == owner[id] \in alive

\* A VM that holds its id.
Standing(v) == vpc[v] \in {"start", "up", "unwind", "stop"}

TypeOK ==
  /\ alive \in SUBSET Procs
  /\ owner \in [Ids -> Procs \cup {None}]
  /\ vpc \in [Vms -> {"new", "start", "up", "unwind", "stop", "ended", "crashed"}]
  /\ vmid \in [Vms -> Ids \cup {None}]
  /\ held \in [Vms -> SUBSET Kinds]
  /\ vmm \in SUBSET Vms
  /\ host \in [Resources -> Vms \cup {None}]
  /\ spc \in [Sweepers -> {"idle", "scan", "check", "delete"}]
  /\ kind \in [Sweepers -> Kinds]
  /\ listed \in [Sweepers -> SUBSET Resources]
  /\ target \in [Sweepers -> Resources \cup {None}]
  /\ live \in [Sweepers -> SUBSET Ids]
  /\ standing \in [Sweepers -> SUBSET Vms]

Init ==
  /\ alive = Procs
  /\ owner = [id \in Ids |-> None]
  /\ vpc = [v \in Vms |-> "new"]
  /\ vmid = [v \in Vms |-> None]
  /\ held = [v \in Vms |-> {}]
  /\ vmm = {}
  /\ host = [x \in Resources |-> None]
  /\ spc = [p \in Sweepers |-> "idle"]
  /\ kind = [p \in Sweepers |-> "netns"]
  /\ listed = [p \in Sweepers |-> {}]
  /\ target = [p \in Sweepers |-> None]
  /\ live = [p \in Sweepers |-> {}]
  /\ standing = [p \in Sweepers |-> {}]

-----------------------------------------------------------------------------
(* A VM's life *)

At(v, state) == vpc[v] = state /\ ProcOf[v] \in alive

\* VmidAllocator::allocate.
Claim(v, id) ==
  /\ At(v, "new")
  /\ ~LiveOwner(id)
  /\ owner' = [owner EXCEPT ![id] = ProcOf[v]]
  /\ vmid' = [vmid EXCEPT ![v] = id]
  /\ vpc' = [vpc EXCEPT ![v] = "start"]
  /\ UNCHANGED <<alive, held, vmm, host, sweepVars>>

\* The scratch directory first, then the namespace (a VM without a privileged
\* net mode has none), then the slice.
MayMake(v, k) ==
  CASE k = "scratch" -> held[v] = {}
    [] k = "netns" -> held[v] = {"scratch"}
    [] k = "slice" -> "scratch" \in held[v] /\ "slice" \notin held[v]

\* create_dir_all adopts what is there; add_netns refuses a name that exists.
Make(v, k) ==
  /\ At(v, "start")
  /\ MayMake(v, k)
  /\ k = "netns" => host[NameOf(k, v)] = None
  /\ host' = [host EXCEPT ![NameOf(k, v)] = v]
  /\ held' = [held EXCEPT ![v] = held[v] \cup {k}]
  /\ UNCHANGED <<alive, owner, vpc, vmid, vmm, sweepVars>>

\* The VMM joins the slice, enters the namespace and binds its sockets in the
\* scratch directory: with one of them gone the start fails.
Boot(v) ==
  /\ At(v, "start")
  /\ {"scratch", "slice"} \subseteq held[v]
  /\ \A k \in held[v] : host[NameOf(k, v)] # None
  /\ vpc' = [vpc EXCEPT ![v] = "up"]
  /\ vmm' = vmm \cup {v}
  /\ UNCHANGED <<alive, owner, vmid, held, host, sweepVars>>

\* Any step of a start may fail: its guards unwind.
Fail(v) ==
  /\ At(v, "start")
  /\ vpc' = [vpc EXCEPT ![v] = "unwind"]
  /\ UNCHANGED <<alive, owner, vmid, held, vmm, host, sweepVars>>

\* shutdown or Drop: the VMM is killed and reaped first.
Stop(v) ==
  /\ At(v, "up")
  /\ vpc' = [vpc EXCEPT ![v] = "stop"]
  /\ vmm' = vmm \ {v}
  /\ UNCHANGED <<alive, owner, vmid, held, host, sweepVars>>

Ending(v) == At(v, "unwind") \/ At(v, "stop")

\* teardown_post_instance deletes the namespace, then the slice; the guards of
\* a failed start the other way round; the scratch directory goes last.
MayUnmake(v, k) ==
  CASE k = "netns" -> vpc[v] = "stop" \/ "slice" \notin held[v]
    [] k = "slice" -> vpc[v] = "unwind" \/ "netns" \notin held[v]
    [] k = "scratch" -> held[v] = {"scratch"}

\* The resource is deleted by name; a failure is logged and the resource stays.
Unmake(v, k, fails) ==
  /\ Ending(v)
  /\ k \in held[v] /\ MayUnmake(v, k)
  /\ held' = [held EXCEPT ![v] = held[v] \ {k}]
  /\ host' = IF fails THEN host ELSE [host EXCEPT ![NameOf(k, v)] = None]
  /\ UNCHANGED <<alive, owner, vpc, vmid, vmm, sweepVars>>

\* Mutant: the id goes back to the pool before the slice is gone.
ReleaseEarly(v) ==
  /\ Ending(v)
  /\ "netns" \notin held[v]
  /\ owner[vmid[v]] # None
  /\ owner' = [owner EXCEPT ![vmid[v]] = None]
  /\ vpc' = [vpc EXCEPT ![v] = IF held[v] = {} THEN "ended" ELSE vpc[v]]
  /\ UNCHANGED <<alive, vmid, held, vmm, host, sweepVars>>

\* The id is released last.
Release(v) ==
  /\ Ending(v)
  /\ held[v] = {}
  /\ owner' = [owner EXCEPT ![vmid[v]] = None]
  /\ vpc' = [vpc EXCEPT ![v] = "ended"]
  /\ UNCHANGED <<alive, vmid, held, vmm, host, sweepVars>>

\* A process dies: its names on the host stay, and so do its VMMs (they have a
\* process group of their own and no parent-death signal).
Crash(p) ==
  /\ p \in alive \cap Mortal
  /\ alive' = alive \ {p}
  /\ vpc' = [v \in Vms |-> IF ProcOf[v] = p /\ Standing(v) THEN "crashed" ELSE vpc[v]]
  /\ held' = [v \in Vms |-> IF ProcOf[v] = p THEN {} ELSE held[v]]
  /\ UNCHANGED <<owner, vmid, vmm, host, sweepVars>>

\* The guest of an orphaned VMM powers off, or an operator kills it.
OrphanExits(v) ==
  /\ vpc[v] = "crashed" /\ v \in vmm
  /\ vmm' = vmm \ {v}
  /\ UNCHANGED <<alive, owner, vpc, vmid, held, host, sweepVars>>

-----------------------------------------------------------------------------
(* A sweep pass *)

Sweeping(p, state) == p \in alive /\ spc[p] = state

\* A tick: live_ids() is sampled, and a launch in flight defers the pass.
SweepBegin(p) ==
  /\ Sweeping(p, "idle")
  /\ \A v \in Vms : ProcOf[v] = p => vpc[v] # "start"
  /\ live' = [live EXCEPT ![p] = {vmid[v] : v \in {w \in Vms : ProcOf[w] = p /\ vpc[w] = "up"}}]
  /\ standing' = [standing EXCEPT ![p] = {v \in Vms : Standing(v)}]
  /\ kind' = [kind EXCEPT ![p] = "netns"]
  /\ spc' = [spc EXCEPT ![p] = "scan"]
  /\ UNCHANGED <<alive, owner, vmVars, host, listed, target>>

\* scan_netns, scan_cgroup_slices or scan_scratch_dirs.
SweepScan(p) ==
  /\ Sweeping(p, "scan")
  /\ listed' = [listed EXCEPT ![p] = {x \in Resources : x[1] = kind[p] /\ host[x] # None}]
  /\ spc' = [spc EXCEPT ![p] = "check"]
  /\ UNCHANGED <<alive, owner, vmVars, host, kind, target, live, standing>>

\* Mutant: only this process's own ids hold a resource back.
MayReclaimOwnOnly(p, x) == TrailingId(x) \notin live[p]

\* may_reclaim.
MayReclaim(p, x) ==
  /\ TrailingId(x) \notin live[p]
  /\ ~LiveOwner(TrailingId(x))

SweepCheck(p, x) ==
  /\ Sweeping(p, "check")
  /\ x \in listed[p]
  /\ listed' = [listed EXCEPT ![p] = listed[p] \ {x}]
  /\ IF MayReclaim(p, x)
     THEN spc' = [spc EXCEPT ![p] = "delete"] /\ target' = [target EXCEPT ![p] = x]
     ELSE UNCHANGED <<spc, target>>
  /\ UNCHANGED <<alive, owner, vmVars, host, kind, live, standing>>

\* Undeterminable: the claim cannot be read, and the resource is retained.
SweepRetain(p, x) ==
  /\ Sweeping(p, "check")
  /\ x \in listed[p]
  /\ listed' = [listed EXCEPT ![p] = listed[p] \ {x}]
  /\ UNCHANGED <<alive, owner, vmVars, host, spc, kind, target, live, standing>>

\* A slice a VMM is a member of: rmdir fails.
Busy(x) == x[1] = "slice" /\ \E v \in vmm : NameOf("slice", v) = x

\* Mutant: the pass logs what it would delete.
SweepDeleteKeeps(p) ==
  /\ Sweeping(p, "delete")
  /\ target' = [target EXCEPT ![p] = None]
  /\ spc' = [spc EXCEPT ![p] = "check"]
  /\ UNCHANGED <<alive, owner, vmVars, host, kind, listed, live, standing>>

\* The name is deleted, with no second look at the claim.
SweepDelete(p) ==
  /\ Sweeping(p, "delete")
  /\ host' = IF Busy(target[p]) THEN host ELSE [host EXCEPT ![target[p]] = None]
  /\ target' = [target EXCEPT ![p] = None]
  /\ spc' = [spc EXCEPT ![p] = "check"]
  /\ UNCHANGED <<alive, owner, vmVars, kind, listed, live, standing>>

\* The delete fails and is logged; the next pass tries again.
SweepDeleteFails(p) ==
  /\ Sweeping(p, "delete")
  /\ target' = [target EXCEPT ![p] = None]
  /\ spc' = [spc EXCEPT ![p] = "check"]
  /\ UNCHANGED <<alive, owner, vmVars, host, kind, listed, live, standing>>

\* Namespaces, then slices, then scratch directories.
SweepNextKind(p) ==
  /\ Sweeping(p, "check")
  /\ listed[p] = {}
  /\ kind' = [kind EXCEPT ![p] = IF kind[p] = "netns" THEN "slice" ELSE "scratch"]
  /\ spc' = [spc EXCEPT ![p] = IF kind[p] = "scratch" THEN "idle" ELSE "scan"]
  /\ live' = [live EXCEPT ![p] = IF kind[p] = "scratch" THEN {} ELSE live[p]]
  /\ standing' = [standing EXCEPT ![p] = IF kind[p] = "scratch" THEN {} ELSE standing[p]]
  /\ UNCHANGED <<alive, owner, vmVars, host, listed, target>>

SweepStep(p) ==
  \/ SweepBegin(p) \/ SweepScan(p) \/ SweepNextKind(p)
  \/ \E x \in Resources : SweepCheck(p, x) \/ SweepRetain(p, x)

Unwind(v) ==
  \/ \E k \in Kinds : Unmake(v, k, FALSE) \/ Unmake(v, k, TRUE)
  \/ Release(v)

VmStep(v) ==
  \/ \E id \in Ids : Claim(v, id)
  \/ \E k \in Kinds : Make(v, k)
  \/ Boot(v) \/ Fail(v) \/ Stop(v) \/ Unwind(v)

Next ==
  \/ \E v \in Vms : VmStep(v) \/ OrphanExits(v)
  \/ \E p \in Procs : Crash(p)
  \/ \E p \in Sweepers : SweepStep(p) \/ SweepDelete(p) \/ SweepDeleteFails(p)

Spec == Init /\ [][Next]_vars

\* A teardown or an unwinding start runs on; the sweeper's timer keeps firing,
\* and a claim that is read again and again is not unreadable for ever, nor a
\* delete that is tried again and again refused for ever.
FairSpec ==
  /\ Spec
  /\ \A v \in Vms : WF_vars(Unwind(v)) /\ WF_vars(Boot(v) \/ Fail(v))
  /\ \A p \in Sweepers :
       /\ WF_vars(SweepStep(p) \/ SweepDelete(p) \/ SweepDeleteFails(p))
       /\ \A x \in Resources : SF_vars(SweepCheck(p, x)) /\ SF_vars(target[p] = x /\ SweepDelete(p))

-----------------------------------------------------------------------------
(* Properties *)

\* What a sweep is about to delete is not a resource of a VM that held its id
\* when the pass began and holds it still, in this process or in a sibling.
SweepSparesStandingVm ==
  \A p \in Sweepers : Sweeping(p, "delete") =>
    \A v \in standing[p], k \in Kinds :
      Standing(v) /\ k \in held[v] => target[p] # NameOf(k, v)

\* While a VM holds its id, the resources it owns are its own: no other VM, of
\* this process or another, is given a name that this one is yet to delete.
NamesAreUnshared ==
  \A v \in Vms : Standing(v) => \A k \in held[v] : host[NameOf(k, v)] \in {v, None}

\* A resource owned by a running VM is never swept.
RunningVmKeepsResources ==
  \A v \in Vms : vpc[v] = "up" => \A k \in held[v] : host[NameOf(k, v)] = v

\* What a crashed run, or a teardown that failed, left behind is reclaimed, as
\* long as one sweeping process lives: only an orphaned VMM in the slice, or a
\* VM that draws the same id, holds it back.
OrphansAreReclaimed ==
  \A x \in Resources :
    (host[x] # None /\ ~Busy(x)) ~> (host[x] = None \/ LiveOwner(TrailingId(x)))

=============================================================================
