-------------------------- MODULE HostSweepProofs ---------------------------
(***************************************************************************)
(* Whatever the processes, the VMs and the ids: a sweep spares every VM    *)
(* that stood when it began, and no VM shares a resource name with another.*)
(***************************************************************************)
EXTENDS HostSweep, TLAPS

\* A VM holds its id alone, in the name of a live process.
OwnerInv ==
  \A v \in Vms : Standing(v) =>
    /\ vmid[v] \in Ids
    /\ ProcOf[v] \in alive
    /\ owner[vmid[v]] = ProcOf[v]

AloneInv ==
  \A v, w \in Vms : Standing(v) /\ Standing(w) /\ vmid[v] = vmid[w] => v = w

\* Only a VM that holds an id owns resources.
HeldInv ==
  \A v \in Vms : held[v] # {} => Standing(v)

\* A name that passed may_reclaim was not then the name of any VM with an id,
\* and a VM that stood when the pass began cannot draw that id any more.
TargetInv ==
  \A p \in Sweepers :
    /\ spc[p] = "delete" => target[p] \in Resources
    /\ \A v \in standing[p] : vpc[v] # "new"
    /\ spc[p] = "delete" =>
         \A v \in standing[p] : Standing(v) => vmid[v] # TrailingId(target[p])

SweepInv ==
  TypeOK /\ OwnerInv /\ AloneInv /\ HeldInv /\ NamesAreUnshared /\ TargetInv

-----------------------------------------------------------------------------

\* Two different VMs that stand have different names for every resource.
LEMMA NamesDiffer ==
  ASSUME TypeOK, OwnerInv, AloneInv,
         NEW v \in Vms, NEW w \in Vms, NEW k \in Kinds, NEW j \in Kinds,
         Standing(v), Standing(w), NameOf(k, v) = NameOf(j, w)
  PROVE  v = w /\ k = j
BY DEF AloneInv, NameOf

\* The name of a resource of a VM that stands is a resource name.
LEMMA NameIsResource ==
  ASSUME TypeOK, OwnerInv, NEW v \in Vms, NEW k \in Kinds, Standing(v)
  PROVE  NameOf(k, v) \in Resources /\ TrailingId(NameOf(k, v)) = vmid[v]
<1>1. vmid[v] \in Ids /\ ProcOf[v] \in Procs
  BY HostSweepConstants DEF OwnerInv
<1>2. CASE k = "scratch"
  BY <1>1, <1>2 DEF NameOf, Resources, TrailingId
<1>3. CASE k \in {"netns", "slice"}
  BY <1>1, <1>3 DEF NameOf, Resources, TrailingId
<1>4. QED BY <1>2, <1>3 DEF Kinds

\* A step of a VM that draws no id cannot make it a sweep's target.
LEMMA TargetFrame ==
  ASSUME TypeOK, TargetInv, UNCHANGED <<vmid, sweepVars>>,
         \A w \in Vms : Standing(w)' => Standing(w),
         \A w \in Vms : vpc[w] # "new" => vpc'[w] # "new"
  PROVE  TargetInv'
<1>1. \A p \in Sweepers : standing[p] \subseteq Vms
  BY DEF TypeOK
<1>2. QED BY <1>1 DEF TargetInv, sweepVars, TrailingId

\* Nobody holds anything in the initial states.
LEMMA InitInv == Init => SweepInv
BY HostSweepConstants
   DEF Init, SweepInv, TypeOK, OwnerInv, AloneInv, HeldInv, NamesAreUnshared, TargetInv,
       Standing, Kinds

\* A VM draws an id only if no VM that stands has it.
LEMMA ClaimKeepsInv ==
  ASSUME SweepInv, NEW v \in Vms, NEW id \in Ids, Claim(v, id)
  PROVE  SweepInv'
<1>0. /\ vpc[v] = "new" /\ ProcOf[v] \in alive /\ ProcOf[v] \in Procs /\ ~LiveOwner(id)
      /\ owner' = [owner EXCEPT ![id] = ProcOf[v]]
      /\ vmid' = [vmid EXCEPT ![v] = id]
      /\ vpc' = [vpc EXCEPT ![v] = "start"]
      /\ UNCHANGED <<alive, held, vmm, host, sweepVars>>
      /\ TypeOK
  BY HostSweepConstants DEF Claim, At, SweepInv
<1>1. \A w \in Vms : Standing(w) => vmid[w] # id /\ w # v /\ vmid'[w] = vmid[w]
  BY <1>0 DEF SweepInv, OwnerInv, LiveOwner, Standing, TypeOK
<1>2. \A w \in Vms : Standing(w)' <=> Standing(w) \/ w = v
  BY <1>0 DEF Standing, TypeOK
<1>3. vmid'[v] = id /\ held[v] = {}
  BY <1>0 DEF SweepInv, HeldInv, Standing, TypeOK
<1>4. TypeOK'
  BY <1>0 DEF TypeOK, sweepVars
<1>5. OwnerInv'
  BY <1>0, <1>1, <1>2, <1>3 DEF SweepInv, OwnerInv, TypeOK
<1>6. AloneInv'
  BY <1>1, <1>2, <1>3 DEF SweepInv, AloneInv
<1>7. HeldInv'
  BY <1>0, <1>2 DEF SweepInv, HeldInv
<1>8. NamesAreUnshared'
  BY <1>0, <1>1, <1>2, <1>3 DEF SweepInv, NamesAreUnshared, NameOf
<1>9. TargetInv'
  <2>1. \A p \in Sweepers : v \notin standing[p]
    BY <1>0 DEF SweepInv, TargetInv
  <2>2. \A p \in Sweepers : standing[p] \subseteq Vms
    BY <1>0 DEF TypeOK
  <2>3. \A w \in Vms : w # v => vpc'[w] = vpc[w] /\ vmid'[w] = vmid[w]
    BY <1>0 DEF TypeOK
  <2>4. QED
    BY <1>0, <1>2, <2>1, <2>2, <2>3 DEF SweepInv, TargetInv, sweepVars, TrailingId
<1>10. QED BY <1>4, <1>5, <1>6, <1>7, <1>8, <1>9 DEF SweepInv

\* A resource is made under the VM's own name, which no other VM has.
LEMMA MakeKeepsInv ==
  ASSUME SweepInv, NEW v \in Vms, NEW k \in Kinds, Make(v, k)
  PROVE  SweepInv'
<1>0. /\ Standing(v) /\ TypeOK /\ OwnerInv /\ AloneInv
      /\ host' = [host EXCEPT ![NameOf(k, v)] = v]
      /\ held' = [held EXCEPT ![v] = held[v] \cup {k}]
      /\ UNCHANGED <<alive, owner, vpc, vmid, vmm, sweepVars>>
  BY DEF Make, At, SweepInv, Standing
<1>1. NameOf(k, v) \in Resources
  BY <1>0, NameIsResource
<1>2. \A w \in Vms : Standing(w)' <=> Standing(w)
  BY <1>0 DEF Standing
<1>3. TypeOK'
  BY <1>0, <1>1 DEF TypeOK, sweepVars
<1>4. OwnerInv' /\ AloneInv'
  BY <1>0, <1>2 DEF OwnerInv, AloneInv
<1>5. HeldInv'
  BY <1>0, <1>2 DEF SweepInv, HeldInv, TypeOK
<1>6. NamesAreUnshared'
  <2> SUFFICES ASSUME NEW w \in Vms, Standing(w), NEW j \in held'[w]
               PROVE  host'[NameOf(j, w)] \in {w, None}
    BY <1>0, <1>2 DEF NamesAreUnshared, NameOf
  <2>1. j \in Kinds /\ NameOf(j, w) \in Resources
    BY <1>0, <1>3, NameIsResource DEF TypeOK
  <2>2. CASE NameOf(j, w) = NameOf(k, v)
    BY <1>0, <1>1, <2>1, <2>2, NamesDiffer DEF TypeOK
  <2>3. CASE NameOf(j, w) # NameOf(k, v)
    <3>1. w = v => j # k
      BY <2>3
    <3>2. j \in held[w]
      BY <1>0, <3>1 DEF TypeOK
    <3>3. QED BY <1>0, <2>1, <2>3, <3>2 DEF SweepInv, NamesAreUnshared, TypeOK
  <2>4. QED BY <2>2, <2>3
<1>7. TargetInv'
  BY <1>0, <1>2, TargetFrame DEF SweepInv
<1>8. QED BY <1>3, <1>4, <1>5, <1>6, <1>7 DEF SweepInv

\* A VM that goes up, fails or begins to stop keeps its id and its names.
LEMMA PhaseKeepsInv ==
  ASSUME SweepInv, NEW v \in Vms, Boot(v) \/ Fail(v) \/ Stop(v)
  PROVE  SweepInv'
<1>0. PICK s \in {"up", "unwind", "stop"} :
        /\ Standing(v) /\ TypeOK
        /\ vpc' = [vpc EXCEPT ![v] = s]
        /\ vmm' \in SUBSET Vms
        /\ UNCHANGED <<alive, owner, vmid, held, host, sweepVars>>
  BY DEF Boot, Fail, Stop, At, SweepInv, Standing, TypeOK
<1>1. \A w \in Vms : Standing(w)' <=> Standing(w)
  BY <1>0 DEF Standing, TypeOK
<1>2. TypeOK'
  BY <1>0 DEF TypeOK, sweepVars
<1>3. OwnerInv' /\ AloneInv' /\ HeldInv'
  BY <1>0, <1>1 DEF SweepInv, OwnerInv, AloneInv, HeldInv
<1>4. NamesAreUnshared'
  BY <1>0, <1>1 DEF SweepInv, NamesAreUnshared, NameOf
<1>5. TargetInv'
  <2>1. \A w \in Vms : vpc[w] # "new" => vpc'[w] # "new"
    BY <1>0 DEF TypeOK
  <2>2. QED BY <1>0, <1>1, <2>1, TargetFrame DEF SweepInv
<1>6. QED BY <1>2, <1>3, <1>4, <1>5 DEF SweepInv

\* A VM deletes its own name only, whether the delete works or not.
LEMMA UnmakeKeepsInv ==
  ASSUME SweepInv, NEW v \in Vms, NEW k \in Kinds, NEW fails \in BOOLEAN, Unmake(v, k, fails)
  PROVE  SweepInv'
<1>0. /\ Standing(v) /\ TypeOK /\ OwnerInv /\ AloneInv
      /\ k \in held[v]
      /\ host' \in {host, [host EXCEPT ![NameOf(k, v)] = None]}
      /\ held' = [held EXCEPT ![v] = held[v] \ {k}]
      /\ UNCHANGED <<alive, owner, vpc, vmid, vmm, sweepVars>>
  BY DEF Unmake, Ending, At, SweepInv, Standing
<1>1. NameOf(k, v) \in Resources
  BY <1>0, NameIsResource
<1>2. \A w \in Vms : Standing(w)' <=> Standing(w)
  BY <1>0 DEF Standing
<1>3. \A w \in Vms : held'[w] \subseteq held[w]
  BY <1>0 DEF TypeOK
<1>4. \A x \in Resources : host'[x] \in {host[x], None}
  BY <1>0, <1>1 DEF TypeOK
<1>5. TypeOK'
  BY <1>0, <1>1 DEF TypeOK, sweepVars
<1>6. OwnerInv' /\ AloneInv' /\ HeldInv'
  BY <1>0, <1>2, <1>3 DEF SweepInv, OwnerInv, AloneInv, HeldInv
<1>7. NamesAreUnshared'
  <2> SUFFICES ASSUME NEW w \in Vms, Standing(w), NEW j \in held[w]
               PROVE  host'[NameOf(j, w)] \in {w, None}
    BY <1>0, <1>2, <1>3 DEF NamesAreUnshared, NameOf
  <2>1. NameOf(j, w) \in Resources
    BY <1>0, NameIsResource DEF TypeOK
  <2>2. QED BY <1>4, <2>1 DEF SweepInv, NamesAreUnshared
<1>8. TargetInv'
  BY <1>0, <1>2, TargetFrame DEF SweepInv
<1>9. QED BY <1>5, <1>6, <1>7, <1>8 DEF SweepInv

\* An id goes back to the pool with no resource of its VM left to delete.
LEMMA ReleaseKeepsInv ==
  ASSUME SweepInv, NEW v \in Vms, Release(v)
  PROVE  SweepInv'
<1>0. /\ Standing(v) /\ TypeOK /\ OwnerInv /\ AloneInv
      /\ held[v] = {}
      /\ owner' = [owner EXCEPT ![vmid[v]] = None]
      /\ vpc' = [vpc EXCEPT ![v] = "ended"]
      /\ UNCHANGED <<alive, vmid, held, vmm, host, sweepVars>>
  BY DEF Release, Ending, At, SweepInv, Standing
<1>1. \A w \in Vms : Standing(w)' <=> Standing(w) /\ w # v
  BY <1>0 DEF Standing, TypeOK
<1>2. TypeOK'
  BY <1>0 DEF TypeOK, sweepVars
<1>3. OwnerInv'
  <2> SUFFICES ASSUME NEW w \in Vms, Standing(w), w # v
               PROVE  vmid[w] \in Ids /\ ProcOf[w] \in alive /\ owner'[vmid[w]] = ProcOf[w]
    BY <1>0, <1>1 DEF OwnerInv
  <2>1. vmid[w] # vmid[v]
    BY <1>0 DEF AloneInv
  <2>2. QED BY <1>0, <2>1 DEF OwnerInv, TypeOK
<1>4. AloneInv'
  BY <1>0, <1>1 DEF AloneInv
<1>5. HeldInv'
  BY <1>0, <1>1 DEF SweepInv, HeldInv
<1>6. NamesAreUnshared'
  BY <1>0, <1>1 DEF SweepInv, NamesAreUnshared, NameOf
<1>7. TargetInv'
  <2>1. \A w \in Vms : vpc[w] # "new" => vpc'[w] # "new"
    BY <1>0 DEF TypeOK
  <2>2. QED BY <1>0, <1>1, <2>1, TargetFrame DEF SweepInv
<1>8. QED BY <1>2, <1>3, <1>4, <1>5, <1>6, <1>7 DEF SweepInv

\* The VMs of a process that dies stand no more.
LEMMA CrashKeepsInv ==
  ASSUME SweepInv, NEW p \in Procs, Crash(p)
  PROVE  SweepInv'
<1>0. /\ TypeOK
      /\ alive' = alive \ {p}
      /\ vpc' = [v \in Vms |-> IF ProcOf[v] = p /\ Standing(v) THEN "crashed" ELSE vpc[v]]
      /\ held' = [v \in Vms |-> IF ProcOf[v] = p THEN {} ELSE held[v]]
      /\ UNCHANGED <<owner, vmid, vmm, host, sweepVars>>
  BY DEF Crash, SweepInv
<1>1. \A w \in Vms : Standing(w)' <=> Standing(w) /\ ProcOf[w] # p
  BY <1>0 DEF Standing
<1>2. \A w \in Vms : vpc[w] # "new" => vpc'[w] # "new"
  BY <1>0
<1>3. \A w \in Vms : held'[w] \subseteq held[w] /\ (held'[w] # {} => ProcOf[w] # p)
  BY <1>0
<1>4. TypeOK'
  <2>1. vpc' \in [Vms -> {"new", "start", "up", "unwind", "stop", "ended", "crashed"}]
    BY <1>0 DEF TypeOK
  <2>2. held' \in [Vms -> SUBSET Kinds]
    BY <1>0 DEF TypeOK
  <2>3. QED BY <1>0, <2>1, <2>2 DEF TypeOK, sweepVars
<1>5. OwnerInv' /\ AloneInv' /\ HeldInv'
  BY <1>0, <1>1, <1>3 DEF SweepInv, OwnerInv, AloneInv, HeldInv
<1>6. NamesAreUnshared'
  BY <1>0, <1>1, <1>3 DEF SweepInv, NamesAreUnshared, NameOf
<1>7. TargetInv'
  BY <1>0, <1>1, <1>2, TargetFrame DEF SweepInv
<1>8. QED BY <1>4, <1>5, <1>6, <1>7 DEF SweepInv

\* An orphaned VMM's exit touches nothing a VM that stands owns.
LEMMA OrphanExitsKeepsInv ==
  ASSUME SweepInv, NEW v \in Vms, OrphanExits(v)
  PROVE  SweepInv'
BY DEF OrphanExits, SweepInv, TypeOK, OwnerInv, AloneInv, HeldInv, NamesAreUnshared, TargetInv,
       Standing, NameOf, TrailingId, sweepVars

\* A pass notes who stands; nothing is its target yet.
LEMMA BeginKeepsInv ==
  ASSUME SweepInv, NEW p \in Sweepers, SweepBegin(p)
  PROVE  SweepInv'
<1>0. /\ TypeOK /\ OwnerInv /\ TargetInv
      /\ live' = [live EXCEPT ![p] = {vmid[v] : v \in {w \in Vms : ProcOf[w] = p /\ vpc[w] = "up"}}]
      /\ standing' = [standing EXCEPT ![p] = {v \in Vms : Standing(v)}]
      /\ kind' = [kind EXCEPT ![p] = "netns"]
      /\ spc' = [spc EXCEPT ![p] = "scan"]
      /\ UNCHANGED <<alive, owner, vpc, vmid, held, vmm, host, listed, target>>
  BY DEF SweepBegin, SweepInv, vmVars
<1>1. \A w \in Vms : Standing(w)' <=> Standing(w)
  BY <1>0 DEF Standing
<1>2. {vmid[v] : v \in {w \in Vms : ProcOf[w] = p /\ vpc[w] = "up"}} \in SUBSET Ids
  BY <1>0 DEF OwnerInv, Standing
<1>3. TypeOK'
  <2>1. {v \in Vms : Standing(v)} \in SUBSET Vms
    OBVIOUS
  <2>2. QED BY <1>0, <1>2, <2>1 DEF TypeOK, Kinds
<1>4. OwnerInv' /\ AloneInv' /\ HeldInv' /\ NamesAreUnshared'
  BY <1>0, <1>1 DEF SweepInv, OwnerInv, AloneInv, HeldInv, NamesAreUnshared, NameOf
<1>5. TargetInv'
  <2> SUFFICES ASSUME NEW q \in Sweepers
               PROVE  /\ spc'[q] = "delete" => target[q] \in Resources
                      /\ \A v \in standing'[q] : vpc[v] # "new"
                      /\ spc'[q] = "delete" =>
                           \A v \in standing'[q] : Standing(v)' => vmid[v] # TrailingId(target[q])
    BY <1>0 DEF TargetInv, TrailingId
  <2>1. CASE q = p
    BY <1>0, <2>1 DEF TypeOK, Standing
  <2>2. CASE q # p
    <3>1. spc'[q] = spc[q] /\ standing'[q] = standing[q] /\ standing[q] \subseteq Vms
      BY <1>0, <2>2 DEF TypeOK
    <3>2. QED BY <1>0, <1>1, <3>1 DEF TargetInv
  <2>3. QED BY <2>1, <2>2
<1>6. QED BY <1>3, <1>4, <1>5 DEF SweepInv

\* Only an id that no live process owns gets past the check.
LEMMA CheckKeepsInv ==
  ASSUME SweepInv, NEW p \in Sweepers, NEW x \in Resources, SweepCheck(p, x)
  PROVE  SweepInv'
<1>0. /\ TypeOK /\ OwnerInv /\ TargetInv /\ spc[p] = "check"
      /\ listed' = [listed EXCEPT ![p] = listed[p] \ {x}]
      /\ \/ /\ ~LiveOwner(TrailingId(x))
            /\ spc' = [spc EXCEPT ![p] = "delete"] /\ target' = [target EXCEPT ![p] = x]
         \/ UNCHANGED <<spc, target>>
      /\ UNCHANGED <<alive, owner, vpc, vmid, held, vmm, host, kind, live, standing>>
  BY DEF SweepCheck, SweepInv, MayReclaim, Sweeping, vmVars
<1>1. \A w \in Vms : Standing(w)' <=> Standing(w)
  BY <1>0 DEF Standing
<1>2. TypeOK'
  <2>1. listed[p] \ {x} \in SUBSET Resources
    BY <1>0 DEF TypeOK
  <2>2. QED BY <1>0, <2>1 DEF TypeOK
<1>3. OwnerInv' /\ AloneInv' /\ HeldInv' /\ NamesAreUnshared'
  BY <1>0, <1>1 DEF SweepInv, OwnerInv, AloneInv, HeldInv, NamesAreUnshared, NameOf
<1>4. TargetInv'
  <2> SUFFICES ASSUME NEW q \in Sweepers
               PROVE  /\ spc'[q] = "delete" => target'[q] \in Resources
                      /\ \A v \in standing[q] : vpc[v] # "new"
                      /\ spc'[q] = "delete" =>
                           \A v \in standing[q] : Standing(v)' => vmid[v] # TrailingId(target'[q])
    BY <1>0 DEF TargetInv, TrailingId
  <2>0. standing[q] \subseteq Vms /\ \A v \in standing[q] : vpc[v] # "new"
    BY <1>0 DEF TypeOK, TargetInv
  <2>1. CASE q = p /\ ~LiveOwner(TrailingId(x)) /\ spc'[p] = "delete" /\ target'[p] = x
    BY <1>0, <1>1, <2>0, <2>1 DEF OwnerInv, LiveOwner
  <2>2. CASE spc'[q] = spc[q] /\ target'[q] = target[q]
    BY <1>0, <1>1, <2>0, <2>2 DEF TargetInv
  <2>3. QED BY <1>0, <2>1, <2>2 DEF TypeOK
<1>5. QED BY <1>2, <1>3, <1>4 DEF SweepInv

\* A delete takes a name away and gives none to anybody.
LEMMA DeleteKeepsInv ==
  ASSUME SweepInv, NEW p \in Sweepers, SweepDelete(p) \/ SweepDeleteFails(p)
  PROVE  SweepInv'
<1>0. /\ TypeOK /\ OwnerInv /\ TargetInv /\ spc[p] = "delete" /\ target[p] \in Resources
      /\ host' \in {host, [host EXCEPT ![target[p]] = None]}
      /\ target' = [target EXCEPT ![p] = None]
      /\ spc' = [spc EXCEPT ![p] = "check"]
      /\ UNCHANGED <<alive, owner, vpc, vmid, held, vmm, kind, listed, live, standing>>
  BY DEF SweepDelete, SweepDeleteFails, SweepInv, Sweeping, TargetInv, vmVars
<1>1. \A w \in Vms : Standing(w)' <=> Standing(w)
  BY <1>0 DEF Standing
<1>2. \A x \in Resources : host'[x] \in {host[x], None}
  BY <1>0 DEF TypeOK
<1>3. TypeOK'
  BY <1>0 DEF TypeOK
<1>4. OwnerInv' /\ AloneInv' /\ HeldInv'
  BY <1>0, <1>1 DEF SweepInv, OwnerInv, AloneInv, HeldInv
<1>5. NamesAreUnshared'
  <2> SUFFICES ASSUME NEW w \in Vms, Standing(w), NEW j \in held[w]
               PROVE  host'[NameOf(j, w)] \in {w, None}
    BY <1>0, <1>1 DEF NamesAreUnshared, NameOf
  <2>1. NameOf(j, w) \in Resources
    BY <1>0, NameIsResource DEF TypeOK
  <2>2. QED BY <1>2, <2>1 DEF SweepInv, NamesAreUnshared
<1>6. TargetInv'
  <2> SUFFICES ASSUME NEW q \in Sweepers
               PROVE  /\ spc'[q] = "delete" => target'[q] \in Resources
                      /\ \A v \in standing[q] : vpc[v] # "new"
                      /\ spc'[q] = "delete" =>
                           \A v \in standing[q] : Standing(v)' => vmid[v] # TrailingId(target'[q])
    BY <1>0 DEF TargetInv, TrailingId
  <2>0. standing[q] \subseteq Vms /\ \A v \in standing[q] : vpc[v] # "new"
    BY <1>0 DEF TypeOK, TargetInv
  <2>1. CASE q = p
    BY <1>0, <2>0, <2>1 DEF TypeOK
  <2>2. CASE q # p
    BY <1>0, <1>1, <2>0, <2>2 DEF TargetInv, TypeOK
  <2>3. QED BY <2>1, <2>2
<1>7. QED BY <1>3, <1>4, <1>5, <1>6 DEF SweepInv

\* Listing names, retaining one and moving to the next kind choose no target.
LEMMA ListingKeepsInv ==
  ASSUME SweepInv, NEW p \in Sweepers,
         \/ SweepScan(p) \/ SweepNextKind(p)
         \/ \E x \in Resources : SweepRetain(p, x)
  PROVE  SweepInv'
<1>0. /\ TypeOK /\ TargetInv
      /\ listed' \in [Sweepers -> SUBSET Resources]
      /\ kind' \in [Sweepers -> Kinds]
      /\ live' \in [Sweepers -> SUBSET Ids]
      /\ spc' \in [Sweepers -> {"idle", "scan", "check", "delete"}]
      /\ \A q \in Sweepers : spc'[q] = "delete" => spc[q] = "delete"
      /\ standing' \in {standing, [standing EXCEPT ![p] = {}]}
      /\ UNCHANGED <<alive, owner, vpc, vmid, held, vmm, host, target>>
  <2>0. TypeOK /\ TargetInv
    BY DEF SweepInv
  <2>1. CASE SweepScan(p)
    <3>1. {x \in Resources : x[1] = kind[p] /\ host[x] # None} \in SUBSET Resources
      OBVIOUS
    <3>2. QED BY <2>0, <2>1, <3>1 DEF SweepScan, TypeOK, vmVars
  <2>2. CASE SweepNextKind(p)
    <3>1. standing' \in {standing, [standing EXCEPT ![p] = {}]}
      BY <2>0, <2>2 DEF SweepNextKind, TypeOK
    <3>2. live' \in [Sweepers -> SUBSET Ids]
      BY <2>0, <2>2 DEF SweepNextKind, TypeOK
    <3>3. QED BY <2>0, <2>2, <3>1, <3>2 DEF SweepNextKind, TypeOK, vmVars, Kinds
  <2>3. CASE \E x \in Resources : SweepRetain(p, x)
    <3>1. PICK x \in Resources : SweepRetain(p, x)
      BY <2>3
    <3>2. listed[p] \ {x} \in SUBSET Resources
      BY <2>0 DEF TypeOK
    <3>3. QED BY <2>0, <3>1, <3>2 DEF SweepRetain, TypeOK, vmVars
  <2>4. QED BY <2>1, <2>2, <2>3
<1>1. \A w \in Vms : Standing(w)' <=> Standing(w)
  BY <1>0 DEF Standing
<1>2. TypeOK'
  BY <1>0 DEF TypeOK
<1>3. OwnerInv' /\ AloneInv' /\ HeldInv' /\ NamesAreUnshared'
  BY <1>0, <1>1 DEF SweepInv, OwnerInv, AloneInv, HeldInv, NamesAreUnshared, NameOf
<1>4. TargetInv'
  <2>1. \A q \in Sweepers : standing'[q] \subseteq standing[q] /\ standing[q] \subseteq Vms
    BY <1>0 DEF TypeOK
  <2>2. QED BY <1>0, <1>1, <2>1 DEF TargetInv, TrailingId
<1>5. QED BY <1>2, <1>3, <1>4 DEF SweepInv

-----------------------------------------------------------------------------

\* The invariant holds in every reachable state.
THEOREM SweepInvariant == Spec => []SweepInv
<1>1. SweepInv /\ [Next]_vars => SweepInv'
  <2> SUFFICES ASSUME SweepInv, [Next]_vars
               PROVE  SweepInv'
    OBVIOUS
  <2>1. CASE \E v \in Vms : VmStep(v)
    BY <2>1, ClaimKeepsInv, MakeKeepsInv, PhaseKeepsInv, UnmakeKeepsInv, ReleaseKeepsInv
       DEF VmStep, Unwind
  <2>2. CASE \E v \in Vms : OrphanExits(v)
    BY <2>2, OrphanExitsKeepsInv
  <2>3. CASE \E p \in Procs : Crash(p)
    BY <2>3, CrashKeepsInv
  <2>4. CASE \E p \in Sweepers : SweepStep(p) \/ SweepDelete(p) \/ SweepDeleteFails(p)
    BY <2>4, BeginKeepsInv, CheckKeepsInv, ListingKeepsInv, DeleteKeepsInv DEF SweepStep
  <2>5. CASE UNCHANGED vars
    BY <2>5 DEF vars, vmVars, sweepVars, SweepInv, TypeOK, OwnerInv, AloneInv, HeldInv,
                NamesAreUnshared, TargetInv, Standing, NameOf, TrailingId
  <2>6. QED BY <2>1, <2>2, <2>3, <2>4, <2>5 DEF Next
<1>2. QED BY InitInv, <1>1, PTL DEF Spec

\* sweep_orphans spares every VM that stood when the pass began, in its own
\* process or in a sibling.
THEOREM SparesStandingVm == Spec => []SweepSparesStandingVm
<1>1. SweepInv => SweepSparesStandingVm
  <2> SUFFICES ASSUME SweepInv, NEW p \in Sweepers, Sweeping(p, "delete"),
                      NEW v \in standing[p], NEW k \in Kinds, Standing(v), k \in held[v]
               PROVE  target[p] # NameOf(k, v)
    BY DEF SweepSparesStandingVm
  <2>1. v \in Vms /\ vmid[v] # TrailingId(target[p])
    BY DEF SweepInv, TypeOK, TargetInv, Sweeping
  <2>2. QED BY <2>1, NameIsResource DEF SweepInv
<1>2. QED BY SweepInvariant, <1>1, PTL

\* No VM is given the name of a resource that another VM has yet to delete.
THEOREM NamesUnshared == Spec => []NamesAreUnshared
<1>1. SweepInv => NamesAreUnshared
  BY DEF SweepInv
<1>2. QED BY SweepInvariant, <1>1, PTL

=============================================================================
