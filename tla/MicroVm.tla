------------------------------ MODULE MicroVm ------------------------------
(***************************************************************************)
(* The identities of VMs of one process from start or restore to teardown  *)
(* (vmcell/src/orchestrator.rs), over the vmid pool (module IdClaim has    *)
(* its protocol), the CidAllocator (vmcell/src/vmm/mod.rs) and the scratch *)
(* directories named after vmids, where a VMM binds its vsock socket.      *)
(*                                                                         *)
(* A snapshot bakes the socket path (Firecracker) or the guest CID         *)
(* (Firecracker, crosvm) into its image.  A VM restored from it lives in   *)
(* its ancestor's directory, or answers on its ancestor's CID, and keeps   *)
(* that identity out of the pool by adopting it.                           *)
(***************************************************************************)
EXTENDS Naturals, FiniteSets

CONSTANTS
  MicroVms,
  VmIds,          \* vmids
  MinCid, MaxCid, \* MIN_GUEST_CID, MAX_GUEST_CID
  MaxRespawns,    \* MAX_CONTROL_PLANE_RESPAWNS
  Backends,       \* records [path, cid]: what a snapshot of the backend bakes
  Nobody

ASSUME MicroVmConstants ==
  /\ 0 \notin VmIds
  /\ MinCid \in Nat \ {0} /\ MaxCid \in Nat /\ MinCid <= MaxCid
  /\ MaxRespawns \in Nat
  /\ Backends \subseteq [path : BOOLEAN, cid : BOOLEAN]
  /\ Nobody \notin MicroVms

Cids == MinCid..MaxCid

VARIABLES
  backend,
  microStage,     \* [MicroVms -> where start, restore or teardown is]
  micro,          \* [MicroVms -> what its guards hold]
  claimed,        \* vmids that are out
  cids, nextFree, \* the CidPool: active, next_free
  dirs,           \* scratch directories that exist, by vmid
  sock,           \* [VmIds -> the VM bound in the directory]
  image           \* the last snapshot taken, or Nobody

microVars == <<backend, microStage, micro, claimed, cids, nextFree, dirs, sock, image>>
host == <<claimed, cids, nextFree, dirs, sock>>

Starting == {"claimed", "dir", "env", "verify", "probed", "loaded", "lineage", "resume"}
Stopping == {"stop", "cid", "rmdir", "release"}

\* id: VmidGuard::vmid; home: the directory of the socket; lineage, baked:
\* the identities the guards adopted (0: none); answers: the CID of the guest;
\* raced: another VM was in home's directory, or on its way into it, before the
\* id was adopted.
Blank == [restore |-> FALSE, id |-> 0, home |-> 0, lineage |-> 0, cid |-> 0, answers |-> 0,
          baked |-> 0, bakedCid |-> 0, up |-> FALSE, respawns |-> 0, raced |-> FALSE]

MicroVmTypeOK ==
  /\ backend \in Backends
  /\ microStage \in [MicroVms -> {"new", "running", "done"} \cup Starting \cup Stopping]
  /\ \A v \in MicroVms :
       /\ {micro[v].id, micro[v].home, micro[v].lineage} \subseteq VmIds \cup {0}
       /\ {micro[v].cid, micro[v].answers, micro[v].baked, micro[v].bakedCid} \subseteq Cids \cup {0}
       /\ {micro[v].restore, micro[v].up, micro[v].raced} \subseteq BOOLEAN
       /\ micro[v].respawns \in 0..MaxRespawns
  /\ claimed \subseteq VmIds /\ dirs \subseteq VmIds
  /\ cids \subseteq Cids /\ nextFree \in MinCid..(MaxCid + 1)
  /\ sock \in [VmIds -> MicroVms \cup {Nobody}]
  /\ image \in [home : VmIds, cid : Cids] \cup {Nobody}

MicroVmInit ==
  /\ backend \in Backends
  /\ microStage = [v \in MicroVms |-> "new"]
  /\ micro = [v \in MicroVms |-> Blank]
  /\ claimed = {} /\ cids = {} /\ nextFree = MinCid
  /\ dirs = {} /\ sock = [i \in VmIds |-> Nobody]
  /\ image = Nobody

Enter(v, s) == microStage' = [microStage EXCEPT ![v] = s]

-----------------------------------------------------------------------------
(* CidAllocator *)

\* allocate: the lowest CID from next_free on that is not active.
CidFound == CHOOSE c \in nextFree..(MaxCid + 1) :
              c \notin cids /\ \A d \in nextFree..(c - 1) : d \in cids

Exhausted(c) == c > MaxCid

\* Mutant: release leaves next_free where it is.
HintAfterKept(c) == nextFree

HintAfter(c) == IF c < nextFree THEN c ELSE nextFree

-----------------------------------------------------------------------------
(* MicroVm::start and MicroVm::restore_inner *)

\* A vmid is drawn.  A restored VM on its way into the directory of that id,
\* which has not adopted it yet, and this one are in each other's way.
ClaimVmid(v) ==
  /\ microStage[v] = "new"
  /\ \E restore \in BOOLEAN, i \in VmIds \ claimed :
       /\ restore => image # Nobody
       /\ claimed' = claimed \cup {i}
       /\ LET entering == {w \in MicroVms : micro[w].home = i /\ micro[w].lineage # i} IN
          micro' = [w \in MicroVms |->
            IF w = v THEN [Blank EXCEPT !.restore = restore, !.id = i, !.home = i,
                                        !.raced = entering # {}]
            ELSE [micro[w] EXCEPT !.raced = @ \/ w \in entering]]
  /\ Enter(v, "claimed")
  /\ UNCHANGED <<backend, cids, nextFree, dirs, sock, image>>

\* VmTempDir::create
MakeDir(v) ==
  /\ microStage[v] = "claimed"
  /\ dirs' = dirs \cup {micro[v].id}
  /\ Enter(v, "dir")
  /\ UNCHANGED <<backend, micro, claimed, cids, nextFree, sock, image>>

\* setup_env, of which the CID is what matters here.
AllocateCid(v) ==
  /\ microStage[v] = "dir"
  /\ IF ~Exhausted(CidFound)
     THEN /\ cids' = cids \cup {CidFound}
          /\ nextFree' = CidFound + 1
          /\ micro' = [micro EXCEPT ![v].cid = CidFound]
          /\ Enter(v, "env")
     ELSE Enter(v, "stop") /\ UNCHANGED <<micro, cids, nextFree>>
  /\ UNCHANGED <<backend, claimed, dirs, sock, image>>

\* Vmm::create and boot: the VMM binds its socket, unless the directory is gone
\* or another VM is bound in it; the instance is dropped in that case.
CreateVm(v) ==
  LET i == micro[v].id IN
  /\ microStage[v] = "env" /\ ~micro[v].restore
  /\ IF i \in dirs /\ sock[i] = Nobody
     THEN sock' = [sock EXCEPT ![i] = v] /\ Enter(v, "verify")
     ELSE Enter(v, "stop") /\ UNCHANGED sock
  /\ micro' = [micro EXCEPT ![v].up = TRUE, ![v].answers = micro[v].cid]
  /\ UNCHANGED <<backend, claimed, cids, nextFree, dirs, image>>

\* Drop for an instance: its socket file goes, whoever bound it, and then the
\* directory, if it is empty.
Unlinked(v) == [sock EXCEPT ![micro[v].home] = Nobody]
Emptied(v) ==
  IF micro[v].home # micro[v].id /\ ~\E w \in MicroVms \ {v} : micro[w].id = micro[v].home /\ micro[w].up
  THEN dirs \ {micro[v].home} ELSE dirs

\* verify_control_plane, and the re-spawns of a VM whose control plane is dead.
VerifiedHome(v) ==
  /\ microStage[v] = "verify"
  /\ \/ Enter(v, "running") /\ UNCHANGED <<micro, sock>>
     \/ /\ micro[v].respawns < MaxRespawns
        /\ sock' = Unlinked(v)
        /\ micro' = [micro EXCEPT ![v].up = FALSE, ![v].respawns = @ + 1]
        /\ Enter(v, "env")
  /\ UNCHANGED <<backend, claimed, cids, nextFree, dirs, image>>

\* reject_live_baked_vsock: only a refused connection permits the unlink.
ProbePermits(i) == sock[i] = Nobody

\* Firecracker's restore, up to the spawn: the baked path is probed, and its
\* directory made again.
Probe(v) ==
  LET i == image.home IN
  /\ microStage[v] = "env" /\ micro[v].restore /\ backend.path
  /\ IF ProbePermits(i)
     THEN /\ sock' = [sock EXCEPT ![i] = Nobody]
          /\ dirs' = dirs \cup {i}
          /\ LET owners == {w \in MicroVms \ {v} : micro[w].id = i \/ micro[w].home = i} IN
             micro' = [w \in MicroVms |->
               IF w = v THEN [micro[v] EXCEPT !.home = i, !.bakedCid = image.cid,
                                           !.raced = @ \/ owners # {}]
               ELSE [micro[w] EXCEPT !.raced = @ \/ w \in owners]]
          /\ Enter(v, "probed")
     ELSE Enter(v, "stop") /\ UNCHANGED <<sock, dirs, micro>>
  /\ UNCHANGED <<backend, claimed, cids, nextFree, image>>

\* The snapshot is loaded: the VMM binds the socket and has its CID.
Load(v) ==
  LET i == micro[v].home
      baked == IF microStage[v] = "probed" THEN micro[v].bakedCid ELSE image.cid IN
  /\ \/ microStage[v] = "probed"
     \/ microStage[v] = "env" /\ micro[v].restore /\ ~backend.path
  /\ IF i \in dirs /\ sock[i] = Nobody
     THEN sock' = [sock EXCEPT ![i] = v] /\ Enter(v, "loaded")
     ELSE Enter(v, "stop") /\ UNCHANGED sock
  /\ micro' = [micro EXCEPT ![v].up = TRUE, ![v].bakedCid = baked,
                      ![v].answers = IF backend.cid THEN baked ELSE micro[v].cid]
  /\ UNCHANGED <<backend, claimed, cids, nextFree, dirs, image>>

\* VmidGuard::adopt_lineage: an id that is taken already is accepted.
AdoptLineage(v) ==
  LET i == micro[v].home IN
  IF i = micro[v].id \/ i \in claimed THEN UNCHANGED <<micro, claimed>>
  ELSE micro' = [micro EXCEPT ![v].lineage = i] /\ claimed' = claimed \cup {i}

LineageAdopted(v) ==
  /\ microStage[v] = "loaded"
  /\ AdoptLineage(v)
  /\ Enter(v, "lineage")
  /\ UNCHANGED <<backend, cids, nextFree, dirs, sock, image>>

\* CidGuard::adopt_baked_cid
AdoptBakedCid(v) ==
  LET c == micro[v].answers IN
  IF c = micro[v].cid \/ c \in cids THEN UNCHANGED <<micro, cids>>
  ELSE micro' = [micro EXCEPT ![v].baked = c] /\ cids' = cids \cup {c}

CidAdopted(v) ==
  /\ microStage[v] = "lineage"
  /\ AdoptBakedCid(v)
  /\ Enter(v, "resume")
  /\ UNCHANGED <<backend, claimed, nextFree, dirs, sock, image>>

Resumed(v) ==
  /\ microStage[v] = "resume"
  /\ Enter(v, "running")
  /\ UNCHANGED <<backend, micro, host, image>>

\* A step fails, or the future is dropped: the guards unwind.
FailStart(v) ==
  /\ microStage[v] \in Starting
  /\ Enter(v, "stop")
  /\ UNCHANGED <<backend, micro, host, image>>

-----------------------------------------------------------------------------
(* A running VM, and teardown: instance, CID, directory, vmid *)

\* The image bakes where the VM lives and the CID it answers on.
SnapshotVm(v) ==
  /\ microStage[v] = "running"
  /\ image' = [home |-> micro[v].home, cid |-> micro[v].answers]
  /\ UNCHANGED <<backend, microStage, micro, host>>

\* shutdown, or the drop of a MicroVm.
ShutdownVm(v) ==
  /\ microStage[v] = "running"
  /\ Enter(v, "stop")
  /\ UNCHANGED <<backend, micro, host, image>>

DropVm(v) ==
  /\ microStage[v] = "stop"
  /\ IF micro[v].up THEN sock' = Unlinked(v) /\ dirs' = Emptied(v) ELSE UNCHANGED <<sock, dirs>>
  /\ micro' = [micro EXCEPT ![v].up = FALSE]
  /\ Enter(v, "cid")
  /\ UNCHANGED <<backend, claimed, cids, nextFree, image>>

\* Drop for CidGuard: the baked CID if it is this guard's, then its own.
DropCid(v) ==
  LET gone == {micro[v].baked, micro[v].cid} \ {0} IN
  /\ microStage[v] = "cid"
  /\ \E c \in gone \cup {0} :
       /\ c = 0 <=> gone = {}
       /\ micro[v].baked # 0 => c = micro[v].baked
       /\ IF c = 0 THEN Enter(v, "rmdir") /\ UNCHANGED <<micro, cids, nextFree>>
          ELSE /\ cids' = cids \ {c} /\ nextFree' = HintAfter(c)
               /\ micro' = [micro EXCEPT ![v].baked = 0, ![v].cid = IF @ = c THEN 0 ELSE @]
               /\ UNCHANGED microStage
  /\ UNCHANGED <<backend, claimed, dirs, sock, image>>

\* Drop for VmTempDir: recursive.
RemoveHome(v) ==
  /\ microStage[v] = "rmdir"
  /\ dirs' = dirs \ {micro[v].id}
  /\ sock' = [sock EXCEPT ![micro[v].id] = Nobody]
  /\ Enter(v, "release")
  /\ UNCHANGED <<backend, micro, claimed, cids, nextFree, image>>

Identities(v) == {micro[v].lineage, micro[v].id}

\* Drop for VmidGuard: the adopted id, then its own.
DropVmid(v) ==
  /\ microStage[v] = "release"
  /\ claimed' = claimed \ Identities(v)
  /\ micro' = [micro EXCEPT ![v] = Blank]
  /\ Enter(v, "done")
  /\ UNCHANGED <<backend, cids, nextFree, dirs, sock, image>>

-----------------------------------------------------------------------------
VmStep(v) ==
  \/ ClaimVmid(v) \/ MakeDir(v) \/ AllocateCid(v) \/ CreateVm(v) \/ VerifiedHome(v)
  \/ Probe(v) \/ Load(v) \/ LineageAdopted(v) \/ CidAdopted(v) \/ Resumed(v)
  \/ FailStart(v) \/ SnapshotVm(v) \/ ShutdownVm(v)
  \/ DropVm(v) \/ DropCid(v) \/ RemoveHome(v) \/ DropVmid(v)

MicroVmNext == \E v \in MicroVms : VmStep(v)

MicroVmSpec == MicroVmInit /\ [][MicroVmNext]_microVars

-----------------------------------------------------------------------------
(* What the guards are for *)

\* A running VM keeps the directory it lives in and the socket it is reached
\* by, through every other VM's start and teardown: once an ancestor's id is
\* adopted nobody draws it (adopt_lineage).  Not so if two VMs were on their way
\* into the directory between the probe of a restore and its adoption.
AdoptedHomeIsKept ==
  \A v \in MicroVms : microStage[v] = "running" /\ ~micro[v].raced =>
    micro[v].home \in dirs /\ sock[micro[v].home] = v

\* The CID a guard holds stays out of the pool until the guard is dropped,
\* whoever else gives up or comes to share that CID (CidGuard).
HeldCidIsReserved ==
  \A v \in MicroVms : {micro[v].cid, micro[v].baked} \ {0} \subseteq cids

\* Nothing below the hint is free, so allocate fails only when every CID is
\* out (CidPool::next_free).
NothingFreeBelowHint == \A c \in MinCid..(nextFree - 1) : c \in cids

\* When every VM is gone, all ids and CIDs are back and no socket is left,
\* whichever steps failed.
IdentitiesComeBack ==
  (\A v \in MicroVms : microStage[v] \in {"new", "done"}) =>
    claimed = {} /\ cids = {} /\ \A i \in VmIds : sock[i] = Nobody

\* Ids, CIDs and homes through restores, respawns and teardowns in any order: kept
\* while held, back when gone.
MicroVmSafe ==
  /\ MicroVmTypeOK
  /\ AdoptedHomeIsKept
  /\ HeldCidIsReserved
  /\ NothingFreeBelowHint
  /\ IdentitiesComeBack
=============================================================================
